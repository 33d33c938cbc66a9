--------------------------- MODULE MarkdownRenderer ---------------------------
(***************************************************************************)
(* The block level of renderer/markdown/markdown.go: the normalized source *)
(* of the parsed document, as lines.  Blocks are set apart by one blank    *)
(* line each, the items of a list by none; every code block is a fence,    *)
(* list markers are chosen anew, definitions are gone.  Inline formatting  *)
(* and task markers are not modelled; the numbers of an ordered list after *)
(* the first are "2".                                                      *)
(***************************************************************************)
EXTENDS DocumentTree

RunUpTo(c, mark) == Max({0} \cup {j - i + 1 : <<i, j>> \in {<<k, l>> \in (1 .. Len(c)) \X (1 .. Len(c)) :
                                                             k <= l /\ \A n \in k .. l : c[n] = mark}})
LongestRun(lines, mark) == Max({0} \cup {RunUpTo(lines[n], mark) : n \in 1 .. Len(lines)})

Spaces(n) == [i \in 1 .. n |-> " "]
RightTrimmed(c) == SubSeq(c, 1, Len(c) - Trailing(c))

(* blankLine: spaces and line endings at the end of what is written go. *)
Trimmed(lines) ==
  LET last == Max({0} \cup {n \in 1 .. Len(lines) : ~Blank(lines[n])})
  IN  [n \in 1 .. last |-> IF n = last THEN RightTrimmed(lines[n]) ELSE lines[n]]

(* inline on Text, SoftBreak, HardBreak and RawHTML. *)
Inlines(leaf) ==
  LET lines == InlineText(leaf)
  IN  [n \in 1 .. Len(lines) |->
         lines[n].text \o (IF lines[n].break = "hard" THEN <<"k">> ELSE <<>>)]

HasSoftBreak(leaf) == \E n \in 1 .. Len(InlineText(leaf)) : InlineText(leaf)[n].break = "soft"

MarkdownHeading(leaf) ==
  LET level == HeadingLevel(leaf)
      marks == [i \in 1 .. level |-> "#"]
      text  == Inlines(leaf)
  IN  IF level <= 2 /\ HasSoftBreak(leaf)
      THEN Append(text, IF level = 1 THEN <<"=", "=", "=">> ELSE <<"-", "-", "-">>)
      ELSE Trimmed(<<marks \o <<" ">> \o text[1]>> \o Tail(text))

(* Slip: every fence is the same. *)
MarkdownFenceFixed(leaf) ==
  LET text == CodeText(leaf)
  IN  <<<<"f">> \o FenceInfo(leaf)>> \o (IF text = <<>> THEN <<<<>>>> ELSE text) \o <<<<"f">>>>

(* A fence longer than any run of marks inside; one without text gets an   *)
(* empty line.                                                             *)
MarkdownFence(leaf) ==
  LET text  == CodeText(leaf)
      fence == [i \in 1 .. LongestRun(text, "f") + 1 |-> "f"]
  IN  <<fence \o FenceInfo(leaf)>> \o (IF text = <<>> THEN <<<<>>>> ELSE text) \o <<fence>>

(* Two cells; rows of the source are cut or filled to that. *)
MarkdownTable(leaf) ==
  [n \in 1 .. Len(nodes[leaf].text) |-> IF n = 2 THEN <<"u">> ELSE <<"t">>]

(* listMarker: the marker of a list differs from that of the list right    *)
(* before it, and from that of the list around it.                         *)
RECURSIVE ListsAround(_)
ListsAround(id) ==
  IF id = 0 THEN 0 ELSE (IF IsList(id) THEN 1 ELSE 0) + ListsAround(nodes[id].parent)
ListsBefore(list) ==
  LET before == {m \in ChildrenOf(nodes[list].parent) : m < list}
      other  == {m \in before : ~(IsList(m) /\ Ordered(m) = Ordered(list))}
  IN  Cardinality({m \in before : \A n \in other : n < m})

(* Slip: a list right behind another gets the same marker. *)
VariantOfDepth(list) == ListsAround(nodes[list].parent)

Variant(list) == ListsBefore(list) + ListsAround(nodes[list].parent)
OutputMarker(list) ==
  IF Ordered(list) THEN IF Variant(list) % 2 = 0 THEN "." ELSE ")"
  ELSE CASE Variant(list) % 3 = 0 -> "-" [] Variant(list) % 3 = 1 -> "+" [] OTHER -> "*"

(* renderList on one item whose content is rendered. *)
MarkdownItem(list, index, content) ==
  LET marker == OutputMarker(list)
      number == IF index = 1 THEN nodes[list].start ELSE "2"
      prefix == (IF Ordered(list) THEN <<number>> ELSE <<>>) \o <<marker, " ">>
      first  == IF content = <<>> THEN <<>>
                ELSE IF marker = "-" /\ content[1] = <<"-", "-", "-">> THEN <<"h">> ELSE content[1]
  IN  <<prefix \o first>>
        \o [n \in 1 .. Len(content) - 1 |->
              IF content[n + 1] = <<>> THEN <<>> ELSE Spaces(Len(prefix)) \o content[n + 1]]

MarkdownQuote(content) ==
  LET lines == IF content = <<>> THEN <<<<>>>> ELSE content
  IN  [n \in 1 .. Len(lines) |-> IF lines[n] = <<>> THEN <<">">> ELSE <<">", " ">> \o lines[n]]

(* block and blocks *)
RECURSIVE MarkdownBlock(_)
MarkdownBlocks(parent) ==
  FoldLeft(LAMBDA written, child :
             written \o (IF written = <<>> THEN <<>> ELSE <<<<>>>>) \o MarkdownBlock(child),
           <<>>, Kids(parent))
MarkdownBlock(id) ==
  CASE Kind(id) = "paragraph" -> Trimmed(Inlines(id))
    [] Kind(id) \in {"heading", "setext"} -> MarkdownHeading(id)
    [] Kind(id) = "quote" -> Trimmed(MarkdownQuote(MarkdownBlocks(id)))
    [] Kind(id) = "list" ->
         Trimmed(FlattenSeq([i \in 1 .. Len(Kids(id)) |->
                               MarkdownItem(id, i, MarkdownBlocks(Kids(id)[i]))]))
    [] Kind(id) = "break" -> <<<<"-", "-", "-">>>>
    [] Kind(id) \in {"fence", "code"} -> MarkdownFence(id)
    [] Kind(id) = "html" -> Trimmed(nodes[id].text)
    [] OTHER -> MarkdownTable(id)

(* Render: the spaces the output begins with are dropped. *)
MarkdownOutput ==
  LET lines == Trimmed(MarkdownBlocks(0))
  IN  IF lines = <<>> THEN <<>> ELSE <<Drop(lines[1], Indent(lines[1]))>> \o Tail(lines)
=============================================================================
