-------------------------- MODULE PlainTextRenderer --------------------------
(***************************************************************************)
(* renderer/plaintext/plaintext.go: the text of the parsed document.  The  *)
(* output is a sequence of characters, "\n" the line ending.  Inline       *)
(* formatting, task markers and custom nodes are not modelled; the numbers *)
(* of an ordered list after the first are "2".                             *)
(***************************************************************************)
EXTENDS DocumentTree

EndsIn(out, suffix) == IsSuffix(suffix, out)
Newline(out) == IF EndsIn(out, <<"\n">>) THEN out ELSE Append(out, "\n")
EnsureLineStart(out) == IF out = <<>> THEN out ELSE Newline(out)
BlankLine(out) ==
  LET ended == Newline(out) IN IF EndsIn(ended, <<"\n", "\n">>) THEN ended ELSE Append(ended, "\n")

(* A tag has no text: the characters of raw HTML are left out. *)
Shown(text) == SelectSeq(text, LAMBDA c : c \notin {"x", "y"})
PlainInlines(leaf, out) ==
  FoldLeft(LAMBDA o, line : LET written == o \o Shown(line.text)
                            IN  IF line.break = "none" THEN written ELSE Newline(written),
           out, InlineText(leaf))

PlainRow(leaf, out) ==
  FoldLeft(LAMBDA o, n : IF n = 2 THEN o ELSE Newline(EnsureLineStart(o) \o <<"a", "\t", "a">>),
           out, [n \in 1 .. Len(nodes[leaf].text) |-> n])

CodeCharacters(leaf) == FlattenSeq([n \in 1 .. Len(CodeText(leaf)) |-> Append(CodeText(leaf)[n], "\n")])

PlainPrefix(item, depth) ==
  LET list   == nodes[item].parent
      isFirst == \A m \in ChildrenOf(list) : item <= m
  IN  [i \in 1 .. 2 * depth |-> " "]
        \o (IF Ordered(list) THEN <<IF isFirst THEN nodes[list].start ELSE "2", ".", " ">>
            ELSE <<"-", " ">>)

(* node and children *)
RECURSIVE PlainNode(_, _, _)
PlainKids(id, depth, out) == FoldLeft(LAMBDA o, kid : PlainNode(kid, depth, o), out, Kids(id))
PlainNode(id, depth, out) ==
  CASE Kind(id) \in {"paragraph", "heading", "setext"} -> BlankLine(PlainInlines(id, out))
    [] Kind(id) = "quote" -> PlainKids(id, depth + 1, out)
    [] Kind(id) = "list"  -> Newline(PlainKids(id, depth, out))
    [] Kind(id) = "item"  ->
         Newline(PlainKids(id, depth + 1, EnsureLineStart(out) \o PlainPrefix(id, depth)))
    [] Kind(id) = "break" -> Newline(out)
    [] Kind(id) \in {"fence", "code"} -> BlankLine(EnsureLineStart(out) \o CodeCharacters(id))
    [] Kind(id) = "html"  -> out
    [] OTHER -> Newline(PlainRow(id, out))

(* Render: spaces and line endings at the end give way to one line ending. *)
PlainTextOutput ==
  LET written == PlainKids(0, 0, <<>>)
      last    == Max({0} \cup {i \in 1 .. Len(written) : written[i] \notin {" ", "\t", "\n"}})
  IN  Append(SubSeq(written, 1, last), "\n")
=============================================================================
