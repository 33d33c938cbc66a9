----------------------------- MODULE DocumentTree -----------------------------
(***************************************************************************)
(* What the renderers read of a parsed document: the blocks in the order   *)
(* of their siblings and, for the leaves, the text the parser gave them.   *)
(* Inline text is a sequence of lines, each with the break that ends it;   *)
(* characters without a meaning of their own in text are "a".              *)
(***************************************************************************)
EXTENDS Blocks, SequencesExt

Kids(id)  == SetToSortSeq(ChildrenOf(id), <)
Kind(id)  == nodes[id].kind
IsList(id) == id # 0 /\ Kind(id) = "list"
Ordered(list) == nodes[list].marker \in {".", ")"}

(* What stays of a character of the source in a Text node, a Link or a     *)
(* RawHTML node.                                                           *)
OwnMeaning == {"a", " ", "=", "x", "y", "1", "2"}
AsText(c) == [i \in 1 .. Len(c) |-> IF c[i] \in OwnMeaning THEN c[i] ELSE "a"]

HeadingRun(c)  == RunOf(Body(c), {"#"})
HeadingText(c) == Body(Drop(Body(c), HeadingRun(c)))

(* The lines inline parsing is given. *)
InlineLines(leaf) ==
  CASE Kind(leaf) = "heading" -> <<HeadingText(nodes[leaf].text[1])>>
    [] Kind(leaf) = "setext"  -> Front(nodes[leaf].text)
    [] OTHER -> nodes[leaf].text

(* Two spaces or a backslash before a line ending break the line; at the   *)
(* end of the last line they mean nothing.                                 *)
EndsHard(c) == Trailing(c) >= 2 \/ (Body(c) # <<>> /\ Last(Body(c)) = "k")
BreakAfter(lines, n) ==
  IF n = Len(lines) THEN "none" ELSE IF EndsHard(lines[n]) THEN "hard" ELSE "soft"
WithoutBreak(c) == IF Body(c) # <<>> /\ Last(Body(c)) = "k" THEN Front(Body(c)) ELSE Body(c)

InlineText(leaf) ==
  LET lines == InlineLines(leaf)
  IN  [n \in 1 .. Len(lines) |->
         [break |-> BreakAfter(lines, n),
          text  |-> AsText(IF n = Len(lines) THEN Body(lines[n]) ELSE WithoutBreak(lines[n]))]]

HeadingLevel(leaf) ==
  IF Kind(leaf) = "heading" THEN HeadingRun(nodes[leaf].text[1])
  ELSE IF Begins(Last(nodes[leaf].text), {"="}) THEN 1 ELSE 2

(* The text of a code block: of a fence, what is between its two lines     *)
(* with the indentation of the first taken off; of indented code, what is  *)
(* behind four columns.                                                    *)
Outdented(c, columns) == Drop(c, IF Indent(c) < columns THEN Indent(c) ELSE columns)
CodeText(leaf) ==
  LET lines  == nodes[leaf].text
      opened == Fence(lines[1])
      closed == Len(lines) > 1 /\ ClosesFence(Last(lines), opened)
      inside == IF closed THEN SubSeq(lines, 2, Len(lines) - 1) ELSE Tail(lines)
  IN  IF Kind(leaf) = "code" THEN [n \in 1 .. Len(lines) |-> Outdented(lines[n], 4)]
      ELSE [n \in 1 .. Len(inside) |-> Outdented(inside[n], Indent(lines[1]))]
FenceInfo(leaf) ==
  LET opening == Body(nodes[leaf].text[1])
  IN  IF Kind(leaf) = "code" THEN <<>> ELSE Body(Drop(opening, RunOf(opening, {"f"})))
=============================================================================
