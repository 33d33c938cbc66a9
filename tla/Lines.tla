-------------------------------- MODULE Lines --------------------------------
(***************************************************************************)
(* What one line of a document can begin, continue or end (the line        *)
(* predicates of parser/block.go).  A line's content is a sequence of      *)
(* characters, one per column:                                             *)
(*   " " a space, ">" the quote mark, "-", "+" and "*" bullets ("-" is     *)
(*   also the second setext underline), "1" "2" digits, "." and ")" the    *)
(*   ordered delimiters, "=" an underline, "#" the heading mark, "f" a     *)
(*   fence's backticks, "h" a thematic break of stars, "d" a whole         *)
(*   reference definition, "t" text with one table pipe, "u" a delimiter   *)
(*   row of two cells, "x" the tag of an HTML block, "y" any other         *)
(*   complete tag, "c" and "e" a comment's two ends, "k" a backslash       *)
(*   before the end of its line, "a" other text.                           *)
(* Tabs, which the code expands to columns before it compares any, are not *)
(* in the alphabet.                                                        *)
(***************************************************************************)
EXTENDS Integers, Sequences, FiniteSetsExt

Characters == {" ", ">", "-", "+", "*", "1", "2", ".", ")", "=", "#", "f", "h", "d", "t", "u",
               "x", "y", "c", "e", "k", "a"}

Drop(c, n)   == SubSeq(c, n + 1, Len(c))
Blank(c)     == \A i \in 1 .. Len(c) : c[i] = " "
RunOf(c, s)  == Cardinality({n \in 1 .. Len(c) : \A i \in 1 .. n : c[i] \in s})
Indent(c)    == RunOf(c, {" "})
Trailing(c)  == Cardinality({n \in 1 .. Len(c) : \A i \in n .. Len(c) : c[i] = " "})
Body(c)      == SubSeq(c, Indent(c) + 1, Len(c) - Trailing(c))
Visible(c)   == {i \in 1 .. Len(c) : c[i] # " "}
Begins(c, s) == Indent(c) < Len(c) /\ c[Indent(c) + 1] \in s
Flush(c)     == Indent(c) <= 3

(* fenceStart: the length of the fence that opens here, 0 for none; the    *)
(* info string of a backtick fence holds no backtick.                      *)
Fence(c) ==
  LET run == RunOf(Body(c), {"f"})
  IN  IF Flush(c) /\ \A i \in run + 1 .. Len(Body(c)) : Body(c)[i] # "f" THEN run ELSE 0

(* isClosingFence *)
ClosesFence(c, open) ==
  LET run == RunOf(Body(c), {"f"}) IN Flush(c) /\ run >= open /\ run = Len(Body(c))

(* atxHeading *)
Heading(c) ==
  LET run == RunOf(Body(c), {"#"})
  IN  Flush(c) /\ run \in 1 .. 6 /\ (run < Len(Body(c)) => Body(c)[run + 1] = " ")

(* isThematicBreak *)
ThematicBreak(c) ==
  /\ Flush(c)
  /\ \/ Body(c) = <<"h">>
     \/ Cardinality(Visible(c)) >= 3 /\ \E mark \in {"-", "*"} : \A i \in Visible(c) : c[i] = mark

(* setextUnderline *)
Underline(c) ==
  Flush(c) /\ \E mark \in {"=", "-"} : Begins(c, {mark}) /\ RunOf(Body(c), {mark}) = Len(Body(c))

(* htmlBlockStart: what ends the HTML block that begins here. *)
Html(c, interrupting) ==
  CASE ~Flush(c) -> "none"
    [] Flush(c) /\ Begins(c, {"c"}) -> "comment"
    [] Flush(c) /\ Begins(c, {"x"}) -> "blank"
    [] Flush(c) /\ ~interrupting /\ Body(c) = <<"y">> -> "blank"
    [] OTHER -> "none"

(* htmlBlockEnded *)
EndsHtml(c, rule) == rule = "comment" /\ \E i \in 1 .. Len(c) : c[i] = "e"

(* parseReferenceDefinition; its grammar is what the character d stands    *)
(* for, and the lines behind one never continue it with a title.           *)
Definition(c) == Flush(c) /\ Body(c) = <<"d">>

(* isTableStart: header and delimiter row have two cells each; a delimiter *)
(* row is as good a header as text with a pipe.                            *)
TableStart(header, delimiter) ==
  Body(delimiter) = <<"u">> /\ Cardinality({i \in 1 .. Len(header) : header[i] \in {"t", "u"}}) = 1

(* parseListMarker and listMarkerPadding: delimiter "none" when there is no*)
(* marker; width is the column of the item's content, offset its byte.     *)
NoMarker == [delimiter |-> "none", indent |-> 0, width |-> 0, offset |-> 0, end |-> 0, number |-> "0"]

ListMarker(c) ==
  LET indent == Indent(c)
      bullet == Begins(c, {"-", "+", "*"})
      ordered == Begins(c, {"1", "2"}) /\ Len(Body(c)) > 1 /\ Body(c)[2] \in {".", ")"}
      end    == indent + (IF bullet THEN 1 ELSE 2)
      spaces == Indent(Drop(c, end))
      padding == IF spaces \in 1 .. 4 THEN spaces ELSE 1
  IN  IF Flush(c) /\ (bullet \/ ordered) /\ (end < Len(c) => c[end + 1] = " ")
      THEN [delimiter |-> IF bullet THEN c[indent + 1] ELSE Body(c)[2],
            indent |-> indent, end |-> end, width |-> end + padding,
            offset |-> IF end = Len(c) THEN end ELSE end + padding,
            number |-> IF bullet THEN "0" ELSE c[indent + 1]]
      ELSE NoMarker

IsMarker(m) == m.delimiter # "none"
SameList(m, n) == m.delimiter = n.delimiter

(* stripLineContainer: markerEnd characters and the spaces behind them are *)
(* taken off, all but what reaches past column width.                      *)
StripContainer(c, markerEnd, width) ==
  LET prefix == markerEnd + Indent(Drop(c, markerEnd))
  IN  Drop(c, IF width < prefix THEN width ELSE prefix)

(* stripBlockQuote *)
Quoted(c) == Flush(c) /\ Begins(c, {">"})
StripQuote(c) ==
  LET end == Indent(c) + 1
  IN  StripContainer(c, end, IF end < Len(c) /\ c[end + 1] = " " THEN end + 1 ELSE end)

(* Slip: any tag ends a paragraph. *)
StartsBlockAtTags(c) ==
  \/ Heading(c)
  \/ Fence(c) > 0
  \/ ThematicBreak(c)
  \/ Html(c, FALSE) # "none"
  \/ IF IsMarker(ListMarker(c))
     THEN ListMarker(c).offset < Len(c) /\ ListMarker(c).number \in {"0", "1"}
     ELSE Begins(c, {">"})

(* startsBlock: what may interrupt a paragraph. *)
StartsBlock(c) ==
  \/ Heading(c)
  \/ Fence(c) > 0
  \/ ThematicBreak(c)
  \/ Html(c, TRUE) # "none"
  \/ IF IsMarker(ListMarker(c))
     THEN ListMarker(c).offset < Len(c) /\ ListMarker(c).number \in {"0", "1"}
     ELSE Begins(c, {">"})

(* quoteLeafContent: quote and list markers taken off.  It reads the line  *)
(* from the offset its content starts at, which is right behind the mark   *)
(* when more than one space follows it.                                    *)
QuoteLeaf(c) ==
  LET leaf[n \in 0 .. Len(c)] ==
        LET left   == Drop(c, n)
            end    == Indent(left) + 1
            spaces == Indent(Drop(left, end))
        IN  IF Quoted(left) THEN leaf[n + (IF spaces > 1 THEN end ELSE end + spaces)]
            ELSE IF IsMarker(ListMarker(left)) /\ ListMarker(left).offset < Len(left)
                 THEN leaf[n + ListMarker(left).offset]
                 ELSE left
  IN  leaf[0]

(* The fence left open by a sequence of contents, 0 for none. *)
OpenFence(contents) ==
  LET after[n \in 0 .. Len(contents)] ==
        IF n = 0 THEN 0
        ELSE LET c == contents[n]
             IN  IF after[n - 1] = 0 THEN Fence(c)
                 ELSE IF ClosesFence(c, after[n - 1]) THEN 0 ELSE after[n - 1]
  IN  after[Len(contents)]

(* quoteAllowsLazyContinuation over the contents gathered so far. *)
AllowsLazy(contents) ==
  LET last == contents[Len(contents)]
      leaf == QuoteLeaf(last)
  IN  /\ ~Blank(last)
      /\ OpenFence([n \in 1 .. Len(contents) |-> QuoteLeaf(contents[n])]) = 0
      /\ ~Blank(leaf) /\ Indent(leaf) < 4 /\ ~StartsBlock(leaf) /\ ~Definition(leaf)
=============================================================================
