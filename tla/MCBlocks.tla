------------------------------ MODULE MCBlocks ------------------------------
(***************************************************************************)
(* Blocks over the documents of a few lines of chosen shapes, and again    *)
(* over what the Markdown renderer makes of the shorter ones.              *)
(***************************************************************************)
EXTENDS Normalization

CONSTANT Families   \* shapes of lines, the most lines, whether there may be tables

(* Lines of quotes and what can follow them. *)
QuoteShapes == {<<>>, <<"a">>, <<">">>, <<">", " ", "a">>, <<">", " ", ">", " ", "a">>,
                <<">", " ", "f">>, <<"=">>, <<">", " ", "d">>,
                <<">", " ", "-", " ", "a">>, <<"d">>, <<" ", " ", " ", " ", ">">>}

(* Lines of lists and what can be in an item. *)
ListShapes == {<<>>, <<"a">>, <<"-", " ", "a">>, <<"+", " ", "a">>, <<"2", ".", " ", "a">>,
               <<" ", " ", "a">>, <<" ", " ", "-", " ", "a">>, <<" ", " ", "f">>, <<"-", " ", "d">>,
               <<" ", " ", "d">>, <<" ", " ", " ", " ", "a">>}

(* Items that begin empty. *)
EmptyItemShapes == {<<>>, <<"a">>, <<"-">>, <<"-", " ", "a">>, <<" ", " ", "a">>,
                    <<" ", " ", "-", " ", "a">>, <<"2", ".">>}

(* Leaves of every kind and what ends them. *)
LeafShapes == {<<>>, <<"a">>, <<"f">>, <<"#", " ", "a">>, <<"=">>, <<"-", "-", "-">>, <<"h">>,
               <<" ", " ", " ", " ", "f">>, <<"x">>, <<"y">>, <<"c">>, <<"e">>, <<"d">>, <<"t">>, <<"u">>}

(* Lines whose normalized form may not be what they are. *)
RewriteShapes == {<<"a">>, <<"a", " ", " ">>, <<"a", "k">>, <<"-">>, <<"-", " ", "a">>, <<"-", "-", "-">>,
                  <<" ", " ", "h">>, <<" ", " ", " ", " ">>, <<" ", " ", " ", " ", " ", "f">>,
                  <<" ", " ", " ", "x">>, <<" ", " ", " ", " ", "=">>, <<"*", " ", ">", " ", "a">>, <<"1", ")", " ", "a">>,
                  <<"+", " ", "*", "*", "*">>}

EveryBlock == {[shapes |-> QuoteShapes, lines |-> 4, tables |-> FALSE],
               [shapes |-> ListShapes, lines |-> 4, tables |-> FALSE],
               [shapes |-> EmptyItemShapes, lines |-> 5, tables |-> FALSE],
               [shapes |-> LeafShapes, lines |-> 3, tables |-> TRUE],
               [shapes |-> RewriteShapes, lines |-> 3, tables |-> FALSE]}

(* An item that begins empty, blank lines, and text that is indented as far *)
(* as the item's content.                                                  *)
EmptyItems == {[shapes |-> {<<>>, <<"-">>, <<" ", " ", "a">>}, lines |-> 4, tables |-> FALSE]}

(* A line of text that would underline the one before it if it were not    *)
(* indented as far as it is.                                               *)
DeepUnderline == {[shapes |-> {<<"a">>, <<" ", " ", " ", " ", "=">>}, lines |-> 2, tables |-> FALSE]}

Of(f) == UNION {[1 .. n -> f.shapes] : n \in 1 .. f.lines}
MCDocuments == UNION {Of(f) : f \in Families}
Chosen == tables => \E f \in Families : f.tables /\ \A n \in 1 .. Len(source) : source[n] \in f.shapes

(* The run may stop only when parsing is done: all else is a deadlock.     *)
Finished == Parsed /\ (pass = 2 \/ Len(source) > MostLines)
Stopped == Finished /\ UNCHANGED normVars
ChosenInit == NormInit /\ Chosen
BlockRuns == ChosenInit /\ [][NormNext \/ Stopped]_normVars
=============================================================================
