----------------------------- MODULE MCEmphasis -----------------------------
(***************************************************************************)
(* Emphasis over the delimiter runs of every short text of some alphabets, *)
(* and of a few longer texts that make many pairs.                         *)
(***************************************************************************)
EXTENDS EmphasisLookup, Delimiters

CONSTANTS Families,    \* pairs of an alphabet and the length of the longest text
          LongTexts    \* further texts

(* One delimiter at great length, or both with spaces between them. *)
LongAndMixed == {<<{"*", "a", "."}, 9>>, <<{"*", "_", "a", " "}, 7>>}
LongOnly     == {<<{"*", "a"}, 8>>}

(* Emphasis in emphasis, the two marks in turn, to a depth; and words in   *)
(* emphasis, one behind the other.                                         *)
Mark(k) == IF k % 2 = 0 THEN "*" ELSE "_"
InOneAnother(depth) ==
  [k \in 1 .. 2 * depth + 1 |->
     IF k = depth + 1 THEN "a" ELSE IF k <= depth THEN Mark(k) ELSE Mark(2 * depth + 2 - k)]
Words(number) == [k \in 1 .. 4 * number |-> <<"*", "a", "*", " ">>[((k - 1) % 4) + 1]]

ManyPairs == {InOneAnother(n) : n \in 3 .. 8} \cup {Words(n) : n \in 3 .. 8}
TenWords  == {Words(10)}

MCInputs == UNION {{Collect(t, 0, Len(t), FALSE) : t \in Texts(f[1], f[2])} : f \in Families}
              \cup {Collect(t, 0, Len(t), FALSE) : t \in LongTexts}

(* Planning always ends, whatever the runs are.                            *)
PlanningEnds == <>Planned
=============================================================================
