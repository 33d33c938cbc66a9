--------------------------- MODULE EmphasisLookup ---------------------------
(***************************************************************************)
(* How a plan is kept and how the inline parser asks it which pair opens   *)
(* at a byte (parser/emphasis.go add, prepareLookup, openerAt).  The first *)
(* pairs sit in an array in the order they were made.  The one that does   *)
(* not fit moves all of them to a slice and empties the array, which the   *)
(* next pairs fill once more; later ones go to the slice.  A slice is      *)
(* sorted and searched, and the array beside it is not asked any more.     *)
(***************************************************************************)
EXTENDS Emphasis, FiniteSets

CONSTANT InlineCap   \* capacity of the array, 8 in the code

ASSUME LookupAssumption == InlineCap \in Nat

(* add: array is p.inline up to p.count, and no slice is an empty one. *)
Add(kept, pair) ==
  CASE Len(kept.array) < InlineCap -> [kept EXCEPT !.array = Append(@, pair)]
    [] Len(kept.array) >= InlineCap /\ kept.slice = <<>> ->
         [array |-> <<>>, slice |-> Append(kept.array, pair)]
    [] OTHER -> [kept EXCEPT !.slice = Append(@, pair)]

(* The pairs of a plan as they are kept when all have been added. *)
Kept(plan) ==
  LET kept[n \in 0 .. Len(plan)] ==
        IF n = 0 THEN [array |-> <<>>, slice |-> <<>>] ELSE Add(kept[n - 1], plan[n])
  IN  kept[Len(plan)]

(* How many pairs stand before the kth when they are sorted by where they  *)
(* open.                                                                   *)
OpensBefore(plan, l, k) ==
  \/ plan[l].openStart < plan[k].openStart
  \/ plan[l].openStart = plan[k].openStart /\ l < k

Place(plan, k) == Cardinality({l \in DOMAIN plan : OpensBefore(plan, l, k)})

(* prepareLookup sorts the slice. *)
Sorted(plan) == [n \in DOMAIN plan |-> plan[CHOOSE k \in DOMAIN plan : Place(plan, k) = n - 1]]

(* Slip: the search steps over an equal start. *)
UpperBound(s, position) ==
  LET search[range \in (0 .. Len(s)) \X (0 .. Len(s))] ==
        LET low    == range[1]
            high   == range[2]
            middle == (low + high) \div 2
        IN  IF low >= high THEN low
            ELSE IF s[middle + 1].openStart <= position
                 THEN search[<<middle + 1, high>>]
                 ELSE search[<<low, middle>>]
  IN  search[<<0, Len(s)>>]

LowerBound(s, position) ==
  LET search[range \in (0 .. Len(s)) \X (0 .. Len(s))] ==
        LET low    == range[1]
            high   == range[2]
            middle == (low + high) \div 2
        IN  IF low >= high THEN low
            ELSE IF s[middle + 1].openStart < position
                 THEN search[<<middle + 1, high>>]
                 ELSE search[<<low, middle>>]
  IN  search[<<0, Len(s)>>]

(* openerAt: the pair found, as a set of at most one. *)
OpenerInSlice(s, position) ==
  LET low == LowerBound(s, position)
  IN  IF low < Len(s) /\ s[low + 1].openStart = position THEN {s[low + 1]} ELSE {}

OpenerInArray(s, position) ==
  LET hits == {k \in 1 .. Len(s) : s[k].openStart = position}
  IN  IF hits = {} THEN {} ELSE {s[CHOOSE k \in hits : \A h \in hits : k <= h]}

OpenerAt(plan, position) ==
  LET kept == Kept(plan)
  IN  IF kept.slice = <<>> THEN OpenerInArray(kept.array, position)
      ELSE OpenerInSlice(Sorted(kept.slice), position)

LastByte == IF runs = <<>> THEN 0 ELSE runs[Len(runs)].start + runs[Len(runs)].length

(* testdata/spec/gfm-0.29.0.gfm.0.txt:6511 "Emphasis begins with a         *)
(* delimiter that [can open emphasis] and ends with a delimiter that [can  *)
(* close emphasis]": every pair of the plan is found at the byte it opens  *)
(* at, so that it becomes emphasis.                                        *)
LookupFindsEveryPair == Planned => \A p \in Pairs : OpenerAt(pairs, p.openStart) = {p}

(* The pairs that are looked for: all but those added to the emptied array.*)
Searched(plan) == {k \in DOMAIN plan : k <= InlineCap + 1 \/ k > 2 * InlineCap + 1}

(* How far that fails: what opens at a byte is found for every pair but    *)
(* those, as many as the array holds, that come right behind the one that  *)
(* made it overflow.  No other pair is hidden or misplaced by either form  *)
(* of the plan, no two pairs open at one byte, and nothing is found where  *)
(* none opens.                                                             *)
LookupLosesOnlyTheRefilled ==
  Planned => \A position \in 0 .. LastByte :
    OpenerAt(pairs, position) = {pairs[k] : k \in {m \in Searched(pairs) : pairs[m].openStart = position}}
=============================================================================
