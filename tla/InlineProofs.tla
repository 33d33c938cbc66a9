---------------------------- MODULE InlineProofs ----------------------------
(***************************************************************************)
(* Proofs about the emphasis planner, the lookup of its plan and the loop  *)
(* of inline parsing that walks a range by it, for every sequence of       *)
(* delimiter runs and so for every text.  That spans do not cross is not   *)
(* inductive: a later pair could reach into an earlier one were it not for *)
(* the struck out runs in between, so IInv also says that nothing between  *)
(* the two runs of a pair is left and that no closer seen so far lies      *)
(* beyond the current one.  PlanInv adds what is known of the bytes: how   *)
(* much of each run is spent, where the pairs lie in their runs, in which  *)
(* order they were made and what each closer left behind.  The part behind *)
(* it shows that ranking the pairs sorts them and that halving a sorted    *)
(* slice finds the pair looked for.                                        *)
(*                                                                         *)
(* The rest is about the loop that takes up such a plan.  What it reports  *)
(* comes from the inside out because the nodes not told of yet are exactly *)
(* those of the active ranges (TellInv); no byte is lost because what the  *)
(* active ranges have not walked lies one behind the other up to the end   *)
(* (Bytes), which takes of a plan that its pairs are distinct, nest and    *)
(* lie in their range (Fits, from PlanInv).  Scans of the text that call   *)
(* themselves are unrolled once (IsFixed), and bounded by induction over   *)
(* the positions still before them.                                        *)
(***************************************************************************)
EXTENDS InlineRange, Counting, TLAPS

PairType == [open : Run, close : Run, openStart : Int, closeStart : Nat, length : {1, 2}]

Ordered == \A p \in Pairs : p.open < p.close /\ p.close <= closer

IInv == TypeOK /\ Ordered /\ NothingLeftInside /\ PairsDoNotCross

LEMMA SeqElement ==
  ASSUME NEW S, NEW s \in Seq(S), NEW k \in 1 .. Len(s)
  PROVE  s[k] \in S
  OBVIOUS

(* The pairs of a well-typed plan are records of run indices. *)
LEMMA PairsTyped ==
  ASSUME TypeOK
  PROVE  /\ Pairs \subseteq PairType
         /\ Run \subseteq Nat /\ closer \in Nat
         /\ \A p \in Pairs : p.open \in Run /\ p.close \in Run
<1>1. pairs \in Seq(PairType)
  BY DEF TypeOK, PairType
<1>2. \A k \in 1 .. Len(pairs) : pairs[k] \in PairType
  BY <1>1, SeqElement
<1>3. Pairs \subseteq PairType
  BY <1>2 DEF Pairs
<1>4. Len(runs) \in Nat
  BY DEF TypeOK
<1>5. closer \in 1 .. Len(runs) + 1
  BY DEF TypeOK
<1>6. Run \subseteq Nat /\ closer \in Nat
  BY <1>4, <1>5 DEF Run
<1>7. \A p \in PairType : p.open \in Run /\ p.close \in Run
  BY DEF PairType
<1> QED BY <1>3, <1>6, <1>7

(* The runs do not change while they are planned, and stay disjoint.       *)
RunsInOrder == \A i, j \in Run : i < j => runs[i].start + runs[i].length <= runs[j].start

(* What planning starts from.                                              *)
Fresh ==
  /\ runs \in Seq(Delimiter) /\ RunsInOrder
  /\ remaining = [k \in Run |-> runs[k].length]
  /\ closed = [k \in Run |-> 0]
  /\ closer = 1
  /\ pairs = <<>>

LEMMA InitFresh == ASSUME EmphasisAssumption, Init PROVE Fresh
<1>1. runs \in Seq(Delimiter) /\ RunsInOrder
  BY EmphasisAssumption DEF Init, RunsInOrder, Run
<1> QED
  BY <1>1 DEF Init, Fresh

LEMMA FreshIInv == ASSUME Fresh PROVE IInv
<1>1. runs \in Seq(Delimiter)
  BY DEF Fresh
<1>2. Len(runs) \in Nat /\ \A k \in Run : runs[k] \in Delimiter
  BY <1>1 DEF Run
<1>3. remaining \in [Run -> Nat]
  BY <1>2 DEF Fresh, Delimiter
<1>4. closed \in [Run -> Nat] /\ closer \in 1 .. Len(runs) + 1
  BY <1>2 DEF Fresh
<1>5. pairs = <<>>
  BY DEF Fresh
<1>6. Pairs = {}
  BY <1>5 DEF Pairs
<1>7. pairs \in Seq(PairType)
  BY <1>5
<1>8. TypeOK
  BY <1>1, <1>3, <1>4, <1>7 DEF TypeOK, PairType
<1> QED BY <1>6, <1>8 DEF IInv, Ordered, NothingLeftInside, PairsDoNotCross

(* What one round of the inner loop does to the plan. *)
LEMMA PairUpFacts ==
  ASSUME TypeOK, NEW i \in Run, PairUp(i)
  PROVE  /\ closer \in Run /\ i < closer /\ remaining[i] > 0
         /\ NewPair(i, closer) \in PairType
         /\ Pairs' = Pairs \cup {NewPair(i, closer)}
         /\ pairs' \in Seq(PairType)
         /\ remaining' \in [Run -> Nat] /\ closed' \in [Run -> Nat]
         /\ \A k \in Run : remaining[k] = 0 => remaining'[k] = 0
         /\ \A k \in Run : i < k /\ k < closer => remaining'[k] = 0
<1> USE DEF Run
<1>1. /\ runs \in Seq(Delimiter) /\ Len(runs) \in Nat
      /\ remaining \in [Run -> Nat] /\ closed \in [Run -> Nat]
      /\ closer \in 1 .. Len(runs) + 1 /\ pairs \in Seq(PairType)
  BY DEF TypeOK, PairType
<1>2. closer \in Run /\ i < closer /\ remaining[i] > 0 /\ remaining[closer] > 0
  BY <1>1 DEF PairUp, Planned, IsOpener, CanPair
<1>3. /\ Use(i, closer) \in {1, 2}
      /\ Use(i, closer) <= remaining[i] /\ Use(i, closer) <= remaining[closer]
  BY <1>1, <1>2 DEF Use
<1>4. NewPair(i, closer) \in PairType
  <2>1. runs[i].start \in Nat /\ runs[closer].start \in Nat
    <3>1. runs[i] \in Delimiter /\ runs[closer] \in Delimiter
      BY <1>1, <1>2, SeqElement
    <3> QED BY <3>1 DEF Delimiter
  <2>2. remaining[i] \in Nat /\ closed[closer] \in Nat
    BY <1>1, <1>2
  <2> QED BY <1>2, <1>3, <2>1, <2>2 DEF NewPair, PairType
<1>5. pairs' = Append(pairs, NewPair(i, closer)) /\ runs' = runs
  BY DEF PairUp
<1>6. pairs' \in Seq(PairType) /\ Pairs' = Pairs \cup {NewPair(i, closer)}
  <2> DEFINE new == NewPair(i, closer)
  <2> HIDE DEF new
  <2>1. pairs' = Append(pairs, new) /\ new \in PairType
    BY <1>4, <1>5 DEF new
  <2>2. /\ Len(pairs') = Len(pairs) + 1 /\ Len(pairs) \in Nat
        /\ \A k \in 1 .. Len(pairs) : pairs'[k] = pairs[k]
        /\ pairs'[Len(pairs) + 1] = new
    BY <1>1, <2>1
  <2>3. Pairs' = Pairs \cup {new}
    BY <2>2 DEF Pairs
  <2> QED BY <1>1, <2>1, <2>3 DEF new
<1>7. remaining' = [k \in Run |->
        CASE k = i -> remaining[k] - Use(i, closer)
          [] k = closer -> remaining[k] - Use(i, closer)
          [] i < k /\ k < closer -> 0
          [] OTHER -> remaining[k]]
  BY DEF PairUp
<1>8. \A k \in Run : /\ remaining'[k] \in Nat
                     /\ remaining[k] = 0 => remaining'[k] = 0
                     /\ i < k /\ k < closer => remaining'[k] = 0
  <2> SUFFICES ASSUME NEW k \in Run
               PROVE  /\ remaining'[k] \in Nat
                      /\ remaining[k] = 0 => remaining'[k] = 0
                      /\ i < k /\ k < closer => remaining'[k] = 0
    OBVIOUS
  <2>1. CASE k = i
    BY <1>1, <1>2, <1>3, <1>7, <2>1
  <2>2. CASE k = closer
    BY <1>1, <1>2, <1>3, <1>7, <2>2
  <2>3. CASE k # i /\ k # closer /\ i < k /\ k < closer
    BY <1>1, <1>7, <2>3
  <2>4. CASE k # i /\ k # closer /\ ~(i < k /\ k < closer)
    BY <1>1, <1>7, <2>4
  <2> QED BY <2>1, <2>2, <2>3, <2>4
<1>9. remaining' \in [Run -> Nat]
  BY <1>7, <1>8
<1>10. closed' \in [Run -> Nat]
  BY <1>1, <1>2, <1>3 DEF PairUp
<1> QED BY <1>2, <1>4, <1>6, <1>8, <1>9, <1>10

LEMMA StepIInv == ASSUME IInv, [Next]_vars PROVE IInv'
<1>1. ASSUME NEW i \in Run, PairUp(i)
      PROVE  IInv'
  <2> DEFINE new == NewPair(i, closer)
  <2>1. /\ runs' = runs /\ closer' = closer /\ Run' = Run
    BY <1>1 DEF PairUp, Run
  <2>2. /\ closer \in Run /\ i < closer /\ remaining[i] > 0
        /\ new \in PairType /\ Pairs' = Pairs \cup {new} /\ pairs' \in Seq(PairType)
        /\ remaining' \in [Run -> Nat] /\ closed' \in [Run -> Nat]
        /\ \A k \in Run : remaining[k] = 0 => remaining'[k] = 0
        /\ \A k \in Run : i < k /\ k < closer => remaining'[k] = 0
    BY <1>1, PairUpFacts DEF IInv
  <2>3. new.open = i /\ new.close = closer
    BY DEF NewPair
  <2> HIDE DEF new
  <2>4. TypeOK'
    BY <2>1, <2>2 DEF IInv, TypeOK, PairType, Run
  <2>5. Run \subseteq Nat /\ closer \in Nat /\ \A p \in Pairs : p.open \in Run /\ p.close \in Run
    BY PairsTyped DEF IInv
  <2>6. Ordered'
    BY <2>1, <2>2, <2>3, <2>5 DEF IInv, Ordered
  <2>7. NothingLeftInside'
    BY <2>1, <2>2, <2>3 DEF IInv, NothingLeftInside
  <2>8. PairsDoNotCross'
    <3> SUFFICES ASSUME NEW p \in Pairs', NEW q \in Pairs',
                        p.open < q.open, q.open < p.close, p.close < q.close
                 PROVE  FALSE
      BY DEF PairsDoNotCross
    <3>1. CASE p \in Pairs /\ q \in Pairs
      BY <3>1 DEF IInv, PairsDoNotCross
    <3>2. CASE p \in Pairs /\ q = new
      BY <2>2, <2>3, <2>5, <3>2 DEF IInv, NothingLeftInside
    <3>3. CASE p = new /\ q \in Pairs
      BY <2>2, <2>3, <2>5, <3>3 DEF IInv, Ordered
    <3>4. CASE p = new /\ q = new
      BY <2>2, <2>3, <2>5, <3>4
    <3> QED BY <2>2, <3>1, <3>2, <3>3, <3>4
  <2> QED BY <2>4, <2>6, <2>7, <2>8 DEF IInv
<1>2. ASSUME NextCloser
      PROVE  IInv'
  <2>1. /\ runs' = runs /\ remaining' = remaining /\ closed' = closed /\ pairs' = pairs
        /\ closer' = closer + 1 /\ closer \in 1 .. Len(runs) + 1 /\ ~(closer > Len(runs))
        /\ Len(runs) \in Nat
    BY <1>2 DEF NextCloser, Planned, IInv, TypeOK
  <2>2. Run' = Run /\ Pairs' = Pairs /\ Pairs \subseteq PairType
    BY <2>1, PairsTyped DEF Run, Pairs, IInv
  <2>3. TypeOK'
    BY <2>1, <2>2 DEF IInv, TypeOK
  <2>4. Ordered'
    BY <2>1, <2>2 DEF IInv, Ordered, PairType, Run
  <2>5. NothingLeftInside' /\ PairsDoNotCross'
    BY <2>1, <2>2 DEF IInv, NothingLeftInside, PairsDoNotCross
  <2> QED BY <2>3, <2>4, <2>5 DEF IInv
<1>3. ASSUME UNCHANGED vars
      PROVE  IInv'
  BY <1>3 DEF vars, IInv, TypeOK, Ordered, NothingLeftInside, PairsDoNotCross, Pairs, Run
<1> QED BY <1>1, <1>2, <1>3 DEF Next

(* In every text, two emphasis spans opened and closed by whatever runs    *)
(* never cross each other, run for run, and no run between the two ends of *)
(* a span is left to be paired with one outside.                           *)
THEOREM PlanDoesNotCross == Spec => [](TypeOK /\ PairsDoNotCross /\ NothingLeftInside)
<1>1. Init => IInv
  BY InitFresh, FreshIInv, EmphasisAssumption
<1>2. IInv /\ [Next]_vars => IInv'
  BY StepIInv
<1>3. IInv => TypeOK /\ PairsDoNotCross /\ NothingLeftInside
  BY DEF IInv
<1> QED BY <1>1, <1>2, <1>3, PTL DEF Spec
-----------------------------------------------------------------------------
(* What a run has given to the pairs it opens, added up pair by pair.      *)
Given(k) == [m \in 1 .. Len(pairs) |-> IF pairs[m].open = k THEN pairs[m].length ELSE 0]

IsUsed(f, k) ==
  f = [m \in 0 .. Len(pairs) |->
         IF m = 0 THEN 0 ELSE f[m - 1] + IF pairs[m].open = k THEN pairs[m].length ELSE 0]

LEMMA PairsAreSeq == ASSUME TypeOK PROVE
  /\ pairs \in Seq(PairType) /\ Len(pairs) \in Nat
  /\ \A m \in 1 .. Len(pairs) : pairs[m] \in PairType /\ pairs[m] \in Pairs
<1>1. pairs \in Seq(PairType)
  BY DEF TypeOK, PairType
<1> QED
  BY <1>1, SeqElement DEF Pairs

LEMMA UsedIsATotal ==
  ASSUME TypeOK, NEW k
  PROVE  \E f \in [0 .. Len(pairs) -> Nat] :
           IsTotal(f, Given(k), Len(pairs)) /\ UsedAsOpener(k) = f[Len(pairs)]
<1>1. Len(pairs) \in Nat /\ \A m \in 1 .. Len(pairs) : pairs[m] \in PairType
  BY PairsAreSeq
<1>2. Given(k) \in [1 .. Len(pairs) -> Nat]
  BY <1>1 DEF Given, PairType
<1>3. \A f : IsUsed(f, k) <=> IsTotal(f, Given(k), Len(pairs))
  <2> SUFFICES ASSUME NEW f
               PROVE  [m \in 0 .. Len(pairs) |-> IF m = 0 THEN 0
                         ELSE f[m - 1] + IF pairs[m].open = k THEN pairs[m].length ELSE 0]
                      = [m \in 0 .. Len(pairs) |-> IF m = 0 THEN 0 ELSE f[m - 1] + Given(k)[m]]
    BY DEF IsUsed, IsTotal
  <2>1. \A m \in 0 .. Len(pairs) : m # 0 =>
          Given(k)[m] = IF pairs[m].open = k THEN pairs[m].length ELSE 0
    BY <1>1 DEF Given
  <2> QED
    BY <2>1
<1>4. UsedAsOpener(k) = (CHOOSE f : IsUsed(f, k))[Len(pairs)]
  BY DEF UsedAsOpener, IsUsed
<1>5. PICK g \in [0 .. Len(pairs) -> Nat] : IsTotal(g, Given(k), Len(pairs))
  BY <1>1, <1>2, TotalExists
<1> DEFINE f == CHOOSE f : IsUsed(f, k)
<1>6. IsUsed(f, k)
  BY <1>3, <1>5
<1>7. IsTotal(f, Given(k), Len(pairs))
  BY <1>3, <1>6
<1>8. \A m \in 0 .. Len(pairs) : f[m] = g[m]
  BY <1>1, <1>5, <1>7, TotalsAgree
<1>9. f = g
  <2>1. /\ f = [m \in 0 .. Len(pairs) |-> f[m]]
    <3> HIDE DEF f
    <3> QED
      BY <1>7 DEF IsTotal
  <2> QED
    BY <1>5, <1>8, <2>1
<1> QED
  BY <1>4, <1>5, <1>9

LEMMA UsedIsNat == ASSUME TypeOK, NEW k PROVE UsedAsOpener(k) \in Nat
BY UsedIsATotal, PairsAreSeq

LEMMA UsedStays ==
  ASSUME TypeOK, TypeOK', pairs' = pairs, NEW k
  PROVE  UsedAsOpener(k)' = UsedAsOpener(k)
<1>1. PICK f \in [0 .. Len(pairs) -> Nat] :
        IsTotal(f, Given(k), Len(pairs)) /\ UsedAsOpener(k) = f[Len(pairs)]
  BY UsedIsATotal
<1>2. PICK g \in [0 .. Len(pairs') -> Nat] :
        IsTotal(g, Given(k)', Len(pairs')) /\ UsedAsOpener(k)' = g[Len(pairs')]
  BY UsedIsATotal
<1>3. Given(k)' = Given(k) /\ Len(pairs) \in Nat
  BY PairsAreSeq DEF Given
<1> QED
  BY <1>1, <1>2, <1>3, TotalsAgree

LEMMA UsedGrows ==
  ASSUME TypeOK, TypeOK', NEW new, pairs' = Append(pairs, new), NEW k
  PROVE  UsedAsOpener(k)' = UsedAsOpener(k) + IF new.open = k THEN new.length ELSE 0
<1>1. PICK f \in [0 .. Len(pairs) -> Nat] :
        IsTotal(f, Given(k), Len(pairs)) /\ UsedAsOpener(k) = f[Len(pairs)]
  BY UsedIsATotal
<1>2. PICK g \in [0 .. Len(pairs') -> Nat] :
        IsTotal(g, Given(k)', Len(pairs')) /\ UsedAsOpener(k)' = g[Len(pairs')]
  BY UsedIsATotal
<1>3. /\ Len(pairs) \in Nat /\ Len(pairs') = Len(pairs) + 1
      /\ \A m \in 1 .. Len(pairs) : pairs'[m] = pairs[m]
      /\ pairs'[Len(pairs) + 1] = new
  <2>1. pairs \in Seq(PairType)
    BY PairsAreSeq
  <2> QED
    BY <2>1
<1>4. /\ \A m \in 1 .. Len(pairs) : Given(k)'[m] = Given(k)[m]
      /\ Given(k)'[Len(pairs) + 1] = IF new.open = k THEN new.length ELSE 0
  BY <1>3 DEF Given
<1>5. g[Len(pairs)] = f[Len(pairs)]
  BY <1>1, <1>2, <1>3, <1>4, TotalsAgree
<1>6. g[Len(pairs) + 1] = g[Len(pairs)] + Given(k)'[Len(pairs) + 1]
  <2>1. \A m \in 0 .. Len(pairs') : g[m] = IF m = 0 THEN 0 ELSE g[m - 1] + Given(k)'[m]
    BY <1>2 DEF IsTotal
  <2>2. Len(pairs) + 1 \in 0 .. Len(pairs') /\ Len(pairs) + 1 # 0 /\ (Len(pairs) + 1) - 1 = Len(pairs)
    BY <1>3
  <2> QED
    BY <2>1, <2>2
<1> QED
  BY <1>1, <1>2, <1>3, <1>4, <1>5, <1>6
-----------------------------------------------------------------------------
(* The bytes of the plan.                                                  *)

(* A closer that has been left cannot be paired any more, unless it has    *)
(* opened emphasis itself since.                                           *)
Settled ==
  \A j \in Run :
    j < closer /\ runs[j].canClose /\ remaining[j] > 0 /\ UsedAsOpener(j) = 0 =>
      \A i \in 1 .. j - 1 : ~CanPair(i, j)

(* The bytes of a pair lie behind what is left of its opener and within    *)
(* what its closer has used.                                               *)
Placed ==
  \A p \in Pairs :
    /\ runs[p.open].start + remaining[p.open] <= p.openStart
    /\ p.openStart + p.length <= runs[p.open].start + runs[p.open].length
    /\ runs[p.close].start <= p.closeStart
    /\ p.closeStart + p.length <= runs[p.close].start + closed[p.close]

(* Of two pairs with the same opener or the same closer the later one is   *)
(* the outer one.                                                          *)
Sequenced ==
  \A k, l \in 1 .. Len(pairs) : k < l =>
    /\ pairs[k].close <= pairs[l].close
    /\ pairs[k].open = pairs[l].open =>
         pairs[l].openStart + pairs[l].length <= pairs[k].openStart
    /\ pairs[k].close = pairs[l].close =>
         /\ pairs[l].open <= pairs[k].open
         /\ pairs[k].closeStart + pairs[k].length <= pairs[l].closeStart

PlanInv == IInv /\ RunsInOrder /\ CharactersConserved /\ Settled /\ Placed /\ Sequenced

LEMMA FreshPlanInv == Fresh => PlanInv
<1> SUFFICES ASSUME Fresh PROVE PlanInv
  OBVIOUS
<1>1. IInv
  BY FreshIInv
<1>2. RunsInOrder
  BY DEF Fresh
<1>3. Len(pairs) = 0 /\ Pairs = {} /\ closer = 1
  BY DEF Fresh, Pairs
<1>4. CharactersConserved
  <2> SUFFICES ASSUME NEW k \in Run
               PROVE  UsedAsOpener(k) + closed[k] + remaining[k] <= runs[k].length
    BY DEF CharactersConserved
  <2>1. UsedAsOpener(k) = 0
    <3>1. PICK f : IsTotal(f, Given(k), Len(pairs)) /\ UsedAsOpener(k) = f[Len(pairs)]
      BY <1>1, UsedIsATotal DEF IInv
    <3> QED
      BY <1>3, <3>1 DEF IsTotal
  <2>2. closed[k] = 0 /\ remaining[k] = runs[k].length /\ remaining[k] \in Nat
    BY <1>1 DEF Fresh, IInv, TypeOK
  <2> QED
    BY <2>1, <2>2
<1>5. Settled
  BY <1>3 DEF Settled, Run
<1>6. Placed /\ Sequenced
  BY <1>3 DEF Placed, Sequenced
<1> QED
  BY <1>1, <1>2, <1>4, <1>5, <1>6 DEF PlanInv

LEMMA RunsTyped ==
  ASSUME TypeOK
  PROVE  /\ Run \subseteq Nat /\ Len(runs) \in Nat
         /\ \A k \in Run : runs[k].start \in Nat /\ runs[k].length \in Nat
<1>1. runs \in Seq(Delimiter) /\ Len(runs) \in Nat
  BY DEF TypeOK
<1>2. \A k \in 1 .. Len(runs) : runs[k] \in Delimiter
  BY <1>1, SeqElement
<1>3. \A d \in Delimiter : d.start \in Nat /\ d.length \in Nat
  BY DEF Delimiter
<1> QED
  BY <1>1, <1>2, <1>3 DEF Run

(* What one round takes from its two runs and from those between them.     *)
LEMMA RoundFacts ==
  ASSUME TypeOK, NEW i \in Run, PairUp(i)
  PROVE  /\ runs' = runs /\ closer' = closer /\ Run' = Run
         /\ closer \in Run /\ i < closer /\ runs[i].canOpen
         /\ Use(i, closer) \in {1, 2}
         /\ remaining'[i] = remaining[i] - Use(i, closer)
         /\ remaining'[closer] = remaining[closer] - Use(i, closer)
         /\ \A k \in Run : i < k /\ k < closer => remaining'[k] = 0
         /\ \A k \in Run : k < i \/ k > closer => remaining'[k] = remaining[k]
         /\ \A k \in Run : remaining'[k] <= remaining[k]
         /\ closed'[closer] = closed[closer] + Use(i, closer)
         /\ \A k \in Run : k # closer => closed'[k] = closed[k]
<1> USE DEF Run
<1>1. /\ Len(runs) \in Nat /\ closer \in 1 .. Len(runs) + 1
      /\ remaining \in [Run -> Nat] /\ closed \in [Run -> Nat]
  BY DEF TypeOK
<1>2. /\ closer \in Run /\ i < closer /\ remaining[i] > 0 /\ remaining[closer] > 0
      /\ runs[i].canOpen /\ runs' = runs /\ closer' = closer
  BY <1>1 DEF PairUp, Planned, IsOpener, CanPair
<1>3. /\ Use(i, closer) \in {1, 2}
      /\ Use(i, closer) <= remaining[i] /\ Use(i, closer) <= remaining[closer]
  BY <1>1, <1>2 DEF Use
<1>4. remaining' = [k \in Run |->
        CASE k = i -> remaining[k] - Use(i, closer)
          [] k = closer -> remaining[k] - Use(i, closer)
          [] i < k /\ k < closer -> 0
          [] OTHER -> remaining[k]]
  BY DEF PairUp
<1>5. closed' = [closed EXCEPT ![closer] = @ + Use(i, closer)]
  BY DEF PairUp
<1> DEFINE use == Use(i, closer)
<1>6. /\ remaining'[i] = remaining[i] - use
      /\ remaining'[closer] = remaining[closer] - use
      /\ \A k \in Run : i < k /\ k < closer => remaining'[k] = 0
      /\ \A k \in Run : k < i \/ k > closer => remaining'[k] = remaining[k]
  <2> HIDE DEF use
  <2>1. remaining' = [k \in Run |->
          CASE k = i -> remaining[k] - use
            [] k = closer -> remaining[k] - use
            [] i < k /\ k < closer -> 0
            [] OTHER -> remaining[k]]
    BY <1>4 DEF use
  <2>2. remaining'[i] = remaining[i] - use
    BY <2>1
  <2>3. remaining'[closer] = remaining[closer] - use
    BY <1>2, <2>1
  <2>4. ASSUME NEW k \in Run PROVE /\ i < k /\ k < closer => remaining'[k] = 0
                                   /\ k < i \/ k > closer => remaining'[k] = remaining[k]
    BY <1>1, <1>2, <2>1
  <2> QED
    BY <2>2, <2>3, <2>4
<1>7. \A k \in Run : remaining'[k] <= remaining[k]
  <2> TAKE k \in Run
  <2>1. remaining[k] \in Nat
    BY <1>1
  <2>2. CASE k = i \/ k = closer
    BY <1>3, <1>6, <2>1, <2>2
  <2>3. CASE i < k /\ k < closer
    BY <1>6, <2>1, <2>3
  <2>4. CASE k < i \/ k > closer
    BY <1>6, <2>1, <2>4
  <2> QED
    BY <1>1, <2>2, <2>3, <2>4
<1>8. /\ closed'[closer] = closed[closer] + use
      /\ \A k \in Run : k # closer => closed'[k] = closed[k]
  BY <1>1, <1>2, <1>5
<1> QED
  BY <1>2, <1>3, <1>6, <1>7, <1>8

(* The opener's characters go to what it opened, the closer's to what it   *)
(* closed; those struck out are lost to both.                              *)
LEMMA RoundConserves ==
  ASSUME TypeOK, TypeOK', CharactersConserved, NEW i \in Run, PairUp(i)
  PROVE  CharactersConserved'
<1> DEFINE use == Use(i, closer)
<1>1. /\ runs' = runs /\ Run' = Run /\ closer \in Run /\ use \in {1, 2} /\ i < closer
      /\ remaining'[i] = remaining[i] - use /\ remaining'[closer] = remaining[closer] - use
      /\ \A k \in Run : remaining'[k] <= remaining[k]
      /\ closed'[closer] = closed[closer] + use
      /\ \A k \in Run : k # closer => closed'[k] = closed[k]
  BY RoundFacts
<1>2. pairs' = Append(pairs, NewPair(i, closer))
  BY DEF PairUp
<1>3. NewPair(i, closer).open = i /\ NewPair(i, closer).length = use
  BY DEF NewPair
<1> HIDE DEF use
<1> SUFFICES ASSUME NEW k \in Run
             PROVE  UsedAsOpener(k)' + closed'[k] + remaining'[k] <= runs[k].length
  BY <1>1 DEF CharactersConserved
<1>4. UsedAsOpener(k)' = UsedAsOpener(k) + IF i = k THEN use ELSE 0
  BY <1>2, <1>3, UsedGrows
<1>5. UsedAsOpener(k) + closed[k] + remaining[k] <= runs[k].length
  BY DEF CharactersConserved
<1>6. UsedAsOpener(k) \in Nat /\ closed[k] \in Nat /\ remaining[k] \in Nat /\ remaining'[k] \in Nat
  BY <1>1, UsedIsNat DEF TypeOK
<1>7. runs[k].length \in Nat /\ k \in Nat /\ i \in Nat
  BY RunsTyped DEF Run
<1>8. CASE k = i
  BY <1>1, <1>4, <1>5, <1>6, <1>7, <1>8
<1>9. CASE k = closer
  BY <1>1, <1>4, <1>5, <1>6, <1>7, <1>9
<1>10. CASE k # i /\ k # closer
  BY <1>1, <1>4, <1>5, <1>6, <1>7, <1>10
<1> QED
  BY <1>8, <1>9, <1>10

(* A closer nothing is the nearest opener of has nothing to be paired with.*)
LEMMA NoOpenerNoPair ==
  ASSUME TypeOK, NEW j \in Run, ~HasOpener(j)
  PROVE  \A i \in 1 .. j - 1 : ~CanPair(i, j)
<1> DEFINE Able == {i \in 1 .. j - 1 : CanPair(i, j)}
<1>1. j \in Nat /\ Len(runs) \in Nat /\ 1 .. j - 1 \subseteq Run
  BY DEF TypeOK, Run
<1> SUFFICES ASSUME Able # {} PROVE FALSE
  OBVIOUS
<1>2. Able \in SUBSET Nat /\ \A i \in Able : i <= j
  BY <1>1
<1>3. PICK m \in Able : \A i \in Able : i <= m
  BY <1>1, <1>2, LargestExists
<1>4. \A k \in m + 1 .. j - 1 : ~CanPair(k, j)
  BY <1>1, <1>3
<1> QED
  BY <1>1, <1>3, <1>4 DEF HasOpener, IsOpener

(* Whether two runs can pair is a matter of the two alone.                 *)
LEMMA CanPairStays ==
  ASSUME NEW i, NEW j, runs' = runs, remaining'[i] = remaining[i], remaining'[j] = remaining[j]
  PROVE  CanPair(i, j)' <=> CanPair(i, j)
BY DEF CanPair, OddMatch

LEMMA RoundSettles ==
  ASSUME TypeOK, TypeOK', Settled, NEW i \in Run, PairUp(i)
  PROVE  Settled'
<1>1. /\ runs' = runs /\ closer' = closer /\ Run' = Run /\ closer \in Run /\ i < closer
      /\ Use(i, closer) \in {1, 2}
      /\ \A k \in Run : i < k /\ k < closer => remaining'[k] = 0
      /\ \A k \in Run : k < i \/ k > closer => remaining'[k] = remaining[k]
  BY RoundFacts
<1>2. pairs' = Append(pairs, NewPair(i, closer))
  BY DEF PairUp
<1>3. NewPair(i, closer).open = i /\ NewPair(i, closer).length = Use(i, closer)
  BY DEF NewPair
<1>4. Run \subseteq Nat
  BY DEF TypeOK, Run
<1> SUFFICES ASSUME NEW j \in Run, j < closer, runs[j].canClose, remaining'[j] > 0,
                    UsedAsOpener(j)' = 0, NEW h \in 1 .. j - 1
             PROVE  ~CanPair(h, j)'
  BY <1>1 DEF Settled
<1>5. UsedAsOpener(j) \in Nat
        /\ UsedAsOpener(j)' = UsedAsOpener(j) + IF i = j THEN Use(i, closer) ELSE 0
  BY <1>2, <1>3, UsedIsNat, UsedGrows
<1>6. j # i /\ UsedAsOpener(j) = 0
  BY <1>1, <1>5
<1>7. j < i
  BY <1>1, <1>4, <1>6
<1>8. h \in Run /\ h < i
  BY <1>4, <1>7 DEF Run, TypeOK
<1>9. remaining'[h] = remaining[h] /\ remaining'[j] = remaining[j]
  BY <1>1, <1>7, <1>8
<1>10. ~CanPair(h, j)
  BY <1>6, <1>9 DEF Settled
<1> QED
  BY <1>1, <1>9, <1>10, CanPairStays

(* A new pair lies at the end of what its opener had left and behind what  *)
(* its closer had used.                                                    *)
LEMMA RoundPlaces ==
  ASSUME TypeOK, TypeOK', CharactersConserved, Placed, NEW i \in Run, PairUp(i)
  PROVE  Placed'
<1> DEFINE use == Use(i, closer)
           new == NewPair(i, closer)
<1>1. /\ runs' = runs /\ Run' = Run /\ closer \in Run /\ use \in {1, 2} /\ i < closer
      /\ remaining'[i] = remaining[i] - use
      /\ \A k \in Run : remaining'[k] <= remaining[k]
      /\ closed'[closer] = closed[closer] + use
      /\ \A k \in Run : k # closer => closed'[k] = closed[k]
  BY RoundFacts
<1>2. Pairs' = Pairs \cup {new}
  BY PairUpFacts
<1>3. /\ new.open = i /\ new.close = closer /\ new.length = use
      /\ new.openStart = runs[i].start + remaining[i] - use
      /\ new.closeStart = runs[closer].start + closed[closer]
  BY DEF NewPair
<1>4. /\ \A k \in Run : runs[k].start \in Nat /\ runs[k].length \in Nat
      /\ \A k \in Run : /\ remaining[k] \in Nat /\ remaining'[k] \in Nat
                        /\ closed[k] \in Nat /\ closed'[k] \in Nat
  BY <1>1, RunsTyped DEF TypeOK
<1>5. \A k \in Run : remaining[k] + closed[k] <= runs[k].length
  BY <1>4, UsedIsNat DEF CharactersConserved
<1>6. \A k \in Run : closed[k] <= closed'[k]
  <2> TAKE k \in Run
  <2>1. CASE k = closer
    BY <1>1, <1>4, <2>1
  <2>2. CASE k # closer
    BY <1>1, <1>4, <2>2
  <2> QED
    BY <2>1, <2>2
<1> HIDE DEF use, new
<1> SUFFICES ASSUME NEW p \in Pairs'
             PROVE  /\ runs[p.open].start + remaining'[p.open] <= p.openStart
                    /\ p.openStart + p.length <= runs[p.open].start + runs[p.open].length
                    /\ runs[p.close].start <= p.closeStart
                    /\ p.closeStart + p.length <= runs[p.close].start + closed'[p.close]
  BY <1>1 DEF Placed
<1>7. CASE p = new
  <2>1. /\ runs[i].start \in Nat /\ runs[i].length \in Nat /\ remaining[i] \in Nat
        /\ closed[i] \in Nat /\ runs[closer].start \in Nat /\ closed[closer] \in Nat
        /\ remaining[i] + closed[i] <= runs[i].length
    BY <1>1, <1>4, <1>5
  <2> QED
    BY <1>1, <1>3, <1>7, <2>1
<1>8. CASE p \in Pairs
  <2>1. /\ p.open \in Run /\ p.close \in Run
        /\ p.openStart \in Int /\ p.closeStart \in Nat /\ p.length \in {1, 2}
    BY <1>8, PairsTyped DEF PairType
  <2>2. /\ runs[p.open].start + remaining[p.open] <= p.openStart
        /\ p.openStart + p.length <= runs[p.open].start + runs[p.open].length
        /\ runs[p.close].start <= p.closeStart
        /\ p.closeStart + p.length <= runs[p.close].start + closed[p.close]
    BY <1>8 DEF Placed
  <2>3. remaining'[p.open] <= remaining[p.open] /\ closed[p.close] <= closed'[p.close]
    BY <1>1, <1>6, <2>1
  <2> QED
    BY <1>1, <1>4, <2>1, <2>2, <2>3
<1> QED
  BY <1>2, <1>7, <1>8

(* A new pair with the opener or the closer of an earlier one encloses it. *)
LEMMA RoundSequences ==
  ASSUME IInv, TypeOK', Placed, Sequenced, NEW i \in Run, PairUp(i)
  PROVE  Sequenced'
<1> DEFINE use == Use(i, closer)
           new == NewPair(i, closer)
           n   == Len(pairs)
<1>1. /\ runs' = runs /\ Run' = Run /\ closer \in Run /\ use \in {1, 2} /\ i < closer
  BY RoundFacts DEF IInv
<1>2. remaining[i] > 0
  BY PairUpFacts DEF IInv
<1>3. /\ new.open = i /\ new.close = closer /\ new.length = use
      /\ new.openStart = runs[i].start + remaining[i] - use
      /\ new.closeStart = runs[closer].start + closed[closer]
  BY DEF NewPair
<1>4. /\ \A k \in Run : runs[k].start \in Nat /\ remaining[k] \in Nat /\ closed[k] \in Nat
      /\ Run \subseteq Nat
  BY RunsTyped DEF TypeOK, IInv
<1>5. /\ \A k \in 1 .. n : pairs[k] \in PairType /\ pairs[k] \in Pairs
      /\ n \in Nat /\ pairs \in Seq(PairType)
  BY PairsAreSeq DEF IInv
<1>6. pairs' = Append(pairs, new)
  BY DEF PairUp
<1>7. ASSUME NEW k \in 1 .. n
      PROVE  /\ pairs[k].close <= closer
             /\ pairs[k].open = i => new.openStart + new.length <= pairs[k].openStart
             /\ pairs[k].close = closer =>
                  i <= pairs[k].open /\ pairs[k].closeStart + pairs[k].length <= new.closeStart
  <2>1. pairs[k] \in Pairs /\ pairs[k].open \in Run /\ pairs[k].close \in Run
    BY <1>5, PairsTyped DEF IInv
  <2>2. pairs[k].close <= closer
    BY <2>1 DEF IInv, Ordered
  <2>3. ASSUME pairs[k].open = i PROVE new.openStart + new.length <= pairs[k].openStart
    <3>1. runs[i].start + remaining[i] <= pairs[k].openStart
      BY <2>1, <2>3 DEF Placed
    <3> HIDE DEF new, use
    <3>2. new.openStart + new.length = runs[i].start + remaining[i]
      BY <1>1, <1>3, <1>4
    <3> QED
      BY <3>1, <3>2
  <2>4. ASSUME pairs[k].close = closer
        PROVE  i <= pairs[k].open /\ pairs[k].closeStart + pairs[k].length <= new.closeStart
    <3>1. ~(pairs[k].open < i)
      BY <1>1, <1>2, <2>1, <2>4 DEF IInv, NothingLeftInside
    <3>2. pairs[k].closeStart + pairs[k].length <= runs[closer].start + closed[closer]
      BY <2>1, <2>4 DEF Placed
    <3>3. new.closeStart = runs[closer].start + closed[closer]
      BY <1>3
    <3>4. pairs[k].open \in Nat /\ i \in Nat
      BY <1>1, <2>1 DEF Run
    <3> HIDE DEF new, use
    <3>5. i <= pairs[k].open
      BY <3>1, <3>4
    <3> QED
      BY <3>2, <3>3, <3>5
  <2> QED
    BY <2>2, <2>3, <2>4
<1> HIDE DEF new, use, n
<1>8. /\ Len(pairs') = n + 1 /\ pairs'[n + 1] = new
      /\ \A k \in 1 .. n : pairs'[k] = pairs[k]
  BY <1>5, <1>6 DEF n
<1> SUFFICES ASSUME NEW k \in 1 .. n + 1, NEW l \in 1 .. n + 1, k < l
             PROVE  /\ pairs'[k].close <= pairs'[l].close
                    /\ pairs'[k].open = pairs'[l].open =>
                         pairs'[l].openStart + pairs'[l].length <= pairs'[k].openStart
                    /\ pairs'[k].close = pairs'[l].close =>
                         /\ pairs'[l].open <= pairs'[k].open
                         /\ pairs'[k].closeStart + pairs'[k].length <= pairs'[l].closeStart
  BY <1>8 DEF Sequenced
<1>9. CASE l = n + 1
  <2>1. k \in 1 .. n /\ pairs'[l] = new /\ pairs'[k] = pairs[k]
    BY <1>5, <1>8, <1>9
  <2> QED
    BY <1>3, <1>7, <2>1
<1>10. CASE l # n + 1
  <2>1. k \in 1 .. n /\ l \in 1 .. n
    BY <1>5, <1>10
  <2>2. pairs'[l] = pairs[l] /\ pairs'[k] = pairs[k]
    BY <1>8, <2>1
  <2> QED
    BY <2>1, <2>2 DEF Sequenced, n
<1> QED
  BY <1>9, <1>10

LEMMA NextCloserSettles ==
  ASSUME TypeOK, TypeOK', Settled, NextCloser
  PROVE  Settled'
<1>1. /\ runs' = runs /\ remaining' = remaining /\ pairs' = pairs /\ closer' = closer + 1
      /\ ~(closer > Len(runs)) /\ closer \in 1 .. Len(runs) + 1
      /\ ~runs[closer].canClose \/ remaining[closer] = 0 \/ ~HasOpener(closer)
  BY DEF NextCloser, Planned, TypeOK
<1>2. Run' = Run /\ Run \subseteq Nat /\ closer \in Run /\ Len(runs) \in Nat
  BY <1>1 DEF Run, TypeOK
<1> SUFFICES ASSUME NEW j \in Run, j < closer + 1, runs[j].canClose, remaining[j] > 0,
                    UsedAsOpener(j) = 0, NEW h \in 1 .. j - 1
             PROVE  ~CanPair(h, j)
  <2>1. \A j \in Run : UsedAsOpener(j)' = UsedAsOpener(j)
    BY <1>1, UsedStays
  <2>2. \A h, j : CanPair(h, j)' <=> CanPair(h, j)
    BY <1>1 DEF CanPair, OddMatch
  <2> QED
    BY <1>1, <1>2, <2>1, <2>2 DEF Settled
<1>3. CASE j < closer
  BY <1>3 DEF Settled
<1>4. CASE j = closer
  BY <1>1, <1>2, <1>4, NoOpenerNoPair
<1> QED
  BY <1>2, <1>3, <1>4

LEMMA StepPlanInv == ASSUME PlanInv, [Next]_vars PROVE PlanInv'
<1>1. IInv' /\ TypeOK /\ TypeOK' /\ IInv
  BY StepIInv DEF PlanInv, IInv
<1>2. ASSUME NEW i \in Run, PairUp(i) PROVE PlanInv'
  <2>1. RunsInOrder'
    BY <1>1, <1>2, RoundFacts DEF PlanInv, RunsInOrder
  <2>2. CharactersConserved'
    BY <1>1, <1>2, RoundConserves DEF PlanInv
  <2>3. Settled'
    BY <1>1, <1>2, RoundSettles DEF PlanInv
  <2>4. Placed'
    BY <1>1, <1>2, RoundPlaces DEF PlanInv
  <2>5. Sequenced'
    BY <1>1, <1>2, RoundSequences DEF PlanInv
  <2> QED
    BY <1>1, <2>1, <2>2, <2>3, <2>4, <2>5 DEF PlanInv
<1>3. ASSUME NextCloser PROVE PlanInv'
  <2>1. runs' = runs /\ remaining' = remaining /\ closed' = closed /\ pairs' = pairs
    BY <1>3 DEF NextCloser
  <2>2. Run' = Run /\ Pairs' = Pairs
    BY <2>1 DEF Run, Pairs
  <2>3. Settled'
    BY <1>1, <1>3, NextCloserSettles DEF PlanInv
  <2>4. CharactersConserved'
    BY <1>1, <2>1, <2>2, UsedStays DEF PlanInv, CharactersConserved
  <2>5. RunsInOrder' /\ Placed' /\ Sequenced'
    BY <2>1, <2>2 DEF PlanInv, RunsInOrder, Placed, Sequenced
  <2> QED
    BY <1>1, <2>3, <2>4, <2>5 DEF PlanInv
<1>4. ASSUME UNCHANGED vars PROVE PlanInv'
  <2>1. /\ runs' = runs /\ remaining' = remaining /\ closed' = closed /\ pairs' = pairs
        /\ closer' = closer
    BY <1>4 DEF vars
  <2>2. Run' = Run /\ Pairs' = Pairs
    BY <2>1 DEF Run, Pairs
  <2>3. \A k \in Run : UsedAsOpener(k)' = UsedAsOpener(k)
    BY <1>1, <2>1, UsedStays
  <2>4. Settled'
    <3>1. \A h, j : CanPair(h, j)' <=> CanPair(h, j)
      BY <2>1 DEF CanPair, OddMatch
    <3> QED
      BY <2>1, <2>2, <2>3, <3>1 DEF PlanInv, Settled
  <2>5. CharactersConserved'
    BY <2>1, <2>2, <2>3 DEF PlanInv, CharactersConserved
  <2>6. RunsInOrder' /\ Placed' /\ Sequenced'
    BY <2>1, <2>2 DEF PlanInv, RunsInOrder, Placed, Sequenced
  <2> QED
    BY <1>1, <2>4, <2>5, <2>6 DEF PlanInv
<1> QED
  BY <1>2, <1>3, <1>4 DEF Next

LEMMA PlanInvHolds == Spec => []PlanInv
<1>1. Init => PlanInv
  BY InitFresh, FreshPlanInv, EmphasisAssumption
<1>2. PlanInv /\ [Next]_vars => PlanInv'
  BY StepPlanInv
<1> QED
  BY <1>1, <1>2, PTL DEF Spec

(* In every text, what a run of delimiters gives to the spans it opens and *)
(* to those it closes is never more than the run has characters.           *)
THEOREM NothingIsSpentTwice == Spec => []CharactersConserved
<1>1. PlanInv => CharactersConserved
  BY DEF PlanInv
<1> QED
  BY <1>1, PlanInvHolds, PTL

(* In every text, the one pass from left to right leaves no closer behind  *)
(* that could still be paired with something before it, those that have    *)
(* opened emphasis themselves excepted.                                    *)
THEOREM OnePassIsEnough == Spec => []NothingLeftToPair
<1>1. PlanInv => NothingLeftToPair
  <2> SUFFICES ASSUME PlanInv, Planned, NEW j \in Run, runs[j].canClose, remaining[j] > 0,
                      UsedAsOpener(j) = 0, NEW i \in Run, IsOpener(i, j)
               PROVE  FALSE
    BY DEF NothingLeftToPair, HasOpener
  <2>1. j < closer
    BY RunsTyped DEF Planned, Run, PlanInv, IInv, TypeOK
  <2>2. i \in 1 .. j - 1 /\ CanPair(i, j)
    BY DEF IsOpener
  <2> QED
    BY <2>1, <2>2 DEF PlanInv, Settled
<1> QED
  BY <1>1, PlanInvHolds, PTL

(* A pair's bytes lie within its runs.                                     *)
RunStart(r) == runs[r].start
RunEnd(r)   == runs[r].start + runs[r].length

LEMMA PairBytes ==
  ASSUME PlanInv, NEW p \in Pairs
  PROVE  /\ p.open \in Run /\ p.close \in Run /\ p.open \in Nat /\ p.close \in Nat
         /\ p.open < p.close
         /\ p.openStart \in Int /\ p.closeStart \in Int /\ p.length \in {1, 2}
         /\ RunStart(p.open) <= p.openStart /\ p.openStart + p.length <= RunEnd(p.open)
         /\ RunStart(p.close) <= p.closeStart /\ p.closeStart + p.length <= RunEnd(p.close)
<1>1. p \in PairType
  BY PairsTyped DEF PlanInv, IInv
<1>2. /\ p.open \in Run /\ p.close \in Run /\ p.openStart \in Int /\ p.closeStart \in Int
      /\ p.length \in {1, 2}
  BY <1>1 DEF PairType
<1>3. p.open \in Nat /\ p.close \in Nat /\ p.open < p.close
  BY <1>2, RunsTyped DEF PlanInv, IInv, Ordered
<1>4. /\ runs[p.open].start + remaining[p.open] <= p.openStart
      /\ p.openStart + p.length <= runs[p.open].start + runs[p.open].length
      /\ runs[p.close].start <= p.closeStart
      /\ p.closeStart + p.length <= runs[p.close].start + closed[p.close]
  BY DEF PlanInv, Placed
<1>5. remaining[p.open] \in Nat /\ remaining[p.close] \in Nat /\ closed[p.close] \in Nat
  BY <1>2 DEF PlanInv, IInv, TypeOK
<1>6. /\ runs[p.open].start \in Nat /\ runs[p.open].length \in Nat
      /\ runs[p.close].start \in Nat /\ runs[p.close].length \in Nat
  BY <1>2, RunsTyped DEF PlanInv, IInv
<1>7. /\ UsedAsOpener(p.close) \in Nat
      /\ UsedAsOpener(p.close) + closed[p.close] + remaining[p.close] <= runs[p.close].length
  BY <1>2, UsedIsNat DEF PlanInv, IInv, CharactersConserved
<1>8. closed[p.close] <= runs[p.close].length
  BY <1>5, <1>6, <1>7
<1>9. /\ runs[p.open].start <= p.openStart
      /\ p.closeStart + p.length <= runs[p.close].start + runs[p.close].length
  BY <1>2, <1>4, <1>5, <1>6, <1>8
<1> QED
  BY <1>2, <1>3, <1>4, <1>9 DEF RunStart, RunEnd

LEMMA RunBytes ==
  ASSUME PlanInv
  PROVE  /\ \A r \in Run : RunStart(r) \in Int /\ RunEnd(r) \in Int
         /\ \A r, t \in Run : r < t => RunEnd(r) <= RunStart(t)
<1>1. \A r \in Run : RunStart(r) \in Int /\ RunEnd(r) \in Int
  BY RunsTyped DEF PlanInv, IInv, RunStart, RunEnd
<1> QED
  BY <1>1 DEF PlanInv, RunsInOrder, RunStart, RunEnd

(* The order of two planned pairs, byte for byte: the earlier one lies     *)
(* inside the later one or before it.                                      *)
LEMMA EarlierIsInner ==
  ASSUME PlanInv, NEW k \in 1 .. Len(pairs), NEW l \in 1 .. Len(pairs), k < l,
         ~ReopenedRun(pairs[l])
  PROVE  \/ pairs[k].closeStart + pairs[k].length <= pairs[l].openStart
         \/ /\ pairs[l].openStart + pairs[l].length <= pairs[k].openStart
            /\ pairs[k].closeStart + pairs[k].length <= pairs[l].closeStart
<1> DEFINE p == pairs[k]
           q == pairs[l]
<1>1. /\ p \in Pairs /\ q \in Pairs /\ p \in PairType /\ q \in PairType
  BY PairsAreSeq DEF PlanInv, IInv
<1>2. /\ p.close <= q.close
      /\ p.open = q.open => q.openStart + q.length <= p.openStart
      /\ p.close = q.close => q.open <= p.open /\ p.closeStart + p.length <= q.closeStart
  BY DEF PlanInv, Sequenced
<1> HIDE DEF p, q
<1>3. /\ p.open \in Run /\ p.close \in Run /\ p.open \in Nat /\ p.close \in Nat
      /\ p.open < p.close
      /\ p.openStart \in Int /\ p.closeStart \in Int /\ p.length \in {1, 2}
      /\ RunStart(p.open) <= p.openStart /\ p.openStart + p.length <= RunEnd(p.open)
      /\ RunStart(p.close) <= p.closeStart /\ p.closeStart + p.length <= RunEnd(p.close)
  BY <1>1, PairBytes
<1>5. /\ q.open \in Run /\ q.close \in Run /\ q.open \in Nat /\ q.close \in Nat
      /\ q.open < q.close
      /\ q.openStart \in Int /\ q.closeStart \in Int /\ q.length \in {1, 2}
      /\ RunStart(q.open) <= q.openStart /\ q.openStart + q.length <= RunEnd(q.open)
      /\ RunStart(q.close) <= q.closeStart /\ q.closeStart + q.length <= RunEnd(q.close)
  BY <1>1, PairBytes
<1>4. q.open # p.close
  BY <1>1 DEF ReopenedRun, q
<1>6. ~(p.open < q.open /\ q.open < p.close /\ p.close < q.close)
  BY <1>1 DEF PlanInv, IInv, PairsDoNotCross
<1>7. /\ \A r \in Run : RunStart(r) \in Int /\ RunEnd(r) \in Int
      /\ \A r, t \in Run : r < t => RunEnd(r) <= RunStart(t)
  BY RunBytes
<1>8. CASE p.close < q.open
  <2>1. RunEnd(p.close) <= RunStart(q.open)
    BY <1>3, <1>5, <1>7, <1>8
  <2>2. RunEnd(p.close) \in Int /\ RunStart(q.open) \in Int
    BY <1>3, <1>5, <1>7
  <2>3. p.closeStart + p.length <= q.openStart
    BY <1>3, <1>5, <2>1, <2>2
  <2> QED
    BY <2>3 DEF p, q
<1>9. CASE q.open < p.close
  <2>1. q.open <= p.open
    BY <1>2, <1>3, <1>5, <1>6, <1>9
  <2>2. q.openStart + q.length <= p.openStart
    <3>1. CASE q.open = p.open
      BY <1>2, <3>1
    <3>2. CASE q.open # p.open
      <4>0. q.open < p.open
        BY <1>3, <1>5, <2>1, <3>2
      <4>1. RunEnd(q.open) <= RunStart(p.open)
        BY <1>3, <1>5, <1>7, <4>0
      <4>2. RunEnd(q.open) \in Int /\ RunStart(p.open) \in Int
        BY <1>3, <1>5, <1>7
      <4> QED
        BY <1>3, <1>5, <4>1, <4>2
    <3> QED
      BY <3>1, <3>2
  <2>3. p.closeStart + p.length <= q.closeStart
    <3>1. CASE q.close = p.close
      BY <1>2, <3>1
    <3>2. CASE q.close # p.close
      <4>0. p.close < q.close
        BY <1>2, <1>3, <1>5, <3>2
      <4>1. RunEnd(p.close) <= RunStart(q.close)
        BY <1>3, <1>5, <1>7, <4>0
      <4>2. RunEnd(p.close) \in Int /\ RunStart(q.close) \in Int
        BY <1>3, <1>5, <1>7
      <4> QED
        BY <1>3, <1>5, <4>1, <4>2
    <3> QED
      BY <3>1, <3>2
  <2> QED
    BY <2>2, <2>3 DEF p, q
<1> QED
  BY <1>3, <1>4, <1>5, <1>8, <1>9

(* In every text, byte for byte, one emphasis span lies within another or  *)
(* beside it, as long as neither was opened by a run that had closed one   *)
(* before.                                                                 *)
THEOREM SpansNestByteForByte == Spec => []SpansNestUnlessReopened
<1>1. PlanInv => SpansNestUnlessReopened
  <2> SUFFICES ASSUME PlanInv,
                      NEW p \in Pairs, ~ReopenedRun(p), NEW q \in Pairs, ~ReopenedRun(q), p # q
               PROVE  \/ Extent(p) \cap Extent(q) = {}
                      \/ Extent(p) \subseteq Inside(q)
                      \/ Extent(q) \subseteq Inside(p)
    BY DEF SpansNestUnlessReopened, SpansNestOrDisjoint
  <2>1. ASSUME NEW r \in Pairs
        PROVE  r.openStart \in Int /\ r.closeStart \in Int /\ r.length \in {1, 2}
    BY PairBytes
  <2>2. ASSUME NEW r \in Pairs, NEW t \in Pairs, r.closeStart + r.length <= t.openStart
        PROVE  Extent(r) \cap Extent(t) = {}
    BY <2>1, <2>2 DEF Extent
  <2>3. ASSUME NEW r \in Pairs, NEW t \in Pairs, t.openStart + t.length <= r.openStart,
               r.closeStart + r.length <= t.closeStart
        PROVE  Extent(r) \subseteq Inside(t)
    BY <2>1, <2>3 DEF Extent, Inside
  <2>4. Len(pairs) \in Nat
    BY PairsAreSeq DEF PlanInv, IInv
  <2>5. PICK k \in 1 .. Len(pairs), l \in 1 .. Len(pairs) : p = pairs[k] /\ q = pairs[l]
    BY DEF Pairs
  <2>6. CASE k < l
    BY <2>2, <2>3, <2>5, <2>6, EarlierIsInner
  <2>7. CASE l < k
    BY <2>2, <2>3, <2>5, <2>7, EarlierIsInner
  <2> QED
    BY <2>4, <2>5, <2>6, <2>7
<1> QED
  BY <1>1, PlanInvHolds, PTL

-----------------------------------------------------------------------------
(* Looking the finished plan up.  A cut of a stretch of a sorted slice is  *)
(* where its pairs stop opening before the position that is looked for.    *)
IsCut(s, position, low, high, m) ==
  /\ m \in low .. high
  /\ \A i \in low .. m - 1 : s[i + 1].openStart < position
  /\ \A i \in m .. high - 1 : s[i + 1].openStart >= position

Starts(s) ==
  /\ Len(s) \in Nat
  /\ \A i \in 1 .. Len(s) : s[i].openStart \in Int
  /\ \A i, j \in 1 .. Len(s) : i < j => s[i].openStart < s[j].openStart

LEMMA CutExists ==
  ASSUME NEW s, Starts(s), NEW position \in Int,
         NEW low \in 0 .. Len(s), NEW high \in 0 .. Len(s), low <= high
  PROVE  \E m \in low .. high : IsCut(s, position, low, high, m)
<1> DEFINE at(i) == s[i].openStart
           n == Len(s)
           Passed == {m \in low .. high : \A i \in low .. m - 1 : at(i + 1) < position}
<1>1. /\ n \in Nat /\ \A i \in 1 .. n : at(i) \in Int
      /\ \A i, j \in 1 .. n : i < j => at(i) < at(j)
  BY DEF Starts
<1>2. low \in 0 .. n /\ high \in 0 .. n
  OBVIOUS
<1>3. ASSUME NEW m \in low .. high, \A i \in low .. m - 1 : at(i + 1) < position,
             \A i \in m .. high - 1 : at(i + 1) >= position
      PROVE  IsCut(s, position, low, high, m)
  BY <1>3 DEF IsCut
<1> HIDE DEF at, n
<1>4. low \in Passed /\ Passed \in SUBSET Nat /\ \A m \in Passed : m <= high
  BY <1>1, <1>2
<1>5. PICK m \in Passed : \A k \in Passed : k <= m
  <2> HIDE DEF Passed
  <2>1. Passed \in SUBSET Nat /\ Passed # {} /\ high \in Nat
    BY <1>1, <1>2, <1>4
  <2> QED
    BY <1>4, <2>1, LargestExists
<1>6. \A i \in m .. high - 1 : at(i + 1) >= position
  <2>1. CASE m = high
    BY <1>1, <1>2, <2>1
  <2>2. CASE m # high
    <3>1. m \in low .. high - 1 /\ m + 1 \in 1 .. n /\ m + 1 \in low .. high
      BY <1>1, <1>2, <1>5, <2>2
    <3>2. m + 1 \notin Passed
      BY <1>1, <1>2, <1>5, <3>1
    <3>3. at(m + 1) >= position
      <4>1. PICK i \in low .. m : ~(at(i + 1) < position)
        BY <1>1, <1>2, <3>1, <3>2
      <4>2. ~(i < m)
        BY <1>1, <1>2, <1>5, <3>1, <4>1
      <4>3. i = m
        BY <1>1, <1>2, <3>1, <4>1, <4>2
      <4> QED
        BY <1>1, <3>1, <4>1, <4>3
    <3> QED
      <4> TAKE i \in m .. high - 1
      <4>1. i + 1 \in 1 .. n /\ (i = m \/ m + 1 < i + 1)
        BY <1>1, <1>2, <3>1
      <4>2. CASE i = m
        BY <3>3, <4>2
      <4>3. CASE m + 1 < i + 1
        <5>1. at(m + 1) < at(i + 1) /\ at(m + 1) \in Int /\ at(i + 1) \in Int
          BY <1>1, <3>1, <4>1, <4>3
        <5> QED
          BY <3>3, <5>1
      <4> QED
        BY <4>1, <4>2, <4>3
  <2> QED
    BY <2>1, <2>2
<1> QED
  BY <1>3, <1>5, <1>6

(* Looking at the middle of a stretch tells in which half its cut is.      *)
LEMMA CutHalves ==
  ASSUME NEW s, Starts(s), NEW position \in Int,
         NEW low \in 0 .. Len(s), NEW high \in 0 .. Len(s), low < high,
         NEW middle, middle = (low + high) \div 2, NEW m
  PROVE  /\ middle \in low .. high - 1
         /\ s[middle + 1].openStart < position =>
              (IsCut(s, position, middle + 1, high, m) => IsCut(s, position, low, high, m))
         /\ s[middle + 1].openStart >= position =>
              (IsCut(s, position, low, middle, m) => IsCut(s, position, low, high, m))
<1> DEFINE at(i) == s[i].openStart
           n == Len(s)
<1>1. /\ n \in Nat /\ \A i \in 1 .. n : at(i) \in Int
      /\ \A i, j \in 1 .. n : i < j => at(i) < at(j)
  BY DEF Starts
<1>2. low \in 0 .. n /\ high \in 0 .. n
  OBVIOUS
<1>3. middle \in low .. high - 1 /\ middle + 1 \in 1 .. n
  BY <1>1, <1>2
<1>4. ASSUME NEW a, NEW b
      PROVE  IsCut(s, position, a, b, m) <=> /\ m \in a .. b
                                             /\ \A i \in a .. m - 1 : at(i + 1) < position
                                             /\ \A i \in m .. b - 1 : at(i + 1) >= position
  BY DEF IsCut
<1> HIDE DEF at, n
<1>5. ASSUME at(middle + 1) < position, IsCut(s, position, middle + 1, high, m)
      PROVE  IsCut(s, position, low, high, m)
  <2>1. m \in low .. high /\ \A i \in m .. high - 1 : at(i + 1) >= position
    BY <1>2, <1>3, <1>4, <1>5
  <2>2. ASSUME NEW i \in low .. m - 1 PROVE at(i + 1) < position
    <3>1. i + 1 \in 1 .. n
      BY <1>1, <1>2, <2>1
    <3>2. CASE i >= middle + 1
      BY <1>3, <1>4, <1>5, <3>2
    <3>3. CASE i = middle
      BY <1>5, <3>3
    <3>4. CASE i < middle
      <4>1. at(i + 1) < at(middle + 1) /\ at(i + 1) \in Int /\ at(middle + 1) \in Int
        BY <1>1, <1>3, <3>1, <3>4
      <4> QED
        BY <1>5, <4>1
    <3> QED
      BY <1>3, <3>2, <3>3, <3>4
  <2> QED
    BY <1>4, <2>1, <2>2
<1>6. ASSUME at(middle + 1) >= position, IsCut(s, position, low, middle, m)
      PROVE  IsCut(s, position, low, high, m)
  <2>1. /\ m \in low .. middle /\ m \in low .. high
        /\ \A i \in low .. m - 1 : at(i + 1) < position
        /\ \A i \in m .. middle - 1 : at(i + 1) >= position
    BY <1>2, <1>3, <1>4, <1>6
  <2>2. ASSUME NEW i \in m .. high - 1 PROVE at(i + 1) >= position
    <3>1. i + 1 \in 1 .. n
      BY <1>1, <1>2, <2>1
    <3>2. CASE i < middle
      BY <1>1, <1>2, <1>3, <2>1, <3>2
    <3>3. CASE i = middle
      BY <1>6, <3>3
    <3>4. CASE i > middle
      <4>1. at(middle + 1) < at(i + 1) /\ at(i + 1) \in Int /\ at(middle + 1) \in Int
        BY <1>1, <1>3, <3>1, <3>4
      <4> QED
        BY <1>6, <4>1
    <3> QED
      BY <1>3, <3>2, <3>3, <3>4
  <2> QED
    BY <1>4, <2>1, <2>2
<1> QED
  BY <1>3, <1>5, <1>6 DEF at

Ranges(s) == (0 .. Len(s)) \X (0 .. Len(s))

SearchStep(f, s, position, low, high) ==
  IF low >= high THEN low
  ELSE IF s[((low + high) \div 2) + 1].openStart < position
       THEN f[<<((low + high) \div 2) + 1, high>>]
       ELSE f[<<low, (low + high) \div 2>>]

IsSearch(f, s, position) ==
  f = [range \in Ranges(s) |-> SearchStep(f, s, position, range[1], range[2])]

(* Any function that halves its stretch as LowerBound does finds the cut.  *)
LEMMA SearchCuts ==
  ASSUME NEW s, Starts(s), NEW position \in Int, NEW f, IsSearch(f, s, position)
  PROVE  \A low, high \in 0 .. Len(s) :
           low <= high => IsCut(s, position, low, high, f[<<low, high>>])
<1> DEFINE n == Len(s)
           Good == {d \in Nat : \A low, high \in 0 .. n :
                      low <= high /\ high - low = d =>
                        IsCut(s, position, low, high, f[<<low, high>>])}
<1>1. n \in Nat
  BY DEF Starts
<1>2. \A low, high \in 0 .. n : f[<<low, high>>] = SearchStep(f, s, position, low, high)
  BY DEF IsSearch, Ranges
<1>3. ASSUME NEW d \in Nat, \A e \in 0 .. d - 1 : e \in Good PROVE d \in Good
  <2> SUFFICES ASSUME NEW low \in 0 .. n, NEW high \in 0 .. n, low <= high, high - low = d
               PROVE  IsCut(s, position, low, high, f[<<low, high>>])
    OBVIOUS
  <2>1. CASE low = high
    <3>1. f[<<low, high>>] = low
      BY <1>1, <1>2, <2>1 DEF SearchStep
    <3> QED
      BY <1>1, <2>1, <3>1 DEF IsCut
  <2>2. CASE low < high
    <3> DEFINE middle == (low + high) \div 2
    <3>1. middle \in low .. high - 1
      BY <1>1, <2>2
    <3>2. f[<<low, high>>] = IF s[middle + 1].openStart < position
                             THEN f[<<middle + 1, high>>] ELSE f[<<low, middle>>]
      BY <1>1, <1>2, <2>2 DEF SearchStep
    <3>3. /\ middle + 1 \in 0 .. n /\ middle + 1 <= high /\ high - (middle + 1) \in 0 .. d - 1
          /\ middle \in 0 .. n /\ low <= middle /\ middle - low \in 0 .. d - 1
          /\ middle + 1 \in 1 .. n
      BY <1>1, <2>2, <3>1
    <3>4. s[middle + 1].openStart \in Int
      BY <3>3 DEF Starts
    <3> HIDE DEF Good
    <3>5. IsCut(s, position, middle + 1, high, f[<<middle + 1, high>>])
      <4>1. high - (middle + 1) \in Good
        BY <1>3, <3>3
      <4> HIDE DEF middle
      <4> QED
        BY <3>3, <4>1 DEF Good
    <3>6. IsCut(s, position, low, middle, f[<<low, middle>>])
      <4>1. middle - low \in Good
        BY <1>3, <3>3
      <4> HIDE DEF middle
      <4> QED
        BY <3>3, <4>1 DEF Good
    <3>7. CASE s[middle + 1].openStart < position
      <4>1. f[<<low, high>>] = f[<<middle + 1, high>>]
        BY <3>2, <3>7
      <4>2. \A m : IsCut(s, position, middle + 1, high, m) => IsCut(s, position, low, high, m)
        BY <2>2, <3>7, CutHalves
      <4> QED
        BY <3>5, <4>1, <4>2
    <3>8. CASE ~(s[middle + 1].openStart < position)
      <4>1. f[<<low, high>>] = f[<<low, middle>>] /\ s[middle + 1].openStart >= position
        BY <3>2, <3>4, <3>8
      <4>2. \A m : IsCut(s, position, low, middle, m) => IsCut(s, position, low, high, m)
        BY <2>2, <4>1, CutHalves
      <4> QED
        BY <3>6, <4>1, <4>2
    <3> QED
      BY <3>7, <3>8
  <2> QED
    BY <1>1, <2>1, <2>2
<1>4. Nat \subseteq Good
  <2> HIDE DEF Good
  <2> QED
    BY <1>3, StrongInduction
<1> SUFFICES ASSUME NEW low \in 0 .. n, NEW high \in 0 .. n, low <= high
             PROVE  IsCut(s, position, low, high, f[<<low, high>>])
  OBVIOUS
<1>5. high - low \in Good
  <2>1. high - low \in Nat
    BY <1>1
  <2> HIDE DEF Good
  <2> QED
    BY <1>4, <2>1
<1> QED
  BY <1>5

(* A stretch has one cut only.                                             *)
LEMMA CutIsUnique ==
  ASSUME NEW s, Starts(s), NEW position \in Int,
         NEW low \in 0 .. Len(s), NEW high \in 0 .. Len(s),
         NEW a, IsCut(s, position, low, high, a), NEW b, IsCut(s, position, low, high, b)
  PROVE  a = b
<1> DEFINE at(i) == s[i].openStart
           n == Len(s)
<1>1. n \in Nat /\ \A i \in 1 .. n : at(i) \in Int
  BY DEF Starts
<1>2. ASSUME NEW m, IsCut(s, position, low, high, m)
      PROVE  /\ m \in low .. high
             /\ \A i \in low .. m - 1 : at(i + 1) < position
             /\ \A i \in m .. high - 1 : at(i + 1) >= position
  BY <1>2 DEF IsCut
<1>3. low \in 0 .. n /\ high \in 0 .. n
  OBVIOUS
<1> HIDE DEF at, n
<1>4. ASSUME NEW x, IsCut(s, position, low, high, x), NEW y, IsCut(s, position, low, high, y)
      PROVE  ~(x < y)
  <2> SUFFICES ASSUME x < y PROVE FALSE
    OBVIOUS
  <2>1. x \in low .. high /\ y \in low .. high
    BY <1>2, <1>4
  <2>2. x \in low .. y - 1 /\ x \in x .. high - 1 /\ x + 1 \in 1 .. n
    BY <1>1, <1>3, <2>1
  <2>3. at(x + 1) < position /\ at(x + 1) >= position
    BY <1>2, <1>4, <2>2
  <2> QED
    BY <1>1, <2>2, <2>3
<1>5. a \in low .. high /\ b \in low .. high
  BY <1>2
<1> QED
  BY <1>1, <1>3, <1>4, <1>5

(* There is such a function: the one that names every stretch's cut.       *)
LEMMA SearchExists ==
  ASSUME NEW s, Starts(s), NEW position \in Int
  PROVE  \E f : IsSearch(f, s, position)
<1> DEFINE n == Len(s)
           Cut(low, high) == CHOOSE m \in low .. high : IsCut(s, position, low, high, m)
           f == [range \in Ranges(s) |->
                   IF range[1] >= range[2] THEN range[1] ELSE Cut(range[1], range[2])]
<1>1. n \in Nat
  BY DEF Starts
<1> HIDE DEF Cut
<1>2. \A low, high \in 0 .. n : f[<<low, high>>] = IF low >= high THEN low ELSE Cut(low, high)
  BY DEF Ranges
<1>3. ASSUME NEW low \in 0 .. n, NEW high \in 0 .. n, low <= high
      PROVE  IsCut(s, position, low, high, f[<<low, high>>])
  <2>1. CASE low = high
    <3>1. f[<<low, high>>] = low
      BY <1>1, <1>2, <2>1
    <3> HIDE DEF f
    <3> QED
      BY <1>1, <2>1, <3>1 DEF IsCut
  <2>2. CASE low < high
    <3>1. f[<<low, high>>] = Cut(low, high)
      BY <1>1, <1>2, <2>2
    <3>2. IsCut(s, position, low, high, Cut(low, high))
      BY <1>3, CutExists DEF Cut
    <3> QED
      BY <3>1, <3>2
  <2> QED
    BY <1>1, <1>3, <2>1, <2>2
<1> HIDE DEF f
<1>4. ASSUME NEW low \in 0 .. n, NEW high \in 0 .. n
      PROVE  f[<<low, high>>] = SearchStep(f, s, position, low, high)
  <2>1. CASE low >= high
    BY <1>2, <2>1 DEF SearchStep
  <2>2. CASE low < high
    <3> DEFINE middle == (low + high) \div 2
    <3>1. middle \in low .. high - 1 /\ middle \in 0 .. n /\ middle + 1 \in 0 .. n
          /\ middle + 1 <= high /\ middle + 1 \in 1 .. n
      BY <1>1, <2>2
    <3>2. s[middle + 1].openStart \in Int
      BY <3>1 DEF Starts
    <3>3. SearchStep(f, s, position, low, high) =
            IF s[middle + 1].openStart < position
            THEN f[<<middle + 1, high>>] ELSE f[<<low, middle>>]
      BY <1>1, <2>2 DEF SearchStep
    <3>4. middle = (low + high) \div 2
      OBVIOUS
    <3> HIDE DEF middle
    <3>5. IsCut(s, position, low, high, f[<<low, high>>])
      BY <1>1, <1>3, <2>2
    <3>6. CASE s[middle + 1].openStart < position
      <4>1. IsCut(s, position, middle + 1, high, f[<<middle + 1, high>>])
        BY <1>3, <3>1
      <4>2. IsCut(s, position, low, high, f[<<middle + 1, high>>])
        BY <2>2, <3>4, <3>6, <4>1, CutHalves
      <4>3. f[<<low, high>>] = f[<<middle + 1, high>>]
        BY <3>5, <4>2, CutIsUnique
      <4> QED
        BY <3>3, <3>6, <4>3
    <3>7. CASE ~(s[middle + 1].openStart < position)
      <4>1. IsCut(s, position, low, middle, f[<<low, middle>>])
        BY <1>3, <3>1
      <4>2. s[middle + 1].openStart >= position
        BY <3>2, <3>7
      <4>3. IsCut(s, position, low, high, f[<<low, middle>>])
        BY <2>2, <3>4, <4>1, <4>2, CutHalves
      <4>4. f[<<low, high>>] = f[<<low, middle>>]
        BY <3>5, <4>3, CutIsUnique
      <4> QED
        BY <3>3, <3>7, <4>4
    <3> QED
      BY <3>6, <3>7
  <2> QED
    BY <1>1, <2>1, <2>2
<1>5. f = [range \in Ranges(s) |-> f[range]]
  BY DEF f
<1>6. \A range \in Ranges(s) : f[range] = SearchStep(f, s, position, range[1], range[2])
  BY <1>4 DEF Ranges
<1>7. IsSearch(f, s, position)
  BY <1>5, <1>6 DEF IsSearch
<1> QED
  BY <1>7

LEMMA LowerBoundCuts ==
  ASSUME NEW s, Starts(s), NEW position \in Int
  PROVE  IsCut(s, position, 0, Len(s), LowerBound(s, position))
<1>1. LowerBound(s, position) = (CHOOSE f : IsSearch(f, s, position))[<<0, Len(s)>>]
  BY DEF LowerBound, IsSearch, SearchStep, Ranges
<1>2. IsSearch(CHOOSE f : IsSearch(f, s, position), s, position)
  BY SearchExists
<1>3. 0 \in 0 .. Len(s) /\ Len(s) \in 0 .. Len(s) /\ 0 <= Len(s)
  BY DEF Starts
<1> DEFINE f == CHOOSE f : IsSearch(f, s, position)
<1> HIDE DEF f
<1>4. IsSearch(f, s, position)
  BY <1>2 DEF f
<1>5. IsCut(s, position, 0, Len(s), f[<<0, Len(s)>>])
  BY <1>3, <1>4, SearchCuts
<1> QED
  BY <1>1, <1>5 DEF f

(* The plans looked up, whatever runs they were made of: no two pairs open *)
(* at the same byte.                                                       *)
PairRecord == [open : Nat, close : Nat, openStart : Int, closeStart : Nat, length : {1, 2}]

Distinct(plan) ==
  /\ Len(plan) \in Nat /\ DOMAIN plan = 1 .. Len(plan) /\ plan \in Seq(PairRecord)
  /\ \A k \in DOMAIN plan : plan[k].openStart \in Int
  /\ \A k, l \in DOMAIN plan : k # l => plan[k].openStart # plan[l].openStart

LEMMA PlanIsDistinct == ASSUME PlanInv PROVE Distinct(pairs)
<1>1. /\ pairs \in Seq(PairType) /\ Len(pairs) \in Nat
      /\ \A k \in 1 .. Len(pairs) : pairs[k] \in Pairs
  BY PairsAreSeq DEF PlanInv, IInv
<1>2. DOMAIN pairs = 1 .. Len(pairs)
  BY <1>1
<1>3. \A k \in 1 .. Len(pairs) : pairs[k].openStart \in Int /\ pairs[k].length \in {1, 2}
  BY <1>1, PairBytes
<1>4. ASSUME NEW k \in 1 .. Len(pairs), NEW l \in 1 .. Len(pairs), k < l
      PROVE  pairs[k].openStart # pairs[l].openStart
  <2> DEFINE p == pairs[k]
             q == pairs[l]
  <2>1. p.open = q.open => q.openStart + q.length <= p.openStart
    BY <1>4 DEF PlanInv, Sequenced
  <2>2. p \in Pairs /\ q \in Pairs
    BY <1>1
  <2> HIDE DEF p, q
  <2>3. /\ p.open \in Run /\ p.open \in Nat /\ p.openStart \in Int /\ p.length \in {1, 2}
        /\ RunStart(p.open) <= p.openStart /\ p.openStart + p.length <= RunEnd(p.open)
    BY <2>2, PairBytes
  <2>4. /\ q.open \in Run /\ q.open \in Nat /\ q.openStart \in Int /\ q.length \in {1, 2}
        /\ RunStart(q.open) <= q.openStart /\ q.openStart + q.length <= RunEnd(q.open)
    BY <2>2, PairBytes
  <2>5. /\ RunStart(p.open) \in Int /\ RunEnd(p.open) \in Int
        /\ RunStart(q.open) \in Int /\ RunEnd(q.open) \in Int
        /\ p.open < q.open => RunEnd(p.open) <= RunStart(q.open)
        /\ q.open < p.open => RunEnd(q.open) <= RunStart(p.open)
    BY <2>3, <2>4, RunBytes
  <2>6. p.openStart # q.openStart
    <3>1. CASE p.open = q.open
      BY <2>1, <2>3, <2>4, <3>1
    <3>2. CASE p.open < q.open
      BY <2>3, <2>4, <2>5, <3>2
    <3>3. CASE q.open < p.open
      BY <2>3, <2>4, <2>5, <3>3
    <3> QED
      BY <2>3, <2>4, <3>1, <3>2, <3>3
  <2> QED
    BY <2>6 DEF p, q
<1>5. \A k, l \in 1 .. Len(pairs) : k # l => k < l \/ l < k
  BY <1>1
<1>6. pairs \in Seq(PairRecord)
  <2>1. PairType \subseteq PairRecord
    BY RunsTyped DEF PlanInv, IInv, PairType, PairRecord
  <2> QED
    BY <1>1, <2>1
<1> QED
  BY <1>1, <1>2, <1>3, <1>4, <1>5, <1>6 DEF Distinct

(* Every pair has a place of its own behind the sorting, in the order asked. *)
LEMMA SortingSorts ==
  ASSUME NEW plan, Distinct(plan)
  PROVE  /\ Starts(Sorted(plan)) /\ Len(Sorted(plan)) = Len(plan)
         /\ \A m \in DOMAIN plan : \E k \in DOMAIN plan : Sorted(plan)[m] = plan[k]
         /\ \A k \in DOMAIN plan : \E m \in DOMAIN plan : Sorted(plan)[m] = plan[k]
<1> DEFINE n == Len(plan)
           D == DOMAIN plan
           before == {x \in D \X D : OpensBefore(plan, x[1], x[2])}
           Slot(m) == CHOOSE k \in D : Place(plan, k) = m - 1
<1>1. /\ n \in Nat /\ D = 1 .. n /\ \A k \in D : plan[k].openStart \in Int /\ plan[k] \in PairRecord
      /\ \A k, l \in D : k # l => plan[k].openStart # plan[l].openStart
  <2>1. n \in Nat /\ D = 1 .. n /\ plan \in Seq(PairRecord)
    BY DEF Distinct
  <2>2. \A k \in D : plan[k] \in PairRecord
    BY <2>1, SeqElement
  <2> QED
    BY <2>1, <2>2 DEF Distinct
<1>2. \A l, k \in D : <<l, k>> \in before <=> OpensBefore(plan, l, k)
  OBVIOUS
<1>3. \A l, k \in D : OpensBefore(plan, l, k) <=> plan[l].openStart < plan[k].openStart
  <2> TAKE l, k \in D
  <2>1. CASE l = k
    BY <1>1, <2>1 DEF OpensBefore
  <2>2. CASE l # k
    BY <1>1, <2>2 DEF OpensBefore
  <2> QED
    BY <2>1, <2>2
<1>4. IsFiniteSet(D) /\ Cardinality(D) = n
  <2>1. n \in Nat /\ D = 1 .. n
    BY <1>1
  <2> HIDE DEF n, D
  <2>2. IsFiniteSet(1 .. n) /\ Cardinality(1 .. n) = IF 1 > n THEN 0 ELSE n - 1 + 1
    BY <2>1, FS_Interval
  <2> QED
    BY <2>1, <2>2
<1>5. before \in SUBSET (D \X D)
  OBVIOUS
<1>6. \A k \in D : Place(plan, k) = RankIn(D, before, k)
  <2> TAKE k \in D
  <2>1. {l \in DOMAIN plan : OpensBefore(plan, l, k)} = {l \in D : <<l, k>> \in before}
    BY <1>2
  <2> QED
    BY <2>1 DEF Place, RankIn
<1> HIDE DEF before, D, n
<1>7. TotalOrder(D, before)
  <2>1. \A k, l \in D : <<k, l>> \in before <=> plan[k].openStart < plan[l].openStart
    BY <1>2, <1>3
  <2>2. \A k, l \in D : k # l => <<k, l>> \in before \/ <<l, k>> \in before
    BY <1>1, <2>1
  <2>3. \A k, l, m \in D : <<k, l>> \in before /\ <<l, m>> \in before => <<k, m>> \in before
    BY <1>1, <2>1
  <2>4. \A k \in D : <<k, k>> \notin before
    BY <1>1, <2>1
  <2> QED
    BY <1>5, <2>2, <2>3, <2>4 DEF TotalOrder
<1>8. \A k, l \in D : /\ Place(plan, k) \in 0 .. n - 1
                      /\ OpensBefore(plan, l, k) <=> Place(plan, l) < Place(plan, k)
  BY <1>2, <1>4, <1>6, <1>7, RanksGrow
<1>9. \A m \in D : Slot(m) \in D /\ Place(plan, Slot(m)) = m - 1
  <2> TAKE m \in D
  <2>1. m - 1 \in 0 .. Cardinality(D) - 1
    BY <1>1, <1>4
  <2>2. \E k \in D : RankIn(D, before, k) = m - 1
    BY <1>4, <1>7, <2>1, EveryRankIsTaken
  <2>3. \E k \in D : Place(plan, k) = m - 1
    BY <1>6, <2>2
  <2> QED
    BY <2>3
<1>10. Sorted(plan) = [m \in D |-> plan[Slot(m)]]
  BY DEF Sorted, D
<1> HIDE DEF Slot
<1>11. Sorted(plan) \in Seq(PairRecord) /\ Len(Sorted(plan)) = n /\ \A m \in D : Sorted(plan)[m] = plan[Slot(m)]
  <2>1. \A m \in D : plan[Slot(m)] \in PairRecord
    BY <1>1, <1>9
  <2>2. Sorted(plan) \in [1 .. n -> PairRecord]
    BY <1>1, <1>10, <2>1
  <2>3. Sorted(plan) \in Seq(PairRecord) /\ Len(Sorted(plan)) = n
    BY <1>1, <2>2
  <2> QED
    BY <1>10, <2>3
<1>12. \A i, j \in D : i < j => Sorted(plan)[i].openStart < Sorted(plan)[j].openStart
  <2> SUFFICES ASSUME NEW i \in D, NEW j \in D, i < j
               PROVE  plan[Slot(i)].openStart < plan[Slot(j)].openStart
    BY <1>11
  <2>1. Place(plan, Slot(i)) < Place(plan, Slot(j))
    BY <1>1, <1>9
  <2> QED
    BY <1>3, <1>8, <1>9, <2>1
<1>13. Starts(Sorted(plan))
  <2>1. \A m \in D : Sorted(plan)[m].openStart \in Int
    BY <1>1, <1>9, <1>11
  <2> QED
    BY <1>1, <1>11, <1>12, <2>1 DEF Starts
<1>14. \A k \in D : \E m \in D : Sorted(plan)[m] = plan[k]
  <2> TAKE k \in D
  <2>0. Place(plan, k) \in 0 .. n - 1
    BY <1>8
  <2>1. Place(plan, k) + 1 \in D
    BY <1>1, <2>0
  <2> DEFINE m == Place(plan, k) + 1
  <2>2. m \in D /\ Place(plan, Slot(m)) = m - 1 /\ Slot(m) \in D
    BY <1>9, <2>1
  <2>3. Place(plan, Slot(m)) = Place(plan, k)
    BY <1>1, <1>8, <2>2
  <2>4. ~OpensBefore(plan, Slot(m), k) /\ ~OpensBefore(plan, k, Slot(m))
    BY <1>8, <2>2, <2>3
  <2>5. Slot(m) = k
    BY <1>1, <1>3, <2>2, <2>4
  <2> QED
    BY <1>11, <2>1, <2>5
<1>15. \A m \in D : \E k \in D : Sorted(plan)[m] = plan[k]
  BY <1>9, <1>11
<1> QED
  BY <1>11, <1>13, <1>14, <1>15 DEF n, D

(* Both forms of a plan find the pair that opens at a byte, and no other.  *)
LEMMA ArrayFinds ==
  ASSUME NEW plan, Distinct(plan), NEW position
  PROVE  /\ \A k \in DOMAIN plan : plan[k].openStart = position =>
               OpenerInArray(plan, position) = {plan[k]}
         /\ (\A k \in DOMAIN plan : plan[k].openStart # position) =>
               OpenerInArray(plan, position) = {}
<1> DEFINE hits == {k \in 1 .. Len(plan) : plan[k].openStart = position}
<1>1. DOMAIN plan = 1 .. Len(plan) /\ Len(plan) \in Nat
  BY DEF Distinct
<1>2. OpenerInArray(plan, position) =
        IF hits = {} THEN {} ELSE {plan[CHOOSE k \in hits : \A h \in hits : k <= h]}
  BY DEF OpenerInArray
<1>3. ASSUME NEW k \in DOMAIN plan, plan[k].openStart = position
      PROVE  OpenerInArray(plan, position) = {plan[k]}
  <2>1. hits = {k}
    BY <1>1, <1>3 DEF Distinct
  <2> HIDE DEF hits
  <2>2. (CHOOSE x \in hits : \A h \in hits : x <= h) = k
    <3>1. k <= k
      BY <1>1
    <3> QED
      BY <2>1, <3>1
  <2> QED
    BY <1>2, <2>1, <2>2
<1> QED
  BY <1>1, <1>2, <1>3

LEMMA SliceFinds ==
  ASSUME NEW s, Starts(s), NEW position \in Int
  PROVE  /\ \A k \in 1 .. Len(s) : s[k].openStart = position =>
               OpenerInSlice(s, position) = {s[k]}
         /\ (\A k \in 1 .. Len(s) : s[k].openStart # position) =>
               OpenerInSlice(s, position) = {}
<1> DEFINE low == LowerBound(s, position)
<1>1. OpenerInSlice(s, position) =
        IF low < Len(s) /\ s[low + 1].openStart = position THEN {s[low + 1]} ELSE {}
  BY DEF OpenerInSlice
<1>2. /\ Len(s) \in Nat /\ \A i \in 1 .. Len(s) : s[i].openStart \in Int
      /\ \A i, j \in 1 .. Len(s) : i < j => s[i].openStart < s[j].openStart
  BY DEF Starts
<1>3. /\ low \in 0 .. Len(s)
      /\ \A i \in 0 .. low - 1 : s[i + 1].openStart < position
      /\ \A i \in low .. Len(s) - 1 : s[i + 1].openStart >= position
  BY LowerBoundCuts DEF IsCut
<1> HIDE DEF low
<1>4. ASSUME NEW k \in 1 .. Len(s), s[k].openStart = position
      PROVE  low + 1 = k
  <2>1. ~(k < low + 1)
    <3> SUFFICES ASSUME k < low + 1 PROVE FALSE
      OBVIOUS
    <3>1. k - 1 \in 0 .. low - 1 /\ (k - 1) + 1 = k
      BY <1>2, <1>3
    <3>2. s[k].openStart < position
      BY <1>3, <3>1
    <3> QED
      BY <1>4, <3>2
  <2>2. ~(k > low + 1)
    <3> SUFFICES ASSUME k > low + 1 PROVE FALSE
      OBVIOUS
    <3>1. low \in low .. Len(s) - 1 /\ low + 1 \in 1 .. Len(s)
      BY <1>2, <1>3
    <3>2. /\ s[low + 1].openStart >= position /\ s[low + 1].openStart < s[k].openStart
          /\ s[low + 1].openStart \in Int
      BY <1>2, <1>3, <3>1
    <3> QED
      BY <1>4, <3>2
  <2> QED
    BY <1>3, <2>1, <2>2
<1>5. ASSUME low < Len(s) PROVE low + 1 \in 1 .. Len(s)
  BY <1>2, <1>3, <1>5
<1>6. ASSUME NEW k \in 1 .. Len(s), s[k].openStart = position
      PROVE  OpenerInSlice(s, position) = {s[k]}
  <2>1. low + 1 = k
    BY <1>4, <1>6
  <2>2. low < Len(s)
    BY <1>2, <1>3, <2>1
  <2> QED
    BY <1>1, <1>6, <2>1, <2>2
<1>7. ASSUME \A k \in 1 .. Len(s) : s[k].openStart # position
      PROVE  OpenerInSlice(s, position) = {}
  BY <1>1, <1>5, <1>7
<1> QED
  BY <1>6, <1>7

(* Which pairs of a plan are in the array and in the slice when n have been *)
(* added: the first of them move from one to the other, the array is filled*)
(* again, and what comes later goes to the slice.                          *)
FromPlan(k) == IF k <= InlineCap + 1 THEN k ELSE k + InlineCap

KeepsAs(array, slice, plan, n) ==
  /\ array \in Seq(PairRecord) /\ slice \in Seq(PairRecord)
  /\ Len(array) = IF n <= InlineCap THEN n
                  ELSE IF n <= 2 * InlineCap + 1 THEN n - (InlineCap + 1) ELSE InlineCap
  /\ Len(slice) = IF n <= InlineCap THEN 0
                  ELSE IF n <= 2 * InlineCap + 1 THEN InlineCap + 1 ELSE n - InlineCap
  /\ n <= InlineCap => \A k \in 1 .. n : array[k] = plan[k]
  /\ \A k \in 1 .. Len(slice) : slice[k] = plan[FromPlan(k)]

KeepsOf(kept, plan, n) ==
  kept = [array |-> kept.array, slice |-> kept.slice] /\ KeepsAs(kept.array, kept.slice, plan, n)

LEMMA AppendedPair ==
  ASSUME NEW s \in Seq(PairRecord), NEW pair \in PairRecord
  PROVE  /\ Append(s, pair) \in Seq(PairRecord) /\ Len(Append(s, pair)) = Len(s) + 1
         /\ Append(s, pair) # <<>> /\ Len(s) \in Nat
         /\ s = <<>> <=> Len(s) = 0
         /\ \A k \in 1 .. Len(s) : Append(s, pair)[k] = s[k]
         /\ Append(s, pair)[Len(s) + 1] = pair
  OBVIOUS

(* The three branches of add. *)
LEMMA Added ==
  ASSUME NEW array, NEW slice, NEW pair, Len(array) \in Nat
  PROVE  LET then == Add([array |-> array, slice |-> slice], pair)
         IN  /\ Len(array) < InlineCap => then = [array |-> Append(array, pair), slice |-> slice]
             /\ Len(array) >= InlineCap /\ slice = <<>> =>
                  then = [array |-> <<>>, slice |-> Append(array, pair)]
             /\ Len(array) >= InlineCap /\ slice # <<>> =>
                  then = [array |-> array, slice |-> Append(slice, pair)]
<1> DEFINE kept == [array |-> array, slice |-> slice]
<1>1. /\ kept.array = array /\ kept.slice = slice
      /\ [kept EXCEPT !.array = Append(@, pair)] = [array |-> Append(array, pair), slice |-> slice]
      /\ [kept EXCEPT !.slice = Append(@, pair)] = [array |-> array, slice |-> Append(slice, pair)]
  <2>1. kept.array = array /\ kept.slice = slice
    OBVIOUS
  <2>2. [kept EXCEPT !.array = Append(@, pair)] = [kept EXCEPT !.array = Append(array, pair)]
    BY <2>1
  <2>3. [kept EXCEPT !.slice = Append(@, pair)] = [kept EXCEPT !.slice = Append(slice, pair)]
    BY <2>1
  <2>4. \A x : /\ [kept EXCEPT !.array = x] = [array |-> x, slice |-> slice]
               /\ [kept EXCEPT !.slice = x] = [array |-> array, slice |-> x]
    OBVIOUS
  <2> QED
    BY <2>1, <2>2, <2>3, <2>4
<1> HIDE DEF kept
<1>2. InlineCap \in Nat
  BY LookupAssumption
<1>3. CASE Len(array) < InlineCap
  <2>1. ~(Len(array) >= InlineCap)
    BY <1>2, <1>3
  <2>2. Add(kept, pair) = [kept EXCEPT !.array = Append(@, pair)]
    BY <1>1, <1>3, <2>1 DEF Add
  <2> QED
    BY <1>1, <1>3, <2>1, <2>2 DEF kept
<1>4. CASE Len(array) >= InlineCap /\ slice = <<>>
  <2>1. ~(Len(array) < InlineCap)
    BY <1>2, <1>4
  <2>2. Add(kept, pair) = [array |-> <<>>, slice |-> Append(array, pair)]
    BY <1>1, <1>4, <2>1 DEF Add
  <2> QED
    BY <1>4, <2>1, <2>2 DEF kept
<1>5. CASE Len(array) >= InlineCap /\ slice # <<>>
  <2>1. ~(Len(array) < InlineCap)
    BY <1>2, <1>5
  <2>2. Add(kept, pair) = [kept EXCEPT !.slice = Append(@, pair)]
    BY <1>1, <1>5, <2>1 DEF Add
  <2> QED
    BY <1>1, <1>5, <2>1, <2>2 DEF kept
<1> QED
  BY <1>2, <1>3, <1>4, <1>5

LEMMA KeepsOfRecord ==
  ASSUME NEW array, NEW slice, NEW plan, NEW n, KeepsAs(array, slice, plan, n)
  PROVE  KeepsOf([array |-> array, slice |-> slice], plan, n)
<1> DEFINE kept == [array |-> array, slice |-> slice]
<1>1. kept.array = array /\ kept.slice = slice
  OBVIOUS
<1>2. kept = [array |-> kept.array, slice |-> kept.slice]
  BY <1>1
<1> HIDE DEF kept
<1>3. KeepsAs(kept.array, kept.slice, plan, n)
  BY <1>1
<1>4. KeepsOf(kept, plan, n)
  BY <1>2, <1>3 DEF KeepsOf
<1> QED
  BY <1>4 DEF kept

LEMMA AddKeeps ==
  ASSUME NEW plan \in Seq(PairRecord), NEW n \in Nat, n + 1 \in DOMAIN plan,
         NEW kept, KeepsOf(kept, plan, n)
  PROVE  KeepsOf(Add(kept, plan[n + 1]), plan, n + 1)
<1> DEFINE C == InlineCap
           pair == plan[n + 1]
           array == kept.array
           slice == kept.slice
           then == Add(kept, pair)
<1>1. C \in Nat /\ pair \in PairRecord
  BY LookupAssumption, SeqElement
<1>2. /\ array \in Seq(PairRecord) /\ slice \in Seq(PairRecord)
      /\ kept = [array |-> array, slice |-> slice]
      /\ Len(array) = IF n <= C THEN n ELSE IF n <= 2 * C + 1 THEN n - (C + 1) ELSE C
      /\ Len(slice) = IF n <= C THEN 0 ELSE IF n <= 2 * C + 1 THEN C + 1 ELSE n - C
      /\ n <= C => \A k \in 1 .. n : array[k] = plan[k]
      /\ \A k \in 1 .. Len(slice) : slice[k] = plan[FromPlan(k)]
  BY DEF KeepsOf, KeepsAs
<1>3. \A k \in Nat : FromPlan(k) = IF k <= C + 1 THEN k ELSE k + C
  BY DEF FromPlan
<1>4. \A a, s : KeepsAs(a, s, plan, n + 1) <=>
        /\ a \in Seq(PairRecord) /\ s \in Seq(PairRecord)
        /\ Len(a) = IF n + 1 <= C THEN n + 1 ELSE IF n + 1 <= 2 * C + 1 THEN n + 1 - (C + 1) ELSE C
        /\ Len(s) = IF n + 1 <= C THEN 0 ELSE IF n + 1 <= 2 * C + 1 THEN C + 1 ELSE n + 1 - C
        /\ n + 1 <= C => \A k \in 1 .. n + 1 : a[k] = plan[k]
        /\ \A k \in 1 .. Len(s) : s[k] = plan[FromPlan(k)]
  BY DEF KeepsAs
<1>5. \A s \in Seq(PairRecord) :
        /\ Append(s, pair) \in Seq(PairRecord) /\ Len(Append(s, pair)) = Len(s) + 1
        /\ Len(s) \in Nat /\ (s = <<>> <=> Len(s) = 0)
        /\ \A k \in 1 .. Len(s) : Append(s, pair)[k] = s[k]
        /\ Append(s, pair)[Len(s) + 1] = pair
  BY <1>1, AppendedPair
<1>6. <<>> \in Seq(PairRecord) /\ Len(<<>>) = 0
  OBVIOUS
<1>7. Len(array) \in Nat /\ Len(slice) \in Nat /\ (slice = <<>> <=> Len(slice) = 0)
  BY <1>2, <1>5
<1>8. /\ Len(array) < C => then = [array |-> Append(array, pair), slice |-> slice]
      /\ Len(array) >= C /\ slice = <<>> => then = [array |-> <<>>, slice |-> Append(array, pair)]
      /\ Len(array) >= C /\ slice # <<>> => then = [array |-> array, slice |-> Append(slice, pair)]
  <2>1. then = Add([array |-> array, slice |-> slice], pair)
    BY <1>2
  <2> HIDE DEF then, array, slice, pair, C
  <2>2. \A a, s : Len(a) \in Nat =>
          /\ Len(a) < C => Add([array |-> a, slice |-> s], pair)
                             = [array |-> Append(a, pair), slice |-> s]
          /\ Len(a) >= C /\ s = <<>> => Add([array |-> a, slice |-> s], pair)
                                        = [array |-> <<>>, slice |-> Append(a, pair)]
          /\ Len(a) >= C /\ s # <<>> => Add([array |-> a, slice |-> s], pair)
                                        = [array |-> a, slice |-> Append(s, pair)]
    BY Added DEF C
  <2> QED
    BY <1>7, <2>1, <2>2
<1>9. pair = plan[n + 1]
  OBVIOUS
<1> HIDE DEF then, array, slice, C, pair
<1>10. CASE n < C
  <2>1. Len(array) = n /\ Len(slice) = 0 /\ n + 1 <= C
    BY <1>1, <1>2, <1>10
  <2>2. \A k \in 1 .. n + 1 : Append(array, pair)[k] = plan[k]
    <3> TAKE k \in 1 .. n + 1
    <3>1. CASE k = n + 1
      BY <1>2, <1>5, <1>9, <2>1, <3>1
    <3>2. CASE k # n + 1
      <4>1. k \in 1 .. n /\ n <= C
        BY <1>1, <1>10, <3>2
      <4> QED
        BY <1>2, <1>5, <2>1, <4>1
    <3> QED
      BY <3>1, <3>2
  <2>3. KeepsAs(Append(array, pair), slice, plan, n + 1)
    <3>1. /\ Append(array, pair) \in Seq(PairRecord) /\ Len(Append(array, pair)) = n + 1
          /\ \A k \in 1 .. Len(slice) : slice[k] = plan[FromPlan(k)]
          /\ slice \in Seq(PairRecord)
      BY <1>2, <1>5, <2>1
    <3> QED
      BY <1>1, <1>2, <2>1, <2>2, <3>1 DEF KeepsAs, C
  <2>4. then = [array |-> Append(array, pair), slice |-> slice]
    BY <1>8, <1>10, <2>1
  <2> QED
    BY <2>3, <2>4, KeepsOfRecord DEF then, pair
<1>11. CASE n = C
  <2>1. Len(array) = n /\ Len(slice) = 0 /\ Len(array) >= C
    BY <1>1, <1>2, <1>11
  <2>2. \A k \in 1 .. n + 1 : Append(array, pair)[k] = plan[FromPlan(k)]
    <3> TAKE k \in 1 .. n + 1
    <3>1. FromPlan(k) = k
      BY <1>1, <1>3, <1>11
    <3>2. CASE k = n + 1
      BY <1>2, <1>5, <1>9, <2>1, <3>1, <3>2
    <3>3. CASE k # n + 1
      <4>1. k \in 1 .. n /\ n <= C
        BY <1>1, <1>11, <3>3
      <4> QED
        BY <1>2, <1>5, <2>1, <3>1, <4>1
    <3> QED
      BY <3>2, <3>3
  <2>3. ~(n + 1 <= C) /\ n + 1 <= 2 * C + 1 /\ n + 1 - (C + 1) = 0 /\ n + 1 = C + 1
    BY <1>1, <1>11
  <2>4. /\ Append(array, pair) \in Seq(PairRecord) /\ Len(Append(array, pair)) = n + 1
    BY <1>2, <1>5, <2>1
  <2>5. KeepsAs(<<>>, Append(array, pair), plan, n + 1)
    BY <1>4, <1>6, <2>2, <2>3, <2>4
  <2>6. then = [array |-> <<>>, slice |-> Append(array, pair)]
    BY <1>7, <1>8, <2>1
  <2> QED
    BY <2>5, <2>6, KeepsOfRecord DEF then, pair
<1>12. CASE n > C /\ n < 2 * C + 1
  <2>1. Len(array) = n - (C + 1) /\ Len(slice) = C + 1 /\ Len(array) < C
    BY <1>1, <1>2, <1>12
  <2>2. ~(n + 1 <= C) /\ n + 1 <= 2 * C + 1 /\ n - (C + 1) + 1 = n + 1 - (C + 1)
    BY <1>1, <1>12
  <2>3. KeepsAs(Append(array, pair), slice, plan, n + 1)
    <3>1. /\ Append(array, pair) \in Seq(PairRecord)
          /\ Len(Append(array, pair)) = n + 1 - (C + 1)
      BY <1>2, <1>5, <2>1, <2>2
    <3> QED
      BY <1>2, <1>4, <2>1, <2>2, <3>1
  <2>4. then = [array |-> Append(array, pair), slice |-> slice]
    BY <1>8, <2>1
  <2> QED
    BY <2>3, <2>4, KeepsOfRecord DEF then, pair
<1>13. CASE n > C /\ ~(n < 2 * C + 1)
  <2>1. Len(array) = C /\ Len(slice) = n - C /\ Len(slice) # 0 /\ Len(array) >= C
    <3>1. CASE n <= 2 * C + 1
      BY <1>1, <1>2, <1>13, <3>1
    <3>2. CASE ~(n <= 2 * C + 1)
      BY <1>1, <1>2, <1>13, <3>2
    <3> QED
      BY <3>1, <3>2
  <2>2. then = [array |-> array, slice |-> Append(slice, pair)]
    BY <1>7, <1>8, <2>1
  <2>3. \A k \in 1 .. n - C + 1 : Append(slice, pair)[k] = plan[FromPlan(k)]
    <3> TAKE k \in 1 .. n - C + 1
    <3>1. CASE k \in 1 .. n - C
      BY <1>2, <1>5, <2>1, <3>1
    <3>2. CASE k = n - C + 1
      <4>1. FromPlan(k) = n + 1
        BY <1>1, <1>3, <1>13, <3>2
      <4> QED
        BY <1>2, <1>5, <1>9, <2>1, <3>2, <4>1
    <3>3. k \in 1 .. n - C \/ k = n - C + 1
      BY <1>1
    <3> QED
      BY <3>1, <3>2, <3>3
  <2>4. Append(slice, pair) \in Seq(PairRecord) /\ Len(Append(slice, pair)) = n - C + 1
    BY <1>2, <1>5, <2>1
  <2>5. ~(n + 1 <= C) /\ ~(n + 1 <= 2 * C + 1) /\ n - C + 1 = n + 1 - C
    BY <1>1, <1>13
  <2>6. KeepsAs(array, Append(slice, pair), plan, n + 1)
    BY <1>2, <1>4, <2>1, <2>3, <2>4, <2>5
  <2> QED
    BY <2>2, <2>6, KeepsOfRecord DEF then, pair
<1> QED
  BY <1>1, <1>10, <1>11, <1>12, <1>13

(* The recursive function Kept has the value its equation gives it.        *)
IsKeeping(f, plan) ==
  f = [n \in 0 .. Len(plan) |->
         IF n = 0 THEN [array |-> <<>>, slice |-> <<>>] ELSE Add(f[n - 1], plan[n])]

LEMMA KeepingExists ==
  ASSUME NEW plan \in Seq(PairRecord)
  PROVE  \E f : IsKeeping(f, plan)
<1> DEFINE Step(f, n) == IF n = 0 THEN [array |-> <<>>, slice |-> <<>>] ELSE Add(f[n - 1], plan[n])
           Reached == {m \in Nat : \E f : f = [n \in 0 .. m |-> Step(f, n)]}
<1>1. 0 \in Reached
  <2> DEFINE f == [n \in 0 .. 0 |-> [array |-> <<>>, slice |-> <<>>]]
  <2>1. f = [n \in 0 .. 0 |-> Step(f, n)]
    OBVIOUS
  <2> QED
    BY <2>1
<1>2. ASSUME NEW m \in Nat, m \in Reached PROVE m + 1 \in Reached
  <2>1. PICK f : f = [n \in 0 .. m |-> Step(f, n)]
    BY <1>2
  <2> DEFINE g == [n \in 0 .. m + 1 |-> IF n = m + 1 THEN Add(f[m], plan[m + 1]) ELSE f[n]]
  <2>2. \A n \in 0 .. m + 1 : g[n] = Step(g, n)
    <3> TAKE n \in 0 .. m + 1
    <3>1. CASE n = 0
      BY <2>1, <3>1
    <3>2. CASE n \in 1 .. m
      <4>1. f[n] = Add(f[n - 1], plan[n])
        BY <2>1, <3>2
      <4>2. g[n] = f[n] /\ g[n - 1] = f[n - 1] /\ n # 0
        BY <3>2
      <4> QED
        BY <4>1, <4>2
    <3>3. CASE n = m + 1
      BY <3>3
    <3> QED
      BY <3>1, <3>2, <3>3
  <2>3. g = [n \in 0 .. m + 1 |-> g[n]]
    OBVIOUS
  <2> HIDE DEF g
  <2>4. g = [n \in 0 .. m + 1 |-> Step(g, n)]
    BY <2>2, <2>3
  <2> QED
    BY <2>4
<1>3. Len(plan) \in Reached
  <2> HIDE DEF Reached
  <2>1. Nat \subseteq Reached
    BY <1>1, <1>2, SetInduction
  <2> QED
    BY <2>1
<1>4. PICK f : f = [n \in 0 .. Len(plan) |-> Step(f, n)]
  BY <1>3
<1> QED
  BY <1>4 DEF IsKeeping

LEMMA KeptKeeps ==
  ASSUME NEW plan \in Seq(PairRecord)
  PROVE  KeepsOf(Kept(plan), plan, Len(plan))
<1> DEFINE f == CHOOSE f : IsKeeping(f, plan)
<1>1. Kept(plan) = f[Len(plan)]
  BY DEF Kept, IsKeeping
<1>2. IsKeeping(f, plan)
  BY KeepingExists
<1> HIDE DEF f
<1>3. \A n \in 0 .. Len(plan) :
        f[n] = IF n = 0 THEN [array |-> <<>>, slice |-> <<>>] ELSE Add(f[n - 1], plan[n])
  BY <1>2 DEF IsKeeping
<1> DEFINE Good == {n \in Nat : n <= Len(plan) => KeepsOf(f[n], plan, n)}
<1>4. 0 \in Good
  <2>1. f[0] = [array |-> <<>>, slice |-> <<>>]
    BY <1>3
  <2>2. InlineCap \in Nat
    BY LookupAssumption
  <2>3. /\ <<>> \in Seq(PairRecord) /\ Len(<<>>) = 0
        /\ \A k \in 1 .. 0 : FALSE
    OBVIOUS
  <2>4. 0 <= InlineCap
    BY <2>2
  <2>5. KeepsAs(<<>>, <<>>, plan, 0)
    BY <2>2, <2>3, <2>4 DEF KeepsAs
  <2> QED
    BY <2>1, <2>5, KeepsOfRecord
<1>5. ASSUME NEW n \in Nat, n \in Good PROVE n + 1 \in Good
  <2> SUFFICES ASSUME n + 1 <= Len(plan) PROVE KeepsOf(f[n + 1], plan, n + 1)
    OBVIOUS
  <2>1. f[n + 1] = Add(f[n], plan[n + 1])
    BY <1>3
  <2>2. KeepsOf(f[n], plan, n) /\ n + 1 \in DOMAIN plan
    BY <1>5
  <2> QED
    BY <2>1, <2>2, AddKeeps
<1>6. Len(plan) \in Good
  <2> HIDE DEF Good
  <2>1. Nat \subseteq Good
    BY <1>4, <1>5, SetInduction
  <2> QED
    BY <2>1
<1> QED
  BY <1>1, <1>6

(* A plan that has not overflowed is its array, and every other a slice of *)
(* the pairs that are looked for.                                          *)
LEMMA KeptIsSearched ==
  ASSUME NEW plan, Distinct(plan)
  PROVE  LET kept == Kept(plan)
         IN  /\ kept.slice = <<>> => kept.array = plan /\ Searched(plan) = DOMAIN plan
             /\ kept.slice # <<>> =>
                  /\ Distinct(kept.slice)
                  /\ \A m \in DOMAIN kept.slice : \E k \in Searched(plan) : kept.slice[m] = plan[k]
                  /\ \A k \in Searched(plan) : \E m \in DOMAIN kept.slice : kept.slice[m] = plan[k]
<1> DEFINE C == InlineCap
           n == Len(plan)
           array == Kept(plan).array
           slice == Kept(plan).slice
<1>1. /\ C \in Nat /\ n \in Nat /\ plan \in Seq(PairRecord) /\ DOMAIN plan = 1 .. n
      /\ \A k, l \in 1 .. n : k # l => plan[k].openStart # plan[l].openStart
      /\ \A k \in 1 .. n : plan[k].openStart \in Int
  BY LookupAssumption DEF Distinct
<1>2. /\ array \in Seq(PairRecord) /\ slice \in Seq(PairRecord)
      /\ Len(array) = IF n <= C THEN n ELSE IF n <= 2 * C + 1 THEN n - (C + 1) ELSE C
      /\ Len(slice) = IF n <= C THEN 0 ELSE IF n <= 2 * C + 1 THEN C + 1 ELSE n - C
      /\ n <= C => \A k \in 1 .. n : array[k] = plan[k]
      /\ \A k \in 1 .. Len(slice) : slice[k] = plan[FromPlan(k)]
  BY <1>1, KeptKeeps DEF KeepsOf, KeepsAs
<1>3. /\ Len(array) \in Nat /\ Len(slice) \in Nat /\ DOMAIN slice = 1 .. Len(slice)
      /\ slice = <<>> <=> Len(slice) = 0
      /\ DOMAIN array = 1 .. Len(array)
  BY <1>2
<1>4. Searched(plan) = {k \in 1 .. n : k <= C + 1 \/ k > 2 * C + 1}
  BY <1>1 DEF Searched
<1>5. \A k \in Nat : FromPlan(k) = IF k <= C + 1 THEN k ELSE k + C
  BY DEF FromPlan
<1> HIDE DEF C, n, array, slice
<1>6. CASE slice = <<>>
  <2>1. n <= C
    BY <1>1, <1>2, <1>3, <1>6
  <2>2. Searched(plan) = 1 .. n
    BY <1>1, <1>4, <2>1
  <2>3. array = plan
    BY <1>1, <1>2, <2>1, <1>3
  <2> QED
    BY <1>1, <1>6, <2>2, <2>3 DEF array, slice
<1>7. CASE slice # <<>>
  <2>1. n > C /\ Len(slice) = IF n <= 2 * C + 1 THEN C + 1 ELSE n - C
    BY <1>1, <1>2, <1>3, <1>7
  <2>2. \A m \in 1 .. Len(slice) : FromPlan(m) \in 1 .. n /\ FromPlan(m) \in Searched(plan)
    BY <1>1, <1>3, <1>4, <1>5, <2>1
  <2>3. \A l, m \in 1 .. Len(slice) : l # m => FromPlan(l) # FromPlan(m)
    BY <1>1, <1>3, <1>5
  <2>4. Distinct(slice)
    BY <1>1, <1>2, <1>3, <2>2, <2>3 DEF Distinct
  <2>5. ASSUME NEW k \in Searched(plan) PROVE \E m \in 1 .. Len(slice) : slice[m] = plan[k]
    <3>1. CASE k <= C + 1
      <4>1. k \in 1 .. Len(slice) /\ FromPlan(k) = k
        BY <1>1, <1>4, <1>5, <2>1, <2>5, <3>1
      <4> QED
        BY <1>2, <4>1
    <3>2. CASE k > 2 * C + 1
      <4>1. k - C \in 1 .. Len(slice) /\ k - C \in Nat
        BY <1>1, <1>4, <2>1, <2>5, <3>2
      <4>2. FromPlan(k - C) = k
        BY <1>1, <1>4, <1>5, <2>5, <3>2, <4>1
      <4> QED
        BY <1>2, <4>1, <4>2
    <3> QED
      BY <1>4, <2>5, <3>1, <3>2
  <2> QED
    BY <1>2, <1>3, <1>7, <2>2, <2>4, <2>5 DEF slice
<1> QED
  BY <1>6, <1>7 DEF slice

LEMMA LookupFinds ==
  ASSUME NEW plan, Distinct(plan), NEW position \in Int
  PROVE  /\ \A k \in Searched(plan) : plan[k].openStart = position =>
               OpenerAt(plan, position) = {plan[k]}
         /\ (\A k \in Searched(plan) : plan[k].openStart # position) =>
               OpenerAt(plan, position) = {}
<1> DEFINE array == Kept(plan).array
           slice == Kept(plan).slice
<1>1. /\ slice = <<>> => array = plan /\ Searched(plan) = DOMAIN plan
      /\ slice # <<>> =>
           /\ Distinct(slice)
           /\ \A m \in DOMAIN slice : \E k \in Searched(plan) : slice[m] = plan[k]
           /\ \A k \in Searched(plan) : \E m \in DOMAIN slice : slice[m] = plan[k]
  BY KeptIsSearched
<1>2. OpenerAt(plan, position) = IF slice = <<>> THEN OpenerInArray(array, position)
                                 ELSE OpenerInSlice(Sorted(slice), position)
  BY DEF OpenerAt
<1> HIDE DEF array, slice
<1>3. CASE slice = <<>>
  BY <1>1, <1>2, <1>3, ArrayFinds
<1>4. CASE slice # <<>>
  <2> DEFINE s == Sorted(slice)
  <2>1. /\ Starts(s) /\ Len(s) = Len(slice) /\ DOMAIN slice = 1 .. Len(slice)
        /\ \A m \in DOMAIN slice : \E k \in DOMAIN slice : s[m] = slice[k]
        /\ \A k \in DOMAIN slice : \E m \in DOMAIN slice : s[m] = slice[k]
    BY <1>1, <1>4, SortingSorts DEF Distinct
  <2>2. OpenerAt(plan, position) = OpenerInSlice(s, position)
    BY <1>2, <1>4
  <2> HIDE DEF s
  <2>3. /\ \A k \in 1 .. Len(s) : s[k].openStart = position =>
             OpenerInSlice(s, position) = {s[k]}
        /\ (\A k \in 1 .. Len(s) : s[k].openStart # position) =>
             OpenerInSlice(s, position) = {}
    BY <2>1, SliceFinds
  <2>4. /\ \A m \in 1 .. Len(s) : \E k \in Searched(plan) : s[m] = plan[k]
        /\ \A k \in Searched(plan) : \E m \in 1 .. Len(s) : s[m] = plan[k]
    <3>1. DOMAIN slice = 1 .. Len(s)
      BY <2>1
    <3>2. ASSUME NEW m \in 1 .. Len(s) PROVE \E k \in Searched(plan) : s[m] = plan[k]
      <4>1. PICK j \in DOMAIN slice : s[m] = slice[j]
        BY <2>1, <3>1
      <4> QED
        BY <1>1, <1>4, <4>1
    <3>3. ASSUME NEW k \in Searched(plan) PROVE \E m \in 1 .. Len(s) : s[m] = plan[k]
      <4>1. PICK j \in DOMAIN slice : slice[j] = plan[k]
        BY <1>1, <1>4
      <4>2. PICK m \in DOMAIN slice : s[m] = slice[j]
        BY <2>1
      <4> QED
        BY <3>1, <4>1, <4>2
    <3> QED
      BY <3>2, <3>3
  <2> QED
    BY <2>2, <2>3, <2>4
<1> QED
  BY <1>3, <1>4

(* Whatever is found is planned and opens there. *)
LEMMA FoundIsPlanned ==
  ASSUME NEW plan, Distinct(plan), NEW position \in Int, NEW p \in OpenerAt(plan, position)
  PROVE  \E k \in DOMAIN plan : plan[k].openStart = position /\ p = plan[k]
<1>1. PICK k \in Searched(plan) : plan[k].openStart = position
  BY LookupFinds
<1>2. OpenerAt(plan, position) = {plan[k]} /\ k \in DOMAIN plan
  BY <1>1, LookupFinds DEF Searched
<1> QED
  BY <1>1, <1>2

(* In every text, and whatever the array holds, what the plan opens at a   *)
(* byte is found there for every pair but those the emptied array took,    *)
(* and nothing is found elsewhere: openerAt is wrong of these pairs only.  *)
THEOREM LookupIsKnown == Spec => []LookupLosesOnlyTheRefilled
<1>1. PlanInv => LookupLosesOnlyTheRefilled
  <2> SUFFICES ASSUME PlanInv, NEW position \in 0 .. LastByte
               PROVE  OpenerAt(pairs, position)
                        = {pairs[k] : k \in {m \in Searched(pairs) : pairs[m].openStart = position}}
    BY DEF LookupLosesOnlyTheRefilled
  <2> DEFINE opening == {m \in Searched(pairs) : pairs[m].openStart = position}
  <2>1. Distinct(pairs) /\ position \in Int
    BY PlanIsDistinct
  <2>2. /\ \A k \in opening : OpenerAt(pairs, position) = {pairs[k]}
        /\ opening = {} => OpenerAt(pairs, position) = {}
    BY <2>1, LookupFinds
  <2>3. \A k, l \in opening : k = l
    BY <2>1 DEF Distinct, Searched
  <2> DEFINE found == {pairs[k] : k \in opening}
  <2>4. \A x : x \in found <=> \E k \in opening : x = pairs[k]
    OBVIOUS
  <2> HIDE DEF opening, found
  <2>5. ASSUME opening = {} PROVE OpenerAt(pairs, position) = found
    <3>1. \A x : x \notin found
      BY <2>4, <2>5
    <3>2. found = {}
      BY <3>1
    <3> QED
      BY <2>2, <2>5, <3>2
  <2>6. ASSUME opening # {} PROVE OpenerAt(pairs, position) = found
    <3>1. PICK k \in opening : TRUE
      BY <2>6
    <3>2. \A x : x \in found <=> x = pairs[k]
      BY <2>3, <2>4, <3>1
    <3>3. found = {pairs[k]}
      BY <3>2
    <3>4. OpenerAt(pairs, position) = {pairs[k]}
      BY <2>2, <3>1
    <3> QED
      BY <3>3, <3>4
  <2>7. OpenerAt(pairs, position) = found
    BY <2>5, <2>6
  <2> QED
    BY <2>7 DEF opening, found
<1> QED
  BY <1>1, PlanInvHolds, PTL
-----------------------------------------------------------------------------
(* A sequence of anything. *)
IsASeq(s) == Len(s) \in Nat /\ s = [k \in 1 .. Len(s) |-> s[k]]

IsFrame(f) == f = Frame(f.node, f.position, f.end, f.plan)

Opened(n) == \E k \in 2 .. Len(frames) : frames[k].node = n
Told(n)   == \E i \in 1 .. Len(events) : events[i] = Created(n)

Shapes ==
  /\ IsASeq(frames) /\ IsASeq(nodes) /\ IsASeq(events) /\ IsASeq(notes)
  /\ phase \in {"plan", "walk", "done", "failed"}
  /\ phase = "done" <=> Len(frames) = 0
  /\ \A k \in 1 .. Len(frames) : IsFrame(frames[k])

(* The active ranges are those of a node, its parent and so on up to the   *)
(* paragraph, and a node is younger than its parent.                       *)
Lineage ==
  /\ Len(frames) > 0 => frames[1].node = 0
  /\ \A k \in 2 .. Len(frames) :
       /\ frames[k].node \in NodeIds
       /\ nodes[frames[k].node].parent = frames[k - 1].node
       /\ ~Silent(frames[k].node)
  /\ \A j, k \in 1 .. Len(frames) : j < k => frames[j].node < frames[k].node
  /\ \A n \in NodeIds : nodes[n].parent \in 0 .. n - 1

(* The nodes still to be told of are those of the active ranges. *)
Telling ==
  /\ \A n \in NodeIds :
       /\ ~Silent(n) => (Opened(n) <=> ~Told(n))
       /\ nodes[n].recovered => ~Silent(n)
       /\ \A j \in 1 .. Len(events) : events[j] = Created(nodes[n].parent) /\ ~Silent(n) =>
            \E i \in 1 .. j - 1 : events[i] = Created(n)
  /\ \A i \in 1 .. Len(events) :
       events[i][1] # "created" \/ \E n \in NodeIds : ~Silent(n) /\ events[i] = Created(n)
  /\ \A i, j \in 1 .. Len(events) : events[i][1] = "created" /\ events[i] = events[j] => i = j

Noting ==
  /\ \A i \in 1 .. Len(notes) :
       notes[i] \in NodeIds /\ nodes[notes[i]].recovered /\ Told(notes[i])
  /\ \A i, j \in 1 .. Len(notes) : i < j =>
       \E k, l \in 1 .. Len(events) :
         k < l /\ events[k] = Created(notes[i]) /\ events[l] = Created(notes[j])
  /\ \A n \in NodeIds : nodes[n].recovered /\ Told(n) => \E i \in 1 .. Len(notes) : notes[i] = n

TellInv == Shapes /\ Lineage /\ Telling /\ Noting

LEMMA ToldInOrder ==
  ASSUME TellInv
  PROVE  ToldInsideOut
<1>1. phase = "done" => \A n \in NodeIds : ~Opened(n)
  <2>1. phase = "done" => Len(frames) = 0
    BY DEF TellInv, Shapes
  <2> QED
    BY ONLY <2>1 DEF Opened
<1>2. NodesTracedInsideOut
  <2> SUFFICES ASSUME NEW n \in NodeIds
      PROVE  /\ \A i, j \in 1 .. Len(events) : events[i] = Created(n) /\ events[j] = Created(n) => i = j
             /\ \A j \in 1 .. Len(events) : events[j] = Created(nodes[n].parent) /\ ~Silent(n) =>
                  \E i \in 1 .. j - 1 : events[i] = Created(n)
             /\ phase = "done" /\ ~Silent(n) => \E i \in 1 .. Len(events) : events[i] = Created(n)
      BY DEF NodesTracedInsideOut
  <2>1. Created(n)[1] = "created"
    BY DEF Created
  <2>2. \A i, j \in 1 .. Len(events) : events[i] = Created(n) /\ events[j] = Created(n) => i = j
    BY <2>1 DEF TellInv, Telling
  <2>3. phase = "done" /\ ~Silent(n) => \E i \in 1 .. Len(events) : events[i] = Created(n)
    BY <1>1 DEF TellInv, Telling, Told
  <2>4. \A j \in 1 .. Len(events) : events[j] = Created(nodes[n].parent) /\ ~Silent(n) =>
          \E i \in 1 .. j - 1 : events[i] = Created(n)
    BY DEF TellInv, Telling
  <2> QED
    BY <2>2, <2>3, <2>4
<1>3. RecoveriesInsideOut
  <2>1. \A n \in NodeIds : phase = "done" /\ nodes[n].recovered => \E i \in 1 .. Len(notes) : notes[i] = n
    BY <1>1 DEF TellInv, Telling, Noting
  <2>2. \A i \in 1 .. Len(notes) : notes[i] \in NodeIds /\ nodes[notes[i]].recovered
    BY DEF TellInv, Noting
  <2>3. phase = "done" => {n \in NodeIds : nodes[n].recovered} = {notes[i] : i \in 1 .. Len(notes)}
    BY ONLY <2>1, <2>2
  <2> QED
    BY <2>3 DEF RecoveriesInsideOut, TellInv, Noting
<1> QED
  BY <1>2, <1>3 DEF ToldInsideOut

LEMMA SeqIsASeq ==
  ASSUME NEW S, NEW s \in Seq(S)
  PROVE  IsASeq(s)
BY DEF IsASeq

LEMMA Appending ==
  ASSUME NEW s, IsASeq(s), NEW x
  PROVE  /\ IsASeq(Append(s, x))
         /\ Len(Append(s, x)) = Len(s) + 1
         /\ \A k \in 1 .. Len(s) : Append(s, x)[k] = s[k]
         /\ Append(s, x)[Len(s) + 1] = x
<1> DEFINE S == {s[k] : k \in 1 .. Len(s)} \cup {x}
<1>1. s \in Seq(S)
  BY DEF IsASeq
<1>2. x \in S
  OBVIOUS
<1> HIDE DEF S
<1>3. Append(s, x) \in Seq(S)
  BY <1>1, <1>2
<1>4. IsASeq(Append(s, x))
  BY ONLY <1>3, SeqIsASeq
<1> QED
  BY ONLY <1>1, <1>2, <1>4

LEMMA Joining ==
  ASSUME NEW s, IsASeq(s), NEW t, IsASeq(t)
  PROVE  /\ IsASeq(s \o t)
         /\ Len(s \o t) = Len(s) + Len(t)
         /\ \A k \in 1 .. Len(s) : (s \o t)[k] = s[k]
         /\ \A k \in 1 .. Len(t) : (s \o t)[Len(s) + k] = t[k]
<1> DEFINE S == {s[k] : k \in 1 .. Len(s)} \cup {t[k] : k \in 1 .. Len(t)}
<1>1. s \in Seq(S) /\ t \in Seq(S)
  BY DEF IsASeq
<1> HIDE DEF S
<1>2. s \o t \in Seq(S)
  BY <1>1
<1>3. IsASeq(s \o t)
  BY ONLY <1>2, SeqIsASeq
<1> QED
  BY ONLY <1>1, <1>3

LEMMA AppendingTwo ==
  ASSUME NEW s, IsASeq(s), NEW x, NEW y
  PROVE  /\ IsASeq(s \o <<x, y>>)
         /\ Len(s \o <<x, y>>) = Len(s) + 2
         /\ \A k \in 1 .. Len(s) : (s \o <<x, y>>)[k] = s[k]
         /\ (s \o <<x, y>>)[Len(s) + 1] = x
         /\ (s \o <<x, y>>)[Len(s) + 2] = y
<1>1. PICK t : t = <<x, y>>
  OBVIOUS
<1>2. t \in Seq({x, y}) /\ Len(t) = 2 /\ t[1] = x /\ t[2] = y
  BY <1>1
<1>3. IsASeq(t)
  BY ONLY <1>2, SeqIsASeq
<1>4. /\ IsASeq(s \o t) /\ Len(s \o t) = Len(s) + Len(t)
      /\ \A k \in 1 .. Len(s) : (s \o t)[k] = s[k]
      /\ \A k \in 1 .. Len(t) : (s \o t)[Len(s) + k] = t[k]
  BY <1>3, Joining
<1>5. (s \o t)[Len(s) + 1] = t[1] /\ (s \o t)[Len(s) + 2] = t[2]
  BY ONLY <1>2, <1>4
<1>6. Len(s \o t) = Len(s) + 2
  BY ONLY <1>2, <1>4
<1> QED
  BY ONLY <1>1, <1>2, <1>4, <1>5, <1>6

LEMMA Dropping ==
  ASSUME NEW s, IsASeq(s), Len(s) > 0
  PROVE  /\ IsASeq(SubSeq(s, 1, Len(s) - 1))
         /\ Len(SubSeq(s, 1, Len(s) - 1)) = Len(s) - 1
         /\ \A k \in 1 .. Len(s) - 1 : SubSeq(s, 1, Len(s) - 1)[k] = s[k]
<1> DEFINE S == {s[k] : k \in 1 .. Len(s)}
<1>1. s \in Seq(S)
  BY DEF IsASeq
<1> HIDE DEF S
<1>2. SubSeq(s, 1, Len(s) - 1) \in Seq(S)
  BY <1>1
<1>3. IsASeq(SubSeq(s, 1, Len(s) - 1))
  BY ONLY <1>2, SeqIsASeq
<1>4. Len(s) \in Nat /\ Len(s) > 0
  BY DEF IsASeq
<1> QED
  BY ONLY <1>1, <1>3, <1>4

AllFrames(s) == \A k \in 1 .. Len(s) : IsFrame(s[k])

MovedTo(t, s, p) == t = [s EXCEPT ![Len(s)].position = p]

LEMMA Moving ==
  ASSUME NEW s, IsASeq(s), Len(s) > 0, AllFrames(s), NEW p, NEW t, MovedTo(t, s, p)
  PROVE  /\ IsASeq(t) /\ Len(t) = Len(s)
         /\ \A k \in 1 .. Len(s) : IsFrame(t[k]) /\ t[k].node = s[k].node
<1>1. t = [k \in 1 .. Len(s) |-> IF k = Len(s) THEN [s[k] EXCEPT !.position = p] ELSE s[k]]
  BY DEF IsASeq, MovedTo
<1>2. s[Len(s)] = Frame(s[Len(s)].node, s[Len(s)].position, s[Len(s)].end, s[Len(s)].plan)
  BY DEF IsFrame, IsASeq, AllFrames
<1>3. t[Len(s)] = Frame(s[Len(s)].node, p, s[Len(s)].end, s[Len(s)].plan)
  BY <1>1, <1>2 DEF Frame, IsASeq
<1>4. Len(t) = Len(s)
  BY <1>1 DEF IsASeq
<1>5. IsASeq(t)
  BY <1>1, <1>4 DEF IsASeq
<1>6. ASSUME NEW k \in 1 .. Len(s) PROVE IsFrame(t[k]) /\ t[k].node = s[k].node
  <2>1. CASE k = Len(s)
    BY <2>1, <1>3 DEF IsFrame, Frame
  <2>2. CASE k # Len(s)
    BY <2>2, <1>1 DEF AllFrames
  <2> QED BY <2>1, <2>2
<1> QED
  BY <1>4, <1>5, <1>6

Extends(t, s) == IsASeq(t) /\ Len(s) <= Len(t) /\ \A k \in 1 .. Len(s) : t[k] = s[k]

(* The m outermost ranges are those of the same nodes as before. *)
KeptRanges(m) ==
  /\ IsASeq(frames') /\ m <= Len(frames) /\ m <= Len(frames')
  /\ \A k \in 1 .. m : IsFrame(frames'[k]) /\ frames'[k].node = frames[k].node

SameRanges == KeptRanges(Len(frames)) /\ Len(frames') = Len(frames)

(* The step tells that x is created, and of nothing else. *)
ToldNow(x) ==
  /\ Extends(events', events)
  /\ Len(events) < Len(events') /\ events'[Len(events')] = Created(x)
  /\ \A i \in Len(events) + 1 .. Len(events') - 1 : events'[i][1] # "created"

NothingTold ==
  Extends(events', events) /\ \A i \in Len(events) + 1 .. Len(events') : events'[i][1] # "created"

LeafKinds == {"text", "soft", "hard"}

(* Nodes are added below the innermost node under way. *)
AddsChildren ==
  /\ Extends(nodes', nodes)
  /\ \A n \in Len(nodes) + 1 .. Len(nodes') : nodes'[n].parent = Top.node

AddsLeaves ==
  /\ AddsChildren
  /\ \A n \in Len(nodes) + 1 .. Len(nodes') :
       nodes'[n].kind \in LeafKinds /\ nodes'[n].recovered = FALSE

(* What stays as it was when nodes are added. *)
LEMMA OldNodes ==
  ASSUME TellInv, Extends(nodes', nodes), Extends(events', events)
  PROVE  /\ Len(nodes) \in Nat /\ Len(nodes') \in Nat /\ Len(events) \in Nat /\ Len(events') \in Nat
         /\ Len(nodes) <= Len(nodes') /\ Len(events) <= Len(events')
         /\ Len(frames) \in Nat /\ Len(notes) \in Nat
         /\ \A n \in NodeIds : /\ n \in NodeIds' /\ nodes'[n] = nodes[n]
                               /\ Silent(n)' <=> Silent(n)
                               /\ Told(n) => Told(n)'
         /\ \A i \in 1 .. Len(events) : i \in 1 .. Len(events') /\ events'[i] = events[i]
<1>1. Len(nodes) \in Nat /\ Len(nodes') \in Nat /\ Len(events) \in Nat /\ Len(events') \in Nat
      /\ Len(nodes) <= Len(nodes') /\ Len(events) <= Len(events')
      /\ Len(frames) \in Nat /\ Len(notes) \in Nat
  BY DEF TellInv, Shapes, IsASeq, Extends
<1>2. \A n \in NodeIds : n \in NodeIds' /\ nodes'[n] = nodes[n]
  BY <1>1 DEF NodeIds, Extends
<1>3. \A i \in 1 .. Len(events) : i \in 1 .. Len(events') /\ events'[i] = events[i]
  BY <1>1 DEF Extends
<1>4. \A n \in NodeIds : Silent(n)' <=> Silent(n)
  BY <1>2 DEF Silent
<1>5. \A n : Told(n) => Told(n)'
  BY <1>3 DEF Told, Created
<1> QED
  BY <1>1, <1>2, <1>3, <1>4, <1>5

LEMMA LineageKept ==
  ASSUME TellInv, NEW m \in Nat, KeptRanges(m), AddsChildren, Extends(events', events)
  PROVE  /\ m > 0 => frames'[1].node = 0
         /\ \A k \in 2 .. m :
              /\ frames'[k].node \in NodeIds'
              /\ nodes'[frames'[k].node].parent = frames'[k - 1].node
              /\ nodes'[frames'[k].node].kind \notin {"text", "soft", "hard"}
         /\ \A j, k \in 1 .. m : j < k => frames'[j].node < frames'[k].node
         /\ Len(frames) > 0 => Top.node \in 0 .. Len(nodes)
         /\ Len(frames) > 0 => \A n \in NodeIds' : nodes'[n].parent \in 0 .. n - 1
<1>0. /\ Len(nodes) \in Nat /\ Len(nodes') \in Nat
      /\ Len(nodes) <= Len(nodes')
      /\ Len(frames) \in Nat
      /\ \A n \in NodeIds : n \in NodeIds' /\ nodes'[n] = nodes[n]
  BY OldNodes DEF AddsChildren
<1>1. \A k \in 2 .. Len(frames) : frames[k].node \in NodeIds
        /\ nodes[frames[k].node].parent = frames[k - 1].node /\ ~Silent(frames[k].node)
  BY DEF TellInv, Lineage
<1>2. \A k \in 1 .. m : frames'[k].node = frames[k].node /\ k \in 1 .. Len(frames)
  BY <1>0 DEF KeptRanges
<1>3. ASSUME NEW k \in 2 .. m
      PROVE  /\ frames'[k].node \in NodeIds'
             /\ nodes'[frames'[k].node].parent = frames'[k - 1].node
             /\ nodes'[frames'[k].node].kind \notin {"text", "soft", "hard"}
  <2>1. /\ frames'[k].node = frames[k].node /\ frames'[k - 1].node = frames[k - 1].node
        /\ k \in 2 .. Len(frames)
    BY <1>2, <1>0
  <2>2. /\ frames[k].node \in NodeIds
        /\ nodes[frames[k].node].parent = frames[k - 1].node
        /\ ~Silent(frames[k].node)
    BY <2>1, <1>1
  <2>3. nodes'[frames[k].node] = nodes[frames[k].node] /\ frames[k].node \in NodeIds'
    BY <2>2, <1>0
  <2> QED
    BY ONLY <2>1, <2>2, <2>3 DEF Silent
<1>4. /\ m > 0 => frames'[1].node = 0
      /\ \A j, k \in 1 .. m : j < k => frames'[j].node < frames'[k].node
  BY <1>0, <1>2 DEF TellInv, Lineage
<1>5. Len(frames) > 0 => Top.node \in 0 .. Len(nodes)
  BY <1>0, <1>1 DEF TellInv, Lineage, Top, NodeIds
<1>6. ASSUME Len(frames) > 0, NEW n \in NodeIds'
      PROVE  nodes'[n].parent \in 0 .. n - 1
  <2>1. CASE n \in NodeIds
    BY <2>1, <1>0 DEF TellInv, Lineage
  <2>2. CASE n \notin NodeIds
    BY <2>2, <1>0, <1>5, <1>6 DEF NodeIds, AddsChildren
  <2> QED BY <2>1, <2>2
<1> QED
  BY <1>3, <1>4, <1>5, <1>6

LEMMA NotingKept ==
  ASSUME TellInv, Extends(nodes', nodes), Extends(events', events), notes' = notes,
         \A n \in NodeIds : Told(n)' <=> Told(n),
         \A n \in NodeIds' : nodes'[n].recovered /\ Told(n)' => n \in NodeIds
  PROVE  Noting'
<1>0. /\ Len(events) \in Nat /\ Len(events') \in Nat /\ Len(events) <= Len(events')
      /\ \A n \in NodeIds : n \in NodeIds' /\ nodes'[n] = nodes[n]
      /\ \A i \in 1 .. Len(events) : i \in 1 .. Len(events') /\ events'[i] = events[i]
  BY OldNodes
<1>2. /\ \A i \in 1 .. Len(notes) :
           notes[i] \in NodeIds /\ nodes[notes[i]].recovered /\ Told(notes[i])
      /\ \A i, j \in 1 .. Len(notes) : i < j =>
           \E k, l \in 1 .. Len(events) :
             k < l /\ events[k] = Created(notes[i]) /\ events[l] = Created(notes[j])
      /\ \A n \in NodeIds : nodes[n].recovered /\ Told(n) => \E i \in 1 .. Len(notes) : notes[i] = n
  BY DEF TellInv, Noting
<1>3. \A i \in 1 .. Len(notes') :
        /\ notes'[i] \in NodeIds' /\ nodes'[notes'[i]].recovered
        /\ \E k \in 1 .. Len(events') : events'[k] = Created(notes'[i])
  BY <1>2, <1>0 DEF Told
<1>4. \A i, j \in 1 .. Len(notes') : i < j =>
        \E k, l \in 1 .. Len(events') :
          k < l /\ events'[k] = Created(notes'[i]) /\ events'[l] = Created(notes'[j])
  <2> SUFFICES ASSUME NEW i \in 1 .. Len(notes), NEW j \in 1 .. Len(notes), i < j
               PROVE  \E k, l \in 1 .. Len(events') :
                        k < l /\ events'[k] = Created(notes[i]) /\ events'[l] = Created(notes[j])
    OBVIOUS
  <2>1. \E k, l \in 1 .. Len(events) :
          k < l /\ events[k] = Created(notes[i]) /\ events[l] = Created(notes[j])
    BY <1>2
  <2> QED
    BY <2>1, <1>0
<1>5. \A n \in NodeIds' : nodes'[n].recovered /\ Told(n)' => \E i \in 1 .. Len(notes') : notes'[i] = n
  BY <1>2, <1>0
<1> QED
  BY <1>3, <1>4, <1>5 DEF Noting, Created, Told

LEMMA LeavesKeepTelling ==
  ASSUME TellInv, Len(frames) > 0, SameRanges, AddsLeaves, NothingTold,
         notes' = notes, phase' \in {"plan", "walk", "failed"}
  PROVE  TellInv'
<1>0. /\ Len(nodes) \in Nat /\ Len(nodes') \in Nat /\ Len(events) \in Nat /\ Len(events') \in Nat
      /\ Len(nodes) <= Len(nodes') /\ Len(events) <= Len(events')
      /\ Len(frames) \in Nat /\ Len(notes) \in Nat
      /\ \A n \in NodeIds : /\ n \in NodeIds' /\ nodes'[n] = nodes[n]
                            /\ Silent(n)' <=> Silent(n)
                            /\ Told(n) => Told(n)'
      /\ \A i \in 1 .. Len(events) : i \in 1 .. Len(events') /\ events'[i] = events[i]
  BY OldNodes DEF AddsLeaves, AddsChildren, NothingTold
<1>1. \A n \in NodeIds' : n \notin NodeIds =>
        Silent(n)' /\ nodes'[n].recovered = FALSE /\ nodes'[n].parent = Top.node
  BY <1>0 DEF AddsLeaves, AddsChildren, NodeIds, Silent, LeafKinds
<1>2. \A i \in 1 .. Len(events') : events'[i][1] = "created" => i \in 1 .. Len(events)
  BY <1>0 DEF NothingTold
<1>3. \A n : Created(n)[1] = "created"
  BY DEF Created
<1>4. \A n \in NodeIds : Told(n)' <=> Told(n)
  <2> SUFFICES ASSUME NEW n \in NodeIds, Told(n)' PROVE Told(n)
    BY <1>0
  <2>1. PICK i \in 1 .. Len(events') : events'[i] = Created(n)
    BY DEF Told, Created
  <2>2. events'[i][1] = "created"
    BY <1>3, <2>1
  <2>3. i \in 1 .. Len(events)
    BY <1>2, <2>2
  <2>4. events[i] = Created(n)
    BY <1>0, <2>1, <2>3
  <2> QED
    BY <2>3, <2>4 DEF Told
<1>5. \A n : Opened(n)' <=> Opened(n)
  BY <1>0 DEF Opened, SameRanges, KeptRanges
<1>7. Shapes'
  BY <1>0 DEF TellInv, Shapes, SameRanges, KeptRanges, AddsLeaves, AddsChildren, NothingTold, Extends
<1>8. Lineage'
  BY <1>0, LineageKept DEF SameRanges, AddsLeaves, NothingTold, Lineage, Silent
<1>9. Telling'
  <2>1. ASSUME NEW n \in NodeIds'
        PROVE  /\ ~Silent(n)' => (Opened(n)' <=> ~Told(n)')
               /\ nodes'[n].recovered => ~Silent(n)'
               /\ \A j \in 1 .. Len(events') : events'[j] = Created(nodes'[n].parent) /\ ~Silent(n)' =>
                    \E i \in 1 .. j - 1 : events'[i] = Created(n)
    <3>1. CASE n \notin NodeIds
      BY <3>1, <1>1
    <3>2. CASE n \in NodeIds
      <4>1. /\ ~Silent(n) => (Opened(n) <=> ~Told(n))
            /\ nodes[n].recovered => ~Silent(n)
            /\ \A j \in 1 .. Len(events) : events[j] = Created(nodes[n].parent) /\ ~Silent(n) =>
                 \E i \in 1 .. j - 1 : events[i] = Created(n)
        BY <3>2 DEF TellInv, Telling
      <4> QED
        BY <3>2, <4>1, <1>0, <1>2, <1>3, <1>4, <1>5
    <3> QED BY <3>1, <3>2
  <2>2. \A i \in 1 .. Len(events') :
          events'[i][1] # "created" \/ \E n \in NodeIds' : ~Silent(n)' /\ events'[i] = Created(n)
    BY <1>0, <1>2 DEF TellInv, Telling
  <2>3. \A i, j \in 1 .. Len(events') : events'[i][1] = "created" /\ events'[i] = events'[j] => i = j
    BY <1>0, <1>2 DEF TellInv, Telling
  <2> QED
    BY <2>1, <2>2, <2>3 DEF Telling, Created
<1>10. Noting'
  BY <1>0, <1>1, <1>4, NotingKept DEF AddsLeaves, AddsChildren, NothingTold
<1> QED
  BY <1>7, <1>8, <1>9, <1>10 DEF TellInv

LEMMA OneIsTold ==
  ASSUME TellInv, AddsChildren, NEW x \in NodeIds', ToldNow(x), ~Told(x),
         nodes'[x].kind \notin {"text", "soft", "hard"},
         notes' = IF nodes'[x].recovered THEN Append(notes, x) ELSE notes,
         \A n \in NodeIds' : n \notin NodeIds => n = x,
         \A n \in NodeIds : Opened(n)' <=> (Opened(n) /\ n # x),
         ~Opened(x)',
         \A n \in NodeIds' : nodes'[n].parent = x /\ ~Silent(n)' => n \in NodeIds /\ Told(n),
         x \notin NodeIds => nodes'[x].parent # x /\ ~Told(nodes'[x].parent)
  PROVE  Telling' /\ Noting'
<1>0. /\ Len(nodes) \in Nat /\ Len(nodes') \in Nat /\ Len(events) \in Nat /\ Len(events') \in Nat
      /\ Len(nodes) <= Len(nodes') /\ Len(events) <= Len(events')
      /\ Len(frames) \in Nat /\ Len(notes) \in Nat
      /\ \A n \in NodeIds : /\ n \in NodeIds' /\ nodes'[n] = nodes[n]
                            /\ Silent(n)' <=> Silent(n)
                            /\ Told(n) => Told(n)'
      /\ \A i \in 1 .. Len(events) : i \in 1 .. Len(events') /\ events'[i] = events[i]
  BY OldNodes DEF AddsChildren, ToldNow
<1>1. \A n : Created(n)[1] = "created" /\ Created(n)[2] = n
  BY DEF Created
<1>2. /\ Len(events') \in 1 .. Len(events') /\ Len(events') > Len(events) /\ events'[Len(events')] = Created(x)
      /\ \A i \in 1 .. Len(events') : events'[i][1] = "created" =>
           i \in 1 .. Len(events) \/ i = Len(events')
  BY <1>0 DEF ToldNow
<1>3. \A n : Told(n)' <=> (Told(n) \/ n = x)
  <2> SUFFICES ASSUME NEW n PROVE Told(n)' <=> (Told(n) \/ n = x) OBVIOUS
  <2>1. Told(n)' <=> \E i \in 1 .. Len(events') : events'[i] = Created(n)
    BY DEF Told, Created
  <2> QED
    BY <2>1, <1>0, <1>1, <1>2 DEF Told
<1>4. \A i \in 1 .. Len(events) : events[i] # Created(x)
  BY DEF Told
<1>5. Telling'
  <2>1. ASSUME NEW n \in NodeIds'
        PROVE  /\ ~Silent(n)' => (Opened(n)' <=> ~Told(n)')
               /\ nodes'[n].recovered => ~Silent(n)'
    <3>1. CASE n \in NodeIds
      BY <3>1, <1>0, <1>3 DEF TellInv, Telling
    <3>2. CASE n \notin NodeIds
      BY <3>2, <1>3 DEF Silent
    <3> QED BY <3>1, <3>2
  <2>2. ASSUME NEW n \in NodeIds', ~Silent(n)', NEW j \in 1 .. Len(events'),
               events'[j] = Created(nodes'[n].parent)
        PROVE  \E i \in 1 .. j - 1 : events'[i] = Created(n)
    <3>1. CASE j = Len(events')
      <4>1. nodes'[n].parent = x
        BY <3>1, <2>2, <1>1, <1>2
      <4>2. Told(n)
        BY <4>1, <2>2
      <4> QED
        BY <4>2, <3>1, <1>0, <1>2 DEF Told
    <3>2. CASE j # Len(events')
      <4>1. j \in 1 .. Len(events) /\ events[j] = Created(nodes'[n].parent)
        BY <3>2, <2>2, <1>0, <1>1, <1>2
      <4>2. Told(nodes'[n].parent)
        BY <4>1 DEF Told
      <4>3. n \in NodeIds
        BY <4>2
      <4> QED
        BY <4>1, <4>3, <2>2, <1>0 DEF TellInv, Telling
    <3> QED BY <3>1, <3>2
  <2>3. ASSUME NEW i \in 1 .. Len(events'), events'[i][1] = "created"
        PROVE  \E n \in NodeIds' : nodes'[n].kind \notin {"text", "soft", "hard"} /\ events'[i] = Created(n)
    <3>1. CASE i = Len(events')
      BY <3>1, <1>2
    <3>2. CASE i # Len(events')
      <4>1. PICK n \in NodeIds : ~Silent(n) /\ events[i] = Created(n)
        BY <3>2, <2>3, <1>0, <1>2 DEF TellInv, Telling
      <4> QED
        BY <4>1, <3>2, <2>3, <1>0, <1>2 DEF Silent
    <3> QED BY <3>1, <3>2
  <2>4. ASSUME NEW i \in 1 .. Len(events'), NEW j \in 1 .. Len(events'),
               events'[i][1] = "created", events'[i] = events'[j]
        PROVE  i = j
    <3>1. i \in 1 .. Len(events) /\ j \in 1 .. Len(events) => i = j
      BY <2>4, <1>0 DEF TellInv, Telling
    <3>2. i = Len(events') => j = Len(events')
      BY <2>4, <1>0, <1>1, <1>2, <1>4
    <3>3. j = Len(events') => i = Len(events')
      BY <2>4, <1>0, <1>1, <1>2, <1>4
    <3> QED BY <3>1, <3>2, <3>3, <2>4, <1>2
  <2> QED
    BY <2>1, <2>2, <2>3, <2>4 DEF Telling, Silent, Created
<1>6. Noting'
  <2>0. /\ \A i \in 1 .. Len(notes) :
             notes[i] \in NodeIds /\ nodes[notes[i]].recovered /\ Told(notes[i])
        /\ \A i, j \in 1 .. Len(notes) : i < j =>
             \E k, l \in 1 .. Len(events) :
               k < l /\ events[k] = Created(notes[i]) /\ events[l] = Created(notes[j])
        /\ \A n \in NodeIds : nodes[n].recovered /\ Told(n) => \E i \in 1 .. Len(notes) : notes[i] = n
    BY DEF TellInv, Noting
  <2>1. /\ Len(notes') \in Nat /\ Len(notes) <= Len(notes')
        /\ \A i \in 1 .. Len(notes) : notes'[i] = notes[i]
        /\ \A i \in 1 .. Len(notes') : i \notin 1 .. Len(notes) =>
             i = Len(notes) + 1 /\ notes'[i] = x /\ nodes'[x].recovered
        /\ nodes'[x].recovered => Len(notes') = Len(notes) + 1 /\ notes'[Len(notes) + 1] = x
    <3>1. IsASeq(notes)
      BY DEF TellInv, Shapes
    <3> QED
      BY <3>1, <1>0, Appending
  <2>2. \A i \in 1 .. Len(notes') :
          /\ notes'[i] \in NodeIds' /\ nodes'[notes'[i]].recovered
          /\ \E k \in 1 .. Len(events') : events'[k] = Created(notes'[i])
    <3> SUFFICES ASSUME NEW i \in 1 .. Len(notes')
                 PROVE  /\ notes'[i] \in NodeIds' /\ nodes'[notes'[i]].recovered
                        /\ \E k \in 1 .. Len(events') : events'[k] = Created(notes'[i])
      OBVIOUS
    <3>1. CASE i \in 1 .. Len(notes)
      BY <3>1, <2>0, <2>1, <1>0 DEF Told
    <3>2. CASE i \notin 1 .. Len(notes)
      BY <3>2, <2>1, <1>2
    <3> QED BY <3>1, <3>2
  <2>3. ASSUME NEW i \in 1 .. Len(notes'), NEW j \in 1 .. Len(notes'), i < j
        PROVE  \E k, l \in 1 .. Len(events') :
                 k < l /\ events'[k] = Created(notes'[i]) /\ events'[l] = Created(notes'[j])
    <3>1. CASE j \in 1 .. Len(notes)
      BY <3>1, <2>3, <2>0, <2>1, <1>0
    <3>2. CASE j \notin 1 .. Len(notes)
      <4>1. i \in 1 .. Len(notes) /\ notes'[i] = notes[i] /\ notes'[j] = x
        BY <3>2, <2>3, <2>1, <1>0
      <4>2. PICK k \in 1 .. Len(events) : events[k] = Created(notes[i])
        BY <4>1, <2>0 DEF Told
      <4> QED
        BY <4>1, <4>2, <1>0, <1>2
    <3> QED BY <3>1, <3>2
  <2>4. ASSUME NEW n \in NodeIds', nodes'[n].recovered, Told(n)'
        PROVE  \E i \in 1 .. Len(notes') : notes'[i] = n
    <3>1. CASE n = x
      BY <3>1, <2>4, <2>1, <1>0
    <3>2. CASE n # x
      <4>1. n \in NodeIds /\ Told(n) /\ nodes[n].recovered
        BY <3>2, <2>4, <1>0, <1>3
      <4> QED
        BY <4>1, <2>0, <2>1, <1>0
    <3> QED BY <3>1, <3>2
  <2> QED
    BY <2>2, <2>3, <2>4 DEF Noting, Created, Told
<1> QED
  BY <1>5, <1>6

LEMMA OneOrMore ==
  ASSUME NEW n \in Nat, n > 0
  PROVE  /\ n = 1 \/ n > 1
         /\ n - 1 \in Nat
         /\ n > 1 => n # 1 /\ n - 1 > 0
         /\ n = 1 => n - 1 = 0
OBVIOUS

(* The nodes of the active ranges are still to be told of, and so is the   *)
(* paragraph.                                                              *)
LEMMA TopIsUntold ==
  ASSUME TellInv, Len(frames) > 0
  PROVE  /\ ~Told(Top.node)
         /\ Top.node \in 0 .. Len(nodes)
         /\ Len(frames) > 1 => /\ Top.node \in NodeIds /\ Opened(Top.node) /\ ~Silent(Top.node)
                               /\ nodes[Top.node].parent = frames[Len(frames) - 1].node
         /\ Len(frames) = 1 => Top.node = 0
<1>1. Len(frames) \in Nat /\ Len(nodes) \in Nat
  BY DEF TellInv, Shapes, IsASeq
<1>2. CASE Len(frames) = 1
  <2>1. Top.node = 0
    BY <1>2 DEF TellInv, Lineage, Top
  <2>2. ~Told(0)
    <3>1. Created(0)[1] = "created" /\ Created(0)[2] = 0 /\ \A n : Created(n)[2] = n
      BY DEF Created
    <3> QED
      BY <3>1, <1>1 DEF TellInv, Telling, Told, NodeIds
  <2>3. Top.node \in 0 .. Len(nodes) /\ ~(Len(frames) > 1)
    BY <2>1, <1>1, <1>2
  <2> QED
    BY <2>1, <2>2, <2>3
<1>3. CASE Len(frames) > 1
  <2>1. /\ Top.node \in NodeIds /\ ~Silent(Top.node)
        /\ nodes[Top.node].parent = frames[Len(frames) - 1].node
    BY <1>1, <1>3 DEF TellInv, Lineage, Top
  <2>2. Opened(Top.node)
    BY <1>1, <1>3 DEF Opened, Top
  <2>3. ~Told(Top.node)
    BY <2>1, <2>2 DEF TellInv, Telling
  <2>4. Top.node \in 0 .. Len(nodes)
    BY <2>1, <1>1 DEF NodeIds
  <2>5. Len(frames) # 1
    BY <1>1, <1>3, OneOrMore
  <2> QED
    BY <2>1, <2>2, <2>3, <2>4, <2>5
<1>4. Len(frames) = 1 \/ Len(frames) > 1
  BY <1>1, OneOrMore
<1> QED
  BY <1>2, <1>3, <1>4

LEMMA CodeKeepsTelling ==
  ASSUME TellInv, Len(frames) > 0, SameRanges, NEW n, nodes' = Append(nodes, n),
         n.kind = "code", n.parent = Top.node, ToldNow(Len(nodes) + 1),
         notes' = IF n.recovered THEN Append(notes, Len(nodes) + 1) ELSE notes,
         phase' = phase, phase \in {"plan", "walk", "failed"}
  PROVE  TellInv'
<1>0. PICK x : x = Len(nodes) + 1
  OBVIOUS
<1>1. /\ IsASeq(nodes') /\ Len(nodes) \in Nat /\ Len(nodes') = x
      /\ \A k \in 1 .. Len(nodes) : nodes'[k] = nodes[k]
      /\ nodes'[x] = n /\ x \in NodeIds' /\ x \notin NodeIds /\ NodeIds' = NodeIds \cup {x}
  <2>1. IsASeq(nodes) /\ Len(nodes) \in Nat
    BY DEF TellInv, Shapes, IsASeq
  <2>2. /\ IsASeq(nodes') /\ Len(nodes') = Len(nodes) + 1
        /\ \A k \in 1 .. Len(nodes) : nodes'[k] = nodes[k]
        /\ nodes'[Len(nodes) + 1] = n
    BY <2>1, Appending
  <2>3. x \in NodeIds' /\ x \notin NodeIds /\ NodeIds' = NodeIds \cup {x}
    BY <2>1, <2>2, <1>0 DEF NodeIds
  <2> QED
    BY <2>1, <2>2, <2>3, <1>0
<1>2. AddsChildren
  BY <1>1 DEF AddsChildren, Extends
<1>3. Len(frames) \in Nat /\ Extends(events', events)
  BY DEF TellInv, Shapes, IsASeq, ToldNow
<1>4. Lineage'
  BY <1>2, <1>3, LineageKept DEF SameRanges, Lineage, Silent
<1>5. Shapes'
  <2>1. IsASeq(notes')
    BY Appending DEF TellInv, Shapes
  <2> QED
    BY <2>1, <1>1, <1>3 DEF TellInv, Shapes, SameRanges, KeptRanges, Extends
<1>6. \A m : Opened(m)' <=> Opened(m)
  BY <1>3 DEF Opened, SameRanges, KeptRanges
<1>7. ~Opened(x) /\ ~Told(x)
  <2>1. ~Opened(x)
    BY <1>1 DEF Opened, TellInv, Lineage
  <2>2. Created(x)[1] = "created" /\ Created(x)[2] = x /\ \A m : Created(m)[2] = m
    BY DEF Created
  <2>3. ~Told(x)
    BY <2>2, <1>1 DEF Told, TellInv, Telling
  <2> QED
    BY <2>1, <2>3
<1>8. \A m \in NodeIds' : nodes'[m].parent # x
  <2>1. \A m \in NodeIds' : nodes'[m].parent \in 0 .. m - 1 /\ m \in 1 .. x
    BY <1>1, <1>4 DEF Lineage, NodeIds
  <2> QED
    BY <2>1, <1>1
<1>9. ~Told(nodes'[x].parent)
  BY <1>1, TopIsUntold
<1>10. nodes'[x].kind \notin {"text", "soft", "hard"}
  BY <1>1
<1>11. ToldNow(x) /\ notes' = IF nodes'[x].recovered THEN Append(notes, x) ELSE notes
  BY <1>0, <1>1
<1>12. Telling' /\ Noting'
  <2>1. \A m \in NodeIds' : m \notin NodeIds => m = x
    BY <1>1
  <2>2. \A m \in NodeIds : Opened(m)' <=> (Opened(m) /\ m # x)
    BY <1>1, <1>6
  <2>3. ~Opened(x)'
    BY <1>6, <1>7
  <2> QED
    BY <1>1, <1>2, <1>7, <1>8, <1>9, <1>10, <1>11, <2>1, <2>2, <2>3, OneIsTold
<1> QED
  BY <1>4, <1>5, <1>12 DEF TellInv

LEMMA ReturnKeepsTelling ==
  ASSUME TellInv, Return
  PROVE  TellInv'
<1>1. /\ phase = "walk" /\ nodes' = nodes /\ Len(frames) \in Nat /\ Len(frames) > 0
      /\ frames' = SubSeq(frames, 1, Len(frames) - 1)
      /\ IsASeq(frames) /\ IsASeq(nodes) /\ IsASeq(events) /\ IsASeq(notes)
      /\ Len(nodes) \in Nat /\ Len(events) \in Nat
  BY DEF TellInv, Shapes, IsASeq, Return
<1>2. /\ IsASeq(frames') /\ Len(frames') = Len(frames) - 1
      /\ \A k \in 1 .. Len(frames) - 1 : frames'[k] = frames[k]
  BY <1>1, Dropping
<1>a. Len(frames) - 1 \in Nat /\ (Len(frames) = 1 \/ Len(frames) > 1)
  BY <1>1, OneOrMore
<1>3. KeptRanges(Len(frames) - 1)
  BY <1>1, <1>2 DEF KeptRanges, TellInv, Shapes
<1>4. AddsChildren
  BY <1>1 DEF AddsChildren, Extends
<1>5. CASE Len(frames) = 1
  <2>1. phase' = "done" /\ events' = events /\ notes' = notes
    BY <1>5 DEF Return
  <2>2. Shapes'
    BY <2>1, <1>1, <1>2, <1>5 DEF Shapes
  <2>3. Extends(events', events)
    BY <2>1, <1>1 DEF Extends
  <2>4. Lineage'
    BY <2>3, <1>1, <1>2, <1>3, <1>4, <1>a, LineageKept DEF Lineage, Silent
  <2>5. \A n : Told(n)' <=> Told(n)
    BY <2>1 DEF Told, Created
  <2>6. \A n : ~Opened(n)' /\ ~Opened(n)
    BY <1>2, <1>5 DEF Opened
  <2>7. \A n \in NodeIds : Silent(n)' <=> Silent(n)
    BY <1>1 DEF Silent
  <2>8. NodeIds' = NodeIds
    BY <1>1 DEF NodeIds
  <2>9. Telling'
    BY <2>1, <2>5, <2>6, <2>7, <2>8, <1>1 DEF TellInv, Telling, Created
  <2>10. Noting'
    <3>1. Extends(nodes', nodes)
      BY <1>1 DEF Extends
    <3> QED
      BY <2>1, <2>3, <2>5, <2>8, <3>1, NotingKept
  <2> QED
    BY <2>2, <2>4, <2>9, <2>10 DEF TellInv
<1>6. CASE Len(frames) > 1
  <2>0. PICK x : x = Top.node
    OBVIOUS
  <2>b. Len(frames) # 1 /\ Len(frames) - 1 > 0
    BY <1>1, <1>6, OneOrMore
  <2>a. phase' = phase
    BY <2>b DEF Return
  <2>1. ToldNow(x)
    <3>1. CASE nodes[x].recovered
      <4>0. PICK told : told = <<"recovered", x>>
        OBVIOUS
      <4>1. events' = events \o <<told, Created(x)>>
        BY <2>b, <2>0, <3>1, <4>0 DEF Return, Created
      <4>2. told[1] = "recovered"
        BY <4>0
      <4>3. /\ IsASeq(events') /\ Len(events') = Len(events) + 2
            /\ \A k \in 1 .. Len(events) : events'[k] = events[k]
            /\ events'[Len(events) + 1] = told /\ events'[Len(events) + 2] = Created(x)
        BY <4>1, <1>1, AppendingTwo
      <4> QED
        BY <4>2, <4>3, <1>1 DEF ToldNow, Extends
    <3>2. CASE ~nodes[x].recovered
      <4>1. events' = Append(events, Created(x))
        BY <2>b, <2>0, <3>2 DEF Return, Created
      <4>2. /\ IsASeq(events') /\ Len(events') = Len(events) + 1
            /\ \A k \in 1 .. Len(events) : events'[k] = events[k]
            /\ events'[Len(events) + 1] = Created(x)
        BY <4>1, <1>1, Appending
      <4> QED
        BY <4>2, <1>1 DEF ToldNow, Extends
    <3> QED BY <3>1, <3>2
  <2>2. notes' = IF nodes'[x].recovered THEN Append(notes, x) ELSE notes
    BY <1>1, <1>6, <2>0 DEF Return
  <2>3. /\ x \in NodeIds /\ Opened(x) /\ ~Silent(x) /\ ~Told(x)
    BY <1>1, <1>6, <2>0, TopIsUntold
  <2>4. Shapes'
    <3>1. IsASeq(notes')
      BY <2>2, <1>1, Appending
    <3>2. IsASeq(events')
      BY <2>1 DEF ToldNow, Extends
    <3> QED
      BY <3>1, <3>2, <2>a, <2>b, <1>1, <1>2, <1>3 DEF Shapes, KeptRanges
  <2>5. Lineage'
    BY <2>1, <1>1, <1>2, <1>3, <1>4, <1>a, LineageKept DEF Lineage, Silent, ToldNow
  <2>6. \A j, k \in 1 .. Len(frames) : j < k => frames[j].node < frames[k].node
    BY DEF TellInv, Lineage
  <2>7. \A k \in 1 .. Len(frames) : frames[k].node = x <=> k = Len(frames)
    <3>1. \A k \in 1 .. Len(frames) - 1 : frames[k].node < frames[Len(frames)].node
      BY <2>6, <1>1, <1>6
    <3>2. \A k \in 1 .. Len(frames) : frames[k].node \in Int
      BY <1>1 DEF TellInv, Lineage, NodeIds
    <3> QED
      BY <3>1, <3>2, <2>0, <1>1, <1>6 DEF Top
  <2>8. \A n : Opened(n)' <=> (Opened(n) /\ n # x)
    BY <2>7, <1>1, <1>2, <1>6 DEF Opened
  <2>9. \A n \in NodeIds : nodes[n].parent = x /\ ~Silent(n) => Told(n)
    <3> SUFFICES ASSUME NEW n \in NodeIds, nodes[n].parent = x, ~Silent(n), ~Told(n) PROVE FALSE
      OBVIOUS
    <3>1. PICK k \in 2 .. Len(frames) : frames[k].node = n
      BY DEF TellInv, Telling, Opened
    <3>2. frames[k - 1].node = x
      BY <3>1 DEF TellInv, Lineage
    <3> QED
      BY <3>1, <3>2, <2>7, <1>1
  <2>10. NodeIds' = NodeIds /\ nodes'[x].kind \notin {"text", "soft", "hard"}
    BY <2>3, <1>1 DEF NodeIds, Silent
  <2>11. \A n \in NodeIds' : nodes'[n].parent = x /\ ~Silent(n)' => n \in NodeIds /\ Told(n)
    BY <2>9, <2>10, <1>1 DEF Silent
  <2>12. Telling' /\ Noting'
    BY <2>1, <2>2, <2>3, <2>8, <2>10, <2>11, <1>4, OneIsTold
  <2> QED
    BY <2>4, <2>5, <2>12 DEF TellInv
<1> QED
  BY <1>a, <1>5, <1>6

LEMMA DescentKeepsTelling ==
  ASSUME TellInv, Len(frames) > 0, NEW n, NEW next, NEW plan, Descend(n, next, plan),
         n.parent = Top.node, n.kind \notin {"text", "soft", "hard"}, NothingTold,
         phase' \in {"plan", "walk", "failed"}
  PROVE  TellInv'
<1>0. PICK x : x = Len(nodes) + 1
  OBVIOUS
<1>1. /\ IsASeq(frames) /\ IsASeq(nodes) /\ IsASeq(notes) /\ Len(frames) \in Nat /\ Len(nodes) \in Nat
      /\ Len(events) \in Nat /\ \A k \in 1 .. Len(frames) : IsFrame(frames[k])
  BY DEF TellInv, Shapes, IsASeq
<1>2. /\ IsASeq(nodes') /\ Len(nodes') = x /\ \A k \in 1 .. Len(nodes) : nodes'[k] = nodes[k]
      /\ nodes'[x] = n
  BY <1>0, <1>1, Appending DEF Descend
<1>3. x \in NodeIds' /\ x \notin NodeIds /\ NodeIds' = NodeIds \cup {x}
  BY <1>0, <1>1, <1>2 DEF NodeIds
<1>4. /\ IsASeq(frames') /\ Len(frames') = Len(frames) + 1
      /\ \A k \in 1 .. Len(frames) : IsFrame(frames'[k]) /\ frames'[k].node = frames[k].node
      /\ IsFrame(frames'[Len(frames) + 1]) /\ frames'[Len(frames) + 1].node = x
  <2>1. PICK f : f = Frame(x, n.inFrom, n.inTo, plan)
    OBVIOUS
  <2>2. PICK moved : moved = [frames EXCEPT ![Len(frames)].position = next]
    OBVIOUS
  <2>3. /\ IsASeq(moved) /\ Len(moved) = Len(frames)
        /\ \A k \in 1 .. Len(frames) : IsFrame(moved[k]) /\ moved[k].node = frames[k].node
    <3>1. MovedTo(moved, frames, next) /\ AllFrames(frames)
      BY <2>2, <1>1 DEF MovedTo, AllFrames
    <3> QED
      BY <3>1, <1>1, Moving
  <2>4. frames' = Append(moved, f)
    BY <2>1, <2>2, <1>0 DEF Descend
  <2>5. IsFrame(f) /\ f.node = x
    BY <2>1 DEF IsFrame, Frame
  <2> QED
    BY <2>3, <2>4, <2>5, Appending
<1>5. KeptRanges(Len(frames))
  BY <1>1, <1>4 DEF KeptRanges
<1>6. Extends(nodes', nodes) /\ AddsChildren /\ Extends(events', events)
  BY <1>0, <1>1, <1>2 DEF AddsChildren, Extends, NothingTold
<1>7. /\ Len(nodes') \in Nat /\ Len(events') \in Nat /\ Len(events) <= Len(events')
      /\ \A m \in NodeIds : /\ m \in NodeIds' /\ nodes'[m] = nodes[m]
                            /\ Silent(m)' <=> Silent(m)
      /\ \A i \in 1 .. Len(events) : i \in 1 .. Len(events') /\ events'[i] = events[i]
  BY <1>6, OldNodes
<1>8. \A i \in 1 .. Len(events') : events'[i][1] = "created" => i \in 1 .. Len(events)
  BY <1>1, <1>7 DEF NothingTold
<1>9. \A m : Created(m)[1] = "created" /\ Created(m)[2] = m
  BY DEF Created
<1>10. \A m : Told(m)' <=> Told(m)
  <2> SUFFICES ASSUME NEW m PROVE Told(m)' <=> Told(m)
    OBVIOUS
  <2>1. Told(m)' <=> \E i \in 1 .. Len(events') : events'[i] = Created(m)
    BY DEF Told, Created
  <2> QED
    BY <2>1, <1>7, <1>8, <1>9 DEF Told
<1>11. Top.node \in 0 .. Len(nodes) /\ ~Told(Top.node)
  BY TopIsUntold
<1>12. ~Told(x)
  BY <1>3, <1>9 DEF Told, TellInv, Telling
<1>13. Opened(x)' /\ \A m \in NodeIds : Opened(m)' <=> Opened(m)
  <2>1. Opened(x)'
    BY <1>1, <1>4 DEF Opened
  <2>2. \A k \in 2 .. Len(frames') : k \in 2 .. Len(frames) \/ k = Len(frames) + 1
    BY <1>1, <1>4
  <2>3. \A k \in 2 .. Len(frames) : k \in 2 .. Len(frames')
    BY <1>1, <1>4
  <2>4. ASSUME NEW m \in NodeIds PROVE Opened(m)' <=> Opened(m)
    <3>1. m # x
      BY <1>3
    <3>2. \A k \in 2 .. Len(frames) : k \in 2 .. Len(frames') /\ frames'[k].node = frames[k].node
      BY <2>3, <1>1, <1>4
    <3>3. \A k \in 2 .. Len(frames') : frames'[k].node = m => k \in 2 .. Len(frames)
      BY <3>1, <2>2, <1>4
    <3> QED
      BY <3>2, <3>3 DEF Opened
  <2> QED
    BY <2>1, <2>4
<1>14. Shapes'
  BY <1>1, <1>2, <1>4, <1>6 DEF Shapes, Extends, Descend
<1>15. Lineage'
  <2>1. /\ Len(frames) > 0 => frames'[1].node = 0
        /\ \A k \in 2 .. Len(frames) :
             /\ frames'[k].node \in NodeIds'
             /\ nodes'[frames'[k].node].parent = frames'[k - 1].node
             /\ nodes'[frames'[k].node].kind \notin {"text", "soft", "hard"}
        /\ \A j, k \in 1 .. Len(frames) : j < k => frames'[j].node < frames'[k].node
        /\ \A m \in NodeIds' : nodes'[m].parent \in 0 .. m - 1
    BY <1>1, <1>5, <1>6, LineageKept
  <2>2. frames'[Len(frames)].node = Top.node
    BY <1>1, <1>4 DEF Top
  <2>3. ASSUME NEW k \in 2 .. Len(frames')
        PROVE  /\ frames'[k].node \in NodeIds'
               /\ nodes'[frames'[k].node].parent = frames'[k - 1].node
               /\ nodes'[frames'[k].node].kind \notin {"text", "soft", "hard"}
    <3>1. CASE k \in 2 .. Len(frames)
      BY <3>1, <2>1
    <3>2. CASE k \notin 2 .. Len(frames)
      <4>1. k = Len(frames) + 1 /\ k - 1 = Len(frames)
        BY <3>2, <1>1, <1>4
      <4> QED
        BY <4>1, <2>2, <1>2, <1>3, <1>4
    <3> QED BY <3>1, <3>2
  <2>4. ASSUME NEW j \in 1 .. Len(frames'), NEW k \in 1 .. Len(frames'), j < k
        PROVE  frames'[j].node < frames'[k].node
    <3>1. j \in 1 .. Len(frames) /\ (k \in 1 .. Len(frames) \/ k = Len(frames) + 1)
      BY <2>4, <1>1, <1>4
    <3>2. \A i \in 1 .. Len(frames) : frames[i].node \in 0 .. Len(nodes)
      BY <1>1 DEF TellInv, Lineage, NodeIds
    <3>3. frames'[j].node < x
      BY <3>1, <3>2, <1>0, <1>1, <1>4
    <3> QED
      BY <3>1, <3>3, <2>1, <2>4, <1>4
  <2>5. Len(frames') > 0 => frames'[1].node = 0
    BY <2>1
  <2> QED
    BY <2>1, <2>3, <2>4, <2>5 DEF Lineage, Silent
<1>16. Telling'
  <2>1. ASSUME NEW m \in NodeIds'
        PROVE  /\ ~Silent(m)' => (Opened(m)' <=> ~Told(m)')
               /\ nodes'[m].recovered => ~Silent(m)'
    <3>1. CASE m \in NodeIds
      BY <3>1, <1>7, <1>10, <1>13 DEF TellInv, Telling
    <3>2. CASE m \notin NodeIds
      BY <3>2, <1>2, <1>3, <1>10, <1>12, <1>13 DEF Silent
    <3> QED BY <3>1, <3>2
  <2>2. ASSUME NEW m \in NodeIds', ~Silent(m)', NEW j \in 1 .. Len(events'),
               events'[j] = Created(nodes'[m].parent)
        PROVE  \E i \in 1 .. j - 1 : events'[i] = Created(m)
    <3>1. j \in 1 .. Len(events) /\ events[j] = Created(nodes'[m].parent)
      BY <2>2, <1>7, <1>8, <1>9
    <3>2. Told(nodes'[m].parent)
      BY <3>1 DEF Told
    <3>3. m \in NodeIds
      BY <3>2, <1>2, <1>3, <1>11
    <3> QED
      BY <3>1, <3>3, <2>2, <1>7 DEF TellInv, Telling
  <2>3. ASSUME NEW i \in 1 .. Len(events'), events'[i][1] = "created"
        PROVE  \E m \in NodeIds' : nodes'[m].kind \notin {"text", "soft", "hard"} /\ events'[i] = Created(m)
    <3>1. PICK m \in NodeIds : ~Silent(m) /\ events[i] = Created(m)
      BY <2>3, <1>7, <1>8 DEF TellInv, Telling
    <3> QED
      BY <3>1, <2>3, <1>7, <1>8 DEF Silent
  <2>4. ASSUME NEW i \in 1 .. Len(events'), NEW j \in 1 .. Len(events'),
               events'[i][1] = "created", events'[i] = events'[j]
        PROVE  i = j
    BY <2>4, <1>7, <1>8 DEF TellInv, Telling
  <2> QED
    BY <2>1, <2>2, <2>3, <2>4 DEF Telling, Silent, Created
<1>17. Noting'
  <2>1. \A m \in NodeIds' : nodes'[m].recovered /\ Told(m)' => m \in NodeIds
    BY <1>3, <1>10, <1>12
  <2>2. notes' = notes
    BY DEF Descend
  <2> QED
    BY <2>1, <2>2, <1>6, <1>10, NotingKept
<1> QED
  BY <1>14, <1>15, <1>16, <1>17 DEF TellInv

(* Nodes that are told of nowhere, below the innermost node under way. *)
SilentLeaves(leaves) ==
  /\ IsASeq(leaves)
  /\ \A k \in 1 .. Len(leaves) :
       leaves[k].kind \in LeafKinds /\ leaves[k].recovered = FALSE /\ leaves[k].parent = Top.node

LEMMA NoLeaves == SilentLeaves(<<>>)
<1>1. <<>> \in Seq({}) /\ Len(<<>>) = 0
  OBVIOUS
<1>2. IsASeq(<<>>)
  BY ONLY <1>1, SeqIsASeq
<1> QED
  BY <1>1, <1>2 DEF SilentLeaves

LEMMA OneLeaf ==
  ASSUME NEW kind \in LeafKinds, NEW from, NEW to
  PROVE  SilentLeaves(<<Leaf(kind, from, to)>>)
<1>1. PICK leaf : leaf = Leaf(kind, from, to)
  OBVIOUS
<1>2. leaf.kind \in LeafKinds /\ leaf.recovered = FALSE /\ leaf.parent = Top.node
  BY <1>1 DEF Leaf, NodeRec
<1>3. PICK leaves : leaves = <<leaf>>
  OBVIOUS
<1>4. leaves \in Seq({leaf}) /\ Len(leaves) = 1 /\ leaves[1] = leaf
  BY <1>3
<1>5. IsASeq(leaves)
  BY ONLY <1>4, SeqIsASeq
<1>6. SilentLeaves(leaves)
  BY <1>2, <1>4, <1>5 DEF SilentLeaves
<1> QED
  BY <1>1, <1>3, <1>6

LEMMA SourceIsSilent ==
  ASSUME NEW from, NEW to
  PROVE  SilentLeaves(Source(from, to))
<1>1. "text" \in LeafKinds
  BY DEF LeafKinds
<1> QED
  BY <1>1, NoLeaves, OneLeaf DEF Source

LEMMA MoreLeaves ==
  ASSUME NEW s, SilentLeaves(s), NEW t, SilentLeaves(t)
  PROVE  SilentLeaves(s \o t)
<1>1. PICK u : u = s \o t
  OBVIOUS
<1>2. IsASeq(s) /\ IsASeq(t) /\ Len(s) \in Nat /\ Len(t) \in Nat
  BY DEF SilentLeaves, IsASeq
<1>3. /\ IsASeq(u) /\ Len(u) = Len(s) + Len(t)
      /\ \A k \in 1 .. Len(s) : u[k] = s[k]
      /\ \A k \in 1 .. Len(t) : u[Len(s) + k] = t[k]
  BY <1>1, <1>2, Joining
<1>4. \A k \in 1 .. Len(u) : k \in 1 .. Len(s) \/ (k - Len(s) \in 1 .. Len(t) /\ k = Len(s) + (k - Len(s)))
  BY <1>2, <1>3
<1>5. \A k \in 1 .. Len(u) :
        u[k].kind \in LeafKinds /\ u[k].recovered = FALSE /\ u[k].parent = Top.node
  BY <1>3, <1>4 DEF SilentLeaves
<1> QED
  BY <1>1, <1>3, <1>5 DEF SilentLeaves

LEMMA AdvanceKeepsTelling ==
  ASSUME TellInv, phase = "walk", NEW position, NEW leaves, Advance(position, leaves),
         SilentLeaves(leaves), NothingTold
  PROVE  TellInv'
<1>1. /\ IsASeq(frames) /\ IsASeq(nodes) /\ Len(frames) \in Nat /\ Len(nodes) \in Nat
      /\ AllFrames(frames) /\ Len(frames) # 0
  BY DEF TellInv, Shapes, IsASeq, AllFrames
<1>2. Len(frames) > 0
  BY <1>1
<1>3. MovedTo(frames', frames, position)
  BY DEF Advance, MovedTo
<1>4. SameRanges
  <2>1. /\ IsASeq(frames') /\ Len(frames') = Len(frames)
        /\ \A k \in 1 .. Len(frames) : IsFrame(frames'[k]) /\ frames'[k].node = frames[k].node
    BY <1>1, <1>2, <1>3, Moving
  <2> QED
    BY <2>1, <1>1 DEF SameRanges, KeptRanges
<1>5. /\ IsASeq(leaves) /\ Len(leaves) \in Nat
      /\ IsASeq(nodes') /\ Len(nodes') = Len(nodes) + Len(leaves)
      /\ \A k \in 1 .. Len(nodes) : nodes'[k] = nodes[k]
      /\ \A k \in 1 .. Len(leaves) : nodes'[Len(nodes) + k] = leaves[k]
  <2>1. IsASeq(leaves) /\ nodes' = nodes \o leaves
    BY DEF Advance, SilentLeaves
  <2>2. Len(leaves) \in Nat
    BY <2>1 DEF IsASeq
  <2> QED
    BY <1>1, <2>1, <2>2, Joining
<1>6. AddsLeaves
  <2>1. \A k \in Len(nodes) + 1 .. Len(nodes') :
          k - Len(nodes) \in 1 .. Len(leaves) /\ k = Len(nodes) + (k - Len(nodes))
    BY <1>1, <1>5
  <2>2. \A k \in Len(nodes) + 1 .. Len(nodes') :
          nodes'[k].kind \in LeafKinds /\ nodes'[k].recovered = FALSE /\ nodes'[k].parent = Top.node
    BY <2>1, <1>5 DEF SilentLeaves
  <2>3. Extends(nodes', nodes)
    BY <1>1, <1>5 DEF Extends
  <2> QED
    BY <2>2, <2>3 DEF AddsLeaves, AddsChildren
<1> QED
  BY <1>2, <1>4, <1>6, LeavesKeepTelling DEF Advance

LEMMA QuietEvents ==
  ASSUME TellInv, \/ events' = events
                  \/ \E e : e[1] # "created" /\ events' = Append(events, e)
  PROVE  NothingTold
<1>1. IsASeq(events) /\ Len(events) \in Nat
  BY DEF TellInv, Shapes, IsASeq
<1>2. CASE events' = events
  BY <1>1, <1>2 DEF NothingTold, Extends
<1>3. ASSUME NEW e, e[1] # "created", events' = Append(events, e) PROVE NothingTold
  <2>1. /\ IsASeq(events') /\ Len(events') = Len(events) + 1
        /\ \A k \in 1 .. Len(events) : events'[k] = events[k]
        /\ events'[Len(events) + 1] = e
    BY <1>1, <1>3, Appending
  <2> QED
    BY <2>1, <1>1, <1>3 DEF NothingTold, Extends
<1> QED
  BY <1>2, <1>3

(* Nothing moves but the plan of the range. *)
LEMMA StandingKeepsTelling ==
  ASSUME TellInv, Len(frames) > 0, SameRanges, UNCHANGED <<nodes, events, notes>>,
         phase' \in {"plan", "walk", "failed"}
  PROVE  TellInv'
<1>1. IsASeq(nodes) /\ Len(nodes) \in Nat
  BY DEF TellInv, Shapes, IsASeq
<1>2. AddsLeaves
  BY <1>1 DEF AddsLeaves, AddsChildren, Extends
<1> QED
  BY <1>2, QuietEvents, LeavesKeepTelling

LEMMA UnclosedKeepsTelling ==
  ASSUME TellInv, phase = "walk", NEW kind, NEW open, NEW behind, Unclosed(kind, open, behind),
         kind \notin LeafKinds
  PROVE  TellInv'
<1>1. /\ IsASeq(frames) /\ Len(frames) \in Nat /\ Len(frames) # 0 /\ AllFrames(frames)
      /\ IsASeq(events) /\ Len(events) \in Nat
  BY DEF TellInv, Shapes, IsASeq, AllFrames
<1>2. Len(frames) > 0
  BY <1>1
<1> DEFINE policy == PolicyOf(kind)
           room   == Pos + open < Top.end
<1>3. CASE policy = "error"
  <2>1. Fail /\ events' = events
    BY <1>3 DEF Unclosed
  <2>2. SameRanges
    BY <2>1, <1>1 DEF Fail, SameRanges, KeptRanges, AllFrames
  <2> QED
    BY <2>1, <2>2, <1>2, StandingKeepsTelling DEF Fail
<1>4. CASE policy = "recover" /\ room /\ kind # "code"
  <2>1. PICK n : n = NodeRec(kind, Top.node, Pos, Top.end, Pos + open, Top.end, TRUE)
    OBVIOUS
  <2>2. DescendAndPlan(n, Top.end) /\ events' = events
    BY <1>4, <2>1 DEF Unclosed
  <2>3. n.parent = Top.node /\ n.kind \notin {"text", "soft", "hard"}
    BY <2>1 DEF NodeRec, LeafKinds
  <2>4. NothingTold
    BY <2>2, QuietEvents
  <2> QED
    BY <2>2, <2>3, <2>4, <1>2, DescentKeepsTelling DEF DescendAndPlan
<1>5. CASE policy = "recover" /\ room /\ kind = "code"
  <2>1. PICK n : n = [Leaf(kind, Pos, Top.end) EXCEPT !.recovered = TRUE]
    OBVIOUS
  <2>2. n.kind = "code" /\ n.parent = Top.node /\ n.recovered
    BY <2>1, <1>5 DEF Leaf, NodeRec
  <2>3. PICK told : told = <<"recovered", Len(nodes) + 1>>
    OBVIOUS
  <2>4. /\ nodes' = Append(nodes, n) /\ notes' = Append(notes, Len(nodes) + 1) /\ phase' = phase
        /\ frames' = [frames EXCEPT ![Len(frames)].position = Top.end]
        /\ events' = events \o <<told, Created(Len(nodes) + 1)>>
    BY <1>5, <2>1, <2>3 DEF Unclosed, Created
  <2>5. told[1] = "recovered"
    BY <2>3
  <2>6. ToldNow(Len(nodes) + 1)
    <3>1. /\ IsASeq(events') /\ Len(events') = Len(events) + 2
          /\ \A k \in 1 .. Len(events) : events'[k] = events[k]
          /\ events'[Len(events) + 1] = told /\ events'[Len(events) + 2] = Created(Len(nodes) + 1)
      BY <2>4, <1>1, AppendingTwo
    <3> QED
      BY <2>5, <3>1, <1>1 DEF ToldNow, Extends
  <2>7. SameRanges
    <3>1. MovedTo(frames', frames, Top.end)
      BY <2>4 DEF MovedTo
    <3>2. /\ IsASeq(frames') /\ Len(frames') = Len(frames)
          /\ \A k \in 1 .. Len(frames) : IsFrame(frames'[k]) /\ frames'[k].node = frames[k].node
      BY <3>1, <1>1, <1>2, Moving
    <3> QED
      BY <3>2, <1>1 DEF SameRanges, KeptRanges
  <2> QED
    BY <2>2, <2>4, <2>6, <2>7, <1>2, CodeKeepsTelling
<1>6. CASE policy # "error" /\ ~(policy = "recover" /\ room)
  <2>1. Advance(behind, Source(Pos, behind)) /\ events' = events
    BY <1>6 DEF Unclosed
  <2>2. NothingTold
    BY <2>1, QuietEvents
  <2> QED
    BY <2>1, <2>2, SourceIsSilent, AdvanceKeepsTelling
<1> QED
  BY <1>3, <1>4, <1>5, <1>6

LEMMA DelimiterKeepsTelling ==
  ASSUME TellInv, phase = "walk", NEW behind, ParseDelimiter(behind)
  PROVE  TellInv'
<1>1. Len(frames) > 0
  <2>1. Len(frames) \in Nat /\ Len(frames) # 0
    BY DEF TellInv, Shapes, IsASeq
  <2> QED
    BY <2>1
<1> DEFINE open    == OpenLength(Char, MarkerRun)
           match   == FindClosing(SearchFrom, Top.end)
           literal == Advance(behind, Source(Pos, behind)) /\ UNCHANGED <<vars, unclosed>>
           paired  == UNCHANGED events \/ events' = Append(events, <<"paired", Pos>>)
           n       == NodeRec(KindOf(Char, open), Top.node, Pos, match.next,
                              Pos + open, match.contentEnd, FALSE)
<1>2. \/ literal /\ UNCHANGED events
      \/ literal /\ events' = Append(events, <<"range", Pos>>)
      \/ Unclosed(KindOf(Char, open), open, behind)
      \/ DescendAndPlan(n, match.next) /\ paired
  BY DEF ParseDelimiter
<1>3. KindOf(Char, open) \notin LeafKinds
  BY DEF KindOf, LeafKinds
<1> HIDE DEF match, open
<1>4. n.parent = Top.node /\ n.kind \notin {"text", "soft", "hard"}
  BY <1>3 DEF NodeRec, LeafKinds
<1> HIDE DEF n
<1>5. <<"range", Pos>>[1] # "created" /\ <<"paired", Pos>>[1] # "created"
  OBVIOUS
<1>6. CASE literal /\ (UNCHANGED events \/ events' = Append(events, <<"range", Pos>>))
  <2>1. NothingTold
    BY <1>5, <1>6, QuietEvents
  <2> QED
    BY <1>6, <2>1, SourceIsSilent, AdvanceKeepsTelling
<1>7. CASE Unclosed(KindOf(Char, open), open, behind)
  BY <1>3, <1>7, UnclosedKeepsTelling
<1>8. CASE DescendAndPlan(n, match.next) /\ paired
  <2>1. NothingTold
    BY <1>5, <1>8, QuietEvents
  <2> QED
    BY <1>1, <1>4, <1>8, <2>1, DescentKeepsTelling DEF DescendAndPlan
<1> QED
  BY <1>2, <1>6, <1>7, <1>8

LEMMA PlanningKeepsTelling ==
  ASSUME TellInv, PlanStep \/ PlanDone
  PROVE  TellInv'
<1>1. /\ IsASeq(frames) /\ Len(frames) \in Nat /\ Len(frames) # 0
      /\ \A k \in 1 .. Len(frames) : IsFrame(frames[k])
  BY DEF TellInv, Shapes, IsASeq, PlanStep, PlanDone
<1>2. Len(frames) > 0
  BY <1>1
<1>3. CASE PlanStep
  <2>1. SameRanges
    BY <1>1, <1>3 DEF PlanStep, inlineVars, SameRanges, KeptRanges
  <2> QED
    BY <2>1, <1>2, <1>3, StandingKeepsTelling DEF PlanStep, inlineVars
<1>4. CASE PlanDone
  <2>1. frames' = [k \in 1 .. Len(frames) |->
                     IF k = Len(frames) THEN [frames[k] EXCEPT !.plan = pairs] ELSE frames[k]]
    BY <1>1, <1>4 DEF PlanDone, IsASeq
  <2>2. Len(frames') = Len(frames)
    BY <2>1, <1>1
  <2>3. IsASeq(frames')
    BY <2>1, <2>2, <1>1 DEF IsASeq
  <2>4. ASSUME NEW k \in 1 .. Len(frames)
        PROVE  IsFrame(frames'[k]) /\ frames'[k].node = frames[k].node
    <3>1. frames[k] = Frame(frames[k].node, frames[k].position, frames[k].end, frames[k].plan)
      BY <1>1 DEF IsFrame
    <3>2. CASE k = Len(frames)
      <4>1. frames'[k] = Frame(frames[k].node, frames[k].position, frames[k].end, pairs)
        BY <2>1, <3>1, <3>2 DEF Frame
      <4> QED
        BY <4>1 DEF IsFrame, Frame
    <3>3. CASE k # Len(frames)
      BY <2>1, <3>3, <1>1
    <3> QED BY <3>2, <3>3
  <2>5. SameRanges
    BY <2>2, <2>3, <2>4, <1>1 DEF SameRanges, KeptRanges
  <2> QED
    BY <2>5, <1>2, <1>4, StandingKeepsTelling DEF PlanDone
<1> QED
  BY <1>3, <1>4

LEMMA WalkKeepsTelling ==
  ASSUME TellInv, InlineNext
  PROVE  TellInv'
<1>1. CASE PlanStep \/ PlanDone
  BY <1>1, PlanningKeepsTelling
<1>2. CASE WalkPlannedPair
  <2>1. PICK p, inFrom, kind :
          /\ kind \in {"strong", "emphasis"}
          /\ Descend(NodeRec(kind, Top.node, p.openStart, p.closeStart + p.length,
                             inFrom, p.closeStart, FALSE),
                     p.closeStart + p.length, Top.plan)
    BY <1>2 DEF WalkPlannedPair
  <2>2. PICK n : n = NodeRec(kind, Top.node, p.openStart, p.closeStart + p.length,
                             inFrom, p.closeStart, FALSE)
    OBVIOUS
  <2>3. n.parent = Top.node /\ n.kind \notin {"text", "soft", "hard"}
    BY <2>1, <2>2 DEF NodeRec
  <2>4. events' = events /\ phase' = "walk" /\ Len(frames) > 0
    <3>1. Len(frames) \in Nat /\ Len(frames) # 0
      BY <1>2 DEF WalkPlannedPair, Walking, TellInv, Shapes, IsASeq
    <3> QED
      BY <3>1, <1>2 DEF WalkPlannedPair, Walking
  <2>5. NothingTold
    BY <2>4, QuietEvents
  <2> QED
    BY <2>1, <2>2, <2>3, <2>4, <2>5, DescentKeepsTelling
<1>3. CASE WalkBreak
  <2>1. "soft" \in LeafKinds
    BY DEF LeafKinds
  <2>2. /\ Advance(Pos + 1, <<Leaf("soft", Pos, Pos + 1)>>) /\ events' = events /\ phase = "walk"
    BY <1>3 DEF WalkBreak, Facing, Walking
  <2> QED
    BY <2>1, <2>2, OneLeaf, QuietEvents, AdvanceKeepsTelling
<1>4. CASE WalkEscape
  <2>1. "text" \in LeafKinds /\ "hard" \in LeafKinds
    BY DEF LeafKinds
  <2>2. /\ \/ Advance(Pos + 2, <<Leaf("text", Pos, Pos + 2)>>)
           \/ Advance(Pos + 2, <<Leaf("hard", Pos, Pos + 1)>>)
        /\ events' = events /\ phase = "walk"
    BY <1>4 DEF WalkEscape, Facing, Walking
  <2> QED
    BY <2>1, <2>2, OneLeaf, QuietEvents, AdvanceKeepsTelling
<1>5. CASE WalkPlain
  <2>1. PICK stop, spaces, kind :
          /\ kind \in {"hard", "soft"}
          /\ \/ Advance(stop + 1, Source(Pos, stop - spaces) \o <<Leaf(kind, stop, stop + 1)>>)
             \/ Advance(stop, Source(Pos, stop))
    BY <1>5 DEF WalkPlain
  <2>2. events' = events /\ phase = "walk" /\ kind \in LeafKinds
    BY <1>5, <2>1 DEF WalkPlain, Walking, LeafKinds
  <2>3. SilentLeaves(Source(Pos, stop - spaces) \o <<Leaf(kind, stop, stop + 1)>>)
    BY <2>2, SourceIsSilent, OneLeaf, MoreLeaves
  <2> QED
    BY <2>1, <2>2, <2>3, SourceIsSilent, QuietEvents, AdvanceKeepsTelling
<1>6. CASE WalkCodeSpan
  <2>1. phase = "walk"
    BY <1>6 DEF WalkCodeSpan, Facing, Walking
  <2>2. PICK codeEnd :
          \/ /\ Advance(codeEnd, <<Leaf("code", Pos, codeEnd)>>)
             /\ events' = Append(events, Created(Len(nodes) + 1))
          \/ Unclosed("code", MarkerRun, Pos + MarkerRun)
    BY <1>6 DEF WalkCodeSpan, Created
  <2>3. CASE Unclosed("code", MarkerRun, Pos + MarkerRun)
    <3>1. "code" \notin LeafKinds
      BY DEF LeafKinds
    <3> QED
      BY <2>1, <2>3, <3>1, UnclosedKeepsTelling
  <2>4. CASE /\ Advance(codeEnd, <<Leaf("code", Pos, codeEnd)>>)
             /\ events' = Append(events, Created(Len(nodes) + 1))
    <3>1. PICK n : n = Leaf("code", Pos, codeEnd)
      OBVIOUS
    <3>2. n.kind = "code" /\ n.parent = Top.node /\ n.recovered = FALSE
      BY <3>1 DEF Leaf, NodeRec
    <3>3. /\ IsASeq(frames) /\ Len(frames) \in Nat /\ Len(frames) # 0 /\ AllFrames(frames)
          /\ IsASeq(nodes) /\ IsASeq(events) /\ Len(events) \in Nat
      BY <2>1 DEF TellInv, Shapes, IsASeq, AllFrames
    <3>4. Len(frames) > 0
      BY <3>3
    <3>5. nodes' = Append(nodes, n)
      <4>1. PICK S : nodes \in Seq(S) /\ n \in S
        <5>1. nodes \in Seq({nodes[k] : k \in 1 .. Len(nodes)} \cup {n})
          BY <3>3 DEF IsASeq
        <5> QED BY <5>1
      <4>2. nodes' = nodes \o <<n>>
        BY <2>4, <3>1 DEF Advance
      <4> QED
        BY <4>1, <4>2
    <3>6. MovedTo(frames', frames, codeEnd) /\ phase' = phase /\ notes' = notes
      BY <2>4 DEF Advance, MovedTo
    <3>7. SameRanges
      <4>1. /\ IsASeq(frames') /\ Len(frames') = Len(frames)
            /\ \A k \in 1 .. Len(frames) : IsFrame(frames'[k]) /\ frames'[k].node = frames[k].node
        BY <3>3, <3>4, <3>6, Moving
      <4> QED
        BY <4>1, <3>3 DEF SameRanges, KeptRanges
    <3>8. ToldNow(Len(nodes) + 1)
      <4>1. PICK e : e = Created(Len(nodes) + 1)
        OBVIOUS
      <4>2. /\ IsASeq(events') /\ Len(events') = Len(events) + 1
            /\ \A k \in 1 .. Len(events) : events'[k] = events[k]
            /\ events'[Len(events) + 1] = e
        BY <2>4, <3>3, <4>1, Appending
      <4> QED
        BY <4>1, <4>2, <3>3 DEF ToldNow, Extends
    <3> QED
      BY <2>1, <3>2, <3>4, <3>5, <3>6, <3>7, <3>8, CodeKeepsTelling
  <2> QED
    BY <2>2, <2>3, <2>4
<1>7. CASE WalkDelimiter
  <2>1. /\ phase = "walk"
        /\ \/ ParseDelimiter(Pos + LiteralRun)
           \/ Advance(Pos + LiteralRun, Source(Pos, Pos + LiteralRun)) /\ events' = events
    BY <1>7 DEF WalkDelimiter, Facing, Walking
  <2> QED
    BY <2>1, DelimiterKeepsTelling, SourceIsSilent, QuietEvents, AdvanceKeepsTelling
<1>8. CASE WalkTilde
  <2>1. phase = "walk" /\ ParseDelimiter(Pos + MarkerRun)
    BY <1>8 DEF WalkTilde, Facing, Walking
  <2> QED
    BY <2>1, DelimiterKeepsTelling
<1>9. CASE WalkLink
  <2>1. PICK kind, target, inFrom, inTo :
          \/ Fail
          \/ Advance(Pos + 1, Source(Pos, Pos + 1))
          \/ /\ kind \in {"image", "link"}
             /\ DescendAndPlan(NodeRec(kind, Top.node, Pos, target, inFrom, inTo, FALSE), target)
    BY <1>9 DEF WalkLink
  <2>2. phase = "walk" /\ events' = events
    BY <1>9 DEF WalkLink, Facing, Walking
  <2>3. NothingTold
    BY <2>2, QuietEvents
  <2>4. /\ IsASeq(frames) /\ Len(frames) \in Nat /\ Len(frames) # 0
        /\ \A k \in 1 .. Len(frames) : IsFrame(frames[k])
    BY <2>2 DEF TellInv, Shapes, IsASeq
  <2>5. Len(frames) > 0
    BY <2>4
  <2>6. CASE Fail
    <3>1. SameRanges
      BY <2>4, <2>6 DEF Fail, SameRanges, KeptRanges
    <3> QED
      BY <3>1, <2>2, <2>5, <2>6, StandingKeepsTelling DEF Fail
  <2>7. CASE Advance(Pos + 1, Source(Pos, Pos + 1))
    BY <2>2, <2>3, <2>7, SourceIsSilent, AdvanceKeepsTelling
  <2>8. CASE /\ kind \in {"image", "link"}
             /\ DescendAndPlan(NodeRec(kind, Top.node, Pos, target, inFrom, inTo, FALSE), target)
    <3>1. PICK n : n = NodeRec(kind, Top.node, Pos, target, inFrom, inTo, FALSE)
      OBVIOUS
    <3>2. n.parent = Top.node /\ n.kind \notin {"text", "soft", "hard"}
      BY <2>8, <3>1 DEF NodeRec
    <3> QED
      BY <2>3, <2>5, <2>8, <3>1, <3>2, DescentKeepsTelling DEF DescendAndPlan
  <2> QED
    BY <2>1, <2>6, <2>7, <2>8
<1>10. CASE Return
  BY <1>10, ReturnKeepsTelling
<1> QED
  BY <1>1, <1>2, <1>3, <1>4, <1>5, <1>6, <1>7, <1>8, <1>9, <1>10 DEF InlineNext

LEMMA StartTells ==
  ASSUME InlineInit
  PROVE  TellInv
<1>1. PICK f : f = Frame(0, 0, Len(text), <<>>)
  OBVIOUS
<1>2. IsFrame(f) /\ f.node = 0
  BY <1>1 DEF IsFrame, Frame
<1>3. frames = <<f>> /\ nodes = <<>> /\ events = <<>> /\ notes = <<>> /\ phase = "plan"
  BY <1>1 DEF InlineInit
<1>4. /\ frames \in Seq({f}) /\ Len(frames) = 1 /\ frames[1] = f
      /\ <<>> \in Seq({}) /\ Len(<<>>) = 0
  BY <1>3
<1>5. IsASeq(frames) /\ IsASeq(<<>>)
  BY ONLY <1>4, SeqIsASeq
<1>6. Shapes
  BY <1>2, <1>3, <1>4, <1>5 DEF Shapes
<1>7. Lineage
  BY <1>2, <1>3, <1>4 DEF Lineage, NodeIds
<1>8. Telling /\ Noting
  BY <1>3, <1>4 DEF Telling, Noting, NodeIds
<1> QED
  BY <1>6, <1>7, <1>8 DEF TellInv

LEMMA StutterTells ==
  ASSUME TellInv, UNCHANGED allVars
  PROVE  TellInv'
<1>1. UNCHANGED <<frames, nodes, events, notes, phase>>
  BY DEF allVars, inlineVars
<1>2. Shapes'
  BY <1>1 DEF TellInv, Shapes
<1>3. NodeIds' = NodeIds /\ \A n : Silent(n)' <=> Silent(n)
  BY <1>1 DEF NodeIds, Silent
<1>4. \A n : (Told(n)' <=> Told(n)) /\ (Opened(n)' <=> Opened(n))
  BY <1>1 DEF Told, Opened, Created
<1>5. Lineage'
  BY <1>1, <1>3 DEF TellInv, Lineage, Silent
<1>6. Telling'
  BY <1>1, <1>3, <1>4 DEF TellInv, Telling, Created
<1>7. Noting'
  <2>1. Extends(nodes', nodes) /\ Extends(events', events)
    BY <1>1 DEF TellInv, Shapes, IsASeq, Extends
  <2> QED
    BY <2>1, <1>1, <1>3, <1>4, NotingKept
<1> QED
  BY <1>2, <1>5, <1>6, <1>7 DEF TellInv

(* Whatever the paragraph and the policies: inline parsing traces a node   *)
(* that is not plain text once, after those inside it, and notes the       *)
(* recovered ones in that order; once it is done, none is missing.         *)
THEOREM InlineIsToldInsideOut == InlineSpec => []ToldInsideOut
<1>1. TellInv /\ [InlineNext]_allVars => TellInv'
  BY WalkKeepsTelling, StutterTells
<1> QED
  BY <1>1, StartTells, ToldInOrder, PTL DEF InlineSpec

(* Until parsing fails no construct has been met that aborts it, but for   *)
(* unclosed links, which are asked the image's policy.                     *)
Aborts(u) == config[u.kind] = "error"

PolicyInv ==
  /\ IsASeq(unclosed)
  /\ \A k \in 1 .. Len(unclosed) :
       unclosed[k].kind # "link" =>
         IF phase = "failed" THEN Aborts(unclosed[k]) <=> k = Len(unclosed)
         ELSE ~Aborts(unclosed[k])
  /\ phase \in {"plan", "walk", "done", "failed"}

LEMMA NothingUnclosed ==
  ASSUME PolicyInv, phase \in {"plan", "walk"}, UNCHANGED <<unclosed, config>>,
         phase' \in {"plan", "walk", "done"}
  PROVE  PolicyInv'
BY DEF PolicyInv, Aborts

LEMMA UnclosedIsAsked ==
  ASSUME PolicyInv, phase = "walk", UNCHANGED config, NEW u, unclosed' = Append(unclosed, u),
         u.kind # "link" => (Aborts(u) <=> phase' = "failed"),
         phase' \in {"plan", "walk", "failed"}
  PROVE  PolicyInv'
<1>1. /\ IsASeq(unclosed') /\ Len(unclosed') = Len(unclosed) + 1 /\ Len(unclosed) \in Nat
      /\ \A k \in 1 .. Len(unclosed) : unclosed'[k] = unclosed[k]
      /\ unclosed'[Len(unclosed) + 1] = u
  <2>1. IsASeq(unclosed) /\ Len(unclosed) \in Nat
    BY DEF PolicyInv, IsASeq
  <2> QED
    BY <2>1, Appending
<1>2. \A k \in 1 .. Len(unclosed) : unclosed[k].kind # "link" => ~Aborts(unclosed[k])
  BY DEF PolicyInv
<1>3. ASSUME NEW k \in 1 .. Len(unclosed'), unclosed'[k].kind # "link"
      PROVE  IF phase' = "failed" THEN config'[unclosed'[k].kind] = "error" <=> k = Len(unclosed')
             ELSE config'[unclosed'[k].kind] # "error"
  <2>1. CASE k = Len(unclosed) + 1
    BY <2>1, <1>1, <1>3 DEF Aborts
  <2>2. CASE k # Len(unclosed) + 1
    <3>1. k \in 1 .. Len(unclosed) /\ k # Len(unclosed')
      BY <2>2, <1>1
    <3> QED
      BY <3>1, <1>1, <1>2, <1>3 DEF Aborts
  <2> QED BY <2>1, <2>2
<1> QED
  BY <1>1, <1>3 DEF PolicyInv, Aborts

LEMMA RecoveryHonoursPolicy ==
  ASSUME PolicyInv, phase = "walk", NEW kind, NEW open, NEW behind, Unclosed(kind, open, behind)
  PROVE  PolicyInv'
<1>1. PICK u : u = [kind |-> kind, at |-> Pos]
  OBVIOUS
<1>2. u.kind = kind /\ unclosed' = Append(unclosed, u)
  BY <1>1 DEF Unclosed
<1>3. CASE PolicyOf(kind) = "error"
  <2>1. Fail
    BY <1>3 DEF Unclosed
  <2> QED
    BY <2>1, <1>2, <1>3, UnclosedIsAsked DEF Fail, PolicyOf, Aborts
<1>4. CASE PolicyOf(kind) # "error"
  <2>1. UNCHANGED config /\ phase' \in {"plan", "walk"}
    BY <1>4 DEF Unclosed, DescendAndPlan, Descend, Advance
  <2>2. ~Aborts(u)
    BY <1>2, <1>4 DEF Aborts, PolicyOf
  <2> QED
    BY <2>1, <2>2, <1>2, UnclosedIsAsked
<1> QED
  BY <1>3, <1>4

LEMMA DelimiterHonoursPolicy ==
  ASSUME PolicyInv, phase = "walk", NEW behind, ParseDelimiter(behind)
  PROVE  PolicyInv'
<1>1. PICK kind, open, n, next :
        \/ Advance(behind, Source(Pos, behind)) /\ UNCHANGED unclosed
        \/ Unclosed(kind, open, behind)
        \/ DescendAndPlan(n, next) /\ UNCHANGED unclosed
  BY DEF ParseDelimiter
<1>2. CASE Unclosed(kind, open, behind)
  BY <1>2, RecoveryHonoursPolicy
<1>3. CASE ~Unclosed(kind, open, behind)
  BY <1>1, <1>3, NothingUnclosed DEF Advance, DescendAndPlan, Descend
<1> QED
  BY <1>2, <1>3

LEMMA WalkHonoursPolicy ==
  ASSUME PolicyInv, InlineNext
  PROVE  PolicyInv'
<1>1. CASE PlanStep \/ PlanDone
  BY <1>1, NothingUnclosed DEF PlanStep, PlanDone, inlineVars
<1>2. CASE WalkPlannedPair
  BY <1>2, NothingUnclosed DEF WalkPlannedPair, Descend, Walking
<1>3. CASE WalkBreak \/ WalkEscape \/ WalkPlain
  BY <1>3, NothingUnclosed DEF WalkBreak, WalkEscape, WalkPlain, Facing, Walking, Advance
<1>4. CASE WalkCodeSpan
  <2>1. PICK codeEnd, leaves : \/ Advance(codeEnd, leaves) /\ UNCHANGED unclosed
                              \/ Unclosed("code", MarkerRun, Pos + MarkerRun)
    BY <1>4 DEF WalkCodeSpan
  <2> QED
    BY <2>1, <1>4, NothingUnclosed, RecoveryHonoursPolicy DEF WalkCodeSpan, Facing, Walking, Advance
<1>5. CASE WalkDelimiter
  <2>1. /\ phase = "walk"
        /\ \/ ParseDelimiter(Pos + LiteralRun)
           \/ Advance(Pos + LiteralRun, Source(Pos, Pos + LiteralRun)) /\ UNCHANGED unclosed
    BY <1>5 DEF WalkDelimiter, Facing, Walking
  <2> QED
    BY <2>1, DelimiterHonoursPolicy, NothingUnclosed DEF Advance
<1>6. CASE WalkTilde
  BY <1>6, DelimiterHonoursPolicy DEF WalkTilde, Facing, Walking
<1>7. CASE WalkLink
  <2>1. phase = "walk"
    BY <1>7 DEF WalkLink, Facing, Walking
  <2>2. PICK u, kind, n, next :
          \/ /\ unclosed' = Append(unclosed, u) /\ u.kind = kind /\ kind \in {"image", "link"}
             /\ IF UnclosedIsRefused THEN Fail ELSE Advance(Pos + 1, Source(Pos, Pos + 1))
          \/ UNCHANGED unclosed /\ Advance(Pos + 1, Source(Pos, Pos + 1))
          \/ UNCHANGED unclosed /\ DescendAndPlan(n, next)
    BY <1>7 DEF WalkLink
  <2>3. CASE unclosed' = Append(unclosed, u) /\ u.kind = kind /\ kind \in {"image", "link"}
             /\ IF UnclosedIsRefused THEN Fail ELSE Advance(Pos + 1, Source(Pos, Pos + 1))
    <3>1. UNCHANGED config /\ phase' \in {"walk", "failed"} /\ (phase' = "failed" <=> UnclosedIsRefused)
      BY <2>1, <2>3 DEF Fail, Advance
    <3>2. u.kind # "link" => (Aborts(u) <=> UnclosedIsRefused)
      BY <2>3 DEF Aborts, UnclosedIsRefused
    <3> QED
      BY <2>1, <2>3, <3>1, <3>2, UnclosedIsAsked
  <2>4. CASE UNCHANGED unclosed /\ (Advance(Pos + 1, Source(Pos, Pos + 1)) \/ DescendAndPlan(n, next))
    BY <2>1, <2>4, NothingUnclosed DEF Advance, DescendAndPlan, Descend
  <2> QED
    BY <2>2, <2>3, <2>4
<1>8. CASE Return
  BY <1>8, NothingUnclosed DEF Return
<1> QED
  BY <1>1, <1>2, <1>3, <1>4, <1>5, <1>6, <1>7, <1>8 DEF InlineNext

(* Whatever the paragraph and the policies: a parse that ends well met no  *)
(* unclosed emphasis, strikethrough, code span or image whose policy says  *)
(* to abort, and one that fails has just met one (recoverUnclosed and the  *)
(* error of an unclosed label).                                            *)
THEOREM PoliciesAreHonoured == InlineSpec => []DelimitersHonourPolicy
<1>1. InlineInit => PolicyInv
  <2> SUFFICES ASSUME InlineInit PROVE PolicyInv
    OBVIOUS
  <2>1. unclosed = <<>> /\ phase = "plan" /\ <<>> \in Seq({}) /\ Len(<<>>) = 0
    BY DEF InlineInit
  <2>2. IsASeq(<<>>)
    BY ONLY <2>1, SeqIsASeq
  <2> QED
    BY <2>1, <2>2 DEF PolicyInv
<1>2. PolicyInv /\ [InlineNext]_allVars => PolicyInv'
  <2>1. PolicyInv /\ UNCHANGED allVars => PolicyInv'
    BY DEF PolicyInv, Aborts, allVars, inlineVars
  <2> QED
    BY <2>1, WalkHonoursPolicy
<1>3. PolicyInv => DelimitersHonourPolicy
  BY DEF PolicyInv, Aborts, DelimitersHonourPolicy, HonoursPolicy
<1> QED
  BY <1>1, <1>2, <1>3, PTL DEF InlineSpec
-----------------------------------------------------------------------------
(* Where the bytes of a paragraph are: in the rests of the active ranges,  *)
(* which lie one behind the other, in the nodes, or dropped.               *)

(* What a range ending at end needs of its plan: a pair opens before it    *)
(* closes and closes before the end of the range, or does not concern it.  *)
Fits(plan, end) ==
  /\ Distinct(plan)
  /\ \A k \in DOMAIN plan :
       /\ plan[k].openStart + plan[k].length <= plan[k].closeStart
       /\ plan[k].closeStart < end => plan[k].closeStart + plan[k].length <= end
  /\ \A k, l \in DOMAIN plan :
       plan[k].closeStart < plan[l].closeStart =>
         plan[k].closeStart + plan[k].length <= plan[l].closeStart

Stands(f, size) ==
  /\ f.position \in Int /\ f.end \in Int
  /\ 0 <= f.position /\ f.position <= f.end /\ f.end <= size

Upright(n) ==
  /\ n.from \in Int /\ n.to \in Int /\ n.inFrom \in Int /\ n.inTo \in Int
  /\ 0 <= n.from /\ n.from <= n.inFrom /\ n.inFrom <= n.inTo /\ n.inTo <= n.to

(* Ranges fs and nodes ns of a text of that size.                          *)
Laid(fs, ns, size) ==
  /\ \A n \in 1 .. Len(ns) : Upright(ns[n])
  /\ \A k \in 1 .. Len(fs) : Stands(fs[k], size)
  /\ \A j, k \in 1 .. Len(fs) : j < k => fs[k].end <= fs[j].position
  /\ \A k \in 2 .. Len(fs) :
       ns[fs[k].node].inFrom <= fs[k].position /\ fs[k].end <= ns[fs[k].node].inTo
  /\ \A k \in 1 .. Len(fs), n \in 1 .. Len(ns) :
       ns[n].parent = fs[k].node => ns[n].to <= fs[k].position
  /\ \A n \in 1 .. Len(ns) : ns[n].parent # 0 =>
       ns[ns[n].parent].inFrom <= ns[n].from /\ ns[n].to <= ns[ns[n].parent].inTo
  /\ \A m, n \in 1 .. Len(ns) : m < n /\ ns[m].parent = ns[n].parent => ns[m].to <= ns[n].from

Rest(f)  == f.position .. f.end - 1
Holds(n) == (n.from .. n.to - 1) \ (n.inFrom .. n.inTo - 1)

Held(fs, ns, size, dropped) ==
  /\ \A m, n \in 1 .. Len(ns) : m # n => \A i \in Holds(ns[m]) : i \notin Holds(ns[n])
  /\ \A k \in 1 .. Len(fs), n \in 1 .. Len(ns) : \A i \in Rest(fs[k]) : i \notin Holds(ns[n])
  /\ \A i \in 0 .. size - 1 :
       \/ \E n \in 1 .. Len(ns) : i \in Holds(ns[n])
       \/ \E k \in 1 .. Len(fs) : i \in Rest(fs[k])
       \/ i \in dropped

Dropped == {i \in 0 .. End - 1 : Droppable(i)}

(* While a range is planned its runs end where it does. *)
Planning ==
  /\ Len(frames) > 0
  /\ PlanInv
  /\ \A r \in Run : RunEnd(r) <= Top.end

Bytes ==
  /\ text \in Seq(Characters)
  /\ Laid(frames, nodes, End)
  /\ Held(frames, nodes, End, Dropped)
  /\ \A k \in 1 .. Len(frames) : Fits(frames[k].plan, frames[k].end)
  /\ phase = "plan" => Planning

ByteInv == TellInv /\ Bytes

-----------------------------------------------------------------------------
(* The active ranges are those of a node, its parent and so on.            *)
Lineal(fs, ns) ==
  /\ Len(fs) \in Nat /\ Len(fs) > 0 /\ Len(ns) \in Nat
  /\ \A k \in 1 .. Len(fs) : fs[k].node \in 0 .. Len(ns)
  /\ \A k \in 2 .. Len(fs) : fs[k].node \in 1 .. Len(ns)
  /\ \A j, k \in 1 .. Len(fs) : j < k => fs[j].node < fs[k].node
  /\ \A n \in 1 .. Len(ns) : ns[n].parent \in 0 .. n - 1
  /\ fs[1].node = 0

(* gs are the ranges fs, with the innermost moved on to next, and possibly *)
(* a new one.                                                              *)
Turned(fs, gs, next) ==
  /\ Len(gs) \in Nat /\ Len(fs) <= Len(gs)
  /\ \A k \in 1 .. Len(fs) - 1 : gs[k] = fs[k]
  /\ gs[Len(fs)].node = fs[Len(fs)].node /\ gs[Len(fs)].end = fs[Len(fs)].end
  /\ gs[Len(fs)].plan = fs[Len(fs)].plan /\ gs[Len(fs)].position = next
  /\ next \in Int /\ fs[Len(fs)].position <= next /\ next <= fs[Len(fs)].end

(* ms are the nodes ns and new children of the innermost range, one behind *)
(* the other, from where it was up to next.                                *)
Grown(ns, ms, f, next) ==
  /\ Len(ms) \in Nat /\ Len(ns) <= Len(ms)
  /\ \A n \in 1 .. Len(ns) : ms[n] = ns[n]
  /\ \A n \in Len(ns) + 1 .. Len(ms) :
       ms[n].parent = f.node /\ Upright(ms[n]) /\ f.position <= ms[n].from /\ ms[n].to <= next
  /\ \A m, n \in Len(ns) + 1 .. Len(ms) : m < n => ms[m].to <= ms[n].from

LEMMA LaidOn ==
  ASSUME NEW fs, NEW ns, NEW gs, NEW ms, NEW next, NEW size \in Nat,
         Lineal(fs, ns), Laid(fs, ns, size), Turned(fs, gs, next), Len(gs) = Len(fs),
         Grown(ns, ms, fs[Len(fs)], next)
  PROVE  Laid(gs, ms, size)
<1> DEFINE F == Len(fs)
           L == Len(ns)
           M == Len(ms)
           pos == fs[F].position
<1>1. /\ F \in Nat /\ F > 0 /\ L \in Nat /\ M \in Nat /\ L <= M /\ Len(gs) = F
      /\ next \in Int /\ pos \in Int /\ pos <= next /\ next <= fs[F].end
  BY DEF Lineal, Grown, Turned, Laid, Stands
<1>2. \A k \in 1 .. F : /\ gs[k].node = fs[k].node /\ gs[k].end = fs[k].end
                        /\ gs[k].position = IF k = F THEN next ELSE fs[k].position
  BY <1>1 DEF Turned
<1>3. \A k \in 1 .. F : /\ fs[k].position \in Int /\ fs[k].end \in Int
                        /\ 0 <= fs[k].position /\ fs[k].position <= fs[k].end /\ fs[k].end <= size
  BY DEF Laid, Stands
<1>4. \A n \in 1 .. M : \/ n \in 1 .. L /\ ms[n] = ns[n]
                        \/ n \in L + 1 .. M /\ n \notin 1 .. L
  BY <1>1 DEF Grown
<1>5. \A n \in L + 1 .. M : /\ ms[n].parent = fs[F].node /\ Upright(ms[n])
                            /\ pos <= ms[n].from /\ ms[n].to <= next
  BY DEF Grown
<1>6. \A n \in 1 .. M : Upright(ms[n])
  BY <1>4, <1>5 DEF Laid
<1>7. \A k \in 1 .. F : Stands(gs[k], size)
  BY <1>1, <1>2, <1>3 DEF Stands
<1>8. \A j, k \in 1 .. F : j < k => gs[k].end <= gs[j].position
  BY <1>1, <1>2, <1>3 DEF Laid
<1>9. \A k \in 2 .. F : ms[gs[k].node].inFrom <= gs[k].position /\ gs[k].end <= ms[gs[k].node].inTo
  <2> SUFFICES ASSUME NEW k \in 2 .. F
      PROVE  ms[gs[k].node].inFrom <= gs[k].position /\ gs[k].end <= ms[gs[k].node].inTo
    OBVIOUS
  <2>1. fs[k].node \in 1 .. L /\ ms[fs[k].node] = ns[fs[k].node] /\ Upright(ns[fs[k].node])
    BY <1>4, <1>1 DEF Lineal, Grown, Laid
  <2>2. ns[fs[k].node].inFrom <= fs[k].position /\ fs[k].end <= ns[fs[k].node].inTo
    BY DEF Laid
  <2>3. /\ gs[k].node = fs[k].node /\ gs[k].end = fs[k].end /\ gs[k].position \in Int
        /\ fs[k].position \in Int /\ fs[k].position <= gs[k].position
    <3>1. k \in 1 .. F
      BY <1>1
    <3> QED
      BY <3>1, <1>1, <1>2, <1>3
  <2>4. ns[fs[k].node].inFrom \in Int
    BY <2>1 DEF Upright
  <2> HIDE DEF F
  <2> QED
    BY <2>1, <2>2, <2>3, <2>4
<1>10. \A k \in 1 .. F, n \in 1 .. M : ms[n].parent = gs[k].node => ms[n].to <= gs[k].position
  <2> SUFFICES ASSUME NEW k \in 1 .. F, NEW n \in 1 .. M, ms[n].parent = fs[k].node
      PROVE  ms[n].to <= gs[k].position
    BY <1>2
  <2>1. CASE n \in 1 .. L
    <3>1. ns[n].to <= fs[k].position /\ ms[n] = ns[n] /\ ns[n].to \in Int
      BY <2>1, <1>4 DEF Laid, Grown, Upright
    <3> QED
      BY <3>1, <1>1, <1>2, <1>3
  <2>2. CASE n \in L + 1 .. M
    <3>1. fs[k].node = fs[F].node
      BY <2>2, <1>5
    <3>2. k = F
      BY <3>1, <1>1 DEF Lineal
    <3> QED
      BY <3>2, <2>2, <1>2, <1>5
  <2> QED
    BY <2>1, <2>2, <1>4
<1>11. \A n \in 1 .. M : ms[n].parent # 0 =>
         ms[ms[n].parent].inFrom <= ms[n].from /\ ms[n].to <= ms[ms[n].parent].inTo
  <2> SUFFICES ASSUME NEW n \in 1 .. M, ms[n].parent # 0
      PROVE  ms[ms[n].parent].inFrom <= ms[n].from /\ ms[n].to <= ms[ms[n].parent].inTo
    OBVIOUS
  <2>1. CASE n \in 1 .. L
    <3>1. ms[n] = ns[n] /\ ns[n].parent \in 1 .. L
      BY <2>1, <1>1, <1>4 DEF Lineal, Grown
    <3>2. ms[ns[n].parent] = ns[ns[n].parent]
      BY <3>1 DEF Grown
    <3> QED
      BY <2>1, <3>1, <3>2 DEF Laid
  <2>2. CASE n \in L + 1 .. M
    <3>1. ms[n].parent = fs[F].node /\ pos <= ms[n].from /\ ms[n].to <= next /\ Upright(ms[n])
      BY <2>2, <1>5
    <3>2. F \in 2 .. F /\ fs[F].node \in 1 .. L
      <4>1. F # 1
        BY <3>1, <1>1 DEF Lineal
      <4>2. F \in 2 .. F
        BY <4>1, <1>1
      <4> QED
        BY <4>2 DEF Lineal
    <3>3. ms[fs[F].node] = ns[fs[F].node] /\ Upright(ns[fs[F].node])
      BY <3>2 DEF Grown, Laid
    <3>4. ns[fs[F].node].inFrom <= pos /\ fs[F].end <= ns[fs[F].node].inTo
      BY <3>2 DEF Laid
    <3>5. /\ ns[fs[F].node].inFrom \in Int /\ ns[fs[F].node].inTo \in Int /\ fs[F].end \in Int
          /\ ms[n].from \in Int /\ ms[n].to \in Int
      BY <3>1, <3>3, <1>1, <1>3 DEF Upright
    <3>6. ns[fs[F].node].inFrom <= ms[n].from /\ ms[n].to <= ns[fs[F].node].inTo
      BY <3>1, <3>4, <3>5, <1>1
    <3> QED
      BY <3>1, <3>3, <3>6
  <2> QED
    BY <2>1, <2>2, <1>4
<1>12. \A m, n \in 1 .. M : m < n /\ ms[m].parent = ms[n].parent => ms[m].to <= ms[n].from
  <2> SUFFICES ASSUME NEW m \in 1 .. M, NEW n \in 1 .. M, m < n, ms[m].parent = ms[n].parent
      PROVE  ms[m].to <= ms[n].from
    OBVIOUS
  <2>1. CASE n \in 1 .. L
    <3>1. m \in 1 .. L
      BY <2>1, <1>1
    <3> QED
      BY <2>1, <3>1 DEF Laid, Grown
  <2>2. CASE n \in L + 1 .. M /\ m \in 1 .. L
    <3>1. ns[m].parent = fs[F].node /\ ms[m] = ns[m] /\ Upright(ns[m])
      BY <2>2, <1>5 DEF Grown, Laid
    <3>2. ns[m].to <= pos
      BY <3>1, <2>2, <1>1 DEF Laid
    <3> QED
      BY <3>1, <3>2, <2>2, <1>5, <1>1 DEF Upright
  <2>3. CASE n \in L + 1 .. M /\ m \in L + 1 .. M
    BY <2>3 DEF Grown
  <2> QED
    BY <2>1, <2>2, <2>3, <1>4
<1> QED
  BY <1>1, <1>6, <1>7, <1>8, <1>9, <1>10, <1>11, <1>12 DEF Laid

(* Going down into the newest node.                                        *)
LEMMA LaidDown ==
  ASSUME NEW gs, NEW ms, NEW hs, NEW size \in Nat, Laid(gs, ms, size),
         Len(gs) \in Nat, Len(ms) \in Nat, Len(ms) > 0,
         Len(hs) = Len(gs) + 1, \A k \in 1 .. Len(gs) : hs[k] = gs[k],
         NEW h, h = hs[Len(gs) + 1], h.node = Len(ms), Stands(h, size),
         ms[Len(ms)].inFrom <= h.position, h.end <= ms[Len(ms)].inTo,
         \A k \in 1 .. Len(gs) : h.end <= gs[k].position,
         \A n \in 1 .. Len(ms) : ms[n].parent < Len(ms)
  PROVE  Laid(hs, ms, size)
<1> DEFINE G == Len(gs)
<1>1. \A k \in 1 .. G + 1 : \/ k \in 1 .. G /\ hs[k] = gs[k]
                            \/ k = G + 1 /\ hs[k] = h
  OBVIOUS
<1>2. \A k \in 1 .. G + 1 : Stands(hs[k], size)
  BY <1>1 DEF Laid
<1>3. \A j, k \in 1 .. G + 1 : j < k => hs[k].end <= hs[j].position
  BY <1>1 DEF Laid
<1>4. \A k \in 2 .. G + 1 : ms[hs[k].node].inFrom <= hs[k].position /\ hs[k].end <= ms[hs[k].node].inTo
  <2> SUFFICES ASSUME NEW k \in 2 .. G + 1
      PROVE  ms[hs[k].node].inFrom <= hs[k].position /\ hs[k].end <= ms[hs[k].node].inTo
    OBVIOUS
  <2>1. CASE k = G + 1
    BY <2>1
  <2>2. CASE k # G + 1
    <3>1. k \in 2 .. G /\ hs[k] = gs[k]
      BY <2>2
    <3> QED
      BY <3>1 DEF Laid
  <2> QED
    BY <2>1, <2>2
<1>5. \A k \in 1 .. G + 1, n \in 1 .. Len(ms) :
        ms[n].parent = hs[k].node => ms[n].to <= hs[k].position
  <2> SUFFICES ASSUME NEW k \in 1 .. G + 1, NEW n \in 1 .. Len(ms), ms[n].parent = hs[k].node
      PROVE  ms[n].to <= hs[k].position
    OBVIOUS
  <2>1. CASE k = G + 1
    <3>1. ms[n].parent = Len(ms) /\ ms[n].parent < Len(ms)
      BY <2>1
    <3> QED BY <3>1
  <2>2. CASE k # G + 1
    <3>1. k \in 1 .. G /\ hs[k] = gs[k]
      BY <2>2
    <3> QED
      BY <3>1 DEF Laid
  <2> QED
    BY <2>1, <2>2
<1> QED
  BY <1>2, <1>3, <1>4, <1>5 DEF Laid

(* Coming back from the innermost range.                                   *)
LEMMA LaidBack ==
  ASSUME NEW fs, NEW ns, NEW gs, NEW size \in Nat, Laid(fs, ns, size),
         Len(fs) \in Nat, Len(gs) = Len(fs) - 1, \A k \in 1 .. Len(gs) : gs[k] = fs[k]
  PROVE  Laid(gs, ns, size)
<1>1. \A k \in 1 .. Len(gs) : k \in 1 .. Len(fs) /\ gs[k] = fs[k]
  OBVIOUS
<1>2. \A k \in 2 .. Len(gs) : k \in 2 .. Len(fs) /\ gs[k] = fs[k]
  OBVIOUS
<1> QED
  BY <1>1, <1>2 DEF Laid

LEMMA HeldBack ==
  ASSUME NEW fs, NEW ns, NEW gs, NEW size \in Nat, NEW dropped, Held(fs, ns, size, dropped),
         Len(fs) \in Nat, Len(gs) = Len(fs) - 1, \A k \in 1 .. Len(gs) : gs[k] = fs[k],
         Rest(fs[Len(fs)]) = {}
  PROVE  Held(gs, ns, size, dropped)
<1>1. \A k \in 1 .. Len(gs) : k \in 1 .. Len(fs) /\ gs[k] = fs[k]
  OBVIOUS
<1>2. \A k \in 1 .. Len(fs) : \A i \in Rest(fs[k]) : k \in 1 .. Len(gs) /\ i \in Rest(gs[k])
  <2> SUFFICES ASSUME NEW k \in 1 .. Len(fs), NEW i \in Rest(fs[k])
      PROVE  k \in 1 .. Len(gs) /\ i \in Rest(gs[k])
    OBVIOUS
  <2>1. k # Len(fs)
    OBVIOUS
  <2> QED
    BY <2>1
<1>3. \A i \in 0 .. size - 1 :
       \/ \E n \in 1 .. Len(ns) : i \in Holds(ns[n])
       \/ \E k \in 1 .. Len(fs) : i \in Rest(fs[k])
       \/ i \in dropped
  BY DEF Held
<1>4. \A i \in 0 .. size - 1 :
       \/ \E n \in 1 .. Len(ns) : i \in Holds(ns[n])
       \/ \E k \in 1 .. Len(gs) : i \in Rest(gs[k])
       \/ i \in dropped
  BY <1>2, <1>3
<1> QED
  BY <1>1, <1>4 DEF Held

(* The bytes up to next are in the new nodes, dropped, or in the new       *)
(* range.                                                                  *)
LEMMA HeldOn ==
  ASSUME NEW fs, NEW ns, NEW gs, NEW ms, NEW next, NEW size \in Nat, NEW dropped,
         Lineal(fs, ns), Laid(fs, ns, size), Held(fs, ns, size, dropped),
         Turned(fs, gs, next), Grown(ns, ms, fs[Len(fs)], next),
         \A k \in Len(fs) + 1 .. Len(gs) : \A i \in Rest(gs[k]) :
           /\ i \in fs[Len(fs)].position .. next - 1
           /\ \A n \in Len(ns) + 1 .. Len(ms) : i \notin Holds(ms[n]),
         \A i \in fs[Len(fs)].position .. next - 1 :
           \/ \E n \in Len(ns) + 1 .. Len(ms) : i \in Holds(ms[n])
           \/ \E k \in Len(fs) + 1 .. Len(gs) : i \in Rest(gs[k])
           \/ i \in dropped
  PROVE  Held(gs, ms, size, dropped)
<1> DEFINE F == Len(fs)
           L == Len(ns)
           M == Len(ms)
           G == Len(gs)
           pos == fs[F].position
<1>1. /\ F \in Nat /\ F > 0 /\ L \in Nat /\ M \in Nat /\ L <= M /\ G \in Nat /\ F <= G
      /\ next \in Int /\ pos \in Int /\ pos <= next /\ next <= fs[F].end /\ F \in 1 .. F
      /\ fs[F].end \in Int
  BY DEF Lineal, Grown, Turned, Laid, Stands
<1>2. \A n \in 1 .. M : \/ n \in 1 .. L /\ ms[n] = ns[n]
                        \/ n \in L + 1 .. M /\ n \notin 1 .. L
  BY <1>1 DEF Grown
<1>3. \A k \in 1 .. G : \/ k \in 1 .. F - 1 /\ k \in 1 .. F /\ gs[k] = fs[k]
                        \/ k = F
                        \/ k \in F + 1 .. G
  BY <1>1 DEF Turned
<1>4. \A i : i \in Rest(fs[F]) <=> i \in pos .. next - 1 \/ i \in Rest(gs[F])
  BY <1>1 DEF Rest, Turned
<1>5. \A n \in L + 1 .. M : \A i \in Holds(ms[n]) : i \in pos .. next - 1
  <2> SUFFICES ASSUME NEW n \in L + 1 .. M, NEW i \in Holds(ms[n]) PROVE i \in pos .. next - 1
    OBVIOUS
  <2>1. Upright(ms[n]) /\ pos <= ms[n].from /\ ms[n].to <= next
    BY DEF Grown
  <2>2. i \in ms[n].from .. ms[n].to - 1
    BY DEF Holds
  <2> QED
    BY <2>1, <2>2, <1>1 DEF Upright
<1>6. \A i \in pos .. next - 1 : \A n \in 1 .. L : i \notin Holds(ns[n])
  BY <1>1, <1>4 DEF Held
<1>7. \A m, n \in L + 1 .. M : m < n => \A i \in Holds(ms[m]) : i \notin Holds(ms[n])
  <2> SUFFICES ASSUME NEW m \in L + 1 .. M, NEW n \in L + 1 .. M, m < n,
                      NEW i \in Holds(ms[m]), i \in Holds(ms[n])
      PROVE  FALSE
    OBVIOUS
  <2>1. Upright(ms[m]) /\ Upright(ms[n]) /\ ms[m].to <= ms[n].from
    BY DEF Grown
  <2>2. i \in ms[m].from .. ms[m].to - 1 /\ i \in ms[n].from .. ms[n].to - 1
    BY DEF Holds
  <2> QED
    BY <2>1, <2>2 DEF Upright
<1>8. \A m, n \in 1 .. M : m # n => \A i \in Holds(ms[m]) : i \notin Holds(ms[n])
  <2> SUFFICES ASSUME NEW m \in 1 .. M, NEW n \in 1 .. M, m # n,
                      NEW i \in Holds(ms[m]), i \in Holds(ms[n])
      PROVE  FALSE
    OBVIOUS
  <2>1. CASE m \in 1 .. L /\ n \in 1 .. L
    BY <2>1, <1>2 DEF Held
  <2>2. CASE m \in 1 .. L /\ n \in L + 1 .. M
    BY <2>2, <1>2, <1>5, <1>6
  <2>3. CASE m \in L + 1 .. M /\ n \in 1 .. L
    BY <2>3, <1>2, <1>5, <1>6
  <2>4. CASE m \in L + 1 .. M /\ n \in L + 1 .. M
    <3>1. m < n \/ n < m
      BY <1>1
    <3> QED
      BY <3>1, <2>4, <1>7
  <2> QED
    BY <2>1, <2>2, <2>3, <2>4, <1>2
<1>9. \A k \in 1 .. G, n \in 1 .. M : \A i \in Rest(gs[k]) : i \notin Holds(ms[n])
  <2> SUFFICES ASSUME NEW k \in 1 .. G, NEW n \in 1 .. M, NEW i \in Rest(gs[k]), i \in Holds(ms[n])
      PROVE  FALSE
    OBVIOUS
  <2>1. CASE k \in 1 .. F - 1
    <3>1. k \in 1 .. F /\ gs[k] = fs[k] /\ k < F
      BY <2>1, <1>1, <1>3
    <3>2. n \notin 1 .. L
      BY <3>1, <1>2 DEF Held
    <3>3. i \in pos .. next - 1
      BY <3>2, <1>2, <1>5
    <3>4. fs[F].end <= fs[k].position /\ Stands(fs[k], size)
      BY <3>1, <1>1 DEF Laid
    <3>5. i \in fs[k].position .. fs[k].end - 1
      BY <3>1 DEF Rest
    <3> QED
      BY <3>3, <3>4, <3>5, <1>1 DEF Stands
  <2>2. CASE k = F
    <3>1. i \in Rest(fs[F]) /\ i \notin pos .. next - 1
      BY <2>2, <1>1, <1>4 DEF Rest, Turned
    <3>2. n \notin 1 .. L
      BY <3>1, <1>1, <1>2 DEF Held
    <3> QED
      BY <3>1, <3>2, <1>2, <1>5
  <2>3. CASE k \in F + 1 .. G
    <3>1. i \in pos .. next - 1 /\ \A o \in L + 1 .. M : i \notin Holds(ms[o])
      BY <2>3
    <3> QED
      BY <3>1, <1>2, <1>6
  <2> QED
    BY <2>1, <2>2, <2>3, <1>3
<1>10. ASSUME NEW i \in 0 .. size - 1
       PROVE  \/ \E n \in 1 .. M : i \in Holds(ms[n])
              \/ \E k \in 1 .. G : i \in Rest(gs[k])
              \/ i \in dropped
  <2>1. \/ \E n \in 1 .. L : i \in Holds(ns[n])
        \/ \E k \in 1 .. F : i \in Rest(fs[k])
        \/ i \in dropped
    BY DEF Held
  <2>2. ASSUME NEW n \in 1 .. L, i \in Holds(ns[n]) PROVE \E o \in 1 .. M : i \in Holds(ms[o])
    <3>1. n \in 1 .. M /\ ms[n] = ns[n]
      BY <1>1 DEF Grown
    <3> QED BY <3>1, <2>2
  <2>3. ASSUME NEW k \in 1 .. F, k # F, i \in Rest(fs[k]) PROVE \E o \in 1 .. G : i \in Rest(gs[o])
    <3>1. k \in 1 .. F - 1 /\ k \in 1 .. G
      BY <2>3, <1>1
    <3>2. gs[k] = fs[k]
      BY <3>1 DEF Turned
    <3> QED BY <3>1, <3>2, <2>3
  <2>4. CASE i \in Rest(fs[F]) /\ i \notin pos .. next - 1
    <3>1. i \in Rest(gs[F]) /\ F \in 1 .. G
      BY <2>4, <1>1, <1>4
    <3> QED BY <3>1
  <2>5. CASE i \in pos .. next - 1
    <3>1. \/ \E n \in L + 1 .. M : i \in Holds(ms[n])
          \/ \E k \in F + 1 .. G : i \in Rest(gs[k])
          \/ i \in dropped
      BY <2>5
    <3>2. \A n \in L + 1 .. M : n \in 1 .. M
      BY <1>1
    <3>3. \A k \in F + 1 .. G : k \in 1 .. G
      BY <1>1
    <3> HIDE DEF L, M, F, G
    <3> QED BY <3>1, <3>2, <3>3
  <2> QED
    BY <2>1, <2>2, <2>3, <2>4, <2>5
<1> QED
  BY <1>8, <1>9, <1>10 DEF Held
-----------------------------------------------------------------------------
LEMMA TellLineal ==
  ASSUME TellInv, Len(frames) # 0
  PROVE  Lineal(frames, nodes) /\ Len(frames) > 0
<1>1. /\ Len(frames) \in Nat /\ Len(frames) > 0 /\ Len(nodes) \in Nat
  BY DEF TellInv, Shapes, IsASeq
<1>2. \A k \in 2 .. Len(frames) : frames[k].node \in 1 .. Len(nodes)
  BY DEF TellInv, Lineage, NodeIds
<1>3. frames[1].node = 0
  BY <1>1 DEF TellInv, Lineage
<1>4. \A k \in 1 .. Len(frames) : frames[k].node \in 0 .. Len(nodes)
  <2> SUFFICES ASSUME NEW k \in 1 .. Len(frames) PROVE frames[k].node \in 0 .. Len(nodes)
    OBVIOUS
  <2>1. CASE k = 1
    BY <2>1, <1>1, <1>3
  <2>2. CASE k # 1
    <3>1. k \in 2 .. Len(frames)
      BY <2>2, <1>1
    <3> QED
      BY <3>1, <1>1, <1>2
  <2> QED BY <2>1, <2>2
<1> QED
  BY <1>1, <1>2, <1>3, <1>4 DEF TellInv, Lineage, NodeIds, Lineal

LEMMA MovingOn ==
  ASSUME NEW s, IsASeq(s), Len(s) > 0, AllFrames(s), NEW p, NEW t, MovedTo(t, s, p)
  PROVE  /\ Len(t) = Len(s) /\ \A k \in 1 .. Len(s) - 1 : t[k] = s[k]
         /\ t[Len(s)].node = s[Len(s)].node /\ t[Len(s)].end = s[Len(s)].end
         /\ t[Len(s)].plan = s[Len(s)].plan /\ t[Len(s)].position = p
<1>1. t = [k \in 1 .. Len(s) |-> IF k = Len(s) THEN [s[k] EXCEPT !.position = p] ELSE s[k]]
  BY DEF IsASeq, MovedTo
<1>2. s[Len(s)] = Frame(s[Len(s)].node, s[Len(s)].position, s[Len(s)].end, s[Len(s)].plan)
  BY DEF IsFrame, IsASeq, AllFrames
<1>3. t[Len(s)] = Frame(s[Len(s)].node, p, s[Len(s)].end, s[Len(s)].plan)
  BY <1>1, <1>2 DEF Frame, IsASeq
<1>4. Len(t) = Len(s)
  BY <1>1 DEF IsASeq
<1>5. \A k \in 1 .. Len(s) - 1 : t[k] = s[k]
  BY <1>1 DEF IsASeq
<1> QED
  BY <1>3, <1>4, <1>5 DEF Frame

(* The leaves added while the innermost range moves on to position lie one *)
(* behind the other, and only bytes to be dropped are in none of them.     *)
Tiles(leaves, position) ==
  /\ IsASeq(leaves)
  /\ position \in Int /\ Pos <= position /\ position <= Top.end
  /\ \A i \in 1 .. Len(leaves) :
       /\ leaves[i].parent = Top.node /\ Upright(leaves[i]) /\ leaves[i].inFrom = leaves[i].inTo
       /\ Pos <= leaves[i].from /\ leaves[i].to <= position
  /\ \A i, j \in 1 .. Len(leaves) : i < j => leaves[i].to <= leaves[j].from
  /\ \A b \in Pos .. position - 1 :
       (\E i \in 1 .. Len(leaves) : b \in Holds(leaves[i])) \/ Droppable(b)

(* The text stays the same, and what it says of bytes.                     *)
LEMMA SameText ==
  ASSUME text' = text
  PROVE  End' = End /\ Dropped' = Dropped /\ \A i : Droppable(i)' <=> Droppable(i)
<1>1. End' = End
  BY DEF End
<1>2. \A i : Droppable(i)' <=> Droppable(i)
  BY <1>1 DEF Droppable
<1> QED
  BY <1>1, <1>2 DEF Dropped

LEMMA SizeIsNat ==
  ASSUME Bytes
  PROVE  End \in Nat
BY DEF Bytes, End

Joined(s, t, r) ==
  /\ IsASeq(r) /\ Len(r) = Len(s) + Len(t)
  /\ \A k \in 1 .. Len(s) : r[k] = s[k]
  /\ \A k \in 1 .. Len(t) : r[Len(s) + k] = t[k]

LEMMA MovingKeepsBytes ==
  ASSUME TellInv, Bytes, phase = "walk", NEW position, NEW leaves, Tiles(leaves, position),
         MovedTo(frames', frames, position), Joined(nodes, leaves, nodes'),
         text' = text, phase' # "plan"
  PROVE  Bytes'
<1>1. /\ IsASeq(frames) /\ IsASeq(nodes) /\ Len(frames) \in Nat /\ Len(nodes) \in Nat
      /\ AllFrames(frames) /\ Len(frames) # 0
  BY DEF TellInv, Shapes, IsASeq, AllFrames
<1>2. Lineal(frames, nodes) /\ Len(frames) > 0 /\ End \in Nat
  BY <1>1, TellLineal, SizeIsNat
<1>3. MovedTo(frames', frames, position)
  OBVIOUS
<1>4. /\ Len(frames') = Len(frames)
      /\ \A k \in 1 .. Len(frames) - 1 : frames'[k] = frames[k]
      /\ frames'[Len(frames)].node = frames[Len(frames)].node
      /\ frames'[Len(frames)].end = frames[Len(frames)].end
      /\ frames'[Len(frames)].plan = frames[Len(frames)].plan
      /\ frames'[Len(frames)].position = position
  BY <1>1, <1>2, <1>3, MovingOn
<1>5. Turned(frames, frames', position)
  BY <1>1, <1>4 DEF Turned, Tiles, Pos, Top
<1>6. /\ IsASeq(leaves) /\ Len(leaves) \in Nat
      /\ IsASeq(nodes') /\ Len(nodes') = Len(nodes) + Len(leaves)
      /\ \A k \in 1 .. Len(nodes) : nodes'[k] = nodes[k]
      /\ \A k \in 1 .. Len(leaves) : nodes'[Len(nodes) + k] = leaves[k]
  <2>1. IsASeq(leaves) /\ Len(leaves) \in Nat
    BY DEF Tiles, IsASeq
  <2> QED
    BY <2>1 DEF Joined
<1>7. \A k \in Len(nodes) + 1 .. Len(nodes') :
        k - Len(nodes) \in 1 .. Len(leaves) /\ nodes'[k] = leaves[k - Len(nodes)]
  <2>1. \A k \in Len(nodes) + 1 .. Len(nodes') :
          k - Len(nodes) \in 1 .. Len(leaves) /\ k = Len(nodes) + (k - Len(nodes))
    BY <1>1, <1>6
  <2> QED
    BY <2>1, <1>6
<1>8. \A i \in 1 .. Len(leaves) :
        Len(nodes) + i \in Len(nodes) + 1 .. Len(nodes') /\ nodes'[Len(nodes) + i] = leaves[i]
  BY <1>1, <1>6
<1>9. Grown(nodes, nodes', frames[Len(frames)], position)
  <2>1. Len(nodes') \in Nat /\ Len(nodes) <= Len(nodes')
    BY <1>1, <1>6
  <2>2. \A n \in Len(nodes) + 1 .. Len(nodes') :
          /\ nodes'[n].parent = frames[Len(frames)].node /\ Upright(nodes'[n])
          /\ frames[Len(frames)].position <= nodes'[n].from /\ nodes'[n].to <= position
    BY <1>7 DEF Tiles, Pos, Top
  <2>3. \A m, n \in Len(nodes) + 1 .. Len(nodes') : m < n => nodes'[m].to <= nodes'[n].from
    <3> SUFFICES ASSUME NEW m \in Len(nodes) + 1 .. Len(nodes'),
                        NEW n \in Len(nodes) + 1 .. Len(nodes'), m < n
        PROVE  nodes'[m].to <= nodes'[n].from
      OBVIOUS
    <3>1. PICK i, j : i = m - Len(nodes) /\ j = n - Len(nodes)
      OBVIOUS
    <3>2. i \in 1 .. Len(leaves) /\ j \in 1 .. Len(leaves) /\ i < j
      BY <3>1, <1>1, <1>7
    <3> QED
      BY <3>1, <3>2, <1>7 DEF Tiles
  <2> QED
    BY <1>6, <2>1, <2>2, <2>3 DEF Grown
<1>10. Laid(frames', nodes', End)
  BY <1>2, <1>4, <1>5, <1>9, LaidOn DEF Bytes
<1>11. Held(frames', nodes', End, Dropped)
  <2>1. \A i \in frames[Len(frames)].position .. position - 1 :
           \/ \E n \in Len(nodes) + 1 .. Len(nodes') : i \in Holds(nodes'[n])
           \/ i \in Dropped
    <3> SUFFICES ASSUME NEW b \in Pos .. position - 1
        PROVE  (\E n \in Len(nodes) + 1 .. Len(nodes') : b \in Holds(nodes'[n])) \/ b \in Dropped
      BY DEF Pos, Top
    <3>1. CASE Droppable(b)
      <4>1. Stands(frames[Len(frames)], End)
        BY <1>1, <1>2 DEF Bytes, Laid
      <4>2. b \in 0 .. End - 1
        BY <4>1, <1>2 DEF Stands, Tiles, Pos, Top
      <4> QED
        BY <3>1, <4>2 DEF Dropped
    <3>2. CASE \E i \in 1 .. Len(leaves) : b \in Holds(leaves[i])
      BY <3>2, <1>8
    <3> QED
      BY <3>1, <3>2 DEF Tiles
  <2>2. \A k \in Len(frames) + 1 .. Len(frames') : FALSE
    BY <1>1, <1>4
  <2>3. Held(frames, nodes, End, Dropped) /\ Laid(frames, nodes, End)
    BY DEF Bytes
  <2> QED
    BY <1>2, <1>5, <1>9, <2>1, <2>2, <2>3, HeldOn
<1>12. \A k \in 1 .. Len(frames') : Fits(frames'[k].plan, frames'[k].end)
  <2>1. \A k \in 1 .. Len(frames') : frames'[k].plan = frames[k].plan /\ frames'[k].end = frames[k].end
    BY <1>1, <1>4
  <2> QED
    BY <2>1, <1>4 DEF Bytes
<1> QED
  BY <1>10, <1>11, <1>12, SameText DEF Bytes

LEMMA AdvanceKeepsBytes ==
  ASSUME TellInv, Bytes, phase = "walk", NEW position, NEW leaves, Advance(position, leaves),
         Tiles(leaves, position)
  PROVE  Bytes'
<1>1. IsASeq(nodes) /\ IsASeq(leaves)
  BY DEF TellInv, Shapes, Tiles
<1>2. Joined(nodes, leaves, nodes')
  BY <1>1, Joining DEF Joined, Advance
<1>3. MovedTo(frames', frames, position) /\ text' = text /\ phase' # "plan"
  BY DEF Advance, MovedTo
<1> QED
  BY <1>2, <1>3, MovingKeepsBytes

LEMMA DescentKeepsBytes ==
  ASSUME TellInv, Bytes, phase = "walk", NEW n, NEW next, NEW plan, Descend(n, next, plan),
         n.parent = Top.node, Upright(n), n.from = Pos, n.to = next, next <= Top.end,
         Fits(plan, n.inTo), phase' = "plan" => Planning'
  PROVE  Bytes'
<1>0. PICK x : x = Len(nodes) + 1
  OBVIOUS
<1>1. /\ IsASeq(frames) /\ IsASeq(nodes) /\ Len(frames) \in Nat /\ Len(nodes) \in Nat
      /\ AllFrames(frames) /\ Len(frames) # 0
  BY DEF TellInv, Shapes, IsASeq, AllFrames
<1>2. Lineal(frames, nodes) /\ Len(frames) > 0 /\ End \in Nat
  BY <1>1, TellLineal, SizeIsNat
<1>3. /\ IsASeq(nodes') /\ Len(nodes') = x /\ \A k \in 1 .. Len(nodes) : nodes'[k] = nodes[k]
      /\ nodes'[x] = n
  BY <1>0, <1>1, Appending DEF Descend
<1>4. PICK f : f = Frame(x, n.inFrom, n.inTo, plan)
  OBVIOUS
<1>5. f.node = x /\ f.position = n.inFrom /\ f.end = n.inTo /\ f.plan = plan
  BY <1>4 DEF Frame
<1>6. PICK moved : moved = [frames EXCEPT ![Len(frames)].position = next]
  OBVIOUS
<1>7. /\ IsASeq(moved) /\ Len(moved) = Len(frames)
      /\ \A k \in 1 .. Len(frames) - 1 : moved[k] = frames[k]
      /\ moved[Len(frames)].node = frames[Len(frames)].node
      /\ moved[Len(frames)].end = frames[Len(frames)].end
      /\ moved[Len(frames)].plan = frames[Len(frames)].plan
      /\ moved[Len(frames)].position = next
  <2>1. MovedTo(moved, frames, next)
    BY <1>6 DEF MovedTo
  <2> QED
    BY <2>1, <1>1, <1>2, Moving, MovingOn
<1>8. /\ IsASeq(frames') /\ Len(frames') = Len(frames) + 1
      /\ \A k \in 1 .. Len(frames) : frames'[k] = moved[k]
      /\ frames'[Len(frames) + 1] = f
  <2>1. frames' = Append(moved, f)
    BY <1>0, <1>4, <1>6 DEF Descend
  <2> QED
    BY <2>1, <1>7, Appending
<1>9. /\ Pos = frames[Len(frames)].position /\ Top = frames[Len(frames)]
      /\ Pos \in Int /\ next \in Int /\ Pos <= next
      /\ n.inFrom \in Int /\ n.inTo \in Int /\ Pos <= n.inFrom /\ n.inFrom <= n.inTo /\ n.inTo <= next
  BY DEF Upright, Pos, Top
<1>10. /\ Top.end \in Int /\ Top.end <= End /\ 0 <= Pos
       /\ \A k \in 1 .. Len(frames) - 1 : Top.end <= frames[k].position /\ frames[k].position \in Int
  <2>1. Len(frames) \in 1 .. Len(frames) /\ \A k \in 1 .. Len(frames) - 1 : k \in 1 .. Len(frames) /\ k < Len(frames)
    BY <1>1
  <2> QED
    BY <2>1, <1>9 DEF Bytes, Laid, Stands
<1>11. Turned(frames, moved, next) /\ Turned(frames, frames', next)
  <2>1. \A k \in 1 .. Len(frames) - 1 : frames'[k] = moved[k]
    BY <1>1, <1>8
  <2>2. frames'[Len(frames)] = moved[Len(frames)]
    BY <1>1, <1>2, <1>8
  <2> QED
    BY <2>1, <2>2, <1>1, <1>7, <1>8, <1>9 DEF Turned
<1>12. Grown(nodes, nodes', frames[Len(frames)], next)
  <2>1. \A k \in Len(nodes) + 1 .. Len(nodes') : k = x
    BY <1>0, <1>1, <1>3
  <2> QED
    BY <2>1, <1>0, <1>1, <1>3, <1>9 DEF Grown
<1>13. Laid(moved, nodes', End)
  BY <1>2, <1>7, <1>11, <1>12, LaidOn DEF Bytes
<1>14. Laid(frames', nodes', End)
  <2>1. Len(nodes') \in Nat /\ Len(nodes') > 0 /\ f.node = Len(nodes') /\ nodes'[Len(nodes')] = n
    BY <1>0, <1>1, <1>3, <1>5
  <2>2. Stands(f, End)
    BY <1>2, <1>5, <1>9, <1>10 DEF Stands
  <2>3. \A k \in 1 .. Len(moved) : f.end <= moved[k].position
    <3> SUFFICES ASSUME NEW k \in 1 .. Len(frames) PROVE f.end <= moved[k].position
      BY <1>7
    <3>1. CASE k = Len(frames)
      BY <3>1, <1>5, <1>7, <1>9
    <3>2. CASE k # Len(frames)
      <4>1. k \in 1 .. Len(frames) - 1
        BY <3>2, <1>1
      <4>2. moved[k] = frames[k] /\ Top.end <= frames[k].position /\ frames[k].position \in Int
        BY <4>1, <1>7, <1>10
      <4> QED
        BY <4>2, <1>5, <1>9, <1>10
    <3> QED BY <3>1, <3>2
  <2>4. \A k \in 1 .. Len(nodes') : nodes'[k].parent < Len(nodes')
    <3>1. \A k \in 1 .. Len(nodes) : nodes'[k].parent \in 0 .. k - 1
      BY <1>2, <1>3 DEF Lineal
    <3>2. n.parent \in 0 .. Len(nodes)
      BY <1>2, <1>9 DEF Lineal
    <3>3. \A k \in 1 .. x : k \in 1 .. Len(nodes) \/ k = x
      BY <1>0, <1>1
    <3> QED
      BY <3>1, <3>2, <3>3, <1>0, <1>1, <1>3
  <2>5. /\ Len(moved) \in Nat /\ Len(frames') = Len(moved) + 1
        /\ \A k \in 1 .. Len(moved) : frames'[k] = moved[k]
        /\ f = frames'[Len(moved) + 1]
    BY <1>1, <1>7, <1>8
  <2>6. nodes'[Len(nodes')].inFrom <= f.position /\ f.end <= nodes'[Len(nodes')].inTo
    BY <2>1, <1>5, <1>9
  <2> QED
    BY <2>1, <2>2, <2>3, <2>4, <2>5, <2>6, <1>2, <1>13, LaidDown
<1>15. Held(frames', nodes', End, Dropped)
  <2>1. \A k \in Len(frames) + 1 .. Len(frames') : frames'[k] = f
    BY <1>1, <1>8
  <2>2. \A k \in Len(nodes) + 1 .. Len(nodes') : nodes'[k] = n
    BY <1>0, <1>1, <1>3
  <2>3. \A i \in Rest(f) : i \in Pos .. next - 1 /\ i \notin Holds(n)
    BY <1>5, <1>9 DEF Rest, Holds
  <2>4. \A i \in Pos .. next - 1 : i \in Holds(n) \/ i \in Rest(f)
    BY <1>5, <1>9 DEF Rest, Holds
  <2>5. Len(frames) + 1 \in Len(frames) + 1 .. Len(frames') /\ Len(nodes) + 1 \in Len(nodes) + 1 .. Len(nodes')
    BY <1>0, <1>1, <1>3, <1>8
  <2>6. \A k \in Len(frames) + 1 .. Len(frames') : \A i \in Rest(frames'[k]) :
           /\ i \in frames[Len(frames)].position .. next - 1
           /\ \A m \in Len(nodes) + 1 .. Len(nodes') : i \notin Holds(nodes'[m])
    BY <2>1, <2>2, <2>3, <1>9
  <2>7. \A i \in frames[Len(frames)].position .. next - 1 :
           \/ \E m \in Len(nodes) + 1 .. Len(nodes') : i \in Holds(nodes'[m])
           \/ \E k \in Len(frames) + 1 .. Len(frames') : i \in Rest(frames'[k])
           \/ i \in Dropped
    BY <2>1, <2>2, <2>4, <2>5, <1>9
  <2>8. Held(frames, nodes, End, Dropped) /\ Laid(frames, nodes, End)
    BY DEF Bytes
  <2> QED
    BY <1>2, <1>11, <1>12, <2>6, <2>7, <2>8, HeldOn
<1>16. \A k \in 1 .. Len(frames') : Fits(frames'[k].plan, frames'[k].end)
  <2> SUFFICES ASSUME NEW k \in 1 .. Len(frames') PROVE Fits(frames'[k].plan, frames'[k].end)
    OBVIOUS
  <2>1. CASE k = Len(frames) + 1
    BY <2>1, <1>5, <1>8
  <2>2. CASE k # Len(frames) + 1
    <3>1. k \in 1 .. Len(frames) /\ frames'[k] = moved[k]
      BY <2>2, <1>1, <1>8
    <3>2. moved[k].plan = frames[k].plan /\ moved[k].end = frames[k].end
      BY <3>1, <1>1, <1>7
    <3> QED
      BY <3>1, <3>2 DEF Bytes
  <2> QED BY <2>1, <2>2
<1>17. text' = text
  BY DEF Descend
<1> QED
  BY <1>14, <1>15, <1>16, <1>17, SameText DEF Bytes

LEMMA ReturnKeepsBytes ==
  ASSUME TellInv, Bytes, Return
  PROVE  Bytes'
<1>1. /\ IsASeq(frames) /\ IsASeq(nodes) /\ Len(frames) \in Nat /\ Len(nodes) \in Nat
      /\ phase = "walk" /\ Len(frames) # 0
  BY DEF TellInv, Shapes, IsASeq, Return
<1>2. Lineal(frames, nodes) /\ Len(frames) > 0 /\ End \in Nat
  BY <1>1, TellLineal, SizeIsNat
<1>3. Len(frames') = Len(frames) - 1 /\ \A k \in 1 .. Len(frames') : frames'[k] = frames[k]
  BY <1>1, <1>2, Dropping DEF Return
<1>4. Rest(frames[Len(frames)]) = {}
  <2>1. Stands(frames[Len(frames)], End)
    BY <1>1, <1>2 DEF Bytes, Laid
  <2> QED
    BY <2>1 DEF Rest, Return, Pos, Top, Stands
<1>5. nodes' = nodes /\ text' = text /\ phase' # "plan"
  BY DEF Return
<1>6. Laid(frames', nodes', End)
  BY <1>1, <1>2, <1>3, <1>5, LaidBack DEF Bytes
<1>7. Held(frames', nodes', End, Dropped)
  BY <1>1, <1>2, <1>3, <1>4, <1>5, HeldBack DEF Bytes
<1>8. \A k \in 1 .. Len(frames') : Fits(frames'[k].plan, frames'[k].end)
  BY <1>1, <1>3 DEF Bytes
<1> QED
  BY <1>5, <1>6, <1>7, <1>8, SameText DEF Bytes
-----------------------------------------------------------------------------
(* How far a scan goes.                                                    *)
LEMMA RunIsShort ==
  ASSUME NEW t, NEW position \in Int, NEW end \in Int, position <= end, NEW marker
  PROVE  /\ ByteRun(t, position, end, marker) \in Nat
         /\ position + ByteRun(t, position, end, marker) <= end
         /\ position < end /\ At(t, position) = marker => ByteRun(t, position, end, marker) >= 1
<1> DEFINE I == position .. end - 1
           S == {i \in I : \A j \in position .. i : At(t, j) = marker}
           R == Cardinality(S)
<1>1. IsFiniteSet(I) /\ Cardinality(I) = end - position
  <2>1. end - 1 \in Int
    OBVIOUS
  <2>2. IsFiniteSet(I) /\ Cardinality(I) = IF position > end - 1 THEN 0 ELSE (end - 1) - position + 1
    BY <2>1, FS_Interval
  <2> QED
    BY <2>2
<1>2. S \in SUBSET I
  OBVIOUS
<1>3. IsFiniteSet(S) /\ R <= end - position
  BY <1>1, <1>2, FS_Subset
<1>4. R \in Nat
  BY <1>3, FS_CardinalityType
<1>5. position < end /\ At(t, position) = marker => position \in S
  <2> SUFFICES ASSUME position < end, At(t, position) = marker PROVE position \in S
    OBVIOUS
  <2>1. position \in I /\ \A j \in position .. position : j = position
    OBVIOUS
  <2> QED
    BY <2>1
<1>6. S # {} => R # 0
  BY <1>3, FS_EmptySet
<1>7. ByteRun(t, position, end, marker) = R
  BY DEF ByteRun
<1> HIDE DEF R, S, I
<1> QED
  BY <1>3, <1>4, <1>5, <1>6, <1>7

LEMMA CodeSpanFits ==
  ASSUME NEW t, NEW candidate \in Nat, NEW end \in Int, NEW run \in Nat
  PROVE  LET codeEnd == CodeSpanEnd(t, candidate, end, run)
         IN  \/ codeEnd = -1
             \/ codeEnd \in Int /\ candidate + run <= codeEnd /\ codeEnd <= end
<1> DEFINE S == {i \in candidate .. end - 1 :
                    /\ i = candidate \/ At(t, i - 1) # "tick"
                    /\ ByteRun(t, i, end, "tick") = run}
<1>1. CodeSpanEnd(t, candidate, end, run) = IF S = {} THEN -1 ELSE Min(S) + run
  BY DEF CodeSpanEnd
<1>2. S \in SUBSET Nat /\ \A i \in S : candidate <= i /\ i <= end - 1
  OBVIOUS
<1>3. \A i \in S : i + run <= end
  <2> SUFFICES ASSUME NEW i \in S PROVE i + run <= end
    OBVIOUS
  <2>1. i \in Int /\ i <= end /\ ByteRun(t, i, end, "tick") = run
    OBVIOUS
  <2> QED
    BY <2>1, RunIsShort
<1> HIDE DEF S
<1>4. CASE S # {}
  <2>1. PICK m \in S : \A s \in S : m <= s
    BY <1>2, <1>4, SmallestExists
  <2>2. Min(S) \in S
    BY <2>1 DEF Min
  <2>3. PICK k \in S : k = Min(S)
    BY <2>2
  <2>4. k \in Nat /\ candidate <= k /\ k + run <= end
    BY <1>2, <1>3
  <2>5. CodeSpanEnd(t, candidate, end, run) = k + run
    BY <1>1, <1>4, <2>3
  <2> QED
    BY <2>4, <2>5
<1> QED
  BY <1>1, <1>4

LEMMA PastFits ==
  ASSUME NEW t, NEW end \in Int, NEW position \in Nat, position < end,
         NEW plain \in Int, position + 1 <= plain, plain <= end + 1
  PROVE  /\ Past(t, position, end, plain) \in Int
         /\ position + 1 <= Past(t, position, end, plain)
         /\ Past(t, position, end, plain) <= end + 1
<1> DEFINE ticks == ByteRun(t, position, end, "tick")
           codeEnd == CodeSpanEnd(t, position + ticks, end, ticks)
           past == Past(t, position, end, plain)
<1>1. ticks \in Nat
  BY RunIsShort
<1>2. \/ codeEnd = -1
      \/ codeEnd \in Int /\ position + ticks + ticks <= codeEnd /\ codeEnd <= end
  <2>1. position + ticks \in Nat
    BY <1>1
  <2> QED
    BY <1>1, <2>1, CodeSpanFits
<1>3. \/ past = position + 2
      \/ past = Max({plain, codeEnd})
      \/ past = plain
  BY DEF Past
<1> HIDE DEF ticks, codeEnd, past
<1>4. \/ Max({plain, codeEnd}) = plain
      \/ Max({plain, codeEnd}) = codeEnd /\ codeEnd >= plain
  <2>1. \E x \in {plain, codeEnd} : \A y \in {plain, codeEnd} : x >= y
    <3>1. plain \in Int /\ codeEnd \in Int
      BY <1>1, <1>2
    <3> QED
      BY <3>1
  <2> QED
    BY <2>1 DEF Max
<1>5. past \in Int /\ position + 1 <= past /\ past <= end + 1
  BY <1>1, <1>2, <1>3, <1>4
<1> QED
  BY <1>5 DEF past

(* The functions a recursive definition may speak of: G says what each     *)
(* value is, from values at arguments of smaller size alone.               *)
Measures(size, D, bound) ==
  size \in [D -> Nat] /\ bound \in Nat /\ \A x \in D : size[x] <= bound

Recursion(G, D, V, size) ==
  /\ V # {} /\ G \in [[D -> V] -> [D -> V]]
  /\ \A f, g \in [D -> V] : \A x \in D :
       (\A y \in D : size[y] < size[x] => f[y] = g[y]) => G[f][x] = G[g][x]

IsFixed(f, G, D, V) == f \in [D -> V] /\ f = G[f]

LEMMA RecursionExists ==
  ASSUME NEW D, NEW V, NEW size, NEW bound, Measures(size, D, bound),
         NEW G, Recursion(G, D, V, size)
  PROVE  \E f : IsFixed(f, G, D, V)
<1> USE DEF Measures, Recursion
<1> DEFINE Right(f, n) == \A x \in D : size[x] < n => f[x] = G[f][x]
           S == {n \in Nat : \E f \in [D -> V] : Right(f, n)}
<1>1. 0 \in S
  <2>1. PICK v \in V : TRUE
    OBVIOUS
  <2>2. [x \in D |-> v] \in [D -> V]
    OBVIOUS
  <2>3. \A f : Right(f, 0)
    OBVIOUS
  <2> QED
    BY <2>2, <2>3
<1>2. ASSUME NEW n \in Nat, n \in S PROVE n + 1 \in S
  <2>1. PICK f \in [D -> V] : Right(f, n)
    BY <1>2
  <2>2. PICK g \in [D -> V] : g = G[f]
    OBVIOUS
  <2>3. ASSUME NEW x \in D, size[x] < n + 1 PROVE g[x] = G[g][x]
    <3>1. \A y \in D : size[y] < size[x] => f[y] = g[y]
      <4> SUFFICES ASSUME NEW y \in D, size[y] < size[x] PROVE f[y] = g[y]
        OBVIOUS
      <4>1. size[y] \in Nat /\ size[x] \in Nat
        OBVIOUS
      <4>2. size[y] < n
        BY <4>1, <2>3
      <4> QED
        BY <4>2, <2>1, <2>2
    <3>2. G[f][x] = G[g][x]
      BY <3>1
    <3> QED
      BY <3>2, <2>2
  <2>4. Right(g, n + 1)
    BY <2>3
  <2> QED
    BY <2>4
<1> HIDE DEF S
<1>3. Nat \subseteq S
  BY <1>1, <1>2, SetInduction
<1>4. PICK f \in [D -> V] : Right(f, bound + 1)
  BY <1>3 DEF S
<1>5. \A x \in D : f[x] = G[f][x]
  <2> SUFFICES ASSUME NEW x \in D PROVE f[x] = G[f][x]
    OBVIOUS
  <2>1. size[x] \in Nat /\ size[x] <= bound
    OBVIOUS
  <2>2. size[x] < bound + 1
    BY <2>1
  <2> QED
    BY <2>2, <1>4
<1>6. G[f] \in [D -> V]
  OBVIOUS
<1>7. f = G[f]
  BY <1>5, <1>6
<1> QED
  BY <1>7 DEF IsFixed

(* The search for the closing bracket, unrolled.                           *)
Places(end) == (0 .. end + 1) \X Nat

ClosingStep(f, t, end, p, depth) ==
  IF p >= end THEN -1
  ELSE CASE At(t, p) = "]" -> IF depth = 0 THEN p ELSE f[<<p + 1, depth - 1>>]
         [] At(t, p) = "[" -> f[<<p + 1, depth + 1>>]
         [] OTHER -> f[<<Past(t, p, end, p + 1), depth>>]

IsClosing(f, t, end) ==
  f = [at \in Places(end) |-> ClosingStep(f, t, end, at[1], at[2])]

(* It ends, at the place it has come to or without success, or goes on.    *)
ClosingTurns(t, end, p, depth) ==
  \/ \A g : ClosingStep(g, t, end, p, depth) = -1
  \/ p < end /\ \A g : ClosingStep(g, t, end, p, depth) = p
  \/ \E q \in p + 1 .. end + 1, d \in Nat :
       \A g : ClosingStep(g, t, end, p, depth) = g[<<q, d>>]

LEMMA ClosingSteps ==
  ASSUME NEW t, NEW end \in Nat, NEW p \in 0 .. end + 1, NEW depth \in Nat
  PROVE  ClosingTurns(t, end, p, depth)
<1> USE DEF ClosingTurns
<1>1. CASE p >= end
  BY <1>1 DEF ClosingStep
<1>2. CASE p < end /\ At(t, p) = "]"
  <2>1. CASE depth = 0
    BY <2>1, <1>2 DEF ClosingStep
  <2>2. CASE depth # 0
    <3>1. p + 1 \in p + 1 .. end + 1 /\ depth - 1 \in Nat
      BY <1>2, <2>2
    <3>2. \A g : ClosingStep(g, t, end, p, depth) = g[<<p + 1, depth - 1>>]
      BY <1>2, <2>2 DEF ClosingStep
    <3> QED BY <3>1, <3>2, <1>2
  <2> QED BY <2>1, <2>2
<1>3. CASE p < end /\ At(t, p) = "["
  <2>1. p + 1 \in p + 1 .. end + 1 /\ depth + 1 \in Nat
    BY <1>3
  <2>2. \A g : ClosingStep(g, t, end, p, depth) = g[<<p + 1, depth + 1>>]
    BY <1>3 DEF ClosingStep
  <2> QED BY <2>1, <2>2, <1>3
<1>4. CASE p < end /\ At(t, p) # "[" /\ At(t, p) # "]"
  <2>1. PICK q : q = Past(t, p, end, p + 1)
    OBVIOUS
  <2>2. q \in p + 1 .. end + 1
    <3>1. p \in Nat /\ p + 1 \in Int /\ p + 1 <= p + 1 /\ p + 1 <= end + 1
      BY <1>4
    <3> QED
      BY <2>1, <3>1, <1>4, PastFits
  <2>3. \A g : ClosingStep(g, t, end, p, depth) = g[<<q, depth>>]
    BY <1>4, <2>1 DEF ClosingStep
  <2> QED BY <2>2, <2>3, <1>4
<1> QED
  BY <1>1, <1>2, <1>3, <1>4

LEMMA ClosingExists ==
  ASSUME NEW t, NEW end \in Nat
  PROVE  \E f : IsClosing(f, t, end)
<1> DEFINE D == Places(end)
           size == [at \in D |-> end + 1 - at[1]]
           G == [f \in [D -> Int] |-> [at \in D |-> ClosingStep(f, t, end, at[1], at[2])]]
<1>1. \A at \in D : at[1] \in 0 .. end + 1 /\ at[2] \in Nat /\ at = <<at[1], at[2]>>
  BY DEF Places
<1>2. size \in [D -> Nat] /\ \A at \in D : size[at] <= end + 1
  BY <1>1
<1>3. \A q \in 0 .. end + 1, d \in Nat : <<q, d>> \in D /\ size[<<q, d>>] = end + 1 - q
  BY DEF Places
<1>4. \A at \in D : size[at] = end + 1 - at[1]
  OBVIOUS
<1> HIDE DEF D, size
<1>5. ASSUME NEW at \in D
      PROVE  \/ \E v \in Int : \A g : ClosingStep(g, t, end, at[1], at[2]) = v
             \/ \E x \in D : /\ size[x] < size[at]
                             /\ \A g : ClosingStep(g, t, end, at[1], at[2]) = g[x]
  <2>1. PICK p \in 0 .. end + 1, d \in Nat : p = at[1] /\ d = at[2]
    BY <1>1
  <2>2. CASE \A g : ClosingStep(g, t, end, p, d) = -1
    BY <2>1, <2>2
  <2>3. CASE \A g : ClosingStep(g, t, end, p, d) = p
    BY <2>1, <2>3
  <2>4. CASE \E q \in p + 1 .. end + 1, e \in Nat : \A g : ClosingStep(g, t, end, p, d) = g[<<q, e>>]
    <3>1. PICK q \in p + 1 .. end + 1, e \in Nat : \A g : ClosingStep(g, t, end, p, d) = g[<<q, e>>]
      BY <2>4
    <3>2. q \in 0 .. end + 1 /\ end + 1 - q < end + 1 - p
      OBVIOUS
    <3>3. <<q, e>> \in D /\ size[<<q, e>>] < size[at]
      BY <3>2, <2>1, <1>3, <1>4
    <3> QED
      BY <3>1, <3>3, <2>1
  <2> QED
    BY <2>2, <2>3, <2>4, ClosingSteps DEF ClosingTurns
<1>6. G \in [[D -> Int] -> [D -> Int]]
  <2> SUFFICES ASSUME NEW f \in [D -> Int], NEW at \in D
      PROVE  ClosingStep(f, t, end, at[1], at[2]) \in Int
    OBVIOUS
  <2> QED
    BY <1>5
<1>7. ASSUME NEW f \in [D -> Int], NEW g \in [D -> Int], NEW at \in D,
             \A y \in D : size[y] < size[at] => f[y] = g[y]
      PROVE  G[f][at] = G[g][at]
  <2>1. ClosingStep(f, t, end, at[1], at[2]) = ClosingStep(g, t, end, at[1], at[2])
    BY <1>5, <1>7
  <2> QED
    BY <2>1
<1> HIDE DEF G
<1>8. PICK f : IsFixed(f, G, D, Int)
  <2>1. Measures(size, D, end + 1)
    BY <1>2 DEF Measures
  <2>2. Recursion(G, D, Int, size)
    BY <1>6, <1>7 DEF Recursion
  <2> QED
    BY <2>1, <2>2, RecursionExists
<1>9. IsClosing(f, t, end)
  BY <1>8 DEF IsFixed, IsClosing, G, D
<1> QED
  BY <1>9

LEMMA ClosingIsInside ==
  ASSUME NEW t, NEW end \in Nat, NEW f, IsClosing(f, t, end)
  PROVE  \A p \in 0 .. end + 1, depth \in Nat :
           f[<<p, depth>>] = -1 \/ f[<<p, depth>>] \in p .. end - 1
<1> DEFINE Good == {n \in Nat : \A p \in 0 .. end + 1, depth \in Nat : end + 1 - p = n =>
                      f[<<p, depth>>] = -1 \/ f[<<p, depth>>] \in p .. end - 1}
<1> HIDE DEF Good
<1>1. ASSUME NEW n \in Nat, \A m \in 0 .. n - 1 : m \in Good PROVE n \in Good
  <2> SUFFICES ASSUME NEW p \in 0 .. end + 1, NEW depth \in Nat, end + 1 - p = n
      PROVE  f[<<p, depth>>] = -1 \/ f[<<p, depth>>] \in p .. end - 1
    BY DEF Good
  <2>1. f[<<p, depth>>] = ClosingStep(f, t, end, p, depth)
    <3>1. <<p, depth>> \in Places(end)
      BY DEF Places
    <3> QED
      BY <3>1 DEF IsClosing
  <2>2. CASE \E q \in p + 1 .. end + 1, d \in Nat :
               \A g : ClosingStep(g, t, end, p, depth) = g[<<q, d>>]
    <3>1. PICK q \in p + 1 .. end + 1, d \in Nat : f[<<p, depth>>] = f[<<q, d>>]
      BY <2>1, <2>2
    <3>2. q \in 0 .. end + 1 /\ end + 1 - q \in 0 .. n - 1
      OBVIOUS
    <3>3. f[<<q, d>>] = -1 \/ f[<<q, d>>] \in q .. end - 1
      BY <3>2, <1>1 DEF Good
    <3> QED
      BY <3>1, <3>3
  <2>3. CASE p < end /\ \A g : ClosingStep(g, t, end, p, depth) = p
    BY <2>1, <2>3
  <2>4. CASE \A g : ClosingStep(g, t, end, p, depth) = -1
    BY <2>1, <2>4
  <2>5. ClosingTurns(t, end, p, depth)
    BY ClosingSteps
  <2> QED
    BY <2>2, <2>3, <2>4, <2>5 DEF ClosingTurns
<1>2. Nat \subseteq Good
  BY <1>1, StrongInduction
<1>3. \A p \in 0 .. end + 1 : end + 1 - p \in Nat
  OBVIOUS
<1> QED
  BY <1>2, <1>3 DEF Good

(* A bracket is closed behind where it is opened and within the range.     *)
LEMMA BracketFits ==
  ASSUME NEW t, NEW end \in Nat, NEW position \in 0 .. end + 1
  PROVE  \/ ClosingBracket(t, position, end) = -1
         \/ ClosingBracket(t, position, end) \in position .. end - 1
<1> DEFINE f == CHOOSE g : IsClosing(g, t, end)
<1>1. ClosingBracket(t, position, end) = f[<<position, 0>>]
  BY DEF ClosingBracket, IsClosing, ClosingStep, Places
<1>2. IsClosing(f, t, end)
  BY ClosingExists
<1> HIDE DEF f
<1> QED
  BY <1>1, <1>2, ClosingIsInside

LEMMA LinkFits ==
  ASSUME NEW t, NEW end \in Nat, NEW start \in 0 .. end, NEW refs
  PROVE  LET close  == ClosingBracket(t, start + 1, end)
             target == LinkEnd(t, start, end, refs)
         IN  \/ target = -1
             \/ close \in start + 1 .. end - 1 /\ target \in close + 1 .. end
<1>1. PICK close : close = ClosingBracket(t, start + 1, end)
  OBVIOUS
<1>2. close = -1 \/ close \in start + 1 .. end - 1
  BY <1>1, BracketFits
<1>3. PICK second : second = ClosingBracket(t, close + 2, end)
  OBVIOUS
<1>4. CASE close = -1
  <2>1. ClosingBracket(t, start + 1, end) < 0
    BY <1>1, <1>4
  <2>2. LinkEnd(t, start, end, refs) = -1
    BY <2>1 DEF LinkEnd
  <2> QED
    BY <2>2
<1>5. CASE close \in start + 1 .. end - 1
  <2>1. second = -1 \/ second \in close + 2 .. end - 1
    BY <1>3, <1>5, BracketFits
  <2>2. LinkEnd(t, start, end, refs) \in {-1, second + 1, close + 1}
        /\ (second = -1 => LinkEnd(t, start, end, refs) \in {-1, close + 1})
    <3>1. (close + 1) + 1 = close + 2
      BY <1>5
    <3> QED
      BY <3>1, <1>1, <1>3, <1>5, <2>1 DEF LinkEnd
  <2> QED
    BY <1>1, <1>5, <2>1, <2>2
<1> QED
  BY <1>2, <1>4, <1>5
-----------------------------------------------------------------------------
(* The search for the delimiter that closes the one at hand, unrolled.     *)
NoMatch    == [found |-> FALSE]
MatchTypes == {NoMatch} \cup [found : {TRUE}, contentEnd : Int, next : Int]

IsMatch(r, from, end) ==
  /\ r.contentEnd \in Int /\ r.next \in Int
  /\ from <= r.contentEnd /\ r.contentEnd <= r.next /\ r.next <= end

FindStep(f, p, end) ==
  LET open   == OpenLength(Char, MarkerRun)
      mine   == Flanking(text, Pos, MarkerRun, Char, 0, end)
      run    == ByteRun(text, p, end, Char)
      ticks  == ByteRun(text, p, end, "tick")
      theirs == Flanking(text, p, run, Char, Pos, end)
      odd    == /\ Char # "~"
                /\ mine.canClose \/ theirs.canOpen
                /\ (MarkerRun + run) % 3 = 0
                /\ MarkerRun % 3 # 0 \/ run % 3 # 0
  IN  IF p >= end THEN [found |-> FALSE]
      ELSE IF run = 0 THEN f[Past(text, p, end, IF ticks > 0 THEN p + ticks ELSE p + 1)]
      ELSE IF run < open \/ ~theirs.canClose \/ odd THEN f[p + run]
      ELSE IF MarkerRun > 2 /\ MarkerRun = run
           THEN [found |-> TRUE, contentEnd |-> p + run - open, next |-> p + run]
      ELSE [found |-> TRUE, contentEnd |-> p, next |-> p + open]

IsFind(f, end) == f = [p \in 0 .. end + 1 |-> FindStep(f, p, end)]

FindTurns(p, end) ==
  \/ \E v \in MatchTypes : /\ v = NoMatch \/ IsMatch(v, p, end)
                           /\ \A g : FindStep(g, p, end) = v
  \/ \E q \in p + 1 .. end + 1 : \A g : FindStep(g, p, end) = g[q]

LEMMA FindSteps ==
  ASSUME NEW end \in Nat, NEW p \in 0 .. end + 1, MarkerRun \in Nat,
         OpenLength(Char, MarkerRun) \in 1 .. MarkerRun
  PROVE  FindTurns(p, end)
<1> DEFINE open  == OpenLength(Char, MarkerRun)
           run   == ByteRun(text, p, end, Char)
           ticks == ByteRun(text, p, end, "tick")
           plain == IF ticks > 0 THEN p + ticks ELSE p + 1
           past  == Past(text, p, end, plain)
           skips == run < open \/ ~Flanking(text, p, run, Char, Pos, end).canClose
                      \/ /\ Char # "~"
                         /\ \/ Flanking(text, Pos, MarkerRun, Char, 0, end).canClose
                            \/ Flanking(text, p, run, Char, Pos, end).canOpen
                         /\ (MarkerRun + run) % 3 = 0
                         /\ MarkerRun % 3 # 0 \/ run % 3 # 0
<1>1. \A g : FindStep(g, p, end) =
        IF p >= end THEN [found |-> FALSE]
        ELSE IF run = 0 THEN g[past]
        ELSE IF skips THEN g[p + run]
        ELSE IF MarkerRun > 2 /\ MarkerRun = run
             THEN [found |-> TRUE, contentEnd |-> p + run - open, next |-> p + run]
        ELSE [found |-> TRUE, contentEnd |-> p, next |-> p + open]
  BY DEF FindStep
<1>2. CASE p < end
  <2>1. run \in Nat /\ p + run <= end /\ ticks \in Nat /\ p + ticks <= end
    BY <1>2, RunIsShort
  <2>2. past \in p + 1 .. end + 1
    <3>1. p \in Nat /\ plain \in Int /\ p + 1 <= plain /\ plain <= end + 1
      BY <2>1, <1>2
    <3> HIDE DEF plain
    <3> QED
      BY <3>1, <1>2, PastFits
  <2>3. skips \/ open <= run
    BY <2>1
  <2>4. open \in Int /\ 1 <= open /\ open <= MarkerRun
    OBVIOUS
  <2> HIDE DEF run, ticks, plain, past, open, skips
  <2>5. CASE run = 0
    BY <1>1, <1>2, <2>2, <2>5 DEF FindTurns
  <2>6. CASE run # 0 /\ skips
    <3>1. p + run \in p + 1 .. end + 1
      BY <2>1, <2>6
    <3> QED
      BY <3>1, <1>1, <1>2, <2>6 DEF FindTurns
  <2>7. CASE run # 0 /\ ~skips
    <3>1. PICK v : v = IF MarkerRun > 2 /\ MarkerRun = run
             THEN [found |-> TRUE, contentEnd |-> p + run - open, next |-> p + run]
             ELSE [found |-> TRUE, contentEnd |-> p, next |-> p + open]
      OBVIOUS
    <3>2. \A g : FindStep(g, p, end) = v
      BY <3>1, <1>1, <1>2, <2>7
    <3>3. CASE MarkerRun > 2 /\ MarkerRun = run
      <4>1. v = [found |-> TRUE, contentEnd |-> p + run - open, next |-> p + run]
        BY <3>1, <3>3
      <4>2. v \in MatchTypes /\ v.contentEnd = p + run - open /\ v.next = p + run
        BY <4>1, <2>1, <2>4 DEF MatchTypes
      <4>3. IsMatch(v, p, end)
        BY <4>2, <2>1, <2>4, <3>3 DEF IsMatch
      <4> QED
        BY <4>2, <4>3, <3>2 DEF FindTurns
    <3>4. CASE ~(MarkerRun > 2 /\ MarkerRun = run)
      <4>1. v = [found |-> TRUE, contentEnd |-> p, next |-> p + open]
        BY <3>1, <3>4
      <4>2. v \in MatchTypes /\ v.contentEnd = p /\ v.next = p + open
        BY <4>1, <2>1, <2>4 DEF MatchTypes
      <4>3. IsMatch(v, p, end)
        BY <4>2, <2>1, <2>3, <2>4, <2>7 DEF IsMatch
      <4> QED
        BY <4>2, <4>3, <3>2 DEF FindTurns
    <3> QED
      BY <3>3, <3>4
  <2> QED
    BY <2>5, <2>6, <2>7
<1>3. CASE ~(p < end)
  <2>1. \A g : FindStep(g, p, end) = NoMatch
    BY <1>1, <1>3 DEF NoMatch
  <2> QED
    BY <2>1 DEF FindTurns, MatchTypes
<1> QED
  BY <1>2, <1>3

LEMMA FindExists ==
  ASSUME NEW end \in Nat, MarkerRun \in Nat, OpenLength(Char, MarkerRun) \in 1 .. MarkerRun
  PROVE  \E f : IsFind(f, end)
<1> DEFINE D == 0 .. end + 1
           size == [p \in D |-> end + 1 - p]
           G == [f \in [D -> MatchTypes] |-> [p \in D |-> FindStep(f, p, end)]]
<1>1. size \in [D -> Nat] /\ \A p \in D : size[p] <= end + 1
  OBVIOUS
<1>2. \A p \in D : \A q \in p + 1 .. end + 1 : q \in D /\ size[q] < size[p]
  OBVIOUS
<1>3. \A p \in D : FindTurns(p, end)
  BY FindSteps
<1> HIDE DEF D, size
<1>4. ASSUME NEW p \in D
      PROVE  \/ \E v \in MatchTypes : \A g : FindStep(g, p, end) = v
             \/ \E x \in D : size[x] < size[p] /\ \A g : FindStep(g, p, end) = g[x]
  BY <1>2, <1>3 DEF FindTurns
<1>5. G \in [[D -> MatchTypes] -> [D -> MatchTypes]]
  <2> SUFFICES ASSUME NEW f \in [D -> MatchTypes], NEW p \in D
      PROVE  FindStep(f, p, end) \in MatchTypes
    OBVIOUS
  <2> QED
    BY <1>4
<1>6. ASSUME NEW f \in [D -> MatchTypes], NEW g \in [D -> MatchTypes], NEW p \in D,
             \A y \in D : size[y] < size[p] => f[y] = g[y]
      PROVE  G[f][p] = G[g][p]
  <2>1. FindStep(f, p, end) = FindStep(g, p, end)
    BY <1>4, <1>6
  <2> QED
    BY <2>1
<1> HIDE DEF G
<1>7. PICK f : IsFixed(f, G, D, MatchTypes)
  <2>1. Measures(size, D, end + 1)
    BY <1>1 DEF Measures
  <2>2. Recursion(G, D, MatchTypes, size)
    <3>1. MatchTypes # {}
      BY DEF MatchTypes
    <3> QED
      BY <3>1, <1>5, <1>6 DEF Recursion
  <2> QED
    BY <2>1, <2>2, RecursionExists
<1>8. IsFind(f, end)
  BY <1>7 DEF IsFixed, IsFind, G, D
<1> QED
  BY <1>8

LEMMA FindIsInside ==
  ASSUME NEW end \in Nat, MarkerRun \in Nat, OpenLength(Char, MarkerRun) \in 1 .. MarkerRun,
         NEW f, IsFind(f, end)
  PROVE  \A p \in 0 .. end + 1 : f[p] = NoMatch \/ IsMatch(f[p], p, end)
<1> DEFINE Good == {n \in Nat : \A p \in 0 .. end + 1 : end + 1 - p = n =>
                      f[p] = NoMatch \/ IsMatch(f[p], p, end)}
<1> HIDE DEF Good
<1>1. ASSUME NEW n \in Nat, \A m \in 0 .. n - 1 : m \in Good PROVE n \in Good
  <2> SUFFICES ASSUME NEW p \in 0 .. end + 1, end + 1 - p = n
      PROVE  f[p] = NoMatch \/ IsMatch(f[p], p, end)
    BY DEF Good
  <2>1. f[p] = FindStep(f, p, end)
    BY DEF IsFind
  <2>2. CASE \E q \in p + 1 .. end + 1 : \A g : FindStep(g, p, end) = g[q]
    <3>1. PICK q \in p + 1 .. end + 1 : f[p] = f[q]
      BY <2>1, <2>2
    <3>2. q \in 0 .. end + 1 /\ end + 1 - q \in 0 .. n - 1
      OBVIOUS
    <3>3. f[q] = NoMatch \/ IsMatch(f[q], q, end)
      BY <3>2, <1>1 DEF Good
    <3> QED
      BY <3>1, <3>3 DEF IsMatch
  <2>3. CASE \E v \in MatchTypes : /\ v = NoMatch \/ IsMatch(v, p, end)
                                   /\ \A g : FindStep(g, p, end) = v
    BY <2>1, <2>3
  <2> QED
    BY <2>2, <2>3, FindSteps DEF FindTurns
<1>2. Nat \subseteq Good
  BY <1>1, StrongInduction
<1>3. \A p \in 0 .. end + 1 : end + 1 - p \in Nat
  OBVIOUS
<1> QED
  BY <1>2, <1>3 DEF Good

LEMMA MatchFits ==
  ASSUME NEW end \in Nat, NEW from \in 0 .. end + 1, MarkerRun \in Nat,
         OpenLength(Char, MarkerRun) \in 1 .. MarkerRun, FindClosing(from, end).found
  PROVE  IsMatch(FindClosing(from, end), from, end)
<1> DEFINE f == CHOOSE g : IsFind(g, end)
<1>1. FindClosing(from, end) = f[from]
  BY DEF FindClosing, IsFind, FindStep
<1>2. IsFind(f, end)
  BY FindExists
<1> HIDE DEF f
<1>3. f[from] = NoMatch \/ IsMatch(f[from], from, end)
  BY <1>2, FindIsInside
<1>4. ~NoMatch.found
  BY DEF NoMatch
<1> QED
  BY <1>1, <1>3, <1>4
-----------------------------------------------------------------------------
(* The collected runs: from left to right, from position on and up to end. *)
InOrder(s, position, end) ==
  /\ s \in Seq(Delimiter)
  /\ \A i \in 1 .. Len(s) : position <= s[i].start /\ s[i].start + s[i].length <= end
  /\ \A i, j \in 1 .. Len(s) : i < j => s[i].start + s[i].length <= s[j].start

LEMMA FlankingIsBoolean ==
  ASSUME NEW t, NEW start, NEW run, NEW marker, NEW lower, NEW upper
  PROVE  /\ Flanking(t, start, run, marker, lower, upper).canOpen \in BOOLEAN
         /\ Flanking(t, start, run, marker, lower, upper).canClose \in BOOLEAN
BY DEF Flanking

LEMMA DelimiterFields ==
  ASSUME NEW d \in Delimiter
  PROVE  d.start \in Nat /\ d.length \in Nat /\ d.length >= 1
<1>1. d.start \in Nat /\ d.length \in Nat \ {0}
  BY DEF Delimiter
<1> QED
  BY <1>1

LEMMA RunFields ==
  ASSUME NEW s \in Seq(Delimiter)
  PROVE  /\ Len(s) \in Nat
         /\ \A i \in 1 .. Len(s) : s[i].start \in Nat /\ s[i].length \in Nat /\ s[i].length >= 1
<1>1. Len(s) \in Nat /\ \A i \in 1 .. Len(s) : s[i] \in Delimiter
  OBVIOUS
<1> QED
  BY <1>1, DelimiterFields

LEMMA NoneInOrder ==
  ASSUME NEW position, NEW end
  PROVE  InOrder(<<>>, position, end)
BY DEF InOrder

LEMMA OneInOrder ==
  ASSUME NEW d \in Delimiter, NEW end \in Int, d.start + d.length <= end
  PROVE  InOrder(<<d>>, d.start, d.start + d.length) /\ d.start \in Nat /\ d.length \in Nat
<1>1. /\ <<d>> \in Seq(Delimiter) /\ Len(<<d>>) = 1 /\ <<d>>[1] = d
      /\ d.start \in Nat /\ d.length \in Nat
  BY DelimiterFields
<1>2. \A i \in 1 .. 1 : i = 1
  OBVIOUS
<1> QED
  BY <1>1, <1>2 DEF InOrder

LEMMA OpensEarlier ==
  ASSUME NEW s, NEW from \in Int, NEW position \in Int, NEW end \in Int,
         InOrder(s, position, end), from <= position
  PROVE  InOrder(s, from, end)
<1>1. s \in Seq(Delimiter)
  BY DEF InOrder
<1>2. \A i \in 1 .. Len(s) : s[i].start \in Nat
  BY <1>1, RunFields
<1>3. \A i \in 1 .. Len(s) : from <= s[i].start
  BY <1>2 DEF InOrder
<1> QED
  BY <1>1, <1>3 DEF InOrder

LEMMA JoinedInOrder ==
  ASSUME NEW a, NEW b, NEW from \in Int, NEW middle \in Int, NEW next \in Int, NEW end \in Int,
         InOrder(a, from, middle), InOrder(b, next, end), from <= middle, middle <= next, middle <= end
  PROVE  InOrder(a \o b, from, end)
<1>1. /\ a \in Seq(Delimiter) /\ b \in Seq(Delimiter) /\ Len(a) \in Nat /\ Len(b) \in Nat
      /\ \A i \in 1 .. Len(a) : a[i].start \in Nat /\ a[i].length \in Nat
      /\ \A i \in 1 .. Len(b) : b[i].start \in Nat /\ b[i].length \in Nat
  BY RunFields DEF InOrder
<1>2. PICK s : s = a \o b
  OBVIOUS
<1>3. s \in Seq(Delimiter) /\ Len(s) = Len(a) + Len(b)
  BY <1>1, <1>2
<1>4. \A i \in 1 .. Len(s) : \/ i \in 1 .. Len(a) /\ s[i] = a[i]
                             \/ i > Len(a) /\ i - Len(a) \in 1 .. Len(b) /\ s[i] = b[i - Len(a)]
  BY <1>1, <1>2, <1>3
<1>5. \A i \in 1 .. Len(s) : from <= s[i].start /\ s[i].start + s[i].length <= end
  <2> SUFFICES ASSUME NEW i \in 1 .. Len(s)
      PROVE  from <= s[i].start /\ s[i].start + s[i].length <= end
    OBVIOUS
  <2>1. CASE i \in 1 .. Len(a) /\ s[i] = a[i]
    BY <2>1, <1>1 DEF InOrder
  <2>2. CASE i - Len(a) \in 1 .. Len(b) /\ s[i] = b[i - Len(a)]
    BY <2>2, <1>1 DEF InOrder
  <2> QED
    BY <2>1, <2>2, <1>4
<1>6. \A i, j \in 1 .. Len(s) : i < j => s[i].start + s[i].length <= s[j].start
  <2> SUFFICES ASSUME NEW i \in 1 .. Len(s), NEW j \in 1 .. Len(s), i < j
      PROVE  s[i].start + s[i].length <= s[j].start
    OBVIOUS
  <2>1. CASE i \in 1 .. Len(a) /\ s[i] = a[i] /\ j \in 1 .. Len(a) /\ s[j] = a[j]
    BY <2>1 DEF InOrder
  <2>2. CASE /\ i \in 1 .. Len(a) /\ s[i] = a[i]
             /\ j - Len(a) \in 1 .. Len(b) /\ s[j] = b[j - Len(a)]
    <3>1. a[i].start + a[i].length <= middle /\ next <= b[j - Len(a)].start
      BY <2>2 DEF InOrder
    <3>2. a[i].start \in Nat /\ a[i].length \in Nat /\ b[j - Len(a)].start \in Nat
      BY <2>2, <1>1
    <3>3. a[i].start + a[i].length <= b[j - Len(a)].start
      BY <3>1, <3>2
    <3> QED
      BY <3>3, <2>2
  <2>3. CASE /\ i > Len(a) /\ i - Len(a) \in 1 .. Len(b) /\ s[i] = b[i - Len(a)]
             /\ j - Len(a) \in 1 .. Len(b) /\ s[j] = b[j - Len(a)]
    <3>1. i - Len(a) < j - Len(a)
      BY <1>1
    <3> QED
      BY <3>1, <2>3 DEF InOrder
  <2>4. i > Len(a) => j \notin 1 .. Len(a)
    BY <1>1
  <2> QED
    BY <2>1, <2>2, <2>3, <2>4, <1>4
<1> QED
  BY <1>2, <1>3, <1>5, <1>6 DEF InOrder

(* The collection of delimiter runs, unrolled.                             *)
Stretches(t) == (0 .. Len(t) + 1) \X (0 .. Len(t))

CollectStep(f, t, refs, p, e) ==
  LET c      == At(t, p)
      run    == ByteRun(t, p, e, c)
      flank  == Flanking(t, p, run, c, 0, e)
      image  == c = "!" /\ p + 1 < e /\ At(t, p + 1) = "["
      open   == IF image THEN p + 1 ELSE p
      close  == ClosingBracket(t, open + 1, e)
      target == LinkEnd(t, open, e, refs)
  IN  IF p >= e THEN <<>>
      ELSE CASE c \in {"*", "_"} ->
                  <<[start |-> p, marker |-> c, length |-> run,
                     canOpen |-> flank.canOpen, canClose |-> flank.canClose]>>
                  \o f[<<p + run, e>>]
             [] (c = "[" \/ image) /\ close >= 0 /\ target >= 0 ->
                  IF c = "[" /\ NestedLink(t, open + 1, close, refs)
                  THEN f[<<open + 1, close>>] \o f[<<close + 1, e>>]
                  ELSE f[<<target, e>>]
             [] OTHER -> f[<<Past(t, p, e, IF c = "tick" THEN p + run ELSE p + 1), e>>]

IsCollect(f, t, refs) ==
  f = [range \in Stretches(t) |-> CollectStep(f, t, refs, range[1], range[2])]

(* One step ends, or takes a run, or splits off a label, or moves on.      *)
CollectTurns(t, refs, p, e) ==
  \/ \A g : CollectStep(g, t, refs, p, e) = <<>>
  \/ \E d \in Delimiter :
       /\ d.start = p /\ p + d.length <= e
       /\ \A g : CollectStep(g, t, refs, p, e) = <<d>> \o g[<<p + d.length, e>>]
  \/ \E a \in p + 1 .. e - 1, c \in p + 1 .. e - 1 : a <= c /\ 
       \A g : CollectStep(g, t, refs, p, e) = g[<<a, c>>] \o g[<<c + 1, e>>]
  \/ p < e /\ \E q \in p + 1 .. e + 1 : \A g : CollectStep(g, t, refs, p, e) = g[<<q, e>>]

LEMMA CollectSteps ==
  ASSUME NEW t, NEW refs, NEW e \in Nat, NEW p \in 0 .. e + 1
  PROVE  CollectTurns(t, refs, p, e)
<1> DEFINE c      == At(t, p)
           run    == ByteRun(t, p, e, c)
           flank  == Flanking(t, p, run, c, 0, e)
           image  == c = "!" /\ p + 1 < e /\ At(t, p + 1) = "["
           open   == IF image THEN p + 1 ELSE p
           close  == ClosingBracket(t, open + 1, e)
           target == LinkEnd(t, open, e, refs)
           links  == (c = "[" \/ image) /\ close >= 0 /\ target >= 0
           nested == c = "[" /\ NestedLink(t, open + 1, close, refs)
           d      == [start |-> p, marker |-> c, length |-> run,
                      canOpen |-> flank.canOpen, canClose |-> flank.canClose]
           plain  == IF c = "tick" THEN p + run ELSE p + 1
           past   == Past(t, p, e, plain)
<1>0. p < e <=> ~(p >= e)
  OBVIOUS
<1>1. p \in Int /\ e \in Int /\ p \in Nat /\ p <= e + 1 /\ e <= e
  OBVIOUS
<1>2. p < e => run \in Nat /\ p + run <= e /\ run >= 1
  BY <1>1, RunIsShort
<1>3. flank.canOpen \in BOOLEAN /\ flank.canClose \in BOOLEAN
  BY FlankingIsBoolean
<1>4. \A g : CollectStep(g, t, refs, p, e) =
        IF p >= e THEN <<>>
        ELSE CASE c \in {"*", "_"} -> <<d>> \o g[<<p + run, e>>]
               [] links -> IF nested THEN g[<<open + 1, close>>] \o g[<<close + 1, e>>]
                           ELSE g[<<target, e>>]
               [] OTHER -> g[<<past, e>>]
  BY DEF CollectStep
<1>5. c \in {"*", "_"} => ~links
  OBVIOUS
<1>6. p < e /\ links => open \in p .. e - 1 /\ open \in 0 .. e
  OBVIOUS
<1>7. open \in 0 .. e => \/ target = -1
                         \/ close \in open + 1 .. e - 1 /\ target \in close + 1 .. e
  <2> HIDE DEF open
  <2> QED
    BY LinkFits
<1>8. p < e => plain \in Int /\ p + 1 <= plain /\ plain <= e + 1
  <2> HIDE DEF run, c
  <2> QED
    BY <1>1, <1>2
<1>9. p < e => past \in p + 1 .. e + 1
  <2> HIDE DEF plain
  <2>1. p < e => /\ Past(t, p, e, plain) \in Int /\ p + 1 <= Past(t, p, e, plain)
                 /\ Past(t, p, e, plain) <= e + 1
    BY <1>1, <1>8, PastFits
  <2> QED
    BY <2>1, <1>1
<1>10. p < e /\ c \in {"*", "_"} => d \in Delimiter /\ d.start = p /\ d.length = run
  <2> HIDE DEF flank, run, c
  <2>1. p < e => run \in Nat \ {0}
    BY <1>2
  <2> QED
    BY <2>1, <1>1, <1>3 DEF Delimiter
<1>11. links => target >= 0
  OBVIOUS
<1> HIDE DEF c, run, flank, image, open, close, target, links, nested, d, plain, past
<1>12. CASE p >= e
  <2>1. \A g : CollectStep(g, t, refs, p, e) = <<>>
    BY <1>4, <1>12
  <2> QED
    BY <2>1 DEF CollectTurns
<1>13. CASE p < e /\ c \in {"*", "_"}
  <2>1. ~(p >= e)
    BY <1>13, <1>0
  <2>2. \A g : CollectStep(g, t, refs, p, e) = <<d>> \o g[<<p + d.length, e>>]
    BY <2>1, <1>4, <1>5, <1>10, <1>13
  <2>3. d \in Delimiter /\ d.start = p /\ p + d.length <= e
    BY <1>2, <1>10, <1>13
  <2> QED
    BY <2>2, <2>3 DEF CollectTurns
<1>14. CASE p < e /\ c \notin {"*", "_"} /\ links /\ nested
  <2>1. ~(p >= e)
    BY <1>14, <1>0
  <2>2. \A g : CollectStep(g, t, refs, p, e) = g[<<open + 1, close>>] \o g[<<close + 1, e>>]
    BY <2>1, <1>4, <1>14
  <2>3. /\ open \in p .. e - 1 /\ open \in 0 .. e
        /\ close \in open + 1 .. e - 1 /\ target \in close + 1 .. e
    <3>1. open \in p .. e - 1 /\ open \in 0 .. e /\ target >= 0
      BY <1>6, <1>11, <1>14
    <3> QED
      BY <3>1, <1>7
  <2>4. open + 1 \in p + 1 .. e - 1 /\ close \in p + 1 .. e - 1 /\ open + 1 <= close
    BY <2>3
  <2> QED
    BY <2>2, <2>4 DEF CollectTurns
<1>15. CASE p < e /\ c \notin {"*", "_"} /\ links /\ ~nested
  <2>1. ~(p >= e)
    BY <1>15, <1>0
  <2>2. \A g : CollectStep(g, t, refs, p, e) = g[<<target, e>>]
    BY <2>1, <1>4, <1>15
  <2>3. /\ open \in p .. e - 1 /\ open \in 0 .. e
        /\ close \in open + 1 .. e - 1 /\ target \in close + 1 .. e
    <3>1. open \in p .. e - 1 /\ open \in 0 .. e /\ target >= 0
      BY <1>6, <1>11, <1>15
    <3> QED
      BY <3>1, <1>7
  <2>4. target \in p + 1 .. e + 1
    BY <2>3
  <2> QED
    BY <2>2, <2>4, <1>15 DEF CollectTurns
<1>16. CASE p < e /\ c \notin {"*", "_"} /\ ~links
  <2>1. ~(p >= e)
    BY <1>16, <1>0
  <2>2. \A g : CollectStep(g, t, refs, p, e) = g[<<past, e>>]
    BY <2>1, <1>4, <1>16
  <2> QED
    BY <2>2, <1>9, <1>16 DEF CollectTurns
<1> QED
  BY <1>0, <1>12, <1>13, <1>14, <1>15, <1>16

LEMMA CollectExists ==
  ASSUME NEW t, Len(t) \in Nat, NEW refs
  PROVE  \E f : IsCollect(f, t, refs)
<1> DEFINE N == Len(t)
           D == Stretches(t)
           V == Seq(Delimiter)
           size == [x \in D |-> IF x[1] >= x[2] THEN 0 ELSE x[2] - x[1]]
           G == [f \in [D -> V] |-> [x \in D |-> CollectStep(f, t, refs, x[1], x[2])]]
<1>1. \A x \in D : x[1] \in 0 .. N + 1 /\ x[2] \in 0 .. N
  BY DEF Stretches
<1>2. size \in [D -> Nat] /\ \A x \in D : size[x] <= N
  BY <1>1
<1>3. \A q \in 0 .. N + 1, e \in 0 .. N :
        <<q, e>> \in D /\ size[<<q, e>>] = IF q >= e THEN 0 ELSE e - q
  BY DEF Stretches
<1>4. \A x \in D : size[x] = IF x[1] >= x[2] THEN 0 ELSE x[2] - x[1]
  OBVIOUS
<1> HIDE DEF D, size, V
<1>5. ASSUME NEW x \in D
      PROVE  \/ \A g : CollectStep(g, t, refs, x[1], x[2]) = <<>>
             \/ \E d \in Delimiter, y \in D :
                  /\ size[y] < size[x]
                  /\ \A g : CollectStep(g, t, refs, x[1], x[2]) = <<d>> \o g[y]
             \/ \E y, z \in D :
                  /\ size[y] < size[x] /\ size[z] < size[x]
                  /\ \A g : CollectStep(g, t, refs, x[1], x[2]) = g[y] \o g[z]
             \/ \E y \in D : /\ size[y] < size[x]
                             /\ \A g : CollectStep(g, t, refs, x[1], x[2]) = g[y]
  <2>1. PICK p \in 0 .. N + 1, e \in 0 .. N : p = x[1] /\ e = x[2]
    BY <1>1
  <2>2. CASE p > e
    <3>1. p >= e
      BY <2>2
    <3>2. \A g : CollectStep(g, t, refs, p, e) = <<>>
      BY <3>1 DEF CollectStep
    <3> QED
      BY <3>2, <2>1
  <2>3. CASE p <= e
    <3>1. p \in 0 .. e + 1 /\ e \in Nat
      BY <2>3
    <3>2. CollectTurns(t, refs, p, e)
      BY <3>1, CollectSteps
    <3>3. CASE \E d \in Delimiter :
                 /\ d.start = p /\ p + d.length <= e
                 /\ \A g : CollectStep(g, t, refs, p, e) = <<d>> \o g[<<p + d.length, e>>]
      <4>1. PICK d \in Delimiter :
                 /\ d.start = p /\ p + d.length <= e
                 /\ \A g : CollectStep(g, t, refs, p, e) = <<d>> \o g[<<p + d.length, e>>]
        BY <3>3
      <4>2. d.length \in Nat /\ d.length >= 1
        BY DelimiterFields
      <4>3. PICK q \in 0 .. N + 1 : q = p + d.length /\ p < q /\ q <= e
        BY <4>1, <4>2
      <4>4. <<q, e>> \in D /\ size[<<q, e>>] < size[x]
        BY <4>3, <2>1, <1>3, <1>4
      <4>5. \A g : CollectStep(g, t, refs, x[1], x[2]) = <<d>> \o g[<<q, e>>]
        BY <4>1, <4>3, <2>1
      <4> QED
        BY <4>4, <4>5
    <3>4. CASE \E a \in p + 1 .. e - 1, c \in p + 1 .. e - 1 : a <= c /\ 
                 \A g : CollectStep(g, t, refs, p, e) = g[<<a, c>>] \o g[<<c + 1, e>>]
      <4>1. PICK a \in p + 1 .. e - 1, c \in p + 1 .. e - 1 :
                 /\ a <= c
                 /\ \A g : CollectStep(g, t, refs, p, e) = g[<<a, c>>] \o g[<<c + 1, e>>]
        BY <3>4
      <4>2. /\ a \in 0 .. N + 1 /\ c \in 0 .. N /\ c + 1 \in 0 .. N + 1
            /\ p < a /\ a <= c /\ c < e
        BY <4>1
      <4>3. <<a, c>> \in D /\ size[<<a, c>>] < size[x]
        BY <4>2, <2>1, <1>3, <1>4
      <4>4. <<c + 1, e>> \in D /\ size[<<c + 1, e>>] < size[x]
        BY <4>2, <2>1, <1>3, <1>4
      <4> QED
        BY <4>1, <4>3, <4>4, <2>1
    <3>5. CASE p < e /\ \E q \in p + 1 .. e + 1 : \A g : CollectStep(g, t, refs, p, e) = g[<<q, e>>]
      <4>1. PICK q \in p + 1 .. e + 1 : \A g : CollectStep(g, t, refs, p, e) = g[<<q, e>>]
        BY <3>5
      <4>2. q \in 0 .. N + 1 /\ p < q
        OBVIOUS
      <4>3. <<q, e>> \in D /\ size[<<q, e>>] < size[x]
        BY <4>2, <3>5, <2>1, <1>3, <1>4
      <4> QED
        BY <4>1, <4>3, <2>1
    <3>6. CASE \A g : CollectStep(g, t, refs, p, e) = <<>>
      BY <3>6, <2>1
    <3> QED
      BY <3>2, <3>3, <3>4, <3>5, <3>6 DEF CollectTurns
  <2>4. p > e \/ p <= e
    OBVIOUS
  <2> QED
    BY <2>2, <2>3, <2>4
<1>6. /\ <<>> \in V
      /\ \A a, b \in V : a \o b \in V
      /\ \A d \in Delimiter : <<d>> \in V
  BY DEF V
<1>7. G \in [[D -> V] -> [D -> V]]
  <2> SUFFICES ASSUME NEW f \in [D -> V], NEW x \in D
      PROVE  CollectStep(f, t, refs, x[1], x[2]) \in V
    OBVIOUS
  <2>1. \A y \in D : f[y] \in V
    OBVIOUS
  <2>2. CASE \A g : CollectStep(g, t, refs, x[1], x[2]) = <<>>
    BY <2>2, <1>6
  <2>3. CASE \E d \in Delimiter, y \in D :
               /\ size[y] < size[x]
               /\ \A g : CollectStep(g, t, refs, x[1], x[2]) = <<d>> \o g[y]
    BY <2>1, <2>3, <1>6
  <2>4. CASE \E y, z \in D :
               /\ size[y] < size[x] /\ size[z] < size[x]
               /\ \A g : CollectStep(g, t, refs, x[1], x[2]) = g[y] \o g[z]
    BY <2>1, <2>4, <1>6
  <2>5. CASE \E y \in D : /\ size[y] < size[x]
                          /\ \A g : CollectStep(g, t, refs, x[1], x[2]) = g[y]
    BY <2>1, <2>5
  <2> QED
    BY <2>2, <2>3, <2>4, <2>5, <1>5
<1>8. ASSUME NEW f \in [D -> V], NEW g \in [D -> V], NEW x \in D,
             \A y \in D : size[y] < size[x] => f[y] = g[y]
      PROVE  G[f][x] = G[g][x]
  <2>1. CollectStep(f, t, refs, x[1], x[2]) = CollectStep(g, t, refs, x[1], x[2])
    <3>1. CASE \A h : CollectStep(h, t, refs, x[1], x[2]) = <<>>
      BY <3>1
    <3>2. CASE \E d \in Delimiter, y \in D :
                 /\ size[y] < size[x]
                 /\ \A h : CollectStep(h, t, refs, x[1], x[2]) = <<d>> \o h[y]
      BY <3>2, <1>8
    <3>3. CASE \E y, z \in D :
                 /\ size[y] < size[x] /\ size[z] < size[x]
                 /\ \A h : CollectStep(h, t, refs, x[1], x[2]) = h[y] \o h[z]
      BY <3>3, <1>8
    <3>4. CASE \E y \in D : /\ size[y] < size[x]
                            /\ \A h : CollectStep(h, t, refs, x[1], x[2]) = h[y]
      BY <3>4, <1>8
    <3> QED
      BY <3>1, <3>2, <3>3, <3>4, <1>5
  <2> QED
    BY <2>1
<1> HIDE DEF G
<1>9. PICK f : IsFixed(f, G, D, V)
  <2>1. Measures(size, D, N)
    BY <1>2 DEF Measures
  <2>2. Recursion(G, D, V, size)
    BY <1>6, <1>7, <1>8 DEF Recursion
  <2> QED
    BY <2>1, <2>2, RecursionExists
<1>10. IsCollect(f, t, refs)
  BY <1>9 DEF IsFixed, IsCollect, G, D
<1> QED
  BY <1>10

LEMMA CollectIsInOrder ==
  ASSUME NEW t, Len(t) \in Nat, NEW refs, NEW f, IsCollect(f, t, refs)
  PROVE  \A e \in 0 .. Len(t) : \A p \in 0 .. e + 1 : InOrder(f[<<p, e>>], p, e)
<1> DEFINE N == Len(t)
           Good == {n \in Nat : \A e \in 0 .. N : \A p \in 0 .. e + 1 :
                      e + 1 - p = n => InOrder(f[<<p, e>>], p, e)}
<1> HIDE DEF Good
<1>1. ASSUME NEW n \in Nat, \A m \in 0 .. n - 1 : m \in Good PROVE n \in Good
  <2> SUFFICES ASSUME NEW e \in 0 .. N, NEW p \in 0 .. e + 1, e + 1 - p = n
      PROVE  InOrder(f[<<p, e>>], p, e)
    BY DEF Good
  <2>1. f[<<p, e>>] = CollectStep(f, t, refs, p, e)
    <3>1. <<p, e>> \in Stretches(t)
      BY DEF Stretches
    <3> QED
      BY <3>1 DEF IsCollect
  <2>2. \A a \in 0 .. N : \A q \in 0 .. a + 1 : a + 1 - q < n => InOrder(f[<<q, a>>], q, a)
    <3> SUFFICES ASSUME NEW a \in 0 .. N, NEW q \in 0 .. a + 1, a + 1 - q < n
        PROVE  InOrder(f[<<q, a>>], q, a)
      OBVIOUS
    <3>1. a + 1 - q \in 0 .. n - 1
      OBVIOUS
    <3> QED
      BY <3>1, <1>1 DEF Good
  <2>3. CASE \A g : CollectStep(g, t, refs, p, e) = <<>>
    BY <2>1, <2>3, NoneInOrder
  <2>4. CASE \E d \in Delimiter :
               /\ d.start = p /\ p + d.length <= e
               /\ \A g : CollectStep(g, t, refs, p, e) = <<d>> \o g[<<p + d.length, e>>]
    <3>1. PICK d \in Delimiter :
               /\ d.start = p /\ p + d.length <= e
               /\ f[<<p, e>>] = <<d>> \o f[<<p + d.length, e>>]
      BY <2>1, <2>4
    <3>2. d.length \in Nat /\ d.length >= 1
      BY DelimiterFields
    <3>3. PICK q : q = p + d.length
      OBVIOUS
    <3>4. q \in 0 .. e + 1 /\ p < q /\ q <= e /\ e + 1 - q < n
      BY <3>1, <3>2, <3>3
    <3>5. InOrder(f[<<q, e>>], q, e)
      BY <3>4, <2>2
    <3>6. InOrder(<<d>>, p, q)
      BY <3>1, <3>3, OneInOrder
    <3>7. InOrder(<<d>> \o f[<<q, e>>], p, e)
      BY <3>4, <3>5, <3>6, JoinedInOrder
    <3> QED
      BY <3>1, <3>3, <3>7
  <2>5. CASE \E a \in p + 1 .. e - 1, c \in p + 1 .. e - 1 : a <= c /\ 
               \A g : CollectStep(g, t, refs, p, e) = g[<<a, c>>] \o g[<<c + 1, e>>]
    <3>1. PICK a \in p + 1 .. e - 1, c \in p + 1 .. e - 1 :
               a <= c /\ f[<<p, e>>] = f[<<a, c>>] \o f[<<c + 1, e>>]
      BY <2>1, <2>5
    <3>2. /\ c \in 0 .. N /\ a \in 0 .. c + 1 /\ c + 1 - a < n
          /\ c + 1 \in 0 .. e + 1 /\ e + 1 - (c + 1) < n
      BY <3>1
    <3>3. InOrder(f[<<a, c>>], a, c) /\ InOrder(f[<<c + 1, e>>], c + 1, e)
      BY <3>2, <2>2
    <3>4. InOrder(f[<<a, c>>], p, c)
      BY <3>1, <3>3, OpensEarlier
    <3>5. p \in Int /\ c \in Int /\ c + 1 \in Int /\ e \in Int /\ p <= c /\ c <= c + 1 /\ c <= e
      BY <3>1
    <3>6. InOrder(f[<<a, c>>] \o f[<<c + 1, e>>], p, e)
      BY ONLY <3>3, <3>4, <3>5, JoinedInOrder
    <3> QED
      BY <3>1, <3>6
  <2>6. CASE p < e /\ \E q \in p + 1 .. e + 1 : \A g : CollectStep(g, t, refs, p, e) = g[<<q, e>>]
    <3>1. PICK q \in p + 1 .. e + 1 : f[<<p, e>>] = f[<<q, e>>]
      BY <2>1, <2>6
    <3>2. q \in 0 .. e + 1 /\ e + 1 - q < n
      OBVIOUS
    <3>3. InOrder(f[<<q, e>>], q, e)
      BY <3>2, <2>2
    <3>4. InOrder(f[<<q, e>>], p, e)
      BY <3>1, <3>3, OpensEarlier
    <3> QED
      BY <3>1, <3>4
  <2>7. CollectTurns(t, refs, p, e)
    BY CollectSteps
  <2> QED
    BY <2>3, <2>4, <2>5, <2>6, <2>7 DEF CollectTurns
<1>2. Nat \subseteq Good
  BY <1>1, StrongInduction
<1>3. \A e \in 0 .. N : \A p \in 0 .. e + 1 : e + 1 - p \in Nat
  OBVIOUS
<1> QED
  BY <1>2, <1>3 DEF Good

(* What is collected from a range are delimiter runs of the range, from    *)
(* left to right.                                                          *)
LEMMA CollectFits ==
  ASSUME NEW t, Len(t) \in Nat, NEW refs, NEW end \in 0 .. Len(t), NEW position \in 0 .. end
  PROVE  InOrder(Collect(t, position, end, refs), position, end)
<1> DEFINE f == CHOOSE g : IsCollect(g, t, refs)
<1>1. Collect(t, position, end, refs) = f[<<position, end>>]
  BY DEF Collect, IsCollect, CollectStep, Stretches
<1>2. IsCollect(f, t, refs)
  BY CollectExists
<1> HIDE DEF f
<1>3. position \in 0 .. end + 1
  OBVIOUS
<1> QED
  BY <1>1, <1>2, <1>3, CollectIsInOrder
-----------------------------------------------------------------------------
(* Planning a range and taking up its plan.                                *)
LEMMA PlanFits ==
  ASSUME Planning, Top.end \in Int
  PROVE  Fits(pairs, Top.end)
<1>1. PlanInv /\ Distinct(pairs)
  BY PlanIsDistinct DEF Planning
<1>2. DOMAIN pairs = 1 .. Len(pairs) /\ Len(pairs) \in Nat /\ \A k \in DOMAIN pairs : pairs[k] \in Pairs
  BY <1>1 DEF Distinct, Pairs
<1>3. ASSUME NEW k \in DOMAIN pairs
      PROVE  /\ pairs[k].openStart + pairs[k].length <= pairs[k].closeStart
             /\ pairs[k].closeStart < Top.end => pairs[k].closeStart + pairs[k].length <= Top.end
  <2>1. PICK p : p = pairs[k]
    OBVIOUS
  <2>2. /\ p.open \in Run /\ p.close \in Run /\ p.open < p.close
        /\ p.openStart \in Int /\ p.closeStart \in Int /\ p.length \in {1, 2}
        /\ RunStart(p.open) <= p.openStart /\ p.openStart + p.length <= RunEnd(p.open)
        /\ RunStart(p.close) <= p.closeStart /\ p.closeStart + p.length <= RunEnd(p.close)
    BY <1>1, <1>2, <2>1, PairBytes
  <2>3. /\ RunStart(p.open) \in Int /\ RunEnd(p.open) \in Int
        /\ RunStart(p.close) \in Int /\ RunEnd(p.close) \in Int
        /\ RunEnd(p.open) <= RunStart(p.close)
    BY <1>1, <2>2, RunBytes
  <2>4. RunEnd(p.close) <= Top.end
    BY <2>2 DEF Planning
  <2>5. /\ p.openStart + p.length <= p.closeStart
        /\ p.closeStart + p.length <= Top.end
    BY <2>2, <2>3, <2>4
  <2> QED
    BY <2>1, <2>5
<1>4. ASSUME NEW k \in DOMAIN pairs, NEW l \in DOMAIN pairs, pairs[k].closeStart < pairs[l].closeStart
      PROVE  pairs[k].closeStart + pairs[k].length <= pairs[l].closeStart
  <2>1. PICK p, q : p = pairs[k] /\ q = pairs[l]
    OBVIOUS
  <2>2. /\ p.close \in Run /\ p.close \in Nat /\ p.closeStart \in Int /\ p.length \in {1, 2}
        /\ RunStart(p.close) <= p.closeStart /\ p.closeStart + p.length <= RunEnd(p.close)
    BY <1>1, <1>2, <2>1, PairBytes
  <2>3. /\ q.close \in Run /\ q.close \in Nat /\ q.closeStart \in Int /\ q.length \in {1, 2}
        /\ RunStart(q.close) <= q.closeStart /\ q.closeStart + q.length <= RunEnd(q.close)
    BY <1>1, <1>2, <2>1, PairBytes
  <2>4. /\ RunStart(p.close) \in Int /\ RunEnd(p.close) \in Int
        /\ RunStart(q.close) \in Int /\ RunEnd(q.close) \in Int
        /\ p.close < q.close => RunEnd(p.close) <= RunStart(q.close)
        /\ q.close < p.close => RunEnd(q.close) <= RunStart(p.close)
    BY <1>1, <2>2, <2>3, RunBytes
  <2>5. k \in 1 .. Len(pairs) /\ l \in 1 .. Len(pairs) /\ p.closeStart < q.closeStart
    BY <1>2, <1>4, <2>1
  <2>6. /\ k < l /\ p.close = q.close => p.closeStart + p.length <= q.closeStart
        /\ l < k /\ p.close = q.close => q.closeStart + q.length <= p.closeStart
    BY <1>1, <2>1, <2>5 DEF PlanInv, Sequenced
  <2>7. k # l
    BY <2>1, <2>2, <2>5
  <2>8. p.closeStart + p.length <= q.closeStart
    <3>1. CASE p.close < q.close
      BY <3>1, <2>2, <2>3, <2>4
    <3>2. CASE q.close < p.close
      BY <3>2, <2>2, <2>3, <2>4, <2>5
    <3>3. CASE p.close = q.close
      BY <3>3, <1>2, <2>2, <2>3, <2>5, <2>6, <2>7
    <3> QED
      BY <3>1, <3>2, <3>3, <2>2, <2>3
  <2> QED
    BY <2>1, <2>8
<1> QED
  BY <1>1, <1>3, <1>4 DEF Fits

LEMMA PlanStepKeepsBytes ==
  ASSUME TellInv, Bytes, PlanStep
  PROVE  Bytes'
<1>1. /\ phase = "plan" /\ Planning /\ Next
      /\ frames' = frames /\ nodes' = nodes /\ text' = text
  BY DEF PlanStep, Bytes, inlineVars
<1>2. PlanInv'
  BY <1>1, StepPlanInv DEF Planning
<1>3. runs' = runs
  BY <1>1 DEF Next, PairUp, NextCloser
<1>4. Planning'
  <2>1. Top' = Top /\ Run' = Run /\ \A r : RunEnd(r)' = RunEnd(r)
    BY <1>1, <1>3 DEF Top, Run, RunEnd
  <2> QED
    BY <2>1, <1>1, <1>2 DEF Planning
<1> QED
  BY <1>1, <1>4, SameText DEF Bytes

(* The same ranges with other plans.                                       *)
SamePlaces(fs, gs) ==
  /\ Len(gs) = Len(fs)
  /\ \A k \in 1 .. Len(fs) :
       gs[k].node = fs[k].node /\ gs[k].position = fs[k].position /\ gs[k].end = fs[k].end

LEMMA LaidAgain ==
  ASSUME NEW fs, NEW gs, NEW ns, NEW size, SamePlaces(fs, gs), Laid(fs, ns, size), Len(fs) \in Nat
  PROVE  Laid(gs, ns, size)
<1>1. \A k \in 2 .. Len(fs) : k \in 1 .. Len(fs)
  OBVIOUS
<1>2. \A k \in 1 .. Len(gs) : Stands(gs[k], size)
  BY DEF SamePlaces, Laid, Stands
<1>3. \A k \in 2 .. Len(gs) :
        ns[gs[k].node].inFrom <= gs[k].position /\ gs[k].end <= ns[gs[k].node].inTo
  BY <1>1 DEF SamePlaces, Laid
<1> QED
  BY <1>2, <1>3 DEF SamePlaces, Laid

LEMMA HeldAgain ==
  ASSUME NEW fs, NEW gs, NEW ns, NEW size, NEW dropped, SamePlaces(fs, gs), Held(fs, ns, size, dropped)
  PROVE  Held(gs, ns, size, dropped)
<1>1. \A k \in 1 .. Len(fs) : Rest(gs[k]) = Rest(fs[k])
  BY DEF SamePlaces, Rest
<1> QED
  BY <1>1 DEF SamePlaces, Held

LEMMA PlannedPlaces ==
  ASSUME TellInv, Planning, frames' = [frames EXCEPT ![Len(frames)].plan = pairs]
  PROVE  /\ Len(frames') = Len(frames)
         /\ \A k \in 1 .. Len(frames) : k # Len(frames) => frames'[k] = frames[k]
         /\ frames'[Len(frames)].plan = pairs /\ frames'[Len(frames)].end = Top.end
         /\ SamePlaces(frames, frames')
<1>1. /\ IsASeq(frames) /\ AllFrames(frames) /\ Len(frames) \in Nat /\ Len(frames) > 0
      /\ Len(frames) \in 1 .. Len(frames)
  BY DEF TellInv, Shapes, IsASeq, AllFrames, Planning
<1>2. \A k \in 1 .. Len(frames) :
        frames[k] = Frame(frames[k].node, frames[k].position, frames[k].end, frames[k].plan)
  BY <1>1 DEF IsFrame, AllFrames
<1>3. frames' = [k \in 1 .. Len(frames) |->
                   IF k = Len(frames) THEN [frames[k] EXCEPT !.plan = pairs] ELSE frames[k]]
  BY <1>1 DEF IsASeq
<1>4. Len(frames') = Len(frames)
  BY <1>1, <1>3
<1>5. frames'[Len(frames)] = Frame(Top.node, Top.position, Top.end, pairs)
  <2>1. PICK f : f = frames[Len(frames)]
    OBVIOUS
  <2>2. f = Frame(f.node, f.position, f.end, f.plan) /\ Top = f
    BY <1>1, <1>2, <2>1 DEF Top
  <2>3. frames'[Len(frames)] = [f EXCEPT !.plan = pairs]
    BY <1>1, <1>3, <2>1
  <2>4. [f EXCEPT !.plan = pairs] = Frame(f.node, f.position, f.end, pairs)
    BY <2>2 DEF Frame
  <2> QED
    BY <2>2, <2>3, <2>4
<1>6. \A k \in 1 .. Len(frames) : k # Len(frames) => frames'[k] = frames[k]
  BY <1>3
<1>7. /\ frames'[Len(frames)].node = Top.node /\ frames'[Len(frames)].position = Top.position
      /\ frames'[Len(frames)].end = Top.end /\ frames'[Len(frames)].plan = pairs
  BY <1>5 DEF Frame
<1>8. SamePlaces(frames, frames')
  BY <1>4, <1>6, <1>7 DEF SamePlaces, Top
<1> QED
  BY <1>4, <1>6, <1>7, <1>8

LEMMA PlanDoneKeepsBytes ==
  ASSUME TellInv, Bytes, PlanDone
  PROVE  Bytes'
<1>1. /\ phase = "plan" /\ Planning /\ phase' = "walk" /\ nodes' = nodes /\ text' = text
      /\ frames' = [frames EXCEPT ![Len(frames)].plan = pairs]
  BY DEF PlanDone, Bytes
<1>2. Len(frames) \in Nat /\ Len(frames) \in 1 .. Len(frames)
  BY <1>1 DEF TellInv, Shapes, IsASeq, Planning
<1>3. /\ Len(frames') = Len(frames)
      /\ \A k \in 1 .. Len(frames) : k # Len(frames) => frames'[k] = frames[k]
      /\ frames'[Len(frames)].plan = pairs /\ frames'[Len(frames)].end = Top.end
      /\ SamePlaces(frames, frames')
  BY <1>1, PlannedPlaces
<1>4. Laid(frames', nodes', End) /\ Held(frames', nodes', End, Dropped)
  BY <1>1, <1>2, <1>3, LaidAgain, HeldAgain DEF Bytes
<1>5. Top.end \in Int
  BY <1>2 DEF Bytes, Laid, Stands, Top
<1>6. Fits(pairs, Top.end)
  BY <1>1, <1>5, PlanFits
<1>7. \A k \in 1 .. Len(frames') : Fits(frames'[k].plan, frames'[k].end)
  BY <1>3, <1>6 DEF Bytes
<1> QED
  BY <1>1, <1>4, <1>7, SameText DEF Bytes

LEMMA FreshNext == Fresh' => PlanInv'
BY FreshPlanInv, PTL

LEMMA NoPlanFits ==
  ASSUME NEW end
  PROVE  Fits(<<>>, end)
<1>1. /\ Len(<<>>) = 0 /\ DOMAIN <<>> = {} /\ <<>> \in Seq(PairRecord)
      /\ DOMAIN <<>> = 1 .. 0
  OBVIOUS
<1> QED
  BY <1>1 DEF Fits, Distinct

LEMMA FreshRuns ==
  ASSUME End \in Nat, NEW from, NEW to \in 0 .. End, from \in 0 .. to, StartPlanning(from, to)
  PROVE  Fresh' /\ \A r \in Run' : RunEnd(r)' <= to
<1>1. PICK found : found = Collect(text, from, to, config.refs)
  OBVIOUS
<1>2. InOrder(found, from, to)
  BY <1>1, CollectFits DEF End
<1>3. /\ runs' = found
      /\ remaining' = [k \in 1 .. Len(found) |-> found[k].length]
      /\ closed' = [k \in 1 .. Len(found) |-> 0]
      /\ closer' = 1
      /\ pairs' = <<>>
  BY <1>1 DEF StartPlanning
<1>4. Run' = 1 .. Len(found)
  BY <1>3 DEF Run
<1>5. runs' \in Seq(Delimiter) /\ RunsInOrder'
  BY <1>2, <1>3, <1>4 DEF RunsInOrder, InOrder
<1>6. \A r \in 1 .. Len(found) : RunEnd(r)' <= to
  BY <1>2, <1>3 DEF InOrder, RunEnd
<1> QED
  BY <1>3, <1>4, <1>5, <1>6 DEF Fresh

LEMMA DescentAndPlanKeepBytes ==
  ASSUME TellInv, Bytes, phase = "walk", NEW n, NEW next, DescendAndPlan(n, next),
         n.parent = Top.node, Upright(n), n.from = Pos, n.to = next, next <= Top.end
  PROVE  Bytes'
<1>1. /\ IsASeq(frames) /\ IsASeq(nodes) /\ Len(frames) \in Nat /\ Len(nodes) \in Nat
      /\ AllFrames(frames) /\ Len(frames) # 0
  BY DEF TellInv, Shapes, IsASeq, AllFrames
<1>2. Lineal(frames, nodes) /\ Len(frames) > 0 /\ End \in Nat
  BY <1>1, TellLineal, SizeIsNat
<1>3. Descend(n, next, <<>>) /\ StartPlanning(n.inFrom, n.inTo)
  BY DEF DescendAndPlan
<1>4. PICK f : f = Frame(Len(nodes) + 1, n.inFrom, n.inTo, <<>>)
  OBVIOUS
<1>5. PICK moved : moved = [frames EXCEPT ![Len(frames)].position = next]
  OBVIOUS
<1>6. IsASeq(moved) /\ Len(moved) = Len(frames)
  <2>1. MovedTo(moved, frames, next)
    BY <1>5 DEF MovedTo
  <2> QED
    BY <2>1, <1>1, <1>2, Moving, MovingOn
<1>7. frames' = Append(moved, f)
  BY <1>3, <1>4, <1>5 DEF Descend
<1>8. Len(frames') = Len(frames) + 1 /\ frames'[Len(frames) + 1] = f
  BY <1>6, <1>7, Appending
<1>9. Top'.end = n.inTo /\ Len(frames') > 0
  BY <1>1, <1>4, <1>8 DEF Top, Frame
<1>10. /\ n.inTo \in 0 .. End /\ n.inFrom \in 0 .. n.inTo
  <2>1. Stands(frames[Len(frames)], End)
    BY <1>1, <1>2 DEF Bytes, Laid
  <2> QED
    BY <2>1, <1>2 DEF Stands, Upright, Top, Pos
<1>11. Fresh' /\ \A r \in Run' : RunEnd(r)' <= n.inTo
  BY <1>2, <1>3, <1>10, FreshRuns
<1>12. Planning'
  BY <1>9, <1>11, FreshNext DEF Planning
<1> QED
  BY <1>3, <1>12, NoPlanFits, DescentKeepsBytes
-----------------------------------------------------------------------------
(* Sums over places 1 to n.                                                *)
UpTo(a, m) == [k \in 1 .. m |-> a[k]]

LEMMA SumLast ==
  ASSUME NEW n \in Nat, n > 0, NEW a \in [1 .. n -> Int]
  PROVE  Sum(a) = a[n] + Sum(UpTo(a, n - 1)) /\ Sum(UpTo(a, n - 1)) \in Int /\ Sum(a) \in Int
<1>1. IsFiniteSet(1 .. n)
  BY FS_Interval
<1>2. n \in 1 .. n /\ (1 .. n) \ {n} = 1 .. n - 1
  OBVIOUS
<1>3. UpTo(a, n - 1) = [k \in (1 .. n) \ {n} |-> a[k]]
  BY <1>2 DEF UpTo
<1>4. AllBut(a, 1 .. n, n, UpTo(a, n - 1))
  BY <1>1, <1>2, <1>3 DEF AllBut
<1> QED
  BY <1>4, SumWithout

LEMMA SumOfFirst ==
  ASSUME NEW n \in Nat, NEW a \in [1 .. n -> Int]
  PROVE  /\ Sum(UpTo(a, 0)) = 0 /\ Sum(UpTo(a, n)) = Sum(a)
         /\ \A m \in 0 .. n - 1 : /\ Sum(UpTo(a, m)) \in Int
                                  /\ Sum(UpTo(a, m + 1)) = a[m + 1] + Sum(UpTo(a, m))
<1>1. Sum(UpTo(a, 0)) = 0
  <2>1. 1 .. 0 = {}
    OBVIOUS
  <2>2. UpTo(a, 0) \in [{} -> Int]
    BY <2>1 DEF UpTo
  <2> QED
    BY <2>2, SumOfNone
<1>2. UpTo(a, n) = a
  BY DEF UpTo
<1>3. ASSUME NEW m \in 0 .. n - 1
      PROVE  Sum(UpTo(a, m)) \in Int /\ Sum(UpTo(a, m + 1)) = a[m + 1] + Sum(UpTo(a, m))
  <2>1. m + 1 \in Nat /\ m + 1 > 0 /\ (m + 1) - 1 = m /\ 1 .. m + 1 \subseteq 1 .. n /\ m + 1 \in 1 .. m + 1
    OBVIOUS
  <2>2. PICK b : b = UpTo(a, m + 1)
    OBVIOUS
  <2>3. b \in [1 .. m + 1 -> Int] /\ b[m + 1] = a[m + 1] /\ UpTo(b, m) = UpTo(a, m)
    <3>1. \A k \in 1 .. m + 1 : a[k] \in Int
      BY <2>1
    <3>2. b = [k \in 1 .. m + 1 |-> a[k]]
      BY <2>2 DEF UpTo
    <3>3. \A k \in 1 .. m : b[k] = a[k]
      BY <3>2
    <3> QED
      BY <2>1, <3>1, <3>2, <3>3 DEF UpTo
  <2>4. Sum(b) = b[m + 1] + Sum(UpTo(b, (m + 1) - 1)) /\ Sum(UpTo(b, (m + 1) - 1)) \in Int
    BY <2>1, <2>3, SumLast
  <2> QED
    BY <2>1, <2>2, <2>3, <2>4
<1> QED
  BY <1>1, <1>2, <1>3

LEMMA SumIsNat ==
  ASSUME NEW n \in Nat, NEW a \in [1 .. n -> Nat]
  PROVE  Sum(a) \in Nat
<1> DEFINE Fine == {m \in Nat : m <= n => Sum(UpTo(a, m)) \in Nat}
<1>1. /\ Sum(UpTo(a, 0)) = 0 /\ Sum(UpTo(a, n)) = Sum(a)
      /\ \A m \in 0 .. n - 1 : Sum(UpTo(a, m + 1)) = a[m + 1] + Sum(UpTo(a, m))
  BY SumOfFirst
<1>2. 0 \in Fine
  BY <1>1
<1>3. ASSUME NEW m \in Nat, m \in Fine PROVE m + 1 \in Fine
  <2> SUFFICES ASSUME m + 1 <= n PROVE Sum(UpTo(a, m + 1)) \in Nat
    OBVIOUS
  <2>1. Sum(UpTo(a, m)) \in Nat /\ m \in 0 .. n - 1 /\ a[m + 1] \in Nat
    BY <1>3
  <2> QED
    BY <1>1, <2>1
<1>4. Nat \subseteq Fine
  <2> HIDE DEF Fine
  <2> QED
    BY <1>2, <1>3, SetInduction
<1>5. n \in Fine
  BY <1>4
<1> QED
  BY <1>1, <1>5

LEMMA LessInSum ==
  ASSUME NEW n \in Nat, NEW a \in [1 .. n -> Nat], NEW b \in [1 .. n -> Nat],
         \A k \in 1 .. n : a[k] <= b[k], NEW i \in 1 .. n, a[i] < b[i]
  PROVE  Sum(a) < Sum(b)
<1> DEFINE Fine == {m \in Nat : m <= n => /\ Sum(UpTo(a, m)) \in Int /\ Sum(UpTo(b, m)) \in Int
                                          /\ Sum(UpTo(a, m)) <= Sum(UpTo(b, m))
                                          /\ i <= m => Sum(UpTo(a, m)) < Sum(UpTo(b, m))}
<1>1. /\ Sum(UpTo(a, 0)) = 0 /\ Sum(UpTo(a, n)) = Sum(a)
      /\ Sum(UpTo(b, 0)) = 0 /\ Sum(UpTo(b, n)) = Sum(b)
      /\ \A m \in 0 .. n - 1 : /\ Sum(UpTo(a, m + 1)) = a[m + 1] + Sum(UpTo(a, m))
                               /\ Sum(UpTo(b, m + 1)) = b[m + 1] + Sum(UpTo(b, m))
  BY SumOfFirst
<1>2. 0 \in Fine
  BY <1>1
<1>3. ASSUME NEW m \in Nat, m \in Fine PROVE m + 1 \in Fine
  <2> SUFFICES ASSUME m + 1 <= n
               PROVE  /\ Sum(UpTo(a, m + 1)) \in Int /\ Sum(UpTo(b, m + 1)) \in Int
                      /\ Sum(UpTo(a, m + 1)) <= Sum(UpTo(b, m + 1))
                      /\ i <= m + 1 => Sum(UpTo(a, m + 1)) < Sum(UpTo(b, m + 1))
    OBVIOUS
  <2>1. PICK x, y, p, q, r, s :
          /\ x = Sum(UpTo(a, m)) /\ y = Sum(UpTo(b, m)) /\ p = a[m + 1] /\ q = b[m + 1]
          /\ r = Sum(UpTo(a, m + 1)) /\ s = Sum(UpTo(b, m + 1))
    OBVIOUS
  <2>2. x \in Int /\ y \in Int /\ x <= y /\ (i <= m => x < y)
    BY <1>3, <2>1
  <2>3. p \in Nat /\ q \in Nat /\ p <= q /\ (i = m + 1 => p < q)
    BY <2>1
  <2>4. r = p + x /\ s = q + y
    <3>1. m \in 0 .. n - 1
      OBVIOUS
    <3> QED
      BY <1>1, <2>1, <3>1
  <2>5. r \in Int /\ s \in Int /\ r <= s /\ (i <= m + 1 => r < s)
    <3>1. i <= m + 1 => i <= m \/ i = m + 1
      OBVIOUS
    <3> QED
      BY <2>2, <2>3, <2>4, <3>1
  <2> QED
    BY <2>1, <2>5
<1>4. Nat \subseteq Fine
  <2> HIDE DEF Fine
  <2> QED
    BY <1>2, <1>3, SetInduction
<1>5. n \in Fine
  BY <1>4
<1> QED
  BY <1>1, <1>5

LEMMA Scaled ==
  ASSUME NEW c \in Nat, NEW a \in Nat, NEW b \in Nat, a < b
  PROVE  c * a + c <= c * b /\ c * a \in Nat
<1>1. PICK d \in Nat : b = a + 1 + d
  <2>1. b - a - 1 \in Nat /\ b = a + 1 + (b - a - 1)
    OBVIOUS
  <2> QED
    BY <2>1
<1>2. c * d \in Nat /\ c * a \in Nat
  OBVIOUS
<1>3. c * b = c * a + c + c * d
  BY <1>1
<1> QED
  BY <1>2, <1>3
-----------------------------------------------------------------------------
(* What is left to do, as sums.                                            *)
Left(fs) == Sum([k \in 1 .. Len(fs) |-> fs[k].end - fs[k].position])

LEMMA WorkSums ==
  /\ BytesLeft = Left(frames) /\ BytesLeft' = Left(frames')
  /\ PlanningLeft = Len(runs) + 2 - closer + Sum(remaining)
  /\ PlanningLeft' = Len(runs') + 2 - closer' + Sum(remaining')
<1>1. /\ BytesLeft = Left(frames)
      /\ PlanningLeft = Len(runs) + 2 - closer + Sum(remaining)
  BY DEF BytesLeft, PlanningLeft, Left, Sum
<1>2. BytesLeft' = Left(frames')
  BY DEF BytesLeft, Left, Sum, FoldFunction, FoldFunctionOnSet, MapThenFoldSet
<1>3. PlanningLeft' = Len(runs') + 2 - closer' + Sum(remaining')
  BY DEF PlanningLeft, Sum, FoldFunction, FoldFunctionOnSet, MapThenFoldSet
<1> QED
  BY <1>1, <1>2, <1>3

LEMMA LeftIsNat ==
  ASSUME NEW fs, Len(fs) \in Nat, NEW size, \A k \in 1 .. Len(fs) : Stands(fs[k], size), size \in Nat
  PROVE  Left(fs) \in Nat
<1>1. [k \in 1 .. Len(fs) |-> fs[k].end - fs[k].position] \in [1 .. Len(fs) -> Nat]
  BY DEF Stands
<1> QED
  BY <1>1, SumIsNat DEF Left

(* What a turn does to the last ranges.                                    *)
LEMMA LeftLast ==
  ASSUME NEW fs, Len(fs) \in Nat, Len(fs) > 0, \A k \in 1 .. Len(fs) : fs[k].end - fs[k].position \in Int,
         NEW gs, Len(gs) = Len(fs) - 1, \A k \in 1 .. Len(gs) : gs[k] = fs[k]
  PROVE  /\ Left(fs) = (fs[Len(fs)].end - fs[Len(fs)].position) + Left(gs)
         /\ Left(gs) \in Int
<1>1. PICK n : n = Len(fs)
  OBVIOUS
<1>2. PICK a : a = [k \in 1 .. n |-> fs[k].end - fs[k].position]
  OBVIOUS
<1>3. a \in [1 .. n -> Int] /\ n \in Nat /\ n > 0 /\ n \in 1 .. n /\ Len(gs) = n - 1
  BY <1>1, <1>2
<1>4. UpTo(a, n - 1) = [k \in 1 .. Len(gs) |-> gs[k].end - gs[k].position]
  <2>1. \A k \in 1 .. n - 1 : a[k] = gs[k].end - gs[k].position
    BY <1>1, <1>2, <1>3
  <2> QED
    BY <1>3, <2>1 DEF UpTo
<1>5. Sum(a) = a[n] + Sum(UpTo(a, n - 1)) /\ Sum(UpTo(a, n - 1)) \in Int
  BY <1>3, SumLast
<1> QED
  BY <1>1, <1>2, <1>3, <1>4, <1>5 DEF Left

(* A range moved on to position, another opened for [from, to) within.     *)
LEMMA LeftMoved ==
  ASSUME NEW fs, NEW gs, NEW size \in Nat, NEW position \in Int,
         Len(fs) \in Nat, Len(fs) > 0, \A k \in 1 .. Len(fs) : Stands(fs[k], size),
         Len(gs) = Len(fs), \A k \in 1 .. Len(fs) - 1 : gs[k] = fs[k],
         gs[Len(fs)].position = position, gs[Len(fs)].end = fs[Len(fs)].end
  PROVE  Left(gs) = Left(fs) - (position - fs[Len(fs)].position)
<1>1. PICK n : n = Len(fs)
  OBVIOUS
<1>2. PICK hs : hs = [k \in 1 .. n - 1 |-> fs[k]]
  OBVIOUS
<1>3. n \in Nat /\ n > 0 /\ n \in 1 .. n /\ Len(gs) = n /\ Len(hs) = n - 1
  BY <1>1, <1>2
<1>4. \A k \in 1 .. Len(hs) : hs[k] = fs[k] /\ hs[k] = gs[k]
  BY <1>1, <1>2, <1>3
<1>5. \A k \in 1 .. n : fs[k].end \in Int /\ fs[k].position \in Int
  BY <1>1 DEF Stands
<1>6. \A k \in 1 .. n : gs[k].end - gs[k].position \in Int
  <2> SUFFICES ASSUME NEW k \in 1 .. n PROVE gs[k].end \in Int /\ gs[k].position \in Int
    OBVIOUS
  <2>1. CASE k = n
    BY <1>1, <1>5, <2>1
  <2>2. CASE k # n
    <3>1. k \in 1 .. n - 1
      BY <1>3, <2>2
    <3> QED
      BY <1>1, <1>5, <3>1
  <2> QED
    BY <2>1, <2>2
<1>7. Left(fs) = (fs[n].end - fs[n].position) + Left(hs) /\ Left(hs) \in Int
  <2>1. \A k \in 1 .. Len(fs) : fs[k].end - fs[k].position \in Int
    BY <1>1, <1>5
  <2> QED
    BY <1>1, <1>3, <1>4, <2>1, LeftLast
<1>8. Left(gs) = (gs[n].end - gs[n].position) + Left(hs)
  BY <1>3, <1>4, <1>6, LeftLast
<1>9. gs[n].position = position /\ gs[n].end = fs[n].end /\ fs[n].end \in Int /\ fs[n].position \in Int
  BY <1>1, <1>3, <1>5
<1> QED
  BY <1>1, <1>7, <1>8, <1>9
-----------------------------------------------------------------------------
(* Planning: runs are no more than their bytes.                            *)
LEMMA RunsAreFew ==
  ASSUME NEW from \in Nat, NEW to \in Nat, from <= to, NEW found, InOrder(found, from, to)
  PROVE  LET lengths == [k \in 1 .. Len(found) |-> found[k].length]
         IN  Sum(lengths) \in Nat /\ Len(found) \in Nat /\ Len(found) + Sum(lengths) <= 2 * (to - from)
<1>1. PICK n, a : n = Len(found) /\ a = [k \in 1 .. Len(found) |-> found[k].length]
  OBVIOUS
<1>2. /\ n \in Nat
      /\ \A k \in 1 .. n : found[k].start \in Nat /\ found[k].length \in Nat /\ found[k].length >= 1
  BY <1>1, RunFields DEF InOrder
<1>3. a \in [1 .. n -> Nat] /\ \A k \in 1 .. n : a[k] = found[k].length
  BY <1>1, <1>2
<1> DEFINE Fine == {m \in Nat : m < n => /\ Sum(UpTo(a, m + 1)) \in Int
                                         /\ m + 1 + Sum(UpTo(a, m + 1)) <=
                                              2 * (found[m + 1].start + found[m + 1].length - from)}
<1>4. /\ Sum(UpTo(a, 0)) = 0 /\ Sum(UpTo(a, n)) = Sum(a)
      /\ \A m \in 0 .. n - 1 : Sum(UpTo(a, m + 1)) = a[m + 1] + Sum(UpTo(a, m))
  <2>1. a \in [1 .. n -> Int]
    BY <1>3
  <2> QED
    BY <1>2, <2>1, SumOfFirst
<1>5. \A k \in 1 .. n : from <= found[k].start /\ found[k].start + found[k].length <= to
  BY <1>1 DEF InOrder
<1>6. 0 \in Fine
  <2> SUFFICES ASSUME 0 < n
               PROVE  /\ Sum(UpTo(a, 0 + 1)) \in Int
                      /\ 0 + 1 + Sum(UpTo(a, 0 + 1)) <= 2 * (found[0 + 1].start + found[0 + 1].length - from)
    OBVIOUS
  <2>1. 0 \in 0 .. n - 1 /\ 1 \in 1 .. n /\ 0 + 1 = 1
    BY <1>2
  <2>2. Sum(UpTo(a, 1)) = found[1].length
    <3>1. Sum(UpTo(a, 0 + 1)) = a[0 + 1] + Sum(UpTo(a, 0))
      BY <1>4, <2>1
    <3> QED
      BY <1>2, <1>3, <1>4, <2>1, <3>1
  <2>3. PICK s, l : s = found[1].start /\ l = found[1].length
    OBVIOUS
  <2>4. s \in Nat /\ l \in Nat /\ l >= 1 /\ from <= s
    BY <1>2, <1>5, <2>1, <2>3
  <2>5. 1 + l <= 2 * (s + l - from)
    BY <2>4
  <2> QED
    BY <2>1, <2>2, <2>3, <2>4, <2>5
<1>7. ASSUME NEW m \in Nat, m \in Fine PROVE m + 1 \in Fine
  <2> SUFFICES ASSUME m + 1 < n
               PROVE  /\ Sum(UpTo(a, m + 1 + 1)) \in Int
                      /\ m + 1 + 1 + Sum(UpTo(a, m + 1 + 1)) <=
                           2 * (found[m + 1 + 1].start + found[m + 1 + 1].length - from)
    OBVIOUS
  <2>1. /\ m < n /\ m + 1 \in 0 .. n - 1 /\ m + 1 \in 1 .. n /\ m + 1 + 1 \in 1 .. n
        /\ m + 1 < m + 1 + 1
    BY <1>2
  <2>2. PICK x, y, r, s, l, e :
          /\ x = Sum(UpTo(a, m + 1)) /\ y = Sum(UpTo(a, m + 1 + 1))
          /\ s = found[m + 1 + 1].start /\ l = found[m + 1 + 1].length
          /\ r = found[m + 1].start /\ e = found[m + 1].length
    OBVIOUS
  <2>3. x \in Int /\ m + 1 + x <= 2 * (r + e - from)
    BY <1>7, <2>1, <2>2
  <2>4. y = l + x
    BY <1>3, <1>4, <2>1, <2>2
  <2>5. r \in Nat /\ e \in Nat /\ s \in Nat /\ l \in Nat /\ l >= 1
    BY <1>2, <2>1, <2>2
  <2>6. r + e <= s
    BY <1>1, <2>1, <2>2 DEF InOrder
  <2>7. y \in Int /\ m + 1 + 1 + y <= 2 * (s + l - from)
    BY <2>3, <2>4, <2>5, <2>6
  <2> QED
    BY <2>2, <2>7
<1>8. Nat \subseteq Fine
  <2> HIDE DEF Fine
  <2> QED
    BY <1>6, <1>7, SetInduction
<1>9. Sum(a) \in Nat
  BY <1>2, <1>3, SumIsNat
<1>10. n + Sum(a) <= 2 * (to - from)
  <2>1. CASE n = 0
    <3>1. n + Sum(a) = 0
      BY <1>4, <2>1
    <3> QED
      BY <3>1
  <2>2. CASE n > 0
    <3>1. n - 1 \in Nat /\ n - 1 < n /\ (n - 1) + 1 = n /\ n \in 1 .. n
      BY <1>2, <2>2
    <3>2. n + Sum(UpTo(a, n)) <= 2 * (found[n].start + found[n].length - from)
      BY <1>8, <3>1
    <3>3. PICK s, l : s = found[n].start /\ l = found[n].length
      OBVIOUS
    <3>4. s \in Nat /\ l \in Nat /\ s + l <= to
      BY <1>2, <1>5, <3>1, <3>3
    <3>5. n + Sum(a) <= 2 * (s + l - from)
      BY <1>4, <3>2, <3>3
    <3> QED
      BY <1>2, <1>9, <3>4, <3>5
  <2> QED
    BY <1>2, <2>1, <2>2
<1> QED
  BY <1>1, <1>2, <1>9, <1>10

LEMMA PlanningIsNat ==
  ASSUME TypeOK
  PROVE  Sum(remaining) \in Nat /\ PlanningLeft \in Nat /\ PlanningLeft >= 1
<1>1. Len(runs) \in Nat /\ remaining \in [1 .. Len(runs) -> Nat] /\ closer \in 1 .. Len(runs) + 1
  BY DEF TypeOK, Run
<1>2. Sum(remaining) \in Nat
  BY <1>1, SumIsNat
<1> QED
  BY <1>1, <1>2, WorkSums

LEMMA PlanningAhead == TypeOK => PlanningLeft \in Nat
BY PlanningIsNat

LEMMA PlanningNext == TypeOK' => (PlanningLeft \in Nat)'
BY PlanningAhead, PTL

(* Every round of planning shortens a run or leaves a closer behind.       *)
LEMMA PlanningShrinks ==
  ASSUME TypeOK, TypeOK', Next
  PROVE  PlanningLeft' < PlanningLeft
<1>1. Sum(remaining) \in Nat /\ Len(runs) \in Nat /\ closer \in Nat
  BY PlanningIsNat DEF TypeOK
<1>2. ASSUME NEW i \in Run, PairUp(i) PROVE PlanningLeft' < PlanningLeft
  <2>1. /\ runs' = runs /\ closer' = closer /\ Run' = Run /\ Use(i, closer) \in {1, 2}
        /\ remaining'[i] = remaining[i] - Use(i, closer)
        /\ \A k \in Run : remaining'[k] <= remaining[k]
    BY <1>2, RoundFacts
  <2>2. Run = 1 .. Len(runs) /\ remaining \in [Run -> Nat] /\ remaining' \in [Run -> Nat]
    BY <2>1 DEF TypeOK, Run
  <2>3. remaining'[i] < remaining[i]
    BY <2>1, <2>2
  <2>4. Sum(remaining') < Sum(remaining) /\ Sum(remaining') \in Nat
    BY <1>1, <2>1, <2>2, <2>3, LessInSum, SumIsNat
  <2> QED
    BY <1>1, <2>1, <2>4, WorkSums
<1>3. CASE NextCloser
  <2>1. runs' = runs /\ remaining' = remaining /\ closer' = closer + 1
    BY <1>3 DEF NextCloser
  <2> QED
    BY <1>1, <2>1, WorkSums
<1> QED
  BY <1>2, <1>3 DEF Next
-----------------------------------------------------------------------------
(* The turns of the loop: it fails; leaves are added and the range goes on *)
(* behind them; or a node is added and its inside is walked, by the plan   *)
(* at hand or by one of its own, before the range goes on behind it.       *)
Moves(leaves, position) ==
  /\ Tiles(leaves, position) /\ Pos < position
  /\ MovedTo(frames', frames, position) /\ Joined(nodes, leaves, nodes')
  /\ text' = text /\ phase' = phase

Enters(n, next, plan) ==
  /\ n.parent = Top.node /\ Upright(n) /\ n.from = Pos /\ n.to = next /\ next <= Top.end
  /\ Pos < n.inFrom
  /\ Descend(n, next, plan)

Turn ==
  \/ Fail
  \/ \E leaves, position : Moves(leaves, position)
  \/ \E n, next, plan : Enters(n, next, plan) /\ Fits(plan, n.inTo) /\ phase' = phase
  \/ \E n, next : Enters(n, next, <<>>) /\ DescendAndPlan(n, next)

LEMMA AdvanceTurns ==
  ASSUME TellInv, NEW position, NEW leaves, Advance(position, leaves), Tiles(leaves, position),
         Pos < position
  PROVE  Turn
<1>1. IsASeq(nodes) /\ IsASeq(leaves)
  BY DEF TellInv, Shapes, Tiles
<1>2. Joined(nodes, leaves, nodes')
  BY <1>1, Joining DEF Joined, Advance
<1>3. MovedTo(frames', frames, position) /\ text' = text /\ phase' = phase
  BY DEF Advance, MovedTo
<1>4. Moves(leaves, position)
  BY <1>2, <1>3 DEF Moves
<1> QED
  BY <1>4 DEF Turn

LEMMA DescentTurns ==
  ASSUME NEW n, NEW next, NEW plan, Descend(n, next, plan),
         n.parent = Top.node, Upright(n), n.from = Pos, n.to = next, next <= Top.end,
         Pos < n.inFrom, Fits(plan, n.inTo), phase' = phase
  PROVE  Turn
<1>1. Enters(n, next, plan)
  BY DEF Enters
<1> QED
  BY <1>1 DEF Turn

LEMMA DescentAndPlanTurn ==
  ASSUME NEW n, NEW next, DescendAndPlan(n, next),
         n.parent = Top.node, Upright(n), n.from = Pos, n.to = next, next <= Top.end,
         Pos < n.inFrom
  PROVE  Turn
<1>1. Enters(n, next, <<>>)
  BY DEF Enters, DescendAndPlan
<1> QED
  BY <1>1 DEF Turn

LEMMA TurnKeepsBytes ==
  ASSUME TellInv, Bytes, phase = "walk", Turn
  PROVE  Bytes'
<1>1. CASE Fail
  BY <1>1, SameText DEF Fail, Bytes
<1>2. ASSUME NEW leaves, NEW position, Moves(leaves, position) PROVE Bytes'
  BY <1>2, MovingKeepsBytes DEF Moves
<1>3. ASSUME NEW n, NEW next, NEW plan, Enters(n, next, plan), Fits(plan, n.inTo), phase' = phase
      PROVE  Bytes'
  BY <1>3, DescentKeepsBytes DEF Enters
<1>4. ASSUME NEW n, NEW next, Enters(n, next, <<>>), DescendAndPlan(n, next) PROVE Bytes'
  BY <1>4, DescentAndPlanKeepBytes DEF Enters
<1> QED
  BY <1>1, <1>2, <1>3, <1>4 DEF Turn
-----------------------------------------------------------------------------
(* Every turn leaves less to do.                                           *)
LEMMA RangesAreNat ==
  ASSUME TellInv, Bytes
  PROVE  /\ Len(frames) \in Nat /\ End \in Nat /\ \A k \in 1 .. Len(frames) : Stands(frames[k], End)
         /\ BytesLeft \in Nat /\ BytesLeft = Left(frames)
<1>1. Len(frames) \in Nat /\ End \in Nat
  BY SizeIsNat DEF TellInv, Shapes, IsASeq
<1>2. \A k \in 1 .. Len(frames) : Stands(frames[k], End)
  BY DEF Bytes, Laid
<1>3. Left(frames) \in Nat
  BY <1>1, <1>2, LeftIsNat
<1> QED
  BY <1>1, <1>2, <1>3, WorkSums

LEMMA WorkIsNat ==
  ASSUME TellInv, Bytes
  PROVE  /\ InlineWork \in Nat
         /\ phase \in {"walk", "done"} => InlineWork = (2 * End + 4) * BytesLeft + Len(frames)
         /\ phase = "plan" => InlineWork = (2 * End + 4) * BytesLeft + Len(frames) + PlanningLeft
<1>1. Len(frames) \in Nat /\ End \in Nat /\ BytesLeft \in Nat
  BY RangesAreNat
<1>2. (2 * End + 4) * BytesLeft \in Nat
  BY <1>1
<1>3. phase = "plan" => PlanningLeft \in Nat
  BY PlanningIsNat DEF Bytes, Planning, PlanInv, IInv
<1>4. phase \in {"plan", "walk", "done", "failed"}
  BY DEF TellInv, Shapes
<1> QED
  BY <1>1, <1>2, <1>3, <1>4 DEF InlineWork

(* Fewer bytes make up for one more range and for planning it.             *)
LEMMA FewerBytesIsLess ==
  ASSUME NEW size \in Nat, NEW left \in Nat, NEW now \in Nat, now < left,
         NEW ranges \in Nat, NEW more \in Nat, more <= ranges + 1,
         NEW planning \in Nat, planning <= 2 * size + 1
  PROVE  (2 * size + 4) * now + more + planning < (2 * size + 4) * left + ranges
<1>1. PICK c : c = 2 * size + 4
  OBVIOUS
<1>2. c \in Nat /\ planning + 3 <= c
  BY <1>1
<1>3. PICK x, y : x = c * now /\ y = c * left
  OBVIOUS
<1>4. x + c <= y /\ x \in Nat
  BY <1>2, <1>3, Scaled
<1>5. y \in Int
  BY <1>2, <1>3
<1>6. x + more + planning < y + ranges
  BY <1>2, <1>4, <1>5
<1> QED
  BY <1>1, <1>3, <1>6

LEMMA MovedLeavesLess ==
  ASSUME TellInv, Bytes, Len(frames) > 0, NEW leaves, NEW position, Moves(leaves, position)
  PROVE  Len(frames') = Len(frames) /\ BytesLeft' < BytesLeft
<1>1. /\ IsASeq(frames) /\ AllFrames(frames) /\ Len(frames) \in Nat /\ Len(frames) \in 1 .. Len(frames)
  BY DEF TellInv, Shapes, IsASeq, AllFrames
<1>2. MovedTo(frames', frames, position)
  BY DEF Moves
<1>3. /\ Len(frames') = Len(frames)
      /\ \A k \in 1 .. Len(frames) - 1 : frames'[k] = frames[k]
      /\ frames'[Len(frames)].end = frames[Len(frames)].end
      /\ frames'[Len(frames)].position = position
  BY <1>1, <1>2, MovingOn
<1>4. /\ End \in Nat /\ \A k \in 1 .. Len(frames) : Stands(frames[k], End)
      /\ BytesLeft \in Nat /\ BytesLeft = Left(frames)
  BY RangesAreNat
<1>5. position \in Int /\ Pos < position
  BY DEF Moves, Tiles
<1>6. Left(frames') = Left(frames) - (position - frames[Len(frames)].position)
  BY <1>1, <1>3, <1>4, <1>5, LeftMoved
<1>7. frames[Len(frames)].position = Pos /\ Pos \in Int
  BY <1>1, <1>4 DEF Pos, Top, Stands
<1>8. BytesLeft' = Left(frames')
  BY WorkSums
<1> QED
  BY <1>3, <1>4, <1>5, <1>6, <1>7, <1>8

LEMMA EnteredLeavesLess ==
  ASSUME TellInv, Bytes, Len(frames) > 0, NEW n, NEW next, NEW plan, Enters(n, next, plan)
  PROVE  Len(frames') = Len(frames) + 1 /\ BytesLeft' < BytesLeft
<1>1. /\ IsASeq(frames) /\ AllFrames(frames) /\ Len(frames) \in Nat /\ Len(frames) \in 1 .. Len(frames)
  BY DEF TellInv, Shapes, IsASeq, AllFrames
<1>2. PICK f : f = Frame(Len(nodes) + 1, n.inFrom, n.inTo, plan)
  OBVIOUS
<1>3. PICK moved : moved = [frames EXCEPT ![Len(frames)].position = next]
  OBVIOUS
<1>4. MovedTo(moved, frames, next)
  BY <1>3 DEF MovedTo
<1>5. /\ IsASeq(moved) /\ Len(moved) = Len(frames)
      /\ \A k \in 1 .. Len(frames) - 1 : moved[k] = frames[k]
      /\ moved[Len(frames)].end = frames[Len(frames)].end
      /\ moved[Len(frames)].position = next
  BY <1>1, <1>4, Moving, MovingOn
<1>6. frames' = Append(moved, f)
  BY <1>2, <1>3 DEF Enters, Descend
<1>7. /\ Len(frames') = Len(moved) + 1 /\ frames'[Len(moved) + 1] = f
      /\ \A k \in 1 .. Len(moved) : frames'[k] = moved[k]
  BY <1>5, <1>6, Appending
<1>8. /\ End \in Nat /\ \A k \in 1 .. Len(frames) : Stands(frames[k], End)
      /\ BytesLeft \in Nat /\ BytesLeft = Left(frames)
  BY RangesAreNat
<1>9. /\ n.from \in Int /\ n.to \in Int /\ n.inFrom \in Int /\ n.inTo \in Int
      /\ n.inTo <= n.to /\ n.to = next /\ next \in Int /\ Pos < n.inFrom /\ n.inFrom <= n.inTo
  BY DEF Enters, Upright
<1>10. Left(moved) = Left(frames) - (next - frames[Len(frames)].position)
  BY <1>1, <1>5, <1>8, <1>9, LeftMoved
<1>11. frames[Len(frames)].position = Pos /\ Pos \in Int
  BY <1>1, <1>8 DEF Pos, Top, Stands
<1>12. f.position = n.inFrom /\ f.end = n.inTo
  BY <1>2 DEF Frame
<1>13. \A k \in 1 .. Len(frames') : frames'[k].end - frames'[k].position \in Int
  <2> SUFFICES ASSUME NEW k \in 1 .. Len(frames')
      PROVE  frames'[k].end \in Int /\ frames'[k].position \in Int
    OBVIOUS
  <2>1. CASE k = Len(frames) + 1
    BY <1>5, <1>7, <1>9, <1>12, <2>1
  <2>2. CASE k = Len(frames)
    <3>1. frames'[k] = moved[Len(frames)] /\ frames[Len(frames)].end \in Int
      BY <1>1, <1>5, <1>7, <1>8, <2>2 DEF Stands
    <3> QED
      BY <1>5, <1>9, <3>1
  <2>3. CASE k < Len(frames)
    <3>1. k \in 1 .. Len(frames) - 1 /\ k \in 1 .. Len(frames) /\ k \in 1 .. Len(moved)
      BY <1>1, <1>5, <2>3
    <3>2. frames'[k] = frames[k] /\ Stands(frames[k], End)
      BY <1>5, <1>7, <1>8, <3>1
    <3> QED
      BY <3>2 DEF Stands
  <2>4. k = Len(frames) + 1 \/ k = Len(frames) \/ k < Len(frames)
    BY <1>1, <1>5, <1>7
  <2> QED
    BY <2>1, <2>2, <2>3, <2>4
<1>14. Left(frames') = (f.end - f.position) + Left(moved)
  <2>1. PICK fs : fs = frames'
    OBVIOUS
  <2>2. Len(fs) \in Nat /\ Len(fs) > 0 /\ Len(moved) = Len(fs) - 1 /\ fs[Len(fs)] = f
    BY <1>1, <1>5, <1>7, <2>1
  <2>3. \A k \in 1 .. Len(moved) : moved[k] = fs[k]
    BY <1>7, <2>1
  <2>4. \A k \in 1 .. Len(fs) : fs[k].end - fs[k].position \in Int
    BY <1>13, <2>1
  <2>5. Left(fs) = (fs[Len(fs)].end - fs[Len(fs)].position) + Left(moved)
    BY <2>2, <2>3, <2>4, LeftLast
  <2> QED
    BY <2>1, <2>2, <2>5
<1>15. BytesLeft' = Left(frames')
  BY WorkSums
<1> QED
  BY <1>5, <1>7, <1>8, <1>9, <1>10, <1>11, <1>12, <1>14, <1>15

LEMMA PlanningIsShort ==
  ASSUME End \in Nat, NEW from, NEW to \in 0 .. End, from \in 0 .. to, StartPlanning(from, to)
  PROVE  PlanningLeft' \in Nat /\ PlanningLeft' <= 2 * End + 1
<1>1. PICK found : found = Collect(text, from, to, config.refs)
  OBVIOUS
<1>2. InOrder(found, from, to)
  BY <1>1, CollectFits DEF End
<1>3. PICK lengths : lengths = [k \in 1 .. Len(found) |-> found[k].length]
  OBVIOUS
<1>4. runs' = found /\ remaining' = lengths /\ closer' = 1
  BY <1>1, <1>3 DEF StartPlanning
<1>5. from \in Nat /\ to \in Nat /\ from <= to
  OBVIOUS
<1>6. Sum(lengths) \in Nat /\ Len(found) \in Nat /\ Len(found) + Sum(lengths) <= 2 * (to - from)
  BY <1>2, <1>3, <1>5, RunsAreFew
<1>7. PlanningLeft' = Len(found) + 2 - 1 + Sum(lengths)
  BY <1>4, WorkSums
<1>8. 2 * (to - from) <= 2 * End
  BY <1>5
<1> HIDE DEF End
<1> QED
  BY <1>6, <1>7, <1>8

Shrinks == InlineWork' \in 0 .. InlineWork - 1

LEMMA NextRangesAreNat ==
  ASSUME TellInv', Bytes'
  PROVE  Len(frames') \in Nat /\ BytesLeft' \in Nat
<1>1. Len(frames') \in Nat /\ End' \in Nat
  BY DEF TellInv, Shapes, IsASeq, Bytes, End
<1>2. \A k \in 1 .. Len(frames') : Stands(frames'[k], End')
  BY DEF Bytes, Laid
<1>3. Left(frames') \in Nat
  BY <1>1, <1>2, LeftIsNat
<1> QED
  BY <1>1, <1>3, WorkSums

LEMMA PlanningTurnsShrink ==
  ASSUME TellInv, Bytes, Bytes', PlanStep \/ PlanDone
  PROVE  Shrinks
<1>1. /\ phase = "plan" /\ Planning /\ Len(frames) \in Nat /\ BytesLeft \in Nat /\ End \in Nat
  BY RangesAreNat DEF PlanStep, PlanDone, Bytes
<1>2. TypeOK
  BY <1>1 DEF Planning, PlanInv, IInv
<1>3. PlanningLeft \in Nat /\ PlanningLeft >= 1
  BY <1>2, PlanningIsNat
<1>4. PICK x : x = (2 * End + 4) * BytesLeft + Len(frames)
  OBVIOUS
<1>5. x \in Nat /\ InlineWork = x + PlanningLeft
  BY <1>1, <1>4, WorkIsNat
<1>6. CASE PlanStep
  <2>1. /\ phase' = "plan" /\ frames' = frames /\ text' = text /\ Next
    BY <1>6 DEF PlanStep, inlineVars
  <2>2. Planning'
    BY <2>1 DEF Bytes
  <2>3. TypeOK'
    BY <2>2 DEF Planning, PlanInv, IInv
  <2>4. PlanningLeft' < PlanningLeft
    BY <1>2, <2>1, <2>3, PlanningShrinks
  <2>5. PlanningLeft' \in Nat
    BY <2>3, PlanningNext
  <2>6. BytesLeft' = BytesLeft /\ End' = End
    BY <2>1, WorkSums DEF End
  <2>7. InlineWork' = (2 * End + 4) * BytesLeft + Len(frames) + PlanningLeft'
    BY <2>1, <2>6 DEF InlineWork
  <2>8. InlineWork' = x + PlanningLeft'
    BY <1>4, <2>7
  <2>9. PICK w, v, p, q : /\ w = InlineWork /\ v = InlineWork'
                          /\ p = PlanningLeft /\ q = PlanningLeft'
    OBVIOUS
  <2>10. w = x + p /\ v = x + q /\ q < p /\ p \in Nat /\ q \in Nat
    BY <1>3, <1>5, <2>4, <2>5, <2>8, <2>9
  <2>11. v \in 0 .. w - 1
    BY <1>5, <2>10
  <2> QED
    BY <2>9, <2>11 DEF Shrinks
<1>7. CASE PlanDone
  <2>1. /\ phase' = "walk" /\ text' = text
        /\ frames' = [frames EXCEPT ![Len(frames)].plan = pairs]
    BY <1>7 DEF PlanDone
  <2>2. Len(frames') = Len(frames) /\ BytesLeft' = BytesLeft
    <3>1. Len(frames') = Len(frames)
      BY <1>1, <2>1, PlannedPlaces
    <3>2. SamePlaces(frames, frames')
      BY <1>1, <2>1, PlannedPlaces
    <3>3. [k \in 1 .. Len(frames') |-> frames'[k].end - frames'[k].position] =
          [k \in 1 .. Len(frames) |-> frames[k].end - frames[k].position]
      BY <3>1, <3>2 DEF SamePlaces
    <3> QED
      BY <3>1, <3>3, WorkSums DEF Left
  <2>3. End' = End
    BY <2>1 DEF End
  <2>4. InlineWork' = (2 * End + 4) * BytesLeft + Len(frames)
    BY <1>1, <2>1, <2>2, <2>3 DEF InlineWork
  <2>5. InlineWork' = x
    BY <1>4, <2>4
  <2> QED
    BY <1>3, <1>5, <2>5 DEF Shrinks
<1> QED
  BY <1>6, <1>7

LEMMA TurnShrinks ==
  ASSUME TellInv, Bytes, TellInv', Bytes', phase = "walk", Len(frames) > 0, Turn
  PROVE  Shrinks
<1>1. Len(frames) \in Nat /\ BytesLeft \in Nat /\ End \in Nat
  BY RangesAreNat
<1>2. InlineWork = (2 * End + 4) * BytesLeft + Len(frames) /\ InlineWork \in Nat
  BY WorkIsNat
<1>3. Len(frames') \in Nat /\ BytesLeft' \in Nat
  BY NextRangesAreNat
<1>4. ASSUME text' = text, phase' \in {"walk", "plan"}, BytesLeft' < BytesLeft,
             Len(frames') <= Len(frames) + 1,
             phase' = "plan" => PlanningLeft' \in Nat /\ PlanningLeft' <= 2 * End + 1
      PROVE  Shrinks
  <2>1. PICK planning : planning = IF phase' = "plan" THEN PlanningLeft' ELSE 0
    OBVIOUS
  <2>2. planning \in Nat /\ planning <= 2 * End + 1
    BY <1>1, <1>4, <2>1
  <2>3. InlineWork' = (2 * End + 4) * BytesLeft' + Len(frames') + planning
    <3>1. End' = End
      BY <1>4 DEF End
    <3> QED
      BY <1>4, <2>1, <3>1 DEF InlineWork
  <2>4. (2 * End + 4) * BytesLeft' + Len(frames') + planning < (2 * End + 4) * BytesLeft + Len(frames)
    BY <1>1, <1>3, <1>4, <2>2, FewerBytesIsLess
  <2>5. InlineWork' \in Nat
    <3>1. PICK b, size : b = BytesLeft' /\ size = End
      OBVIOUS
    <3>2. PICK c : c = 2 * size + 4
      OBVIOUS
    <3>3. c \in Nat /\ b \in Nat
      BY <1>1, <1>3, <3>1, <3>2
    <3>4. c * b \in Nat
      BY <3>3
    <3>5. (2 * End + 4) * BytesLeft' = c * b
      BY <3>1, <3>2
    <3> QED
      BY <1>3, <2>2, <2>3, <3>4, <3>5
  <2>6. InlineWork' < InlineWork
    BY <1>2, <2>3, <2>4
  <2> QED
    BY <1>2, <2>5, <2>6 DEF Shrinks
<1>5. CASE Fail
  <2>1. InlineWork' = 0
    BY <1>5 DEF Fail, InlineWork
  <2>2. InlineWork > 0
    <3>1. (2 * End + 4) * BytesLeft \in Nat
      BY <1>1
    <3> QED
      BY <1>1, <1>2, <3>1
  <2> QED
    BY <1>2, <2>1, <2>2 DEF Shrinks
<1>6. ASSUME NEW leaves, NEW position, Moves(leaves, position) PROVE Shrinks
  <2>1. Len(frames') = Len(frames) /\ BytesLeft' < BytesLeft
    BY <1>6, MovedLeavesLess
  <2>2. text' = text /\ phase' = "walk"
    BY <1>6 DEF Moves
  <2>3. Len(frames') <= Len(frames) + 1
    BY <1>1, <2>1
  <2> QED
    BY <1>4, <2>1, <2>2, <2>3
<1>7. ASSUME NEW n, NEW next, NEW plan, Enters(n, next, plan), phase' = phase PROVE Shrinks
  <2>1. Len(frames') = Len(frames) + 1 /\ BytesLeft' < BytesLeft
    BY <1>7, EnteredLeavesLess
  <2>2. text' = text /\ phase' = "walk"
    BY <1>7 DEF Enters, Descend
  <2>3. Len(frames') <= Len(frames) + 1
    BY <1>1, <2>1
  <2> QED
    BY <1>4, <2>1, <2>2, <2>3
<1>8. ASSUME NEW n, NEW next, Enters(n, next, <<>>), DescendAndPlan(n, next) PROVE Shrinks
  <2>1. Len(frames') = Len(frames) + 1 /\ BytesLeft' < BytesLeft
    BY <1>8, EnteredLeavesLess
  <2>2. text' = text /\ phase' = "plan" /\ StartPlanning(n.inFrom, n.inTo)
    BY <1>8 DEF DescendAndPlan, Descend
  <2>3. n.inTo \in 0 .. End /\ n.inFrom \in 0 .. n.inTo
    <3>1. Stands(frames[Len(frames)], End)
      BY <1>1, RangesAreNat
    <3> QED
      BY <1>1, <1>8, <3>1 DEF Stands, Enters, Upright, Top, Pos
  <2>4. PlanningLeft' \in Nat /\ PlanningLeft' <= 2 * End + 1
    BY <1>1, <2>2, <2>3, PlanningIsShort
  <2>5. Len(frames') <= Len(frames) + 1
    BY <1>1, <2>1
  <2> QED
    BY <1>4, <2>1, <2>2, <2>4, <2>5
<1> QED
  BY <1>5, <1>6, <1>7, <1>8 DEF Turn

LEMMA ReturnShrinks ==
  ASSUME TellInv, Bytes, TellInv', Bytes', Return
  PROVE  Shrinks
<1>1. Len(frames) \in Nat /\ BytesLeft \in Nat /\ End \in Nat /\ BytesLeft = Left(frames)
  BY RangesAreNat
<1>2. /\ phase = "walk" /\ Len(frames) > 0 /\ Pos >= Top.end /\ text' = text
      /\ frames' = SubSeq(frames, 1, Len(frames) - 1) /\ phase' \in {"walk", "done"}
  <2>1. frames # <<>> /\ IsASeq(frames)
    BY DEF Return, TellInv, Shapes
  <2>2. Len(frames) > 0
    <3>1. CASE Len(frames) = 0
      BY <2>1, <3>1 DEF IsASeq
    <3> QED
      BY <1>1, <3>1
  <2> QED
    BY <2>2 DEF Return
<1>3. Len(frames') = Len(frames) - 1 /\ \A k \in 1 .. Len(frames') : frames'[k] = frames[k]
  <2>1. IsASeq(frames)
    BY DEF TellInv, Shapes
  <2> QED
    BY <1>1, <1>2, <2>1, Dropping
<1>4. \A k \in 1 .. Len(frames) : Stands(frames[k], End)
  BY RangesAreNat
<1>5. frames[Len(frames)].end = frames[Len(frames)].position
  <2>1. Len(frames) \in 1 .. Len(frames)
    BY <1>1, <1>2
  <2>2. Stands(frames[Len(frames)], End)
    BY <1>4, <2>1
  <2> QED
    BY <1>2, <2>2 DEF Stands, Pos, Top
<1>6. BytesLeft' = BytesLeft
  <2>1. \A k \in 1 .. Len(frames) : frames[k].end - frames[k].position \in Int
    BY <1>4 DEF Stands
  <2>2. PICK gs : gs = frames'
    OBVIOUS
  <2>3. /\ Left(frames) = (frames[Len(frames)].end - frames[Len(frames)].position) + Left(gs)
        /\ Left(gs) \in Int
    BY <1>1, <1>2, <1>3, <2>1, <2>2, LeftLast
  <2>4. frames[Len(frames)].end - frames[Len(frames)].position = 0
    <3>1. Len(frames) \in 1 .. Len(frames)
      BY <1>1, <1>2
    <3>2. frames[Len(frames)].end \in Int
      BY <1>4, <3>1 DEF Stands
    <3> QED
      BY <1>5, <3>2
  <2>5. Left(gs) = Left(frames)
    BY <2>3, <2>4
  <2> QED
    BY <1>1, <2>2, <2>5, WorkSums
<1>7. InlineWork = (2 * End + 4) * BytesLeft + Len(frames) /\ InlineWork \in Nat
  BY <1>2, WorkIsNat
<1>8. InlineWork' = (2 * End + 4) * BytesLeft + (Len(frames) - 1)
  <2>1. End' = End
    BY <1>2 DEF End
  <2> QED
    BY <1>1, <1>2, <1>3, <1>6, <2>1 DEF InlineWork
<1>9. (2 * End + 4) * BytesLeft \in Nat
  BY <1>1
<1> QED
  BY <1>1, <1>2, <1>7, <1>8, <1>9 DEF Shrinks
-----------------------------------------------------------------------------
(* Where a turn of the loop stands.                                        *)
Standing ==
  /\ Pos \in Nat /\ Top.end \in Nat /\ Pos < Top.end /\ Top.end <= End
  /\ Fits(Top.plan, Top.end)
  /\ MarkerRun \in Nat /\ 1 <= MarkerRun /\ Pos + MarkerRun <= Top.end

LEMMA WalkingStands ==
  ASSUME TellInv, Bytes, phase = "walk", Pos < Top.end
  PROVE  Standing
<1>1. Len(frames) \in Nat /\ Len(frames) # 0 /\ End \in Nat
  BY SizeIsNat DEF TellInv, Shapes, IsASeq
<1>2. Len(frames) \in 1 .. Len(frames)
  BY <1>1
<1>3. Stands(frames[Len(frames)], End) /\ Fits(frames[Len(frames)].plan, frames[Len(frames)].end)
  BY <1>2 DEF Bytes, Laid
<1>4. /\ Pos \in Nat /\ Top.end \in Nat /\ Top.end <= End /\ Pos \in Int /\ Top.end \in Int
      /\ Pos <= Top.end
  BY <1>1, <1>3 DEF Stands, Pos, Top
<1>5. MarkerRun \in Nat /\ Pos + MarkerRun <= Top.end /\ MarkerRun >= 1
  <2>1. At(text, Pos) = Char
    BY DEF Char
  <2> HIDE DEF Pos, Top, Char
  <2> QED
    BY <1>4, <2>1, RunIsShort DEF MarkerRun
<1> QED
  BY <1>3, <1>4, <1>5 DEF Standing, Top

(* The leaves a turn adds.                                                 *)
LEMMA LeafTiles ==
  ASSUME Standing, NEW kind, NEW leaf, leaf.parent = Top.node,
         leaf.from = Pos, NEW to \in Int, leaf.to = to, leaf.inFrom = to, leaf.inTo = to, Pos <= to,
         NEW position \in Int, to <= position, position <= Top.end,
         \A b \in to .. position - 1 : Droppable(b)
  PROVE  Tiles(<<leaf>>, position)
<1> USE DEF Standing
<1>1. /\ <<leaf>> \in Seq({leaf}) /\ Len(<<leaf>>) = 1 /\ <<leaf>>[1] = leaf
  OBVIOUS
<1>2. IsASeq(<<leaf>>)
  BY ONLY <1>1, SeqIsASeq
<1>3. PICK s : s = <<leaf>>
  OBVIOUS
<1>4. IsASeq(s) /\ Len(s) = 1 /\ s[1] = leaf
  BY <1>1, <1>2, <1>3
<1>5. \A i \in 1 .. Len(s) : i = 1
  BY <1>4
<1>6. Upright(leaf)
  BY DEF Upright
<1>7. \A b \in Pos .. position - 1 : b \in Holds(leaf) \/ Droppable(b)
  BY DEF Holds
<1>8. \A b \in Pos .. position - 1 : (\E i \in 1 .. Len(s) : b \in Holds(s[i])) \/ Droppable(b)
  BY <1>4, <1>7
<1>9. \A i, j \in 1 .. Len(s) : i < j => s[i].to <= s[j].from
  BY <1>5
<1>10. \A i \in 1 .. Len(s) :
         /\ s[i].parent = Top.node /\ Upright(s[i]) /\ s[i].inFrom = s[i].inTo
         /\ Pos <= s[i].from /\ s[i].to <= position
  BY <1>4, <1>5, <1>6
<1> QED
  BY <1>3, <1>4, <1>8, <1>9, <1>10 DEF Tiles

LEMMA LeafFields ==
  ASSUME NEW kind, NEW from, NEW to
  PROVE  /\ Leaf(kind, from, to).parent = Top.node /\ Leaf(kind, from, to).from = from
         /\ Leaf(kind, from, to).to = to /\ Leaf(kind, from, to).inFrom = to
         /\ Leaf(kind, from, to).inTo = to
BY DEF Leaf, NodeRec

LEMMA OneLeafTiles ==
  ASSUME Standing, NEW kind, NEW to \in Int, Pos <= to,
         NEW position \in Int, to <= position, position <= Top.end,
         \A b \in to .. position - 1 : Droppable(b)
  PROVE  Tiles(<<Leaf(kind, Pos, to)>>, position)
<1>1. PICK leaf : leaf = Leaf(kind, Pos, to)
  OBVIOUS
<1>2. /\ leaf.parent = Top.node /\ leaf.from = Pos /\ leaf.to = to /\ leaf.inFrom = to
      /\ leaf.inTo = to
  BY <1>1, LeafFields
<1> QED
  BY <1>1, <1>2, LeafTiles

LEMMA SourceTiles ==
  ASSUME Standing, NEW to \in Int, Pos <= to, to <= Top.end
  PROVE  Tiles(Source(Pos, to), to)
<1>1. CASE Pos < to
  <2>1. \A b \in to .. to - 1 : Droppable(b)
    OBVIOUS
  <2> QED
    BY <1>1, <2>1, OneLeafTiles DEF Source
<1>2. CASE ~(Pos < to)
  <2>1. Source(Pos, to) = <<>> /\ to = Pos
    BY <1>2 DEF Source, Standing
  <2>2. Len(<<>>) = 0 /\ IsASeq(<<>>)
    BY DEF IsASeq
  <2>3. to .. to - 1 = {} /\ 1 .. 0 = {}
    OBVIOUS
  <2> QED
    BY <2>1, <2>2, <2>3 DEF Tiles, Standing
<1> QED
  BY <1>1, <1>2

(* Text and the line ending behind it, with bytes left out in between.     *)
LEMMA BreakTiles ==
  ASSUME Standing, NEW kind, NEW to \in Int, NEW stop \in Int, Pos <= to, to <= stop, stop < Top.end,
         \A b \in to .. stop - 1 : Droppable(b)
  PROVE  Tiles(Source(Pos, to) \o <<Leaf(kind, stop, stop + 1)>>, stop + 1)
<1> USE DEF Standing
<1>1. PICK leaf : leaf = Leaf(kind, stop, stop + 1)
  OBVIOUS
<1>2. /\ leaf.parent = Top.node /\ leaf.from = stop /\ leaf.to = stop + 1 /\ leaf.inFrom = stop + 1
      /\ leaf.inTo = stop + 1
  BY <1>1, LeafFields
<1>3. PICK s : s = Source(Pos, to)
  OBVIOUS
<1>4. Tiles(s, to)
  BY <1>3, SourceTiles
<1>5. PICK r : r = s \o <<leaf>>
  OBVIOUS
<1>6. Len(s) \in Nat /\ IsASeq(s)
  BY <1>4 DEF Tiles, IsASeq
<1>7. /\ IsASeq(r) /\ Len(r) = Len(s) + 1 /\ r[Len(s) + 1] = leaf
      /\ \A k \in 1 .. Len(s) : r[k] = s[k]
  <2>1. IsASeq(<<leaf>>) /\ Len(<<leaf>>) = 1 /\ <<leaf>>[1] = leaf
    BY DEF IsASeq
  <2> QED
    BY <1>5, <1>6, <2>1, Joining
<1>8. \A k \in 1 .. Len(r) : \/ k \in 1 .. Len(s) /\ r[k] = s[k]
                             \/ k = Len(s) + 1 /\ r[k] = leaf
  BY <1>6, <1>7
<1>9. Upright(leaf)
  BY <1>2 DEF Upright
<1>10. \A i \in 1 .. Len(s) :
         /\ s[i].parent = Top.node /\ Upright(s[i]) /\ s[i].inFrom = s[i].inTo
         /\ Pos <= s[i].from /\ s[i].to <= to /\ s[i].to \in Int
  BY <1>4 DEF Tiles, Upright
<1>11. \A i \in 1 .. Len(r) :
         /\ r[i].parent = Top.node /\ Upright(r[i]) /\ r[i].inFrom = r[i].inTo
         /\ Pos <= r[i].from /\ r[i].to <= stop + 1
  <2> SUFFICES ASSUME NEW i \in 1 .. Len(r)
      PROVE  /\ r[i].parent = Top.node /\ Upright(r[i]) /\ r[i].inFrom = r[i].inTo
             /\ Pos <= r[i].from /\ r[i].to <= stop + 1
    OBVIOUS
  <2>1. CASE i \in 1 .. Len(s) /\ r[i] = s[i]
    <3>1. s[i].to <= to /\ s[i].to \in Int
      BY <1>10, <2>1
    <3>2. s[i].to <= stop + 1
      BY <3>1
    <3> QED
      BY <1>10, <2>1, <3>2
  <2>2. CASE i = Len(s) + 1 /\ r[i] = leaf
    BY <1>2, <1>9, <2>2
  <2> QED
    BY <1>8, <2>1, <2>2
<1>12. \A i, j \in 1 .. Len(r) : i < j => r[i].to <= r[j].from
  <2> SUFFICES ASSUME NEW i \in 1 .. Len(r), NEW j \in 1 .. Len(r), i < j
      PROVE  r[i].to <= r[j].from
    OBVIOUS
  <2>1. i \in 1 .. Len(s) /\ r[i] = s[i] /\ r[i].to <= to /\ r[i].to \in Int
    BY <1>6, <1>7, <1>10
  <2>2. CASE j \in 1 .. Len(s) /\ r[j] = s[j]
    BY <1>4, <2>1, <2>2 DEF Tiles
  <2>3. CASE j = Len(s) + 1 /\ r[j] = leaf
    BY <1>2, <2>1, <2>3
  <2> QED
    BY <1>8, <2>2, <2>3
<1>13. \A b \in Pos .. stop : (\E i \in 1 .. Len(r) : b \in Holds(r[i])) \/ Droppable(b)
  <2> SUFFICES ASSUME NEW b \in Pos .. stop
      PROVE  (\E i \in 1 .. Len(r) : b \in Holds(r[i])) \/ Droppable(b)
    OBVIOUS
  <2>1. CASE b = stop
    <3>1. b \in Holds(leaf) /\ Len(s) + 1 \in 1 .. Len(r)
      BY <1>2, <1>6, <1>7, <2>1 DEF Holds
    <3> QED
      BY <1>7, <3>1
  <2>2. CASE to <= b /\ b < stop
    BY <2>2
  <2>3. CASE b < to
    <3>1. b \in Pos .. to - 1
      BY <2>3
    <3>2. (\E i \in 1 .. Len(s) : b \in Holds(s[i])) \/ Droppable(b)
      BY <1>4, <3>1 DEF Tiles
    <3>3. \A i \in 1 .. Len(s) : i \in 1 .. Len(r) /\ r[i] = s[i]
      BY <1>6, <1>7
    <3> QED
      BY <3>2, <3>3
  <2> QED
    BY <2>1, <2>2, <2>3
<1>14. stop + 1 \in Int /\ Pos <= stop + 1 /\ stop + 1 <= Top.end /\ (stop + 1) - 1 = stop
  OBVIOUS
<1>15. Tiles(r, stop + 1)
  BY <1>7, <1>11, <1>12, <1>13, <1>14 DEF Tiles
<1> QED
  BY <1>1, <1>3, <1>5, <1>15
(* A construct that has no end.                                            *)
LEMMA UnclosedTurns ==
  ASSUME TellInv, Bytes, phase = "walk", Standing,
         NEW kind, NEW open \in Int, 1 <= open, NEW behind \in Int, Pos < behind, behind <= Top.end,
         Unclosed(kind, open, behind)
  PROVE  Turn
<1>1. IsASeq(frames) /\ IsASeq(nodes)
  BY DEF TellInv, Shapes
<1> DEFINE policy == PolicyOf(kind)
           room   == Pos + open < Top.end
<1>2. CASE policy = "error"
  <2>1. Fail
    BY <1>2 DEF Unclosed
  <2> QED
    BY <2>1 DEF Turn
<1>3. CASE policy = "recover" /\ room /\ kind # "code"
  <2>1. PICK n : n = NodeRec(kind, Top.node, Pos, Top.end, Pos + open, Top.end, TRUE)
    OBVIOUS
  <2>2. DescendAndPlan(n, Top.end)
    BY <1>3, <2>1 DEF Unclosed
  <2>3. /\ n.parent = Top.node /\ n.from = Pos /\ n.to = Top.end
        /\ n.inFrom = Pos + open /\ n.inTo = Top.end
    BY <2>1 DEF NodeRec
  <2>4. Upright(n) /\ Top.end <= Top.end /\ Pos < n.inFrom
    BY <1>3, <2>3 DEF Upright, Standing
  <2> QED
    BY <2>2, <2>3, <2>4, DescentAndPlanTurn
<1>4. CASE policy = "recover" /\ room /\ kind = "code"
  <2>1. PICK n : n = [Leaf(kind, Pos, Top.end) EXCEPT !.recovered = TRUE]
    OBVIOUS
  <2>2. /\ nodes' = Append(nodes, n) /\ phase' = phase /\ text' = text
        /\ frames' = [frames EXCEPT ![Len(frames)].position = Top.end]
    BY <1>4, <2>1 DEF Unclosed
  <2>3. /\ n.parent = Top.node /\ n.from = Pos /\ n.to = Top.end
        /\ n.inFrom = Top.end /\ n.inTo = Top.end
    BY <2>1 DEF Leaf, NodeRec
  <2>4. Tiles(<<n>>, Top.end)
    <3>1. /\ Top.end \in Int /\ Pos <= Top.end /\ Top.end <= Top.end
          /\ \A b \in Top.end .. Top.end - 1 : Droppable(b)
      BY DEF Standing
    <3> QED
      BY <2>3, <3>1, LeafTiles
  <2>5. MovedTo(frames', frames, Top.end)
    BY <2>2 DEF MovedTo
  <2>6. Joined(nodes, <<n>>, nodes')
    <3>1. PICK one : one = <<n>>
      OBVIOUS
    <3>2. Len(one) = 1 /\ one[1] = n /\ \A k \in 1 .. Len(one) : k = 1
      BY <3>1
    <3>3. /\ IsASeq(nodes') /\ Len(nodes') = Len(nodes) + 1
          /\ \A k \in 1 .. Len(nodes) : nodes'[k] = nodes[k]
          /\ nodes'[Len(nodes) + 1] = n
      BY <2>2, <1>1, Appending
    <3> QED
      BY <3>1, <3>2, <3>3 DEF Joined
  <2>7. Moves(<<n>>, Top.end)
    BY <2>2, <2>4, <2>5, <2>6 DEF Moves, Standing
  <2> QED
    BY <2>7 DEF Turn
<1>5. CASE policy # "error" /\ ~(policy = "recover" /\ room)
  <2>1. Advance(behind, Source(Pos, behind))
    BY <1>5 DEF Unclosed
  <2>2. Pos <= behind
    BY DEF Standing
  <2> QED
    BY <2>1, <2>2, SourceTiles, AdvanceTurns
<1> QED
  BY <1>2, <1>3, <1>4, <1>5

LEMMA OpenIsShort ==
  ASSUME MarkerRun \in Nat, 1 <= MarkerRun
  PROVE  OpenLength(Char, MarkerRun) \in 1 .. MarkerRun
<1>1. CASE Char = "~"
  BY <1>1 DEF OpenLength
<1>2. CASE Char # "~" /\ MarkerRun % 2 = 0
  <2>1. MarkerRun # 1
    BY <1>2
  <2> QED
    BY <1>2, <2>1 DEF OpenLength
<1>3. CASE Char # "~" /\ MarkerRun % 2 # 0
  BY <1>3 DEF OpenLength
<1> QED
  BY <1>1, <1>2, <1>3

LEMMA DelimiterTurns ==
  ASSUME TellInv, Bytes, phase = "walk", Standing,
         NEW behind \in Int, Pos < behind, behind <= Top.end, ParseDelimiter(behind)
  PROVE  Turn
<1> DEFINE literal == Advance(behind, Source(Pos, behind))
<1>1. PICK open, match : open = OpenLength(Char, MarkerRun) /\ match = FindClosing(SearchFrom, Top.end)
  OBVIOUS
<1>2. PICK n : n = NodeRec(KindOf(Char, open), Top.node, Pos, match.next,
                           Pos + open, match.contentEnd, FALSE)
  OBVIOUS
<1>3. \/ literal
      \/ Unclosed(KindOf(Char, open), open, behind)
      \/ match.found /\ DescendAndPlan(n, match.next)
  BY <1>1, <1>2 DEF ParseDelimiter
<1>4. open \in 1 .. MarkerRun /\ MarkerRun \in Nat
  BY <1>1, OpenIsShort DEF Standing
<1>5. CASE literal
  <2>1. Pos <= behind
    BY DEF Standing
  <2> QED
    BY <1>5, <2>1, SourceTiles, AdvanceTurns
<1>6. CASE Unclosed(KindOf(Char, open), open, behind)
  <2>1. open \in Int /\ 1 <= open
    BY <1>4
  <2> QED
    BY <1>6, <2>1, UnclosedTurns
<1>7. CASE match.found /\ DescendAndPlan(n, match.next)
  <2>1. SearchFrom \in 0 .. Top.end + 1 /\ SearchFrom = Pos + MarkerRun /\ Top.end \in Nat
    BY DEF Standing, SearchFrom
  <2>2. IsMatch(match, SearchFrom, Top.end)
    BY <1>1, <1>4, <1>7, <2>1, MatchFits
  <2>3. /\ match.contentEnd \in Int /\ match.next \in Int
        /\ Pos + MarkerRun <= match.contentEnd /\ match.contentEnd <= match.next
        /\ match.next <= Top.end
    BY <2>1, <2>2 DEF IsMatch
  <2>4. /\ n.parent = Top.node /\ n.from = Pos /\ n.to = match.next
        /\ n.inFrom = Pos + open /\ n.inTo = match.contentEnd
    BY <1>2 DEF NodeRec
  <2>5. Upright(n) /\ Pos < n.inFrom
    BY <1>4, <2>3, <2>4 DEF Upright, Standing
  <2> QED
    BY <1>7, <2>3, <2>4, <2>5, DescentAndPlanTurn
<1> QED
  BY <1>3, <1>5, <1>6, <1>7
-----------------------------------------------------------------------------
(* The turns of the loop.                                                  *)
LEMMA FacingStands ==
  ASSUME TellInv, Bytes, Walking
  PROVE  Standing /\ phase = "walk"
BY WalkingStands DEF Walking

LEMMA PlannedPairTurns ==
  ASSUME TellInv, Bytes, WalkPlannedPair
  PROVE  Turn
<1>1. Standing /\ phase = "walk" /\ phase' = "walk"
  BY FacingStands DEF WalkPlannedPair, Walking
<1>2. PICK plan : plan = Top.plan
  OBVIOUS
<1>3. Distinct(plan) /\ Fits(plan, Top.end) /\ Pos \in Int
  BY <1>1, <1>2 DEF Standing, Fits
<1>4. PICK p, inFrom, kind :
        /\ p \in OpenerAt(plan, Pos) /\ p.closeStart < Top.end
        /\ inFrom = p.openStart + p.length
        /\ Descend(NodeRec(kind, Top.node, p.openStart, p.closeStart + p.length,
                           inFrom, p.closeStart, FALSE),
                   p.closeStart + p.length, plan)
  BY <1>2 DEF WalkPlannedPair, PlannedHere
<1>5. PICK k \in DOMAIN plan : plan[k].openStart = Pos /\ p = plan[k]
  BY <1>3, <1>4, FoundIsPlanned
<1>6. p.openStart = Pos /\ p.closeStart \in Nat /\ p.length \in {1, 2}
  <2>1. p \in PairRecord
    BY <1>3, <1>5, SeqElement DEF Distinct
  <2> QED
    BY <1>5, <2>1 DEF PairRecord
<1>7. /\ p.openStart + p.length <= p.closeStart
      /\ p.closeStart + p.length <= Top.end
  BY <1>3, <1>4, <1>5 DEF Fits
<1>8. Fits(plan, p.closeStart)
  BY <1>3, <1>5 DEF Fits
<1>9. PICK n : n = NodeRec(kind, Top.node, p.openStart, p.closeStart + p.length,
                           inFrom, p.closeStart, FALSE)
  OBVIOUS
<1>10. /\ n.parent = Top.node /\ n.from = Pos /\ n.to = p.closeStart + p.length
       /\ n.inFrom = Pos + p.length /\ n.inTo = p.closeStart
  BY <1>4, <1>6, <1>9 DEF NodeRec
<1>11. Upright(n) /\ Pos < n.inFrom
  BY <1>1, <1>6, <1>7, <1>10 DEF Upright, Standing
<1>12. Descend(n, p.closeStart + p.length, plan)
  BY <1>4, <1>9
<1> QED
  BY <1>1, <1>6, <1>7, <1>8, <1>10, <1>11, <1>12, DescentTurns

LEMMA BreakTurns ==
  ASSUME TellInv, Bytes, WalkBreak \/ WalkEscape
  PROVE  Turn
<1>1. Standing /\ phase = "walk"
  BY FacingStands DEF WalkBreak, WalkEscape, Facing
<1> USE <1>1 DEF Standing
<1>2. CASE WalkBreak
  <2>1. Advance(Pos + 1, <<Leaf("soft", Pos, Pos + 1)>>)
    BY <1>2 DEF WalkBreak
  <2>2. /\ Pos + 1 \in Int /\ Pos < Pos + 1 /\ Pos <= Pos + 1 /\ Pos + 1 <= Pos + 1 /\ Pos + 1 <= Top.end
        /\ \A b \in Pos + 1 .. (Pos + 1) - 1 : Droppable(b)
    OBVIOUS
  <2>3. Tiles(<<Leaf("soft", Pos, Pos + 1)>>, Pos + 1)
    BY <2>2, OneLeafTiles
  <2> QED
    BY <2>1, <2>2, <2>3, AdvanceTurns
<1>3. CASE EscapesPunctuation /\ Advance(Pos + 2, <<Leaf("text", Pos, Pos + 2)>>)
  <2>1. /\ Pos + 2 \in Int /\ Pos < Pos + 2 /\ Pos <= Pos + 2 /\ Pos + 2 <= Pos + 2 /\ Pos + 2 <= Top.end
        /\ \A b \in Pos + 2 .. (Pos + 2) - 1 : Droppable(b)
    BY <1>3 DEF EscapesPunctuation
  <2>2. Tiles(<<Leaf("text", Pos, Pos + 2)>>, Pos + 2)
    BY <2>1, OneLeafTiles
  <2> QED
    BY <1>3, <2>1, <2>2, AdvanceTurns
<1>4. CASE /\ Char = "esc" /\ Peek("nl")
           /\ Advance(Pos + 2, <<Leaf("hard", Pos, Pos + 1)>>)
  <2>1. /\ Pos + 1 \in Int /\ Pos + 2 \in Int /\ Pos <= Pos + 1 /\ Pos + 1 <= Pos + 2
        /\ Pos + 2 <= Top.end /\ Pos < Pos + 2
    BY <1>4 DEF Peek
  <2>2. Droppable(Pos + 1)
    <3>1. At(text, Pos + 1) = "nl" /\ At(text, (Pos + 1) - 1) = "esc" /\ Pos + 1 > 0
      BY <1>4 DEF Peek, Char
    <3> QED
      BY <3>1 DEF Droppable
  <2>3. \A b \in Pos + 1 .. (Pos + 2) - 1 : Droppable(b)
    <3>1. \A b \in Pos + 1 .. (Pos + 2) - 1 : b = Pos + 1
      OBVIOUS
    <3> QED
      BY <2>2, <3>1
  <2>4. Tiles(<<Leaf("hard", Pos, Pos + 1)>>, Pos + 2)
    BY <2>1, <2>3, OneLeafTiles
  <2> QED
    BY <1>4, <2>1, <2>4, AdvanceTurns
<1>5. WalkEscape => Char = "esc"
  BY DEF WalkEscape, Facing
<1> QED
  BY <1>2, <1>3, <1>4, <1>5 DEF WalkEscape

LEMMA PlainTurns ==
  ASSUME TellInv, Bytes, WalkPlain
  PROVE  Turn
<1>1. Standing /\ phase = "walk" /\ Pos \in Nat /\ Top.end \in Nat /\ Pos < Top.end /\ Top.end <= End
  BY FacingStands DEF WalkPlain, Standing
<1> DEFINE stops == {i \in Pos + 1 .. Top.end : i = Top.end \/ At(text, i) \in Special}
           stop  == CHOOSE i \in stops : \A j \in stops : i <= j
           atBreak == stop < Top.end /\ At(text, stop) = "nl"
           tail  == {k \in 0 .. stop - Pos : \A i \in stop - k .. stop - 1 : At(text, i) = " "}
           spaces == CHOOSE k \in tail : \A j \in tail : j <= k
<1>2. \/ /\ atBreak /\ spaces >= 1
         /\ \E kind : Advance(stop + 1, Source(Pos, stop - spaces) \o <<Leaf(kind, stop, stop + 1)>>)
      \/ Advance(stop, Source(Pos, stop))
  BY DEF WalkPlain
<1>3. stops \in SUBSET Nat /\ Top.end \in stops
  BY <1>1
<1>4. \E m \in stops : \A s \in stops : m <= s
  <2> HIDE DEF stops
  <2> QED
    BY <1>3, SmallestExists
<1>5. stop \in stops
  BY <1>4
<1>6. stop \in Pos + 1 .. Top.end
  BY <1>5
<1> HIDE DEF stop, stops
<1>7. PICK m : m = stop
  OBVIOUS
<1>8. m \in Int /\ Pos < m /\ m <= Top.end
  BY <1>1, <1>6, <1>7
<1>9. \E k \in tail : \A j \in tail : j <= k
  <2> DEFINE short == {(m - Pos) - k : k \in tail}
  <2>1. \A k \in tail : k \in 0 .. m - Pos
    BY <1>7
  <2>2. 0 \in tail
    <3>1. 0 \in 0 .. m - Pos /\ \A i \in m - 0 .. m - 1 : FALSE
      BY <1>1, <1>8
    <3> QED
      BY <1>7, <3>1
  <2> HIDE DEF tail
  <2>3. short \in SUBSET Nat /\ short # {}
    BY <1>1, <1>8, <2>1, <2>2
  <2>4. PICK s \in short : \A q \in short : s <= q
    <3> HIDE DEF short
    <3> QED
      BY <2>3, SmallestExists
  <2>5. PICK k \in tail : s = (m - Pos) - k
    OBVIOUS
  <2>6. ASSUME NEW j \in tail PROVE j <= k
    <3>1. s <= (m - Pos) - j
      BY <2>4
    <3>2. j \in 0 .. m - Pos /\ k \in 0 .. m - Pos
      BY <2>1
    <3> QED
      BY <1>1, <1>8, <2>5, <3>1, <3>2
  <2> QED
    BY <2>6
<1>10. spaces \in tail
  <2> HIDE DEF tail
  <2> QED
    BY <1>9
<1>11. spaces \in 0 .. m - Pos
  BY <1>7, <1>10
<1>12. \A i \in m - spaces .. m - 1 : At(text, i) = " "
  BY <1>7, <1>10
<1> HIDE DEF spaces, tail
<1>13. PICK gap : gap = m - spaces
  OBVIOUS
<1>14. gap \in Int /\ Pos <= gap /\ gap <= m
  BY <1>1, <1>8, <1>11, <1>13
<1>15. \A i \in gap .. m - 1 : At(text, i) = " "
  BY <1>12, <1>13
<1>16. CASE Advance(stop, Source(Pos, stop))
  <2>1. Tiles(Source(Pos, m), m)
    BY <1>1, <1>8, SourceTiles
  <2> QED
    BY <1>1, <1>7, <1>8, <1>16, <2>1, AdvanceTurns
<1>17. CASE /\ atBreak
            /\ \E kind : Advance(stop + 1, Source(Pos, stop - spaces) \o <<Leaf(kind, stop, stop + 1)>>)
  <2>1. PICK kind : Advance(m + 1, Source(Pos, gap) \o <<Leaf(kind, m, m + 1)>>)
    BY <1>7, <1>13, <1>17
  <2>2. m < Top.end /\ At(text, m) = "nl"
    BY <1>7, <1>17
  <2>3. ASSUME NEW b \in gap .. m - 1 PROVE Droppable(b)
    <3>1. m \in b + 1 .. End - 1
      <4>1. PICK e, size : e = Top.end /\ size = End
        OBVIOUS
      <4>2. size \in Nat /\ e \in Nat /\ e <= size /\ m < e
        BY <1>1, <2>2, <4>1, SizeIsNat
      <4>3. b \in Int /\ b <= m - 1
        BY <1>8, <1>14
      <4>4. m \in b + 1 .. size - 1
        BY <1>8, <4>2, <4>3
      <4> QED
        BY <4>1, <4>4
    <3>2. \A k \in b .. m - 1 : At(text, k) = " "
      <4>1. \A k \in b .. m - 1 : k \in gap .. m - 1
        BY <1>8, <1>14
      <4> QED
        BY <1>15, <4>1
    <3> QED
      BY <2>2, <3>1, <3>2 DEF Droppable
  <2>4. Tiles(Source(Pos, gap) \o <<Leaf(kind, m, m + 1)>>, m + 1)
    BY <1>1, <1>8, <1>14, <2>2, <2>3, BreakTiles
  <2>5. Pos < m + 1
    BY <1>1, <1>8
  <2> QED
    BY <1>1, <1>8, <2>1, <2>4, <2>5, AdvanceTurns
<1> QED
  BY <1>2, <1>16, <1>17

LEMMA CodeSpanTurns ==
  ASSUME TellInv, Bytes, WalkCodeSpan
  PROVE  Turn
<1>1. Standing /\ phase = "walk"
  BY FacingStands DEF WalkCodeSpan, Facing
<1>2. /\ Pos \in Nat /\ Top.end \in Int /\ MarkerRun \in Nat /\ MarkerRun \in Int /\ 1 <= MarkerRun
      /\ Pos + MarkerRun <= Top.end /\ Pos + MarkerRun \in Nat /\ Pos + MarkerRun \in Int
      /\ Pos <= Pos + MarkerRun
  BY <1>1 DEF Standing
<1>3. PICK codeEnd : codeEnd = CodeSpanEnd(text, Pos + MarkerRun, Top.end, MarkerRun)
  OBVIOUS
<1>4. \/ codeEnd >= 0 /\ Advance(codeEnd, <<Leaf("code", Pos, codeEnd)>>)
      \/ Unclosed("code", MarkerRun, Pos + MarkerRun)
  BY <1>3 DEF WalkCodeSpan
<1>5. CASE codeEnd >= 0 /\ Advance(codeEnd, <<Leaf("code", Pos, codeEnd)>>)
  <2>1. /\ codeEnd \in Int /\ (Pos + MarkerRun) + MarkerRun <= codeEnd /\ codeEnd <= Top.end
    <3>1. \/ codeEnd = -1
          \/ codeEnd \in Int /\ (Pos + MarkerRun) + MarkerRun <= codeEnd /\ codeEnd <= Top.end
      BY <1>2, <1>3, CodeSpanFits
    <3> QED
      BY <1>5, <3>1
  <2>2. /\ Pos < codeEnd /\ Pos <= codeEnd /\ codeEnd <= codeEnd
        /\ \A b \in codeEnd .. codeEnd - 1 : Droppable(b)
    BY <1>2, <2>1
  <2>3. Tiles(<<Leaf("code", Pos, codeEnd)>>, codeEnd)
    BY <1>1, <2>1, <2>2, OneLeafTiles
  <2> QED
    BY <1>1, <1>5, <2>2, <2>3, AdvanceTurns
<1>6. CASE Unclosed("code", MarkerRun, Pos + MarkerRun)
  <2>1. Pos < Pos + MarkerRun
    BY <1>2
  <2> QED
    BY <1>1, <1>2, <1>6, <2>1, UnclosedTurns
<1> QED
  BY <1>4, <1>5, <1>6

LEMMA MarkersTurn ==
  ASSUME TellInv, Bytes, WalkDelimiter \/ WalkTilde
  PROVE  Turn
<1>1. Standing /\ phase = "walk"
  BY FacingStands DEF WalkDelimiter, WalkTilde, Facing
<1>2. /\ Pos \in Nat /\ Top.end \in Int /\ MarkerRun \in Nat /\ 1 <= MarkerRun
      /\ Pos + MarkerRun <= Top.end
  BY <1>1 DEF Standing
<1>3. LiteralRun \in 1 .. MarkerRun
  <2> DEFINE cut == {k \in 1 .. MarkerRun : k = MarkerRun \/ OpenerAt(Top.plan, Pos + k) # {}}
  <2>1. cut \in SUBSET Nat /\ MarkerRun \in cut
    BY <1>2
  <2>2. LiteralRun = CHOOSE k \in cut : \A j \in cut : k <= j
    BY DEF LiteralRun
  <2>3. cut \subseteq 1 .. MarkerRun
    OBVIOUS
  <2> HIDE DEF cut
  <2>4. \E k \in cut : \A j \in cut : k <= j
    BY <2>1, SmallestExists
  <2> QED
    BY <2>2, <2>3, <2>4
<1>4. PICK behind : behind = IF WalkTilde THEN Pos + MarkerRun ELSE Pos + LiteralRun
  OBVIOUS
<1>5. behind \in Int /\ Pos < behind /\ Pos <= behind /\ behind <= Top.end
  BY <1>2, <1>3, <1>4
<1>6. ParseDelimiter(behind) \/ Advance(behind, Source(Pos, behind))
  BY <1>4 DEF WalkDelimiter, WalkTilde
<1>7. CASE Advance(behind, Source(Pos, behind))
  BY <1>1, <1>5, <1>7, SourceTiles, AdvanceTurns
<1>8. CASE ParseDelimiter(behind)
  BY <1>1, <1>5, <1>8, DelimiterTurns
<1> QED
  BY <1>6, <1>7, <1>8

LEMMA LinkTurns ==
  ASSUME TellInv, Bytes, WalkLink
  PROVE  Turn
<1>1. Standing /\ phase = "walk"
  BY FacingStands DEF WalkLink, Facing
<1>2. Pos \in Nat /\ Top.end \in Nat /\ Pos < Top.end
  BY <1>1 DEF Standing
<1>3. PICK open : open = IF Char = "!" THEN Pos + 1 ELSE Pos
  OBVIOUS
<1>4. open \in Nat /\ Pos <= open /\ open \in 0 .. Top.end
  BY <1>2, <1>3
<1>5. PICK close, target : /\ close = ClosingBracket(text, open + 1, Top.end)
                           /\ target = LinkEnd(text, open, Top.end, config.refs)
  OBVIOUS
<1>6. \/ Fail
      \/ Advance(Pos + 1, Source(Pos, Pos + 1))
      \/ /\ ~(target < 0)
         /\ \E kind : DescendAndPlan(NodeRec(kind, Top.node, Pos, target, open + 1, close, FALSE), target)
  BY <1>3, <1>5 DEF WalkLink
<1>7. CASE Fail
  BY <1>7 DEF Turn
<1>8. CASE Advance(Pos + 1, Source(Pos, Pos + 1))
  <2>1. Pos + 1 \in Int /\ Pos < Pos + 1 /\ Pos <= Pos + 1 /\ Pos + 1 <= Top.end
    BY <1>2
  <2> QED
    BY <1>1, <1>8, <2>1, SourceTiles, AdvanceTurns
<1>9. CASE /\ ~(target < 0)
           /\ \E kind : DescendAndPlan(NodeRec(kind, Top.node, Pos, target, open + 1, close, FALSE), target)
  <2>1. PICK kind : DescendAndPlan(NodeRec(kind, Top.node, Pos, target, open + 1, close, FALSE), target)
    BY <1>9
  <2>2. close \in open + 1 .. Top.end - 1 /\ target \in close + 1 .. Top.end
    <3>1. \/ target = -1
          \/ close \in open + 1 .. Top.end - 1 /\ target \in close + 1 .. Top.end
      BY <1>2, <1>4, <1>5, LinkFits
    <3> QED
      BY <1>9, <3>1
  <2>3. PICK n : n = NodeRec(kind, Top.node, Pos, target, open + 1, close, FALSE)
    OBVIOUS
  <2>4. /\ n.parent = Top.node /\ n.from = Pos /\ n.to = target
        /\ n.inFrom = open + 1 /\ n.inTo = close
    BY <2>3 DEF NodeRec
  <2>5. Upright(n) /\ Pos < n.inFrom /\ target <= Top.end
    BY <1>2, <1>4, <2>2, <2>4 DEF Upright
  <2> QED
    BY <1>1, <2>1, <2>3, <2>4, <2>5, DescentAndPlanTurn
<1> QED
  BY <1>6, <1>7, <1>8, <1>9

(* Every action that walks is a turn.                                      *)
Walks ==
  \/ WalkPlannedPair \/ WalkBreak \/ WalkEscape \/ WalkPlain
  \/ WalkCodeSpan \/ WalkDelimiter \/ WalkTilde \/ WalkLink

LEMMA WalkTurns ==
  ASSUME TellInv, Bytes, Walks
  PROVE  Turn /\ phase = "walk" /\ Len(frames) > 0
<1>1. Turn
  BY PlannedPairTurns, BreakTurns, PlainTurns, CodeSpanTurns, MarkersTurn, LinkTurns DEF Walks
<1>2. phase = "walk" /\ frames # <<>>
  BY DEF Walks, WalkPlannedPair, WalkBreak, WalkEscape, WalkPlain, WalkCodeSpan, WalkDelimiter,
     WalkTilde, WalkLink, Facing, Walking
<1>3. IsASeq(frames)
  BY DEF TellInv, Shapes
<1>4. Len(frames) > 0
  BY <1>2, <1>3 DEF IsASeq
<1> QED
  BY <1>1, <1>2, <1>4

LEMMA StepByteInv ==
  ASSUME ByteInv, [InlineNext]_allVars
  PROVE  ByteInv'
<1>1. CASE InlineNext
  <2>1. TellInv'
    BY <1>1, WalkKeepsTelling DEF ByteInv
  <2>2. Bytes'
    <3>1. CASE Walks
      BY <3>1, WalkTurns, TurnKeepsBytes DEF ByteInv
    <3>2. CASE PlanStep \/ PlanDone \/ Return
      BY <3>2, PlanStepKeepsBytes, PlanDoneKeepsBytes, ReturnKeepsBytes DEF ByteInv
    <3> QED
      BY <1>1, <3>1, <3>2 DEF InlineNext, Walks
  <2> QED
    BY <2>1, <2>2 DEF ByteInv
<1>2. CASE UNCHANGED allVars
  <2>1. TellInv'
    BY <1>2, StutterTells DEF ByteInv
  <2>2. /\ text' = text /\ frames' = frames /\ nodes' = nodes /\ phase' = phase /\ vars' = vars
    BY <1>2 DEF allVars, inlineVars
  <2>3. phase = "plan" => Planning'
    <3> SUFFICES ASSUME Planning PROVE Planning'
      BY DEF ByteInv, Bytes
    <3>1. PlanInv'
      BY <2>2, StepPlanInv DEF Planning
    <3>2. Top' = Top /\ Run' = Run /\ \A r : RunEnd(r)' = RunEnd(r)
      BY <2>2 DEF vars, Top, Run, RunEnd
    <3> QED
      BY <2>2, <3>1, <3>2 DEF Planning
  <2> QED
    BY <2>1, <2>2, <2>3, SameText DEF ByteInv, Bytes
<1> QED
  BY <1>1, <1>2

LEMMA StartByteInv ==
  ASSUME InlineAssumption, InlineInit
  PROVE  ByteInv
<1>1. /\ text \in Seq(Characters) /\ End \in Nat /\ nodes = <<>> /\ Len(nodes) = 0
      /\ runs = Collect(text, 0, Len(text), config.refs)
      /\ phase = "plan"
  BY InlineAssumption DEF InlineInit, End
<1>2. PICK f : f = Frame(0, 0, End, <<>>)
  OBVIOUS
<1>3. f.node = 0 /\ f.position = 0 /\ f.end = End /\ f.plan = <<>>
  BY <1>2 DEF Frame
<1>4. /\ Len(frames) = 1 /\ frames[1] = f /\ \A k \in 1 .. Len(frames) : k = 1 /\ frames[k] = f
  <2>1. frames = <<f>>
    BY <1>2 DEF InlineInit, End
  <2> QED
    BY <2>1
<1>5. Laid(frames, nodes, End)
  <2>1. Stands(f, End)
    BY <1>1, <1>3 DEF Stands
  <2>2. 1 .. Len(nodes) = {} /\ 2 .. Len(frames) = {}
    BY <1>1, <1>4
  <2>3. \A j, k \in 1 .. Len(frames) : ~(j < k)
    BY <1>4
  <2> QED
    BY <1>4, <2>1, <2>2, <2>3 DEF Laid
<1>6. Held(frames, nodes, End, Dropped)
  <2>1. 1 .. Len(nodes) = {}
    BY <1>1
  <2>2. \A i \in 0 .. End - 1 : i \in Rest(frames[1]) /\ 1 \in 1 .. Len(frames)
    BY <1>1, <1>3, <1>4 DEF Rest
  <2> QED
    BY <2>1, <2>2 DEF Held
<1>7. \A k \in 1 .. Len(frames) : Fits(frames[k].plan, frames[k].end)
  BY <1>3, <1>4, NoPlanFits
<1>8. Planning
  <2>1. InOrder(runs, 0, End)
    <3>1. End \in 0 .. Len(text) /\ 0 \in 0 .. End /\ Len(text) \in Nat /\ End = Len(text)
      BY <1>1 DEF End
    <3> QED
      BY <1>1, <3>1, CollectFits
  <2>2. Fresh
    BY <2>1 DEF Fresh, InOrder, RunsInOrder, Run, InlineInit
  <2>3. \A r \in Run : RunEnd(r) <= End
    BY <2>1 DEF InOrder, Run, RunEnd
  <2>4. Top.end = End /\ Len(frames) > 0
    BY <1>3, <1>4 DEF Top
  <2> QED
    BY <2>2, <2>3, <2>4, FreshPlanInv DEF Planning
<1>9. TellInv
  BY StartTells
<1> QED
  BY <1>1, <1>5, <1>6, <1>7, <1>8, <1>9 DEF ByteInv, Bytes

(* Whatever the paragraph: the children parseInlineRange gives a node lie  *)
(* in the order of the source and do not overlap, and every node lies      *)
(* within the content of its parent.                                       *)
THEOREM ChildrenFollowTheSource == InlineSpec => []ChildrenInSourceOrder
<1>1. InlineInit => ByteInv
  BY StartByteInv, InlineAssumption
<1>2. ByteInv /\ [InlineNext]_allVars => ByteInv'
  BY StepByteInv
<1>3. ByteInv => ChildrenInSourceOrder
  BY DEF ByteInv, Bytes, Laid, ChildrenInSourceOrder, NodeIds
<1> QED
  BY <1>1, <1>2, <1>3, PTL DEF InlineSpec

(* Whatever the paragraph: no byte of it belongs to two nodes, and when    *)
(* parseInlineRange has come to the end every byte belongs to one, but for *)
(* the white space a line break drops.                                     *)
THEOREM BytesAreKept == InlineSpec => []EveryByteOnce
<1>1. InlineInit => ByteInv
  BY StartByteInv, InlineAssumption
<1>2. ByteInv /\ [InlineNext]_allVars => ByteInv'
  BY StepByteInv
<1>3. ByteInv => EveryByteOnce
  <2> SUFFICES ASSUME ByteInv, NEW i \in 0 .. End - 1
      PROVE  LET owners == {n \in NodeIds : i \in Own(n)}
             IN  /\ Cardinality(owners) <= 1
                 /\ phase = "done" => owners # {} \/ Droppable(i)
    BY DEF EveryByteOnce
  <2> DEFINE owners == {n \in NodeIds : i \in Own(n)}
  <2>1. \A n : Own(n) = Holds(nodes[n])
    BY DEF Own, Holds
  <2>2. \A m, n \in owners : m = n
    BY <2>1 DEF ByteInv, Bytes, Held, NodeIds
  <2>3. Cardinality(owners) <= 1
    <3> HIDE DEF owners
    <3>1. CASE owners = {}
      BY <3>1, FS_EmptySet
    <3>2. CASE owners # {}
      <4>1. PICK n : owners = {n}
        BY <2>2, <3>2
      <4>2. Cardinality({n}) = 1
        BY FS_Singleton
      <4> QED
        BY <4>1, <4>2
    <3> QED
      BY <3>1, <3>2
  <2>4. ASSUME phase = "done" PROVE owners # {} \/ Droppable(i)
    <3>1. Len(frames) = 0
      BY <2>4 DEF ByteInv, TellInv, Shapes
    <3>2. \/ \E n \in 1 .. Len(nodes) : i \in Holds(nodes[n])
          \/ i \in Dropped
      BY <3>1 DEF ByteInv, Bytes, Held
    <3> QED
      BY <2>1, <3>2 DEF NodeIds, Dropped
  <2> QED
    BY <2>3, <2>4
<1> QED
  BY <1>1, <1>2, <1>3, PTL DEF InlineSpec

(* Whatever the paragraph: every turn of the loop of parseInlineRange, one *)
(* that descends or recovers included, and every round of planning leaves  *)
(* less to do, which is a number: parsing a paragraph comes to an end.     *)
THEOREM InlineParsingEnds == InlineSpec => InlineMakesProgress
<1>1. InlineInit => ByteInv
  BY StartByteInv, InlineAssumption
<1>2. ByteInv /\ [InlineNext]_allVars => ByteInv'
  BY StepByteInv
<1>3. ByteInv /\ ByteInv' /\ [InlineNext]_allVars => [Shrinks]_allVars
  <2> SUFFICES ASSUME ByteInv, ByteInv', InlineNext PROVE Shrinks
    OBVIOUS
  <2>1. /\ TellInv /\ Bytes /\ TellInv' /\ Bytes'
    BY DEF ByteInv
  <2>2. CASE Walks
    BY <2>1, <2>2, WalkTurns, TurnShrinks
  <2>3. CASE PlanStep \/ PlanDone
    BY <2>1, <2>3, PlanningTurnsShrink
  <2>4. CASE Return
    BY <2>1, <2>4, ReturnShrinks
  <2> QED
    BY <2>2, <2>3, <2>4 DEF InlineNext, Walks
<1>4. [][Shrinks]_allVars => InlineMakesProgress
  <2>1. [Shrinks]_allVars <=> [InlineWork' \in 0 .. InlineWork - 1]_allVars
    BY DEF Shrinks
  <2> QED
    BY <2>1, PTL DEF InlineMakesProgress
<1> QED
  BY <1>1, <1>2, <1>3, <1>4, PTL DEF InlineSpec
=============================================================================
