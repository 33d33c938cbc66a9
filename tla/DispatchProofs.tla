--------------------------- MODULE DispatchProofs ---------------------------
(***************************************************************************)
(* Of the registry: however many registrations there are, whoever makes    *)
(* them and whether or not a Freeze fails in between, accepted entries     *)
(* never conflict; so the order of a Set is total, and a byte's hooks are  *)
(* asked in one order.                                                     *)
(*                                                                         *)
(* Of the parser that asks them, for every source: the index of lines      *)
(* built for Position and the lines scanLines splits off agree about every *)
(* offset, and the offsets a block hook is shown are those of the bytes it *)
(* is shown, under any number of quote marks and through tabs; and what    *)
(* the hooks of both phases take, no other hook and no text gets again.    *)
(***************************************************************************)
EXTENDS ExtensionDispatch, Counting, TLAPS

(* What is stored and still to be tried is made of known registrations.    *)
EntriesWellFormed ==
  /\ entries \in Seq(Registration)
  /\ queue \in Seq(Attempts)

(* Trimming an ID leaves a registration. *)
LEMMA StoredIsRegistration ==
  ASSUME NEW r \in Registrations
  PROVE  Stored(r) \in Registration
BY RegistryAssumption DEF Stored, Registration, RegistryAssumption

(* An acceptable registration can be appended without a conflict: a byte   *)
(* that triggers both shows that the triggers overlap.                     *)
LEMMA AppendKeepsNoConflicts ==
  ASSUME EntriesWellFormed, NoConflicts, NEW r \in Registration, Acceptable(r),
         entries' = Append(entries, r)
  PROVE  entries' \in Seq(Registration) /\ NoConflicts'
<1>1. entries' \in Seq(Registration) /\ Len(entries') = Len(entries) + 1
  BY DEF EntriesWellFormed
<1>2. \A i \in 1 .. Len(entries) : entries'[i] = entries[i]
  BY DEF EntriesWellFormed
<1>3. entries'[Len(entries) + 1] = r
  BY DEF EntriesWellFormed
<1>4. \A i \in 1 .. Len(entries) : Apart(entries[i], r) /\ Apart(r, entries[i])
  <2>1. SUFFICES ASSUME NEW i \in 1 .. Len(entries)
                 PROVE  Apart(entries[i], r) /\ Apart(r, entries[i])
    OBVIOUS
  <2>2. entries[i] \in Entry
    BY DEF Entry
  <2>3. entries[i].id # r.id /\ ~Conflict(r, entries[i])
    BY <2>2 DEF Acceptable
  <2>4. ASSUME NEW byte \in Bytes, TriggeredBy(r, byte), TriggeredBy(entries[i], byte)
        PROVE  Overlap(entries[i].triggers, r.triggers)
    BY <2>4 DEF Overlap, TriggeredBy
  <2> QED
    BY <2>3, <2>4 DEF Conflict, Apart
<1>5. NoConflicts'
  <2>1. SUFFICES ASSUME NEW i \in 1 .. Len(entries'), NEW j \in 1 .. Len(entries'), i # j
                 PROVE  Apart(entries'[i], entries'[j])
    BY DEF NoConflicts, Apart, TriggeredBy
  <2>2. Len(entries) \in Nat
    BY DEF EntriesWellFormed
  <2>3. CASE i <= Len(entries) /\ j <= Len(entries)
    <3>1. i \in 1 .. Len(entries) /\ j \in 1 .. Len(entries)
      BY <1>1, <2>2, <2>3
    <3> QED
      BY <1>2, <2>1, <3>1 DEF NoConflicts
  <2>4. CASE i = Len(entries) + 1
    <3>1. j \in 1 .. Len(entries)
      BY <1>1, <2>1, <2>2, <2>4
    <3> QED
      BY <1>2, <1>3, <1>4, <2>4, <3>1
  <2>5. CASE j = Len(entries) + 1
    <3>1. i \in 1 .. Len(entries)
      BY <1>1, <2>1, <2>2, <2>5
    <3> QED
      BY <1>2, <1>3, <1>4, <2>5, <3>1
  <2> QED
    BY <1>1, <2>2, <2>3, <2>4, <2>5
<1> QED
  BY <1>1, <1>5

(* For every set of extensions, no two accepted registrations share an ID, *)
(* or a byte at one phase and priority: the invariant that lets a Set have *)
(* one order and every hook its place in it.                               *)
THEOREM RegistryNeverConflicts == RegistrySpec => [](EntriesWellFormed /\ NoConflicts)
<1>1. RegistryInit => EntriesWellFormed /\ NoConflicts
  BY DEF RegistryInit, EntriesWellFormed, NoConflicts
<1>2. EntriesWellFormed /\ NoConflicts /\ [RegistryNext]_registryVars
        => (EntriesWellFormed /\ NoConflicts)'
  <2>1. SUFFICES ASSUME EntriesWellFormed, NoConflicts, [RegistryNext]_registryVars
                 PROVE  EntriesWellFormed' /\ NoConflicts'
    OBVIOUS
  <2>2. ASSUME NEW r \in Registrations, Register(r) PROVE EntriesWellFormed' /\ NoConflicts'
    <3>1. Stored(r) \in Registration
      BY StoredIsRegistration
    <3>2. entries' \in Seq(Registration) /\ NoConflicts'
      BY <2>1, <2>2, <3>1, AppendKeepsNoConflicts DEF Register
    <3> QED
      BY <2>1, <2>2, <3>2 DEF Register, EntriesWellFormed
  <2>3. ASSUME NEW call \in FreezeCalls, Freeze(call) PROVE EntriesWellFormed' /\ NoConflicts'
    <3>1. call \in Seq(Attempts)
      BY RegistryAssumption DEF RegistryAssumption
    <3> QED
      BY <2>1, <2>3, <3>1 DEF Freeze, EntriesWellFormed, NoConflicts, Apart, TriggeredBy
  <2>4. CASE ExtensionRegisters
    <3>1. Head(queue) \in Attempts /\ Tail(queue) \in Seq(Attempts)
      BY <2>1, <2>4 DEF ExtensionRegisters, Trying, EntriesWellFormed
    <3>2. Stored(Head(queue).registration) \in Registration
      BY <3>1, StoredIsRegistration DEF Attempts
    <3>3. entries' \in Seq(Registration) /\ NoConflicts'
      BY <2>1, <2>4, <3>2, AppendKeepsNoConflicts DEF ExtensionRegisters
    <3> QED
      BY <2>4, <3>1, <3>3 DEF ExtensionRegisters, EntriesWellFormed
  <2>5. CASE ExtensionIgnoresRefusal
    <3>1. Tail(queue) \in Seq(Attempts)
      BY <2>1, <2>5 DEF ExtensionIgnoresRefusal, Trying, EntriesWellFormed
    <3> QED
      BY <2>1, <2>5, <3>1 DEF ExtensionIgnoresRefusal, EntriesWellFormed, NoConflicts, Apart, TriggeredBy
  <2>6. CASE FreezeFails
    BY <2>1, <2>6 DEF FreezeFails, EntriesWellFormed, NoConflicts, Apart, TriggeredBy
  <2>7. CASE FreezeReturns
    BY <2>1, <2>7 DEF FreezeReturns, EntriesWellFormed, NoConflicts, Apart, TriggeredBy
  <2>8. CASE UNCHANGED registryVars
    BY <2>1, <2>8 DEF registryVars, EntriesWellFormed, NoConflicts, Apart, TriggeredBy
  <2> QED
    BY <2>1, <2>2, <2>3, <2>4, <2>5, <2>6, <2>7, <2>8 DEF RegistryNext
<1> QED
  BY <1>1, <1>2, PTL DEF RegistrySpec
-----------------------------------------------------------------------------
(* The order of a Set: entries of their own IDs are totally ordered by     *)
(* phase, priority and ID, so each has a rank and each rank an entry.      *)
Before == {x \in Entry \X Entry : Precedes(x[1], x[2])}

LEMMA EntriesTyped ==
  ASSUME EntriesWellFormed
  PROVE  /\ Len(entries) \in Nat /\ \A i \in 1 .. Len(entries) : entries[i] \in Entry
         /\ \A r \in Entry : r.id \in Nat /\ r.phase \in Nat /\ r.priority \in Int
<1>1. entries \in Seq(Registration) /\ Len(entries) \in Nat
  BY DEF EntriesWellFormed
<1>2. \A i \in 1 .. Len(entries) : entries[i] \in Registration
  BY <1>1
<1>3. \A r \in Registration : r.id \in Nat /\ r.phase \in Nat /\ r.priority \in Int
  BY DEF Registration
<1> QED
  BY <1>1, <1>2, <1>3 DEF Entry

LEMMA EntriesCounted ==
  ASSUME EntriesWellFormed, NoConflicts
  PROVE  /\ IsFiniteSet(Entry) /\ Cardinality(Entry) = Len(entries)
         /\ \A r, e \in Entry : r # e => Apart(r, e)
<1> DEFINE n == Len(entries)
           Index == 1 .. n
           entry == [i \in Index |-> entries[i]]
<1>1. n \in Nat /\ \A i \in Index : entries[i] \in Entry
  BY EntriesTyped
<1>2. \A i, j \in Index : i # j => Apart(entries[i], entries[j])
  BY DEF NoConflicts
<1>3. \A i, j \in Index : entries[i] = entries[j] => i = j
  BY <1>2 DEF Apart
<1>4. IsFiniteSet(Index) /\ Cardinality(Index) = n
  <2> HIDE DEF n
  <2>1. IsFiniteSet(1 .. n) /\ Cardinality(1 .. n) = IF 1 > n THEN 0 ELSE n - 1 + 1
    BY <1>1, FS_Interval
  <2> QED
    BY <1>1, <2>1
<1>5. \A r \in Entry : \E i \in Index : entry[i] = r
  BY DEF Entry
<1>6. entry \in [Index -> Entry] /\ \A i, j \in Index : entry[i] = entry[j] => i = j
  BY <1>1, <1>3
<1> HIDE DEF entry
<1>7. entry \in Bijection(Index, Entry)
  BY <1>5, <1>6, Fun_IsBij
<1>8. ExistsBijection(Index, Entry)
  BY <1>7 DEF ExistsBijection
<1>9. IsFiniteSet(Entry) /\ Cardinality(Entry) = n
  BY <1>4, <1>8, FS_Bijection
<1>10. \A r, e \in Entry : r # e => Apart(r, e)
  BY <1>2 DEF Entry
<1> QED
  BY <1>9, <1>10

LEMMA EntriesOrdered ==
  ASSUME EntriesWellFormed, NoConflicts
  PROVE  /\ TotalOrder(Entry, Before)
         /\ \A r \in Entry : Rank(r) = RankIn(Entry, Before, r)
         /\ \A r, e \in Entry : <<r, e>> \in Before <=> Precedes(r, e)
<1>1. \A r, e \in Entry : <<r, e>> \in Before <=> Precedes(r, e)
  BY DEF Before
<1>2. \A r \in Entry : r.id \in Nat /\ r.phase \in Nat /\ r.priority \in Int
  BY EntriesTyped
<1>3. \A r, e \in Entry : r # e => r.id # e.id
  BY EntriesCounted DEF Apart
<1>4. \A r \in Entry : ~Precedes(r, r)
  BY <1>2 DEF Precedes
<1>5. \A r, e \in Entry : r # e => Precedes(r, e) \/ Precedes(e, r)
  BY <1>2, <1>3 DEF Precedes
<1>6. \A r, e, t \in Entry : Precedes(r, e) /\ Precedes(e, t) => Precedes(r, t)
  BY <1>2 DEF Precedes
<1>7. Before \in SUBSET (Entry \X Entry)
  BY DEF Before
<1>8. TotalOrder(Entry, Before)
  BY <1>1, <1>4, <1>5, <1>6, <1>7 DEF TotalOrder
<1>9. \A r \in Entry : Rank(r) = RankIn(Entry, Before, r)
  <2> TAKE r \in Entry
  <2>1. {e \in Entry : Precedes(e, r)} = {e \in Entry : <<e, r>> \in Before}
    BY <1>1
  <2> QED
    BY <2>1 DEF Rank, RankIn
<1> QED
  BY <1>1, <1>8, <1>9

(* Sorting loses no entry, adds none and puts each behind those before it. *)
LEMMA SortingOrders ==
  ASSUME EntriesWellFormed, NoConflicts
  PROVE  LET s == Sorted(entries)
         IN  /\ Len(s) = Len(entries)
             /\ {s[k] : k \in 1 .. Len(s)} = Entry
             /\ \A k, l \in 1 .. Len(s) : k < l => Precedes(s[k], s[l]) /\ s[k] # s[l]
<1> DEFINE n == Len(entries)
           At(k) == CHOOSE r \in Entry : Rank(r) = k - 1
           s == Sorted(entries)
<1>1. n \in Nat /\ IsFiniteSet(Entry) /\ Cardinality(Entry) = n
  BY EntriesTyped, EntriesCounted
<1>2. \A r, e \in Entry : /\ Rank(r) \in 0 .. n - 1
                          /\ Precedes(r, e) <=> Rank(r) < Rank(e)
                          /\ r # e => Precedes(r, e) \/ Precedes(e, r)
  <2> TAKE r, e \in Entry
  <2>1. /\ TotalOrder(Entry, Before) /\ Rank(r) = RankIn(Entry, Before, r)
        /\ Rank(e) = RankIn(Entry, Before, e)
        /\ <<r, e>> \in Before <=> Precedes(r, e)
        /\ <<e, r>> \in Before <=> Precedes(e, r)
    BY EntriesOrdered
  <2>2. /\ RankIn(Entry, Before, r) \in 0 .. Cardinality(Entry) - 1
        /\ <<r, e>> \in Before <=> RankIn(Entry, Before, r) < RankIn(Entry, Before, e)
    BY <1>1, <2>1, RanksGrow
  <2>3. r # e => <<r, e>> \in Before \/ <<e, r>> \in Before
    BY <2>1 DEF TotalOrder
  <2> QED
    BY <1>1, <2>1, <2>2, <2>3
<1>3. \A k \in 1 .. n : At(k) \in Entry /\ Rank(At(k)) = k - 1
  <2> TAKE k \in 1 .. n
  <2>1. k - 1 \in 0 .. Cardinality(Entry) - 1
    BY <1>1
  <2>2. \E r \in Entry : RankIn(Entry, Before, r) = k - 1
    BY <1>1, <2>1, EntriesOrdered, EveryRankIsTaken
  <2>3. \E r \in Entry : Rank(r) = k - 1
    BY <2>2, EntriesOrdered
  <2> QED
    BY <2>3
<1>4. s = [k \in 1 .. n |-> At(k)]
  BY DEF Sorted
<1> HIDE DEF At, s
<1>5. s \in Seq(Entry) /\ Len(s) = n /\ \A k \in 1 .. n : s[k] = At(k)
  BY <1>1, <1>3, <1>4
<1>6. ASSUME NEW r \in Entry PROVE \E k \in 1 .. n : s[k] = r
  <2>1. Rank(r) \in 0 .. n - 1
    BY <1>2
  <2>2. Rank(r) + 1 \in 1 .. n /\ (Rank(r) + 1) - 1 = Rank(r)
    BY <1>1, <2>1
  <2>3. At(Rank(r) + 1) \in Entry /\ Rank(At(Rank(r) + 1)) = Rank(r)
    BY <1>3, <2>2
  <2>4. ~(Rank(r) < Rank(r))
    BY <2>1
  <2>5. At(Rank(r) + 1) = r
    BY <1>2, <2>3, <2>4
  <2> QED
    BY <1>5, <2>2, <2>5
<1>7. {s[k] : k \in 1 .. Len(s)} = Entry
  BY <1>3, <1>5, <1>6
<1>8. ASSUME NEW k \in 1 .. n, NEW l \in 1 .. n, k < l
      PROVE  Precedes(s[k], s[l]) /\ s[k] # s[l]
  <2>1. /\ At(k) \in Entry /\ Rank(At(k)) = k - 1
        /\ At(l) \in Entry /\ Rank(At(l)) = l - 1
    BY <1>3
  <2>2. Rank(At(k)) < Rank(At(l))
    BY <1>1, <1>8, <2>1
  <2>3. Precedes(At(k), At(l)) /\ At(k) # At(l)
    BY <1>2, <2>1, <2>2
  <2> QED
    BY <1>5, <2>3
<1> QED
  BY <1>5, <1>7, <1>8 DEF s

(* A Set once made is that of the entries, which no longer change.         *)
SetIsSorted == frozen => set = Sorted(entries)

DispatchInv == EntriesWellFormed /\ NoConflicts /\ SetIsSorted

LEMMA SortedDetermines == ASSUME DispatchInv PROVE DispatchIsDetermined
<1> SUFFICES ASSUME frozen
             PROVE  /\ \A i, j \in 1 .. Len(set) : i < j /\ set[i].phase = set[j].phase =>
                         \A byte \in Bytes : TriggeredBy(set[i], byte) /\ TriggeredBy(set[j], byte) =>
                           set[i].priority < set[j].priority
                    /\ {set[k] : k \in 1 .. Len(set)} = Entry
                    /\ Len(set) = Len(entries)
  BY DEF DispatchIsDetermined
<1>1. EntriesWellFormed /\ NoConflicts /\ set = Sorted(entries)
  BY DEF DispatchInv, SetIsSorted
<1>2. /\ Len(set) = Len(entries) /\ {set[k] : k \in 1 .. Len(set)} = Entry
      /\ \A k, l \in 1 .. Len(set) : k < l => Precedes(set[k], set[l]) /\ set[k] # set[l]
  BY <1>1, SortingOrders
<1>3. ASSUME NEW i \in 1 .. Len(set), NEW j \in 1 .. Len(set), i < j,
             set[i].phase = set[j].phase, NEW byte \in Bytes,
             TriggeredBy(set[i], byte), TriggeredBy(set[j], byte)
      PROVE  set[i].priority < set[j].priority
  <2>1. set[i] \in Entry /\ set[j] \in Entry /\ set[i] # set[j] /\ Precedes(set[i], set[j])
    BY <1>2, <1>3
  <2>2. Apart(set[i], set[j])
    BY <1>1, <2>1, EntriesCounted
  <2>3. set[i].priority # set[j].priority
    BY <1>3, <2>2 DEF Apart
  <2>4. set[i].phase \in Nat
    BY <1>1, <2>1, EntriesTyped
  <2> QED
    BY <1>3, <2>1, <2>3, <2>4 DEF Precedes
<1> QED
  BY <1>2, <1>3

(* For every set of extensions, a sealed registry holds what was accepted  *)
(* and nothing else, and asks the hooks a byte triggers in the order of    *)
(* their priorities, all different.                                        *)
THEOREM DispatchHasOneOrder == RegistrySpec => []DispatchIsDetermined
<1>1. RegistryInit => SetIsSorted
  BY DEF RegistryInit, SetIsSorted
<1>2. SetIsSorted /\ [RegistryNext]_registryVars => SetIsSorted'
  <2> SUFFICES ASSUME SetIsSorted, [RegistryNext]_registryVars PROVE SetIsSorted'
    OBVIOUS
  <2>1. ASSUME entries' = entries PROVE Sorted(entries)' = Sorted(entries)
    BY <2>1 DEF Sorted, Rank, Entry
  <2>2. ASSUME NEW r \in Registrations, Register(r) PROVE SetIsSorted'
    BY <2>2 DEF Register, Acceptable, SetIsSorted
  <2>3. ASSUME NEW call \in FreezeCalls, Freeze(call) PROVE SetIsSorted'
    BY <2>3 DEF Freeze, SetIsSorted
  <2>4. CASE ExtensionRegisters
    BY <2>4 DEF ExtensionRegisters, Acceptable, SetIsSorted
  <2>5. CASE ExtensionIgnoresRefusal
    BY <2>1, <2>5 DEF ExtensionIgnoresRefusal, SetIsSorted
  <2>6. CASE FreezeFails
    BY <2>1, <2>6 DEF FreezeFails, SetIsSorted
  <2>7. CASE FreezeReturns
    BY <2>1, <2>7 DEF FreezeReturns, SetIsSorted
  <2>8. CASE UNCHANGED registryVars
    BY <2>1, <2>8 DEF registryVars, SetIsSorted
  <2> QED
    BY <2>2, <2>3, <2>4, <2>5, <2>6, <2>7, <2>8 DEF RegistryNext
<1>3. EntriesWellFormed /\ NoConflicts /\ SetIsSorted => DispatchIsDetermined
  BY SortedDetermines DEF DispatchInv
<1>4. RegistrySpec => []SetIsSorted
  BY <1>1, <1>2, PTL DEF RegistrySpec
<1> QED
  BY <1>3, <1>4, RegistryNeverConflicts, PTL
-----------------------------------------------------------------------------
(* Sets of numbers.                                                        *)
LEMMA MinIs ==
  ASSUME NEW S \in SUBSET Nat, S # {}
  PROVE  Min(S) \in S /\ \A x \in S : Min(S) <= x
<1>1. \E m \in S : \A x \in S : m <= x
  BY SmallestExists
<1> QED
  BY <1>1 DEF Min

LEMMA MaxIs ==
  ASSUME NEW S \in SUBSET Nat, S # {}, NEW bound \in Nat, \A x \in S : x <= bound
  PROVE  Max(S) \in S /\ \A x \in S : x <= Max(S)
<1>1. \E m \in S : \A x \in S : x <= m
  BY LargestExists
<1>2. \E m \in S : \A x \in S : m >= x
  BY <1>1
<1> QED
  BY <1>2 DEF Max

LEMMA LargerOf ==
  ASSUME NEW x \in Int
  PROVE  Max({0, x}) = IF x > 0 THEN x ELSE 0
<1>1. \E m \in {0, x} : \A y \in {0, x} : m >= y
  OBVIOUS
<1> QED
  BY <1>1 DEF Max

LEMMA SmallerOf ==
  ASSUME NEW x \in Int, NEW y \in Int
  PROVE  Min({x, y}) = IF x <= y THEN x ELSE y
<1>1. \E m \in {x, y} : \A z \in {x, y} : m <= z
  OBVIOUS
<1> QED
  BY <1>1 DEF Min

(* Ascending loses no number, adds none and puts each behind the smaller.  *)
LEMMA AscendingSorts ==
  ASSUME NEW S \in SUBSET Nat, IsFiniteSet(S)
  PROVE  /\ Cardinality(S) \in Nat /\ Ascending(S) \in Seq(S) /\ Len(Ascending(S)) = Cardinality(S)
         /\ \A k \in 1 .. Cardinality(S) : Ascending(S)[k] \in S
         /\ \A x \in S : \E k \in 1 .. Cardinality(S) : Ascending(S)[k] = x
         /\ \A k, l \in 1 .. Cardinality(S) : k < l => Ascending(S)[k] < Ascending(S)[l]
<1> DEFINE before == {p \in S \X S : p[1] < p[2]}
           Place(x) == Cardinality({y \in S : y < x})
           At(k) == CHOOSE x \in S : Place(x) = k - 1
           n == Cardinality(S)
<1>1. n \in Nat
  BY FS_CardinalityType
<1>2. \A x, y \in S : <<x, y>> \in before <=> x < y
  OBVIOUS
<1>3. TotalOrder(S, before)
  BY DEF TotalOrder
<1>4. \A x \in S : Place(x) = RankIn(S, before, x)
  <2> TAKE x \in S
  <2>1. {y \in S : y < x} = {y \in S : <<y, x>> \in before}
    BY <1>2
  <2> QED
    BY <2>1 DEF RankIn
<1>5. \A x, y \in S : Place(x) \in 0 .. n - 1 /\ (y < x <=> Place(y) < Place(x))
  <2> TAKE x, y \in S
  <2> HIDE DEF before
  <2>1. /\ RankIn(S, before, x) \in 0 .. Cardinality(S) - 1
        /\ <<y, x>> \in before <=> RankIn(S, before, y) < RankIn(S, before, x)
    BY <1>3, RanksGrow
  <2> QED
    BY <1>2, <1>4, <2>1
<1>6. \A k \in 1 .. n : At(k) \in S /\ Place(At(k)) = k - 1
  <2> TAKE k \in 1 .. n
  <2>1. k - 1 \in 0 .. Cardinality(S) - 1
    BY <1>1
  <2>2. \E r \in S : RankIn(S, before, r) = k - 1
    <3> HIDE DEF before
    <3> QED
      BY <1>3, <2>1, EveryRankIsTaken
  <2>3. \E r \in S : Place(r) = k - 1
    BY <1>4, <2>2
  <2> QED
    BY <2>3
<1>7. PICK s : s = Ascending(S)
  OBVIOUS
<1>8. s = [k \in 1 .. n |-> At(k)]
  BY <1>7 DEF Ascending
<1> HIDE DEF At, Place, n
<1>9. s \in Seq(S) /\ Len(s) = n /\ \A k \in 1 .. n : s[k] = At(k) /\ s[k] \in S
  BY <1>1, <1>6, <1>8
<1>10. ASSUME NEW x \in S PROVE \E k \in 1 .. n : s[k] = x
  <2>1. Place(x) + 1 \in 1 .. n /\ (Place(x) + 1) - 1 = Place(x)
    BY <1>1, <1>5
  <2>2. At(Place(x) + 1) \in S /\ Place(At(Place(x) + 1)) = Place(x)
    BY <1>6, <2>1
  <2>3. At(Place(x) + 1) = x
    <3>1. PICK z : z = At(Place(x) + 1)
      OBVIOUS
    <3>2. z \in S /\ Place(z) = Place(x)
      BY <2>2, <3>1
    <3>3. Place(x) \in Int
      BY <1>1, <1>5
    <3>4. ~(Place(x) < Place(x))
      BY <3>3
    <3>5. ~(z < x) /\ ~(x < z)
      BY <1>5, <3>2, <3>4
    <3>6. z \in Nat /\ x \in Nat
      BY <3>2
    <3> QED
      BY <3>1, <3>5, <3>6
  <2> QED
    BY <1>9, <2>1, <2>3
<1>11. ASSUME NEW k \in 1 .. n, NEW l \in 1 .. n, k < l PROVE s[k] < s[l]
  <2>1. /\ At(k) \in S /\ Place(At(k)) = k - 1
        /\ At(l) \in S /\ Place(At(l)) = l - 1
    BY <1>6
  <2>2. Place(At(k)) < Place(At(l))
    BY <1>1, <1>11, <2>1
  <2>3. At(k) < At(l)
    BY <1>5, <2>1, <2>2
  <2> QED
    BY <1>9, <2>3
<1> QED
  BY <1>1, <1>7, <1>9, <1>10, <1>11 DEF n
-----------------------------------------------------------------------------
(* Lines of a source.                                                      *)
(* The provers do not know of a literal that it is a string.               *)
Byte == STRING \cup {" "}
IsSource(src) == src \in Seq(Byte)

LineRecord ==
  [start : Nat, end : Nat, newlineEnd : Nat, logical : Seq(Byte), offsets : Seq(Int)]

LEMMA LineIs ==
  ASSUME NEW src, IsSource(src), NEW start \in 0 .. Len(src), NEW line, line = LineFrom(src, start)
  PROVE  /\ line.start = start /\ line.end \in start .. Len(src)
         /\ line.newlineEnd \in line.end .. Len(src)
         /\ line.logical \in Seq(Byte) /\ Len(line.logical) = line.end - start
         /\ \A k \in 1 .. line.end - start : line.logical[k] = src[start + k]
         /\ DOMAIN line.offsets = 1 .. line.end - start + 1
         /\ Len(line.offsets) = line.end - start + 1
         /\ \A k \in 1 .. line.end - start + 1 : line.offsets[k] = start + k - 1
         /\ \A i \in start .. line.newlineEnd - 2 : i \notin LineEndings(src)
         /\ \/ line.newlineEnd = Len(src)
            \/ line.newlineEnd > start /\ line.newlineEnd - 1 \in LineEndings(src)
         /\ start < Len(src) => line.newlineEnd > start
         /\ line.end < line.newlineEnd \/ line.end = Len(src)
         /\ line \in LineRecord
<1> USE DEF IsSource
<1> DEFINE ahead == {i \in LineEndings(src) : i >= start}
           newline == IF ahead = {} THEN Len(src) ELSE Min(ahead)
           end == IF newline > start /\ ByteAt(src, newline - 1) = "cr" THEN newline - 1 ELSE newline
           behind == IF ahead = {} THEN newline ELSE newline + 1
<1>1. Len(src) \in Nat /\ start \in Nat
  OBVIOUS
<1>2. /\ newline \in start .. Len(src) /\ \A i \in start .. newline - 1 : i \notin LineEndings(src)
      /\ ahead # {} => newline \in LineEndings(src) /\ newline < Len(src)
  <2>1. CASE ahead = {}
    BY <2>1
  <2>2. CASE ahead # {}
    <3>1. ahead \in SUBSET Nat
      BY DEF LineEndings
    <3>2. Min(ahead) \in ahead /\ \A x \in ahead : Min(ahead) <= x
      <4> HIDE DEF ahead
      <4> QED
        BY <2>2, <3>1, MinIs
    <3>3. newline = Min(ahead)
      BY <2>2
    <3>4. newline \in LineEndings(src) /\ newline >= start /\ newline < Len(src)
      BY <3>2, <3>3 DEF LineEndings
    <3>6. newline \in Nat
      BY <3>1, <3>2, <3>3
    <3>5. ASSUME NEW i \in start .. newline - 1 PROVE i \notin LineEndings(src)
      <4> SUFFICES ASSUME i \in LineEndings(src) PROVE FALSE
        OBVIOUS
      <4>1. i \in ahead
        BY <1>1, <3>6
      <4>2. newline <= i
        BY <3>2, <3>3, <4>1
      <4>3. i < newline
        <5> HIDE DEF newline
        <5> QED
          BY <1>1, <3>6
      <4>4. i \in Int
        <5> HIDE DEF newline
        <5> QED
          BY <1>1, <3>6
      <4> QED
        BY <3>6, <4>2, <4>3, <4>4
    <3> QED
      BY <3>4, <3>5, <3>6
  <2> QED
    BY <2>1, <2>2
<1>3. line = [start |-> start, end |-> end, newlineEnd |-> behind,
              logical |-> SubSeq(src, start + 1, end),
              offsets |-> [k \in 1 .. end - start + 1 |-> start + k - 1]]
  BY DEF LineFrom
<1> HIDE DEF newline
<1>4. end \in start .. Len(src) /\ end <= newline
  BY <1>1, <1>2
<1>5. behind \in end .. Len(src) /\ behind >= newline /\ behind <= newline + 1
  BY <1>1, <1>2, <1>4
<1>7. /\ \A i \in start .. behind - 2 : i \notin LineEndings(src)
      /\ behind = Len(src) \/ (behind > start /\ behind - 1 \in LineEndings(src))
      /\ start < Len(src) => behind > start
      /\ end < behind \/ end = Len(src)
  <2>1. CASE ahead = {}
    <3>1. newline = Len(src) /\ behind = newline
      BY <2>1 DEF newline
    <3>2. end < newline \/ end = newline
      BY <1>1, <1>2
    <3> QED
      BY <1>1, <1>2, <3>1, <3>2
  <2>2. CASE ahead # {}
    <3>1. behind = newline + 1 /\ newline \in LineEndings(src) /\ newline < Len(src)
      BY <1>2, <2>2
    <3> QED
      BY <1>1, <1>2, <1>4, <3>1
  <2> QED
    BY <2>1, <2>2
<1> HIDE DEF end, behind
<1>8. PICK e, b : e = end /\ b = behind
  OBVIOUS
<1>9. e \in Nat /\ start <= e /\ e <= Len(src)
  BY <1>1, <1>4, <1>8
<1>15. b \in Nat /\ e <= b /\ b <= Len(src)
  BY <1>1, <1>4, <1>5, <1>8, <1>9
<1>10. PICK l : l = SubSeq(src, start + 1, e)
  OBVIOUS
<1>11. l \in Seq(Byte) /\ Len(l) = e - start /\ \A k \in 1 .. e - start : l[k] = src[start + k]
  BY <1>1, <1>9, <1>10
<1>12. PICK o : o = [k \in 1 .. e - start + 1 |-> start + k - 1]
  OBVIOUS
<1>13. /\ DOMAIN o = 1 .. e - start + 1 /\ Len(o) = e - start + 1
       /\ \A k \in 1 .. e - start + 1 : o[k] = start + k - 1
  BY <1>1, <1>9, <1>12
<1>14. line = [start |-> start, end |-> e, newlineEnd |-> b, logical |-> l, offsets |-> o]
  BY <1>3, <1>8, <1>10, <1>12
<1>16. /\ line.start = start /\ line.end = e /\ line.newlineEnd = b /\ line.logical = l
       /\ line.offsets = o
  BY <1>14
<1>17. line \in LineRecord
  <2>1. o \in Seq(Int)
    BY <1>1, <1>9, <1>12
  <2> QED
    BY <1>1, <1>9, <1>11, <1>14, <1>15, <2>1 DEF LineRecord
<1>18. /\ \A i \in start .. b - 2 : i \notin LineEndings(src)
       /\ b = Len(src) \/ (b > start /\ b - 1 \in LineEndings(src))
       /\ start < Len(src) => b > start
       /\ e < b \/ e = Len(src)
  BY <1>7, <1>8
<1> QED
  BY <1>9, <1>11, <1>13, <1>15, <1>16, <1>17, <1>18
-----------------------------------------------------------------------------
(* The lines scanLines finds, and where they start.                        *)
Starts(src) == ({0} \cup {i + 1 : i \in LineEndings(src)}) \ {Len(src)}

LEMMA StartsAre ==
  ASSUME NEW src, IsSource(src)
  PROVE  /\ Len(src) \in Nat /\ \A i \in LineEndings(src) : i \in Nat /\ i < Len(src)
         /\ Starts(src) \in SUBSET Nat /\ \A s \in Starts(src) : s < Len(src) /\ s \in 0 .. Len(src)
         /\ {i + 1 : i \in LineEndings(src)} \in SUBSET Nat
         /\ IsFiniteSet(Starts(src)) /\ IsFiniteSet({i + 1 : i \in LineEndings(src)})
<1>1. Len(src) \in Nat
  BY DEF IsSource
<1>2. LineEndings(src) \subseteq 0 .. Len(src) - 1
  BY DEF LineEndings
<1>3. {i + 1 : i \in LineEndings(src)} \subseteq 0 .. Len(src) /\ Starts(src) \subseteq 0 .. Len(src)
  BY <1>1, <1>2 DEF Starts
<1>4. IsFiniteSet(0 .. Len(src))
  BY <1>1, FS_Interval
<1>5. IsFiniteSet(Starts(src)) /\ IsFiniteSet({i + 1 : i \in LineEndings(src)})
  BY <1>3, <1>4, FS_Subset
<1>6. \A s \in Starts(src) : s # Len(src)
  BY DEF Starts
<1> QED
  BY <1>1, <1>2, <1>3, <1>5, <1>6

LEMMA ScanIs ==
  ASSUME NEW src, IsSource(src), NEW lines, lines = ScanLines(src)
  PROVE  /\ lines \in Seq(LineRecord) /\ Len(lines) = Cardinality(Starts(src))
         /\ \A n \in 1 .. Len(lines) :
              /\ lines[n] = LineFrom(src, lines[n].start) /\ lines[n].start \in Starts(src)
              /\ lines[n].start = Ascending(Starts(src))[n]
         /\ \A s \in Starts(src) : \E n \in 1 .. Len(lines) : lines[n] = LineFrom(src, s)
         /\ \A m, n \in 1 .. Len(lines) : m < n =>
              lines[m].start < lines[n].start /\ lines[m].newlineEnd <= lines[n].start
<1> DEFINE S == Starts(src)
           N == Cardinality(S)
<1>1. S \in SUBSET Nat /\ IsFiniteSet(S) /\ Len(src) \in Nat /\ \A s \in S : s \in 0 .. Len(src)
  BY StartsAre
<1>2. /\ N \in Nat
      /\ \A k \in 1 .. N : Ascending(S)[k] \in S
      /\ \A x \in S : \E k \in 1 .. N : Ascending(S)[k] = x
      /\ \A k, l \in 1 .. N : k < l => Ascending(S)[k] < Ascending(S)[l]
  BY <1>1, AscendingSorts
<1>3. lines = [n \in 1 .. N |-> LineFrom(src, Ascending(S)[n])]
  BY DEF ScanLines, Starts
<1> HIDE DEF S, N
<1>4. ASSUME NEW n \in 1 .. N
      PROVE  /\ lines[n] = LineFrom(src, lines[n].start) /\ lines[n].start = Ascending(S)[n]
             /\ lines[n].start \in S /\ lines[n] \in LineRecord
  <2>1. Ascending(S)[n] \in S
    BY <1>2
  <2>2. Ascending(S)[n] \in 0 .. Len(src)
    BY <1>1, <2>1
  <2>3. lines[n] = LineFrom(src, Ascending(S)[n])
    BY <1>3
  <2>4. lines[n].start = Ascending(S)[n] /\ lines[n] \in LineRecord
    BY <2>2, <2>3, LineIs
  <2> QED
    BY <2>1, <2>3, <2>4
<1>5. lines \in Seq(LineRecord) /\ Len(lines) = N
  BY <1>2, <1>3, <1>4
<1>6. ASSUME NEW s \in S PROVE \E n \in 1 .. N : lines[n] = LineFrom(src, s)
  BY <1>2, <1>3
<1>7. ASSUME NEW m \in 1 .. N, NEW n \in 1 .. N, m < n
      PROVE  lines[m].start < lines[n].start /\ lines[m].newlineEnd <= lines[n].start
  <2>1. PICK a, b : a = lines[m].start /\ b = lines[n].start
    OBVIOUS
  <2>2. a \in S /\ b \in S /\ a < b /\ lines[m] = LineFrom(src, a)
    BY <1>2, <1>4, <1>7, <2>1
  <2>3. a \in 0 .. Len(src) /\ a \in Nat /\ b \in Nat
    BY <1>1, <2>2
  <2>4. PICK e : e = lines[m].newlineEnd
    OBVIOUS
  <2>5. e \in Nat /\ \A i \in a .. e - 2 : i \notin LineEndings(src)
    <3>1. lines[m].end \in Nat /\ e \in lines[m].end .. Len(src)
      BY <2>2, <2>3, <2>4, LineIs
    <3> QED
      BY <2>2, <2>3, <2>4, <3>1, LineIs
  <2>6. b - 1 \in LineEndings(src)
    <3>1. b # 0
      BY <2>2, <2>3
    <3>2. b \in {i + 1 : i \in LineEndings(src)}
      BY <2>2, <3>1 DEF S, Starts
    <3>3. PICK i \in LineEndings(src) : b = i + 1
      BY <3>2
    <3>4. \A j \in LineEndings(src) : j \in Nat
      BY StartsAre
    <3>5. i \in Nat
      BY <3>3, <3>4
    <3>6. b - 1 = i
      BY <3>3, <3>5
    <3> QED
      BY <3>3, <3>6
  <2>7. ~(e > b)
    <3> SUFFICES ASSUME e > b PROVE FALSE
      OBVIOUS
    <3>1. b - 1 \in a .. e - 2
      BY <2>2, <2>3, <2>5
    <3> QED
      BY <2>5, <2>6, <3>1
  <2>8. e <= b
    BY <2>3, <2>5, <2>7
  <2> QED
    BY <2>1, <2>2, <2>4, <2>8
<1> QED
  BY <1>4, <1>5, <1>6, <1>7 DEF S, N
-----------------------------------------------------------------------------
(* The search of Position.                                                 *)
Cuts(starts, offset, K) ==
  /\ K \in 0 .. Len(starts)
  /\ \A i \in 0 .. Len(starts) - 1 : StartsBehind(starts[i + 1], offset) <=> i >= K

Clamped(K, low, high) ==
  IF low >= high THEN low ELSE IF K < low THEN low ELSE IF K > high THEN high ELSE K

SearchStep(f, starts, offset, range) ==
  LET middle == (range[1] + range[2]) \div 2
  IN  IF range[1] >= range[2] THEN range[1]
      ELSE IF StartsBehind(starts[middle + 1], offset)
           THEN f[<<range[1], middle>>] ELSE f[<<middle + 1, range[2]>>]

Ranges(starts) == (0 .. Len(starts)) \X (0 .. Len(starts))
IsSearch(f, starts, offset) == f = [range \in Ranges(starts) |-> SearchStep(f, starts, offset, range)]

LEMMA StepHalves ==
  ASSUME NEW starts, Len(starts) \in Nat, NEW offset, NEW K, Cuts(starts, offset, K),
         NEW low \in 0 .. Len(starts), NEW high \in 0 .. Len(starts), low < high
  PROVE  LET middle == (low + high) \div 2
         IN  /\ middle \in low .. high - 1 /\ middle \in 0 .. Len(starts) /\ middle + 1 \in 0 .. Len(starts)
             /\ Clamped(K, low, high) = IF StartsBehind(starts[middle + 1], offset)
                                        THEN Clamped(K, low, middle) ELSE Clamped(K, middle + 1, high)
<1> DEFINE middle == (low + high) \div 2
<1>1. /\ middle \in low .. high - 1 /\ middle \in 0 .. Len(starts) - 1
      /\ middle + 1 \in 0 .. Len(starts)
  OBVIOUS
<1> HIDE DEF middle
<1>2. StartsBehind(starts[middle + 1], offset) <=> middle >= K
  BY <1>1 DEF Cuts
<1>4. K \in Int
  BY DEF Cuts
<1>5. Clamped(K, low, high) = IF StartsBehind(starts[middle + 1], offset)
                              THEN Clamped(K, low, middle) ELSE Clamped(K, middle + 1, high)
  <2>1. CASE middle >= K
    BY <1>1, <1>2, <1>4, <2>1 DEF Clamped
  <2>2. CASE ~(middle >= K)
    BY <1>1, <1>2, <1>4, <2>2 DEF Clamped
  <2> QED
    BY <2>1, <2>2
<1> QED
  BY <1>1, <1>5 DEF middle

LEMMA SearchFinds ==
  ASSUME NEW starts, Len(starts) \in Nat, NEW offset, NEW K, Cuts(starts, offset, K)
  PROVE  SearchStart(starts, offset) = K
<1> DEFINE L == Len(starts)
           g == [range \in Ranges(starts) |-> Clamped(K, range[1], range[2])]
<1>1. IsSearch(g, starts, offset)
  <2>1. \A low, high \in 0 .. L : g[<<low, high>>] = Clamped(K, low, high)
    BY DEF Ranges
  <2>2. ASSUME NEW low \in 0 .. L, NEW high \in 0 .. L
        PROVE  g[<<low, high>>] = SearchStep(g, starts, offset, <<low, high>>)
    <3> HIDE DEF g
    <3>1. CASE low >= high
      BY <2>1, <3>1 DEF SearchStep, Clamped
    <3>2. CASE low < high
      <4>1. PICK middle : middle = (low + high) \div 2
        OBVIOUS
      <4>2. middle \in 0 .. L /\ middle + 1 \in 0 .. L
        BY <3>2, <4>1
      <4>3. g[<<low, middle>>] = Clamped(K, low, middle) /\ g[<<middle + 1, high>>] = Clamped(K, middle + 1, high)
        BY <2>1, <4>2
      <4>4. Clamped(K, low, high) = IF StartsBehind(starts[middle + 1], offset)
                                    THEN Clamped(K, low, middle) ELSE Clamped(K, middle + 1, high)
        BY <3>2, <4>1, StepHalves
      <4>5. SearchStep(g, starts, offset, <<low, high>>) =
              IF StartsBehind(starts[middle + 1], offset)
              THEN g[<<low, middle>>] ELSE g[<<middle + 1, high>>]
        BY <3>2, <4>1 DEF SearchStep
      <4> QED
        BY <2>1, <4>3, <4>4, <4>5
    <3> QED
      BY <3>1, <3>2
  <2>3. \A range \in Ranges(starts) : range = <<range[1], range[2]>> /\ range[1] \in 0 .. L /\ range[2] \in 0 .. L
    BY DEF Ranges
  <2>4. \A range \in Ranges(starts) : g[range] = SearchStep(g, starts, offset, range)
    <3> HIDE DEF g
    <3> QED
      BY <2>2, <2>3
  <2>5. g = [range \in Ranges(starts) |-> g[range]]
    OBVIOUS
  <2> HIDE DEF g
  <2> QED
    BY <2>4, <2>5 DEF IsSearch
<1>2. PICK f : f = CHOOSE h : IsSearch(h, starts, offset)
  OBVIOUS
<1>3. IsSearch(f, starts, offset)
  <2> HIDE DEF g
  <2> QED
    BY <1>1, <1>2
<1>4. SearchStart(starts, offset) = f[<<0, L>>]
  BY <1>2 DEF SearchStart, IsSearch, SearchStep, Ranges
<1> HIDE DEF g
<1>5. \A low, high \in 0 .. L : f[<<low, high>>] = SearchStep(f, starts, offset, <<low, high>>)
  BY <1>3 DEF IsSearch, Ranges
<1> DEFINE Fine == {d \in Nat : \A low, high \in 0 .. L : high - low <= d => f[<<low, high>>] = Clamped(K, low, high)}
<1>6. 0 \in Fine
  <2> SUFFICES ASSUME NEW low \in 0 .. L, NEW high \in 0 .. L, high - low <= 0
               PROVE  f[<<low, high>>] = Clamped(K, low, high)
    OBVIOUS
  <2>1. low >= high
    OBVIOUS
  <2> QED
    BY <1>5, <2>1 DEF SearchStep, Clamped
<1>7. ASSUME NEW d \in Nat, d \in Fine PROVE d + 1 \in Fine
  <2> SUFFICES ASSUME NEW low \in 0 .. L, NEW high \in 0 .. L, high - low <= d + 1
               PROVE  f[<<low, high>>] = Clamped(K, low, high)
    OBVIOUS
  <2>1. CASE low >= high
    BY <1>5, <2>1 DEF SearchStep, Clamped
  <2>2. CASE low < high
    <3>1. PICK middle : middle = (low + high) \div 2
      OBVIOUS
    <3>2. /\ middle \in 0 .. L /\ middle + 1 \in 0 .. L
          /\ middle - low <= d /\ high - (middle + 1) <= d
      BY <2>2, <3>1
    <3>3. f[<<low, middle>>] = Clamped(K, low, middle) /\ f[<<middle + 1, high>>] = Clamped(K, middle + 1, high)
      BY <1>7, <3>2
    <3>4. SearchStep(f, starts, offset, <<low, high>>) = Clamped(K, low, high)
      <4>1. Clamped(K, low, high) = IF StartsBehind(starts[middle + 1], offset)
                                    THEN Clamped(K, low, middle) ELSE Clamped(K, middle + 1, high)
        BY <2>2, <3>1, StepHalves
      <4>2. SearchStep(f, starts, offset, <<low, high>>) =
              IF StartsBehind(starts[middle + 1], offset)
              THEN f[<<low, middle>>] ELSE f[<<middle + 1, high>>]
        BY <2>2, <3>1 DEF SearchStep
      <4> QED
        BY <3>3, <4>1, <4>2
    <3> QED
      BY <1>5, <3>4
  <2> QED
    BY <2>1, <2>2
<1>8. Nat \subseteq Fine
  <2> HIDE DEF Fine
  <2> QED
    BY <1>6, <1>7, SetInduction
<1>9. f[<<0, L>>] = Clamped(K, 0, L)
  <2>1. L \in Fine /\ 0 \in 0 .. L /\ L \in 0 .. L /\ L - 0 <= L
    BY <1>8
  <2> QED
    BY <2>1
<1>10. Clamped(K, 0, L) = K
  BY DEF Clamped, Cuts
<1> QED
  BY <1>4, <1>9, <1>10
-----------------------------------------------------------------------------
(* Where Position looks for lines.                                         *)
Rising(s) ==
  /\ Len(s) \in Nat /\ \A i \in 1 .. Len(s) : s[i] \in Nat
  /\ \A i, j \in 1 .. Len(s) : i < j => s[i] < s[j]

Among(a, b) == \A k \in 1 .. Len(a) : \E m \in 1 .. Len(b) : b[m] = a[k]
NoneBetween(a, b) ==
  \A k \in 1 .. Len(a), m \in 1 .. Len(b) : b[m] < a[k] => \E j \in 1 .. Len(a) : a[j] = b[m]

(* Two rising sequences agree as far as the numbers of one are among those *)
(* of the other and the other has none between them.                       *)
LEMMA RisingAgree ==
  ASSUME NEW a, NEW b, Rising(a), Rising(b),
         Among(a, b), NoneBetween(a, b)
  PROVE  \A k \in 1 .. Len(a) : k <= Len(b) /\ a[k] = b[k]
<1>1. PICK n, N : n = Len(a) /\ N = Len(b)
  OBVIOUS
<1>2. /\ n \in Nat /\ \A i \in 1 .. n : a[i] \in Nat
      /\ \A i, j \in 1 .. n : i < j => a[i] < a[j]
  BY <1>1 DEF Rising
<1>3. /\ N \in Nat /\ \A i \in 1 .. N : b[i] \in Nat
      /\ \A i, j \in 1 .. N : i < j => b[i] < b[j]
  BY <1>1 DEF Rising
<1>4. \A k \in 1 .. n : \E m \in 1 .. N : b[m] = a[k]
  BY <1>1 DEF Among
<1>5. \A k \in 1 .. n, m \in 1 .. N : b[m] < a[k] => \E j \in 1 .. n : a[j] = b[m]
  BY <1>1 DEF NoneBetween
<1> DEFINE Agree == {d \in Nat : \A k \in 1 .. n : k <= d => k <= N /\ a[k] = b[k]}
<1>6. 0 \in Agree
  BY <1>2
<1>7. ASSUME NEW d \in Nat, d \in Agree PROVE d + 1 \in Agree
  <2>1. ASSUME d + 1 \in 1 .. n PROVE d + 1 <= N /\ a[d + 1] = b[d + 1]
    <3>1. \A k \in 1 .. d : k \in 1 .. n /\ k <= N /\ a[k] = b[k]
      BY <1>2, <1>7, <2>1
    <3> HIDE DEF Agree
    <3>2. PICK m \in 1 .. N : b[m] = a[d + 1]
      BY <1>4, <2>1
    <3>3. PICK next, v : next = d + 1 /\ v = a[next]
      OBVIOUS
    <3>4. next \in 1 .. n /\ next \in Nat /\ v \in Nat /\ b[m] = v
      BY <1>2, <2>1, <3>2, <3>3
    <3>5. ~(m < next)
      <4> SUFFICES ASSUME m < next PROVE FALSE
        OBVIOUS
      <4>1. m \in 1 .. d
        BY <1>3, <3>3
      <4>2. m \in 1 .. n /\ a[m] = v
        BY <3>1, <3>4, <4>1
      <4>3. a[m] < v
        BY <1>2, <3>3, <3>4, <4>2
      <4> QED
        BY <3>4, <4>2, <4>3
    <3>6. next \in 1 .. N
      BY <1>3, <3>4, <3>5
    <3>7. ~(b[next] < v)
      <4> SUFFICES ASSUME b[next] < v PROVE FALSE
        OBVIOUS
      <4>1. PICK j \in 1 .. n : a[j] = b[next]
        BY <1>5, <3>3, <3>4, <3>6
      <4>2. PICK w : w = a[j]
        OBVIOUS
      <4>3. w \in Nat /\ w < v /\ b[next] = w
        BY <1>2, <4>1, <4>2
      <4>4. next < j => v < w
        BY <1>2, <3>3, <3>4, <4>2
      <4>5. next # j
        BY <3>3, <3>4, <4>2, <4>3
      <4>6. j < next
        BY <1>2, <3>4, <4>3, <4>4, <4>5
      <4>7. j \in 1 .. d
        BY <1>2, <3>3, <4>6
      <4>8. j \in 1 .. N /\ b[j] = w
        BY <1>3, <3>1, <4>2, <4>7
      <4>9. b[j] < b[next]
        BY <1>3, <3>6, <4>6, <4>8
      <4> QED
        BY <4>3, <4>8, <4>9
    <3>8. ~(next < m)
      <4> SUFFICES ASSUME next < m PROVE FALSE
        OBVIOUS
      <4>1. b[next] < b[m]
        BY <1>3, <3>6
      <4> QED
        BY <3>4, <3>7, <4>1
    <3>9. m = next
      BY <3>4, <3>5, <3>8
    <3> QED
      BY <1>3, <3>3, <3>4, <3>6, <3>9
  <2>2. ASSUME NEW k \in 1 .. n, k <= d + 1 PROVE k <= N /\ a[k] = b[k]
    <3>1. CASE k <= d
      BY <1>7, <3>1
    <3>2. CASE k = d + 1
      BY <2>1, <3>2
    <3>3. k <= d \/ k = d + 1
      BY <2>2
    <3> QED
      BY <3>1, <3>2, <3>3
  <2> QED
    BY <2>2
<1>8. Nat \subseteq Agree
  <2> HIDE DEF Agree
  <2> QED
    BY <1>6, <1>7, SetInduction
<1>9. n \in Agree /\ \A k \in 1 .. n : k <= n
  BY <1>2, <1>8
<1> QED
  BY <1>1, <1>9

(* The index of line endings holds the starts of all lines in their order. *)
LEMMA LineStartsAre ==
  ASSUME NEW src, IsSource(src), NEW starts, starts = LineStarts(src)
  PROVE  /\ Rising(starts) /\ Len(starts) >= 1
         /\ \A k \in 2 .. Len(starts) : starts[k] - 1 \in LineEndings(src)
         /\ \A k \in 1 .. Cardinality(Starts(src)) :
              k <= Len(starts) /\ starts[k] = Ascending(Starts(src))[k]
<1> DEFINE B == {i + 1 : i \in LineEndings(src)}
           N == Cardinality(B)
           S == Starts(src)
<1>1. PICK t : t = Ascending(B)
  OBVIOUS
<1>2. B \in SUBSET Nat /\ IsFiniteSet(B)
  BY StartsAre
<1> HIDE DEF B
<1>3. /\ N \in Nat /\ t \in Seq(B) /\ Len(t) = N
      /\ \A k \in 1 .. N : t[k] \in B
      /\ \A x \in B : \E k \in 1 .. N : t[k] = x
      /\ \A k, l \in 1 .. N : k < l => t[k] < t[l]
  BY <1>1, <1>2, AscendingSorts
<1> HIDE DEF N
<1>4. starts = <<0>> \o t
  BY <1>1 DEF LineStarts, B
<1>5. \A k \in 1 .. N : t[k] \in Nat
  BY <1>2, <1>3
<1>6. /\ Len(starts) = N + 1 /\ starts[1] = 0
      /\ \A k \in 2 .. N + 1 : starts[k] = t[k - 1]
      /\ \A k \in 1 .. N + 1 : starts[k] \in Nat
  <2>1. /\ Len(starts) = N + 1 /\ starts[1] = 0
        /\ \A k \in 2 .. N + 1 : starts[k] = t[k - 1]
    <3> HIDE DEF B, N
    <3> QED
      BY <1>3, <1>4
  <2>2. ASSUME NEW k \in 1 .. N + 1 PROVE starts[k] \in Nat
    <3>1. k = 1 \/ (k \in 2 .. N + 1 /\ k - 1 \in 1 .. N)
      BY <1>3
    <3> QED
      BY <1>5, <2>1, <3>1
  <2> QED
    BY <2>1, <2>2
<1>7. ASSUME NEW k \in 2 .. N + 1 PROVE starts[k] \in B /\ starts[k] - 1 \in LineEndings(src) /\ starts[k] > 0
  <2>1. k - 1 \in 1 .. N
    BY <1>3
  <2>2. starts[k] \in B
    BY <1>3, <1>6, <2>1
  <2>3. PICK i \in LineEndings(src) : starts[k] = i + 1
    BY <2>2 DEF B
  <2>4. \A j \in LineEndings(src) : j \in Nat
    BY StartsAre
  <2>5. i \in Nat
    BY <2>3, <2>4
  <2>6. starts[k] - 1 = i /\ starts[k] > 0
    BY <2>3, <2>5
  <2> QED
    BY <2>2, <2>3, <2>6
<1>8. Rising(starts)
  <2> SUFFICES ASSUME NEW i \in 1 .. N + 1, NEW j \in 1 .. N + 1, i < j PROVE starts[i] < starts[j]
    BY <1>3, <1>6 DEF Rising
  <2>1. j \in 2 .. N + 1 /\ j - 1 \in 1 .. N
    BY <1>3
  <2>2. CASE i = 1
    BY <1>6, <1>7, <2>1, <2>2
  <2>3. CASE i # 1
    <3>1. i \in 2 .. N + 1 /\ i - 1 \in 1 .. N /\ i - 1 < j - 1
      BY <1>3, <2>3
    <3>2. t[i - 1] < t[j - 1]
      BY <1>3, <2>1, <3>1
    <3> QED
      BY <1>6, <2>1, <3>1, <3>2
  <2> QED
    BY <2>2, <2>3
<1>9. PICK a : a = Ascending(S)
  OBVIOUS
<1>10. S \in SUBSET Nat /\ IsFiniteSet(S) /\ \A s \in S : s < Len(src)
  BY StartsAre
<1>11. S = ({0} \cup B) \ {Len(src)}
  BY DEF B, Starts
<1> HIDE DEF S
<1>12. /\ Cardinality(S) \in Nat /\ a \in Seq(S) /\ Len(a) = Cardinality(S)
       /\ \A k \in 1 .. Cardinality(S) : a[k] \in S
       /\ \A x \in S : \E k \in 1 .. Cardinality(S) : a[k] = x
       /\ \A k, l \in 1 .. Cardinality(S) : k < l => a[k] < a[l]
  BY <1>9, <1>10, AscendingSorts
<1>13. Rising(a)
  <2>1. Len(a) \in Nat /\ \A i \in 1 .. Len(a) : a[i] \in Nat
    BY <1>10, <1>12
  <2>2. \A i, j \in 1 .. Len(a) : i < j => a[i] < a[j]
    BY <1>12
  <2> QED
    BY <2>1, <2>2 DEF Rising
<1>14. ASSUME NEW k \in 1 .. Len(a) PROVE \E m \in 1 .. Len(starts) : starts[m] = a[k]
  <2>1. a[k] \in {0} \cup B
    BY <1>11, <1>12
  <2>2. CASE a[k] = 0
    BY <1>3, <1>6, <2>2
  <2>3. CASE a[k] \in B
    <3>1. PICK m \in 1 .. N : t[m] = a[k]
      BY <1>3, <2>3
    <3>2. m + 1 \in 2 .. N + 1 /\ (m + 1) - 1 = m
      BY <1>3
    <3>3. starts[m + 1] = a[k]
      BY <1>6, <3>1, <3>2
    <3> QED
      BY <1>3, <1>6, <3>2, <3>3
  <2> QED
    BY <2>1, <2>2, <2>3
<1>15. ASSUME NEW k \in 1 .. Len(a), NEW m \in 1 .. Len(starts), starts[m] < a[k]
       PROVE  \E j \in 1 .. Len(a) : a[j] = starts[m]
  <2>1. starts[m] \in {0} \cup B
    <3>1. m = 1 \/ m \in 2 .. N + 1
      BY <1>3, <1>6
    <3> QED
      BY <1>6, <1>7, <3>1
  <2>2. starts[m] # Len(src)
    <3>1. a[k] \in Nat /\ a[k] < Len(src) /\ starts[m] \in Nat /\ Len(src) \in Nat
      BY <1>6, <1>10, <1>12, StartsAre
    <3> QED
      BY <1>15, <3>1
  <2> QED
    BY <1>11, <1>12, <2>1, <2>2
<1>16. \A k \in 1 .. Len(a) : k <= Len(starts) /\ a[k] = starts[k]
  <2>1. Among(a, starts)
    BY <1>14 DEF Among
  <2>2. NoneBetween(a, starts)
    BY <1>15 DEF NoneBetween
  <2> HIDE DEF B
  <2> QED
    BY <1>8, <1>13, <2>1, <2>2, RisingAgree
<1> QED
  BY <1>3, <1>6, <1>7, <1>8, <1>9, <1>12, <1>16 DEF S, Rising

(* Position finds the line that holds an offset.                           *)
LEMMA PositionIs ==
  ASSUME NEW src, IsSource(src), NEW n \in 1 .. Len(ScanLines(src)),
         NEW line, line = ScanLines(src)[n],
         NEW offset \in line.start .. line.newlineEnd - 1
  PROVE  Position(src, offset).line = n /\ Position(src, offset).column = offset - line.start + 1
<1>1. PICK lines, starts : lines = ScanLines(src) /\ starts = LineStarts(src)
  OBVIOUS
<1>2. /\ Len(lines) = Cardinality(Starts(src))
      /\ line = LineFrom(src, line.start) /\ line.start \in Starts(src)
      /\ line.start = Ascending(Starts(src))[n]
  <2>1. n \in 1 .. Len(lines) /\ line = lines[n]
    BY <1>1
  <2> QED
    BY <1>1, <2>1, ScanIs
<1>3. /\ Rising(starts) /\ Len(starts) >= 1
      /\ \A k \in 2 .. Len(starts) : starts[k] - 1 \in LineEndings(src)
      /\ \A k \in 1 .. Len(lines) : k <= Len(starts) /\ starts[k] = Ascending(Starts(src))[k]
  BY <1>1, <1>2, LineStartsAre
<1>4. /\ n \in Nat /\ n >= 1 /\ n <= Len(starts) /\ starts[n] = line.start
  BY <1>1, <1>2, <1>3
<1>5. PICK from, to : from = line.start /\ to = line.newlineEnd
  OBVIOUS
<1>6. from \in 0 .. Len(src) /\ Len(src) \in Nat
  BY <1>2, <1>5, StartsAre
<1>7. /\ to \in Nat /\ to <= Len(src)
      /\ \A i \in from .. to - 2 : i \notin LineEndings(src)
  <2>1. /\ line.end \in from .. Len(src) /\ to \in line.end .. Len(src)
        /\ \A i \in from .. to - 2 : i \notin LineEndings(src)
    BY <1>2, <1>5, <1>6, LineIs
  <2> QED
    BY <1>6, <2>1
<1>8. offset \in Nat /\ from <= offset /\ offset < to
  BY <1>5, <1>6, <1>7
<1>9. Cuts(starts, offset, n)
  <2>1. ASSUME NEW i \in 0 .. Len(starts) - 1, i >= n PROVE starts[i + 1] > offset
    <3>1. i + 1 \in 2 .. Len(starts) /\ n \in 1 .. Len(starts) /\ n < i + 1
      BY <1>4, <2>1
    <3>2. starts[i + 1] - 1 \in LineEndings(src) /\ starts[n] < starts[i + 1]
      BY <1>3, <3>1 DEF Rising
    <3>3. starts[i + 1] \in Nat
      BY <1>3, <3>1 DEF Rising
    <3>4. PICK s : s = starts[i + 1]
      OBVIOUS
    <3>5. s \in Nat /\ from < s /\ s - 1 \in LineEndings(src)
      BY <1>4, <1>5, <3>2, <3>3, <3>4
    <3>6. ~(s - 1 \in from .. to - 2)
      BY <1>7, <3>5
    <3>7. s >= to
      BY <1>6, <1>7, <3>5, <3>6
    <3> QED
      BY <1>7, <1>8, <3>4, <3>5, <3>7
  <2>2. ASSUME NEW i \in 0 .. Len(starts) - 1, ~(i >= n) PROVE ~(starts[i + 1] > offset)
    <3>1. i + 1 \in 1 .. Len(starts) /\ n \in 1 .. Len(starts) /\ i + 1 <= n
      BY <1>3, <1>4, <2>2
    <3>2. starts[i + 1] <= starts[n]
      <4>1. CASE i + 1 = n
        BY <1>3, <3>1, <4>1 DEF Rising
      <4>2. CASE i + 1 < n
        <5>1. starts[i + 1] < starts[n]
          BY <1>3, <3>1, <4>2 DEF Rising
        <5> QED
          BY <1>3, <3>1, <5>1 DEF Rising
      <4> QED
        BY <3>1, <4>1, <4>2
    <3>3. starts[i + 1] \in Nat
      BY <1>3, <3>1 DEF Rising
    <3> QED
      BY <1>4, <1>5, <1>6, <1>8, <3>2, <3>3
  <2>3. n \in 0 .. Len(starts)
    BY <1>3, <1>4 DEF Rising
  <2> QED
    BY <2>1, <2>2, <2>3 DEF Cuts, StartsBehind
<1>10. Len(starts) \in Nat
  BY <1>3 DEF Rising
<1>11. SearchStart(starts, offset) = n
  BY <1>9, <1>10, SearchFinds
<1>12. Max({0, n - 1}) = n - 1
  <2>1. n - 1 \in Int
    BY <1>4
  <2> QED
    BY <1>4, <2>1, LargerOf
<1>13. Min({offset, Len(src)}) = offset
  <2>1. offset \in Int /\ Len(src) \in Int /\ offset <= Len(src)
    BY <1>6, <1>7, <1>8
  <2> QED
    BY <2>1, SmallerOf
<1>14. Max({0, offset}) = offset
  <2>1. offset \in Int
    BY <1>8
  <2> QED
    BY <1>8, <2>1, LargerOf
<1>15. Position(src, offset) =
         [offset |-> offset, line |-> (n - 1) + 1, column |-> offset - starts[(n - 1) + 1] + 1]
  BY <1>1, <1>11, <1>12, <1>13, <1>14 DEF Position
<1>16. (n - 1) + 1 = n
  BY <1>4
<1> QED
  BY <1>4, <1>15, <1>16

-----------------------------------------------------------------------------
(* The source is one of the documents, and none before there is a parser.  *)
SourceIsRead == IsSource(source)

LEMMA TextIsSource == ASSUME NEW s \in Seq(STRING) PROVE IsSource(s)
<1>1. Len(s) \in Nat /\ s \in [1 .. Len(s) -> STRING]
  OBVIOUS
<1>2. s \in [1 .. Len(s) -> Byte]
  BY <1>1 DEF Byte
<1>3. s \in Seq(Byte)
  BY <1>1, <1>2
<1> QED
  BY <1>3 DEF IsSource

(* Every step keeps the source, or reads it.                               *)
LEMMA SourceStaysRead == DispatchSpec => []SourceIsRead
<1>1. DispatchInit => SourceIsRead
  BY DEF DispatchInit, SourceIsRead, IsSource
<1>2. SourceIsRead /\ [BuildParser \/ StartParse \/ DispatchNext]_dispatchVars => SourceIsRead'
  <2> SUFFICES ASSUME SourceIsRead, [BuildParser \/ StartParse \/ DispatchNext]_dispatchVars
               PROVE  SourceIsRead'
    OBVIOUS
  <2>1. CASE StartParse
    <3>1. source' \in Seq(STRING)
      BY <2>1, DispatchAssumption DEF StartParse
    <3>2. IsSource(source')
      BY <3>1, TextIsSource
    <3> QED
      BY <3>2 DEF SourceIsRead, IsSource
  <2>2. ASSUME UNCHANGED source PROVE SourceIsRead'
    BY <2>2 DEF SourceIsRead, IsSource
  <2>3. CASE BuildParser \/ UNCHANGED dispatchVars
    BY <2>2, <2>3 DEF BuildParser, dispatchVars, parseVars
  <2>4. CASE DispatchNext
    BY <2>2, <2>4 DEF DispatchNext, HookDeclines, HookFails, Refuse, BlockHookMatches,
       InlineHookMatches, SkipBlankLine, OpenQuote, ParseCode, ParseText, EndFrame, WalkText, EndText
  <2> QED
    BY <2>1, <2>3, <2>4
<1> QED
  BY <1>1, <1>2, PTL DEF DispatchSpec

(* Document.Position searches the index of line endings for the line the   *)
(* parser's scanner has found, and finds it for every byte of every        *)
(* source: scanLines and indexLines tell lines and columns alike.          *)
THEOREM PositionsAgree == DispatchSpec => []PositionsAgreeWithLines
<1>1. SourceIsRead => PositionsAgreeWithLines
  <2> SUFFICES ASSUME SourceIsRead, NEW n \in 1 .. Len(Lines),
                      NEW offset \in Lines[n].start .. Lines[n].newlineEnd - 1
               PROVE  /\ Position(source, offset).line = n
                      /\ Position(source, offset).column = offset - Lines[n].start + 1
    BY DEF PositionsAgreeWithLines
  <2> QED
    BY PositionIs DEF Lines, SourceIsRead
<1> QED
  BY <1>1, SourceStaysRead, PTL
-----------------------------------------------------------------------------
(* The columns of a line.                                                  *)
NextColumn(byte, column) == IF byte = "tab" THEN column + 4 - (column % 4) ELSE column + 1
ColumnsOf(f, bytes, s) ==
  IF s = {} THEN 0 ELSE LET x == Max(s) IN NextColumn(bytes[x], f[s \ {x}])
IsColumns(f, bytes) == f = [s \in SUBSET DOMAIN bytes |-> ColumnsOf(f, bytes, s)]

LEMMA NextColumnIs ==
  ASSUME NEW byte, NEW column \in Nat
  PROVE  NextColumn(byte, column) \in Nat /\ (byte # "tab" => NextColumn(byte, column) = column + 1)
BY DEF NextColumn

LEMMA MaxOfSome ==
  ASSUME NEW n \in Nat, NEW s \in SUBSET (1 .. n), s # {}
  PROVE  Max(s) \in s /\ \A x \in s : x <= Max(s)
<1>1. s \in SUBSET Nat /\ \A x \in s : x <= n
  OBVIOUS
<1> QED
  BY <1>1, MaxIs

LEMMA ColumnsExist ==
  ASSUME NEW bytes, NEW len \in Nat, DOMAIN bytes = 1 .. len
  PROVE  \E f : IsColumns(f, bytes)
<1> DEFINE Told(g, n) == g \in [SUBSET (1 .. n) -> Nat] /\ \A s \in SUBSET (1 .. n) : g[s] = ColumnsOf(g, bytes, s)
           Fine == {n \in Nat : \E g : Told(g, n)}
<1>1. 0 \in Fine
  <2> DEFINE g == [s \in SUBSET (1 .. 0) |-> 0]
  <2>1. \A s \in SUBSET (1 .. 0) : s = {}
    OBVIOUS
  <2>2. Told(g, 0)
    BY <2>1 DEF ColumnsOf
  <2> QED
    BY <2>2
<1>2. ASSUME NEW n \in Nat, n \in Fine PROVE n + 1 \in Fine
  <2>1. PICK g : Told(g, n)
    BY <1>2
  <2>2. PICK h : h = [s \in SUBSET (1 .. n + 1) |->
                        IF n + 1 \in s THEN NextColumn(bytes[n + 1], g[s \ {n + 1}]) ELSE g[s]]
    OBVIOUS
  <2>3. \A s \in SUBSET (1 .. n + 1) : s \ {n + 1} \in SUBSET (1 .. n) /\ (n + 1 \notin s => s \in SUBSET (1 .. n))
    OBVIOUS
  <2>4. \A s \in SUBSET (1 .. n) : s \in SUBSET (1 .. n + 1) /\ n + 1 \notin s
    OBVIOUS
  <2>5. \A s \in SUBSET (1 .. n) : g[s] \in Nat
    BY <2>1
  <2>6. \A s \in SUBSET (1 .. n) : h[s] = g[s]
    BY <2>2, <2>4
  <2>7. h \in [SUBSET (1 .. n + 1) -> Nat]
    <3>1. ASSUME NEW s \in SUBSET (1 .. n + 1)
          PROVE  (IF n + 1 \in s THEN NextColumn(bytes[n + 1], g[s \ {n + 1}]) ELSE g[s]) \in Nat
      BY <2>3, <2>5, NextColumnIs
    <3> QED
      BY <2>2, <3>1
  <2>8. ASSUME NEW s \in SUBSET (1 .. n + 1) PROVE h[s] = ColumnsOf(h, bytes, s)
    <3>1. CASE n + 1 \in s
      <4>1. Max(s) = n + 1
        <5>1. Max(s) \in s /\ \A x \in s : x <= Max(s)
          <6>1. PICK m : m = n + 1
            OBVIOUS
          <6>2. m \in Nat /\ s \in SUBSET (1 .. m) /\ s # {}
            BY <3>1, <6>1
          <6> HIDE DEF Told, Fine
          <6> QED
            BY <6>2, MaxOfSome
        <5>2. Max(s) \in 1 .. n + 1 /\ n + 1 <= Max(s)
          BY <3>1, <5>1
        <5> QED
          BY <5>2
      <4>2. h[s] = NextColumn(bytes[n + 1], g[s \ {n + 1}])
        BY <2>2, <3>1
      <4>3. h[s \ {n + 1}] = g[s \ {n + 1}]
        BY <2>3, <2>6
      <4> QED
        BY <3>1, <4>1, <4>2, <4>3 DEF ColumnsOf
    <3>2. CASE n + 1 \notin s
      <4>1. s \in SUBSET (1 .. n)
        BY <2>3, <3>2
      <4>2. h[s] = g[s] /\ g[s] = ColumnsOf(g, bytes, s)
        BY <2>1, <2>6, <4>1
      <4>3. s \ {Max(s)} \in SUBSET (1 .. n)
        BY <4>1
      <4>4. g[s \ {Max(s)}] = h[s \ {Max(s)}]
        BY <2>6, <4>3
      <4> QED
        BY <4>2, <4>4 DEF ColumnsOf
    <3> QED
      BY <3>1, <3>2
  <2>9. Told(h, n + 1)
    BY <2>7, <2>8
  <2> HIDE DEF Told
  <2> QED
    BY <2>9
<1>3. Nat \subseteq Fine
  <2> HIDE DEF Fine
  <2> QED
    BY <1>1, <1>2, SetInduction
<1>4. PICK g : Told(g, len)
  BY <1>3
<1>5. g = [s \in SUBSET DOMAIN bytes |-> g[s]]
  BY <1>4
<1>6. g = [s \in SUBSET DOMAIN bytes |-> ColumnsOf(g, bytes, s)]
  BY <1>4, <1>5
<1> QED
  BY <1>6 DEF IsColumns

(* Every byte takes a column, and a tab perhaps more.                      *)
LEMMA ColumnsAre ==
  ASSUME NEW bytes \in Seq(Byte)
  PROVE  /\ Columns(bytes) \in Nat
         /\ (\A i \in 1 .. Len(bytes) : bytes[i] # "tab") => Columns(bytes) = Len(bytes)
<1>1. Len(bytes) \in Nat /\ DOMAIN bytes = 1 .. Len(bytes)
  OBVIOUS
<1>2. PICK f : f = CHOOSE g : IsColumns(g, bytes)
  OBVIOUS
<1>3. IsColumns(f, bytes)
  BY <1>1, <1>2, ColumnsExist
<1>4. Columns(bytes) = f[DOMAIN bytes]
  BY <1>2 DEF Columns, FoldLeft, MapThenFoldSet, IsColumns, ColumnsOf, NextColumn
<1> DEFINE Plain == \A i \in 1 .. Len(bytes) : bytes[i] # "tab"
           Fine == {n \in Nat : n <= Len(bytes) => f[1 .. n] \in Nat /\ (Plain => f[1 .. n] = n)}
<1>5. 0 \in Fine
  <2>1. 1 .. 0 = {} /\ 1 .. 0 \in SUBSET DOMAIN bytes
    OBVIOUS
  <2>2. f[1 .. 0] = 0
    BY <1>3, <2>1 DEF IsColumns, ColumnsOf
  <2> QED
    BY <2>2
<1>6. ASSUME NEW n \in Nat, n \in Fine PROVE n + 1 \in Fine
  <2> SUFFICES ASSUME n + 1 <= Len(bytes)
               PROVE  f[1 .. n + 1] \in Nat /\ (Plain => f[1 .. n + 1] = n + 1)
    OBVIOUS
  <2>1. f[1 .. n] \in Nat /\ (Plain => f[1 .. n] = n)
    BY <1>6
  <2>2. PICK s : s = 1 .. n + 1
    OBVIOUS
  <2>3. s \in SUBSET DOMAIN bytes /\ s # {} /\ s \in SUBSET (1 .. n + 1) /\ n + 1 \in s
    <3>1. \A x \in s : x \in 1 .. Len(bytes)
      BY <1>1, <2>2
    <3>2. n + 1 \in s
      BY <2>2
    <3> QED
      BY <1>1, <2>2, <3>1, <3>2
  <2>4. Max(s) = n + 1
    <3>1. Max(s) \in s /\ \A x \in s : x <= Max(s)
      <4>1. PICK m : m = n + 1
        OBVIOUS
      <4>2. m \in Nat /\ s \in SUBSET (1 .. m) /\ s # {}
        BY <2>3, <4>1
      <4> HIDE DEF Plain, Fine
      <4> QED
        BY <4>2, MaxOfSome
    <3>2. Max(s) \in 1 .. n + 1 /\ n + 1 <= Max(s)
      BY <2>3, <3>1
    <3> QED
      BY <3>2
  <2>5. s \ {n + 1} = 1 .. n
    BY <2>2
  <2>6. f[s] = NextColumn(bytes[n + 1], f[1 .. n])
    BY <1>3, <2>3, <2>4, <2>5 DEF IsColumns, ColumnsOf
  <2>7. f[s] \in Nat /\ (bytes[n + 1] # "tab" => f[s] = f[1 .. n] + 1)
    BY <2>1, <2>6, NextColumnIs
  <2>8. Plain => bytes[n + 1] # "tab"
    BY <1>1
  <2> QED
    BY <2>1, <2>2, <2>7, <2>8
<1>7. Nat \subseteq Fine
  <2> HIDE DEF Fine
  <2> QED
    BY <1>5, <1>6, SetInduction
<1>8. f[1 .. Len(bytes)] \in Nat /\ (Plain => f[1 .. Len(bytes)] = Len(bytes))
  <2>1. Len(bytes) \in Fine
    BY <1>1, <1>7
  <2> QED
    BY <1>1, <2>1
<1> QED
  BY <1>1, <1>4, <1>8

LEMMA ColumnAtIs ==
  ASSUME NEW bytes \in Seq(Byte), NEW n \in 0 .. Len(bytes)
  PROVE  /\ ColumnAt(bytes, n) \in Nat
         /\ (\A i \in 1 .. n : bytes[i] # "tab") => ColumnAt(bytes, n) = n
<1>1. PICK s : s = SubSeq(bytes, 1, n)
  OBVIOUS
<1>2. s \in Seq(Byte) /\ Len(s) = n /\ \A i \in 1 .. n : s[i] = bytes[i]
  BY <1>1
<1>3. ColumnAt(bytes, n) = Columns(s)
  BY <1>1 DEF ColumnAt
<1> QED
  BY <1>2, <1>3, ColumnsAre
-----------------------------------------------------------------------------
(* The blanks at a place of a line, and its quote mark.                    *)
LEMMA BlanksAre ==
  ASSUME NEW bytes \in Seq(Byte), NEW n \in 0 .. Len(bytes)
  PROVE  LET k == BlanksFrom(bytes, n)
         IN  /\ k \in 0 .. Len(bytes) - n /\ \A i \in n + 1 .. n + k : bytes[i] \in Blanks
             /\ n + k = Len(bytes) \/ bytes[n + k + 1] \notin Blanks
<1> DEFINE S == {k \in 0 .. Len(bytes) - n : \A i \in n + 1 .. n + k : bytes[i] \in Blanks}
<1>1. Len(bytes) \in Nat /\ n \in Nat /\ n <= Len(bytes)
  OBVIOUS
<1>2. PICK k : k = Max(S)
  OBVIOUS
<1>3. BlanksFrom(bytes, n) = k
  BY <1>2 DEF BlanksFrom
<1>4. 0 \in S
  BY <1>1
<1>5. S \in SUBSET Nat /\ Len(bytes) - n \in Nat /\ \A x \in S : x <= Len(bytes) - n
  BY <1>1
<1>6. k \in S /\ \A x \in S : x <= k
  <2> HIDE DEF S
  <2> QED
    BY <1>2, <1>4, <1>5, MaxIs
<1>7. k \in 0 .. Len(bytes) - n /\ \A i \in n + 1 .. n + k : bytes[i] \in Blanks
  BY <1>6
<1>8. n + k = Len(bytes) \/ bytes[n + k + 1] \notin Blanks
  <2> SUFFICES ASSUME n + k # Len(bytes), bytes[n + k + 1] \in Blanks PROVE FALSE
    OBVIOUS
  <2>1. k + 1 \in 0 .. Len(bytes) - n
    BY <1>1, <1>7
  <2>2. \A i \in n + 1 .. n + (k + 1) : i \in n + 1 .. n + k \/ i = n + k + 1
    BY <1>1, <1>7
  <2>3. k + 1 \in S
    BY <1>7, <2>1, <2>2
  <2>4. k + 1 <= k
    <3> HIDE DEF S
    <3> QED
      BY <1>6, <2>3
  <2> QED
    BY <1>1, <1>7, <2>4
<1> HIDE DEF S
<1> QED
  BY <1>3, <1>7, <1>8

LEMMA QuoteMarkIs ==
  ASSUME NEW line, line.logical \in Seq(Byte)
  PROVE  LET q == QuoteMark(line)
         IN  q \in 0 .. Len(line.logical) /\ \A i \in 1 .. q : line.logical[i] \in Blanks
<1>1. PICK bytes : bytes = line.logical
  OBVIOUS
<1> DEFINE S == {i \in 0 .. Len(bytes) : i = Len(bytes) \/ bytes[i + 1] \notin Blanks \/ ColumnAt(bytes, i) >= 3}
<1>2. PICK q : q = Min(S)
  OBVIOUS
<1>3. QuoteMark(line) = q
  BY <1>1, <1>2 DEF QuoteMark, OffsetForIndent
<1>4. Len(bytes) \in Nat
  BY <1>1
<1>5. S \in SUBSET Nat /\ Len(bytes) \in S
  BY <1>4
<1>6. q \in S /\ \A x \in S : q <= x
  <2> HIDE DEF S
  <2> QED
    BY <1>2, <1>5, MinIs
<1>7. q \in 0 .. Len(bytes)
  BY <1>6
<1>8. ASSUME NEW i \in 1 .. q PROVE bytes[i] \in Blanks
  <2> SUFFICES ASSUME bytes[i] \notin Blanks PROVE FALSE
    OBVIOUS
  <2>1. i - 1 \in 0 .. Len(bytes) /\ (i - 1) + 1 = i
    BY <1>4, <1>7
  <2>2. i - 1 \in S
    BY <2>1
  <2>3. q <= i - 1
    <3> HIDE DEF S
    <3> QED
      BY <1>6, <2>2
  <2> QED
    BY <1>7, <2>3
<1> HIDE DEF S
<1> QED
  BY <1>1, <1>3, <1>7, <1>8
-----------------------------------------------------------------------------
(* What a line is at any depth of its containers: blanks that a tab or the *)
(* blanks behind a quote mark have left over, and then the rest of the     *)
(* line as it stands in the source.                                        *)
Tabbed(src, line) ==
  LET whole == LineFrom(src, line.start)
  IN  Marked(whole) /\ \E i \in 1 .. QuoteMark(whole) : whole.logical[i] = "tab"

HeadAndRest(src, line, head, at) ==
  /\ head \in 0 .. Len(line.logical) /\ at \in line.start .. line.end
  /\ at + Len(line.logical) - head = line.end
  /\ \A k \in head + 1 .. Len(line.logical) + 1 : line.offsets[k] = at + k - head - 1
  /\ \A k \in head + 1 .. Len(line.logical) : line.logical[k] = src[at + k - head]
  /\ \A k \in 1 .. head :
       /\ line.logical[k] = " " /\ line.offsets[k] \in line.start .. line.offsets[k + 1]
       /\ Tabbed(src, line) \/ (line.offsets[k] < line.end /\ ByteAt(src, line.offsets[k]) \in Blanks)
  /\ \/ line = LineFrom(src, line.start)
     \/ head = Len(line.logical)
     \/ line.logical[head + 1] \notin Blanks

LineFollows(src, line) ==
  /\ line \in LineRecord /\ line.start \in 0 .. Len(src)
  /\ line.end = LineFrom(src, line.start).end /\ line.newlineEnd = LineFrom(src, line.start).newlineEnd
  /\ Len(line.offsets) = Len(line.logical) + 1
  /\ \E head, at \in Nat : HeadAndRest(src, line, head, at)

LEMMA WholeLineFollows ==
  ASSUME NEW src, IsSource(src), NEW start \in 0 .. Len(src)
  PROVE  LineFollows(src, LineFrom(src, start))
<1>1. PICK line : line = LineFrom(src, start)
  OBVIOUS
<1>2. /\ line.start = start /\ line.end \in start .. Len(src)
      /\ Len(line.logical) = line.end - start /\ Len(line.offsets) = line.end - start + 1
      /\ \A k \in 1 .. line.end - start : line.logical[k] = src[start + k]
      /\ \A k \in 1 .. line.end - start + 1 : line.offsets[k] = start + k - 1
      /\ line \in LineRecord
  BY <1>1, LineIs
<1>3. PICK e, n : e = line.end /\ n = Len(line.logical)
  OBVIOUS
<1>4. start \in Nat /\ Len(src) \in Nat /\ e \in Nat /\ start <= e /\ n = e - start /\ n \in Nat
  <2>1. Len(src) \in Nat
    BY DEF IsSource
  <2> QED
    BY <1>2, <1>3, <2>1
<1>5. HeadAndRest(src, line, 0, start)
  <2>1. 0 \in 0 .. Len(line.logical) /\ start \in line.start .. line.end
    BY <1>2, <1>3, <1>4
  <2>2. start + Len(line.logical) - 0 = line.end
    BY <1>2, <1>3, <1>4
  <2>3. \A k \in 0 + 1 .. Len(line.logical) + 1 : line.offsets[k] = start + k - 0 - 1
    BY <1>2, <1>3, <1>4
  <2>4. \A k \in 0 + 1 .. Len(line.logical) : line.logical[k] = src[start + k - 0]
    BY <1>2, <1>3, <1>4
  <2>5. line = LineFrom(src, line.start)
    BY <1>1, <1>2
  <2>6. 1 .. 0 = {}
    OBVIOUS
  <2> QED
    BY <2>1, <2>2, <2>3, <2>4, <2>5, <2>6 DEF HeadAndRest
<1> QED
  BY <1>1, <1>2, <1>3, <1>4, <1>5 DEF LineFollows

(* The blanks left over lie in order between the ends of the prefix.       *)
LEMMA IndentsAre ==
  ASSUME NEW from \in Nat, NEW to \in Nat, from <= to, NEW r \in Nat, NEW j \in 0 .. r
  PROVE  LET v(k) == IndentOffset(from, to, k, r)
         IN  /\ v(j) \in from .. to /\ v(r) = to
             /\ j < r => v(j) <= v(j + 1) /\ (from < to => v(j) < to)
<1> DEFINE d == to - from
<1>1. d \in Nat /\ from + d = to
  OBVIOUS
<1> HIDE DEF d
<1>2. ASSUME NEW k \in Nat, r > 0
      PROVE  (d * k) \div r \in Nat /\ r * ((d * k) \div r) <= d * k /\ d * k < r * ((d * k) \div r) + r
  BY <1>1, <1>2
<1>3. CASE r = 0
  BY <1>3 DEF IndentOffset
<1>4. CASE r > 0
  <2>1. \A k : IndentOffset(from, to, k, r) = from + (d * k) \div r
    BY <1>4 DEF IndentOffset, d
  <2>2. PICK a, b, c : a = (d * j) \div r /\ b = (d * (j + 1)) \div r /\ c = (d * r) \div r
    OBVIOUS
  <2>3. /\ a \in Nat /\ r * a <= d * j /\ d * j < r * a + r
        /\ b \in Nat /\ r * b <= d * (j + 1) /\ d * (j + 1) < r * b + r
        /\ c \in Nat /\ r * c <= d * r /\ d * r < r * c + r
    BY <1>2, <1>4, <2>2
  <2>4. c = d
    <3>1. r * (d - c) >= 0 /\ r * (d - c) < r
      BY <1>1, <2>3
    <3>2. PICK z : z = d - c
      OBVIOUS
    <3>3. z \in Int /\ r * z >= 0 /\ r * z < r
      BY <1>1, <2>3, <3>1, <3>2
    <3>4. z = 0
      BY <1>4, <3>3
    <3> QED
      BY <1>1, <2>3, <3>2, <3>4
  <2>5. a <= d
    <3> SUFFICES ASSUME a > d PROVE FALSE
      BY <1>1, <2>3
    <3>1. r * a >= r * (d + 1)
      BY <1>1, <1>4, <2>3
    <3>2. r * (d + 1) = r * d + r /\ d * r = r * d
      BY <1>1
    <3>3. d * j <= d * r
      BY <1>1
    <3> QED
      BY <1>1, <1>4, <2>3, <3>1, <3>2, <3>3
  <2>6. ASSUME j < r PROVE a <= b /\ (d > 0 => a < d)
    <3>1. a <= b
      <4> SUFFICES ASSUME a > b PROVE FALSE
        BY <2>3
      <4>1. r * a >= r * (b + 1)
        BY <1>4, <2>3
      <4>2. r * (b + 1) = r * b + r /\ d * (j + 1) = d * j + d
        BY <1>1, <2>3
      <4> QED
        BY <1>1, <2>3, <4>1, <4>2
    <3>2. ASSUME d > 0 PROVE a < d
      <4> SUFFICES ASSUME a >= d PROVE FALSE
        BY <1>1, <2>3
      <4>1. r * a >= r * d
        BY <1>1, <1>4, <2>3
      <4>2. d * j < d * r
        BY <1>1, <2>6, <3>2
      <4>3. d * r = r * d
        BY <1>1
      <4> QED
        BY <1>1, <2>3, <4>1, <4>2, <4>3
    <3> QED
      BY <3>1, <3>2
  <2>7. /\ IndentOffset(from, to, j, r) = from + a /\ IndentOffset(from, to, j + 1, r) = from + b
        /\ IndentOffset(from, to, r, r) = from + c
    BY <2>1, <2>2
  <2> QED
    BY <1>1, <2>3, <2>4, <2>5, <2>6, <2>7
<1> QED
  BY <1>3, <1>4

LEMMA RestIs ==
  ASSUME NEW bytes \in Seq(Byte), NEW p \in 0 .. Len(bytes)
  PROVE  LET rest == SubSeq(bytes, p + 1, Len(bytes))
         IN  /\ rest \in Seq(Byte) /\ Len(rest) = Len(bytes) - p
             /\ \A k \in 1 .. Len(bytes) - p : rest[k] = bytes[p + k]
<1>1. Len(bytes) \in Nat /\ p \in Nat /\ p <= Len(bytes)
  OBVIOUS
<1>2. PICK n : n = Len(bytes)
  OBVIOUS
<1>3. PICK rest : rest = SubSeq(bytes, p + 1, n)
  OBVIOUS
<1>4. rest = [k \in 1 .. n - p |-> bytes[p + k]]
  BY <1>1, <1>2, <1>3
<1>5. n - p \in Nat /\ \A k \in 1 .. n - p : bytes[p + k] \in Byte
  BY <1>1, <1>2
<1>6. rest \in Seq(Byte) /\ Len(rest) = n - p
  BY <1>4, <1>5
<1> QED
  BY <1>2, <1>3, <1>4, <1>6

RunOf(r) == [k \in 1 .. r |-> " "]

LEMMA RunOfBlanks ==
  ASSUME NEW r \in Nat
  PROVE  RunOf(r) \in Seq(Byte) /\ Len(RunOf(r)) = r /\ \A k \in 1 .. r : RunOf(r)[k] = " "
<1>1. PICK blank : blank = " " /\ blank \in Byte
  BY DEF Byte
<1>2. RunOf(r) = [k \in 1 .. r |-> blank]
  BY <1>1 DEF RunOf
<1>3. RunOf(r) \in Seq(Byte) /\ Len(RunOf(r)) = r /\ \A k \in 1 .. r : RunOf(r)[k] = blank
  <2>1. PICK f : f = [k \in 1 .. r |-> blank]
    OBVIOUS
  <2>2. f \in [1 .. r -> Byte] /\ \A k \in 1 .. r : f[k] = blank
    BY <1>1, <2>1
  <2>3. f \in Seq(Byte) /\ Len(f) = r
    BY <2>2
  <2> QED
    BY <1>2, <2>1, <2>2, <2>3
<1> QED
  BY <1>1, <1>3

LEMMA JoinIs ==
  ASSUME NEW S, NEW a \in Seq(S), NEW b \in Seq(S)
  PROVE  /\ a \o b \in Seq(S) /\ Len(a \o b) = Len(a) + Len(b)
         /\ \A k \in 1 .. Len(a) : (a \o b)[k] = a[k]
         /\ \A k \in Len(a) + 1 .. Len(a) + Len(b) : (a \o b)[k] = b[k - Len(a)]
OBVIOUS

(* A line that loses its quote mark still follows the source.              *)
LEMMA StrippedLineFollows ==
  ASSUME NEW src, IsSource(src), NEW line, LineFollows(src, line), Marked(line)
  PROVE  /\ LineFollows(src, StripBlockQuote(line))
         /\ StripBlockQuote(line).start = line.start
<1>1. PICK bytes, offs, q, m, p, n :
        /\ bytes = line.logical /\ offs = line.offsets /\ n = Len(bytes) /\ q = QuoteMark(line)
        /\ m = q + 1 /\ p = m + BlanksFrom(bytes, m)
  OBVIOUS
<1>2. /\ line \in LineRecord /\ bytes \in Seq(Byte) /\ n \in Nat /\ offs \in Seq(Int)
      /\ Len(offs) = n + 1 /\ Len(src) \in Nat /\ line.start \in 0 .. Len(src)
      /\ line.end \in Nat /\ line.newlineEnd \in Nat
  BY <1>1 DEF LineFollows, LineRecord, IsSource
<1>3. PICK head, at \in Nat : HeadAndRest(src, line, head, at)
  BY DEF LineFollows
<1>4. PICK start, stop : start = line.start /\ stop = line.end
  OBVIOUS
<1>5. /\ head \in 0 .. n /\ at \in start .. stop /\ at + n - head = stop
      /\ \A k \in head + 1 .. n + 1 : offs[k] = at + k - head - 1
      /\ \A k \in head + 1 .. n : bytes[k] = src[at + k - head]
      /\ \A k \in 1 .. head : bytes[k] = " "
      /\ line = LineFrom(src, start) \/ head = n \/ bytes[head + 1] \notin Blanks
  BY <1>1, <1>3, <1>4 DEF HeadAndRest
<1>6. /\ start \in Nat /\ stop \in Nat /\ start <= at /\ at <= stop /\ head <= n
      /\ n \in Nat /\ at \in Nat /\ head \in Nat /\ at + n - head = stop
  <2>1. start \in Nat /\ stop \in Nat /\ n \in Nat
    BY <1>2, <1>4
  <2>2. head \in 0 .. n /\ at \in start .. stop /\ at + n - head = stop
    BY <1>5
  <2> QED
    BY <1>3, <2>1, <2>2
(* The quote mark stands behind the head. *)
<1>7. /\ q \in 0 .. n - 1 /\ bytes[m] = ">" /\ \A i \in 1 .. q : bytes[i] \in Blanks
  BY <1>1, <1>2, QuoteMarkIs DEF Marked, ByteAt
<1>8. m \in 1 .. n /\ head < m
  <2>1. m \in 1 .. n
    BY <1>1, <1>7
  <2>2. ~(m \in 1 .. head)
    BY <1>5, <1>7
  <2> QED
    BY <1>3, <2>1, <2>2
<1>9. /\ p \in m .. n /\ \A i \in m + 1 .. p : bytes[i] \in Blanks
      /\ p = n \/ bytes[p + 1] \notin Blanks
  <2>1. PICK k : k = BlanksFrom(bytes, m)
    OBVIOUS
  <2>2. m \in 0 .. Len(bytes)
    BY <1>1, <1>8
  <2>3. /\ k \in 0 .. Len(bytes) - m /\ \A i \in m + 1 .. m + k : bytes[i] \in Blanks
        /\ m + k = Len(bytes) \/ bytes[m + k + 1] \notin Blanks
    BY <1>2, <2>1, <2>2, BlanksAre
  <2>4. p = m + k
    BY <1>1, <2>1
  <2> QED
    <3>1. /\ k \in 0 .. n - m /\ \A i \in m + 1 .. m + k : bytes[i] \in Blanks
          /\ m + k = n \/ bytes[m + k + 1] \notin Blanks
      BY <1>1, <2>3
    <3>2. m \in Nat /\ n \in Nat /\ m <= n
      BY <1>2, <1>8
    <3>3. p \in m .. n
      BY <2>4, <3>1, <3>2
    <3> QED
      BY <2>4, <3>1, <3>3
<1>10. m \in Nat /\ p \in Nat /\ m <= p /\ p <= n /\ m <= n
  BY <1>2, <1>8, <1>9
<1> DEFINE from == at + m - head
           to == at + p - head
<1>11. /\ from \in Nat /\ to \in Nat /\ start <= from /\ from <= to /\ to <= stop
       /\ offs[m + 1] = from /\ offs[p + 1] = to
  <2>1. m + 1 \in head + 1 .. n + 1 /\ p + 1 \in head + 1 .. n + 1
    BY <1>6, <1>8, <1>10
  <2>2. offs[m + 1] = at + (m + 1) - head - 1 /\ offs[p + 1] = at + (p + 1) - head - 1
    BY <1>5, <2>1
  <2>3. from \in Nat /\ to \in Nat /\ start <= from /\ from <= to /\ to <= stop
    BY <1>6, <1>8, <1>10
  <2>4. at + (m + 1) - head - 1 = from /\ at + (p + 1) - head - 1 = to
    BY <1>3, <1>10
  <2> QED
    BY <2>2, <2>3, <2>4
(* The columns left over. *)
<1>12. PICK width : /\ width = m \/ width = m + 1
                    /\ StripBlockQuote(line) = StripLineContainer(line, m, width)
  BY <1>1 DEF StripBlockQuote
<1>13. PICK r : r = LeftOver(bytes, p, width)
  OBVIOUS
<1>14. r \in Nat /\ (r > 0 => ColumnAt(bytes, p) > width) /\ ColumnAt(bytes, p) \in Nat
  <2>1. p \in 0 .. Len(bytes)
    BY <1>1, <1>10
  <2>2. PICK c : c = ColumnAt(bytes, p)
    OBVIOUS
  <2>3. c \in Nat
    BY <1>2, <2>1, <2>2, ColumnAtIs
  <2>4. c - width \in Int /\ r = Max({0, c - width})
    BY <1>10, <1>12, <1>13, <2>2, <2>3 DEF LeftOver
  <2>5. r = IF c - width > 0 THEN c - width ELSE 0
    BY <2>4, LargerOf
  <2> QED
    BY <1>10, <1>12, <2>2, <2>3, <2>5
<1> DEFINE v(k) == IndentOffset(from, to, k, r)
<1>15. /\ \A j \in 0 .. r : v(j) \in from .. to
       /\ v(r) = to
       /\ \A j \in 0 .. r : j < r => v(j) <= v(j + 1) /\ (from < to => v(j) < to)
  <2>1. \A j \in 0 .. r : /\ v(j) \in from .. to /\ v(r) = to
                          /\ j < r => v(j) <= v(j + 1) /\ (from < to => v(j) < to)
    BY <1>11, <1>14, IndentsAre
  <2>2. 0 \in 0 .. r
    BY <1>14
  <2> QED
    BY <2>1, <2>2
<1> HIDE DEF v, from, to
(* Where no blank follows the mark, only a tab before it leaves any. *)
<1>16. r > 0 /\ from = to => Tabbed(src, line)
  <2> SUFFICES ASSUME r > 0, from = to PROVE Tabbed(src, line)
    OBVIOUS
  <2>1. p = m
    BY <1>3, <1>6, <1>10 DEF from, to
  <2>2. \E i \in 1 .. m : bytes[i] = "tab"
    <3> SUFFICES ASSUME \A i \in 1 .. p : bytes[i] # "tab" PROVE FALSE
      BY <2>1
    <3>1. p \in 0 .. Len(bytes)
      BY <1>1, <1>10
    <3>2. ColumnAt(bytes, p) = p
      BY <1>2, <3>1, ColumnAtIs
    <3> QED
      BY <1>10, <1>12, <1>14, <2>1, <3>2
  <2>3. PICK i \in 1 .. q : bytes[i] = "tab"
    <3>1. PICK i \in 1 .. m : bytes[i] = "tab"
      BY <2>2
    <3>2. i # m
      BY <1>7, <3>1
    <3> QED
      BY <1>1, <1>7, <3>1, <3>2
  <2>4. CASE line = LineFrom(src, start)
    <3>1. Marked(LineFrom(src, start)) /\ i \in 1 .. QuoteMark(LineFrom(src, start))
          /\ LineFrom(src, start).logical[i] = "tab"
      BY <1>1, <2>3, <2>4
    <3> QED
      BY <1>4, <3>1 DEF Tabbed
  <2>5. CASE head = n \/ bytes[head + 1] \notin Blanks
    <3>1. bytes[head + 1] \notin Blanks
      BY <1>2, <1>8, <1>10, <2>5
    <3>2. ~(head + 1 \in 1 .. q)
      BY <1>7, <3>1
    <3>3. i \in 1 .. head
      BY <1>3, <1>7, <2>3, <3>2
    <3> QED
      BY <1>5, <2>3, <3>3
  <2> QED
    BY <1>5, <2>4, <2>5
(* What is left. *)
<1>17. PICK rest : rest = SubSeq(bytes, p + 1, n)
  OBVIOUS
<1>18. rest \in Seq(Byte) /\ Len(rest) = n - p /\ \A k \in 1 .. n - p : rest[k] = bytes[p + k]
  <2>1. p \in 0 .. Len(bytes)
    BY <1>1, <1>10
  <2> QED
    BY <1>1, <1>2, <1>17, <2>1, RestIs
<1>19. PICK blanks : blanks = RunOf(r)
  OBVIOUS
<1>20. blanks \in Seq(Byte) /\ Len(blanks) = r /\ \A k \in 1 .. r : blanks[k] = " "
  BY <1>14, <1>19, RunOfBlanks
<1>21. PICK logical : logical = blanks \o rest
  OBVIOUS
<1>22. PICK len : len = r + n - p
  OBVIOUS
<1>23. /\ logical \in Seq(Byte) /\ Len(logical) = len /\ len \in Nat /\ r <= len
       /\ \A k \in 1 .. r : logical[k] = " "
       /\ \A k \in r + 1 .. len : logical[k] = bytes[p + k - r]
  <2>1. /\ logical \in Seq(Byte) /\ Len(logical) = Len(blanks) + Len(rest)
        /\ \A k \in 1 .. Len(blanks) : logical[k] = blanks[k]
        /\ \A k \in Len(blanks) + 1 .. Len(blanks) + Len(rest) : logical[k] = rest[k - Len(blanks)]
    BY <1>18, <1>20, <1>21, JoinIs
  <2>2. /\ Len(logical) = r + (n - p) /\ \A k \in 1 .. r : logical[k] = blanks[k]
        /\ \A k \in r + 1 .. r + (n - p) : logical[k] = rest[k - r]
    BY <1>18, <1>20, <2>1
  <2>3. len = r + (n - p) /\ len \in Nat /\ r <= len
    BY <1>2, <1>10, <1>14, <1>22
  <2>4. ASSUME NEW k \in r + 1 .. len PROVE logical[k] = bytes[p + k - r]
    <3>1. k - r \in 1 .. n - p /\ p + (k - r) = p + k - r /\ k \in r + 1 .. r + (n - p)
      BY <1>2, <1>10, <1>14, <2>3
    <3>2. logical[k] = rest[k - r]
      BY <2>2, <3>1
    <3> QED
      BY <1>18, <3>1, <3>2
  <2> QED
    BY <1>20, <2>1, <2>2, <2>3, <2>4
<1>32. r \in Nat /\ len \in Nat /\ r <= len /\ len = r + n - p
  BY <1>14, <1>22, <1>23
<1> DEFINE end == m + BlanksFrom(line.logical, m)
           left == LeftOver(line.logical, end, width)
           told == RunOf(left) \o SubSeq(line.logical, end + 1, Len(line.logical))
           places == [k \in 1 .. Len(told) + 1 |->
                        IF k <= left + 1
                        THEN IndentOffset(line.offsets[m + 1], line.offsets[end + 1], k - 1, left)
                        ELSE line.offsets[end + k - left]]
<1>33. StripLineContainer(line, m, width) = [line EXCEPT !.logical = told, !.offsets = places]
  BY DEF StripLineContainer, RunOf
<1>34. DOMAIN places = 1 .. Len(told) + 1 /\ places = [k \in 1 .. Len(told) + 1 |-> places[k]]
  OBVIOUS
<1>35. \A k \in 1 .. Len(told) + 1 :
         places[k] = IF k <= left + 1
                     THEN IndentOffset(line.offsets[m + 1], line.offsets[end + 1], k - 1, left)
                     ELSE line.offsets[end + k - left]
  OBVIOUS
<1> HIDE DEF places
<1>36. end = p /\ left = r /\ told = logical
  <2>1. end = p
    BY <1>1
  <2> HIDE DEF end
  <2>2. left = r
    BY <1>1, <1>13, <2>1
  <2> HIDE DEF left
  <2> QED
    BY <1>1, <1>17, <1>19, <1>21, <2>1, <2>2
<1> HIDE DEF told, left, end
<1>37. PICK offsets : offsets = places
  OBVIOUS
<1>24. /\ DOMAIN offsets = 1 .. len + 1 /\ offsets = [k \in 1 .. len + 1 |-> offsets[k]]
       /\ \A k \in 1 .. len + 1 : offsets[k] = IF k <= r + 1 THEN v(k - 1) ELSE offs[p + k - r]
  <2>1. Len(told) = len
    BY <1>23, <1>36
  <2>2. /\ DOMAIN offsets = 1 .. len + 1 /\ offsets = [k \in 1 .. len + 1 |-> offsets[k]]
    BY <1>34, <1>37, <2>1
  <2>3. /\ line.offsets[m + 1] = from /\ line.offsets[end + 1] = to
        /\ \A k : line.offsets[end + k - left] = offs[p + k - r]
    BY <1>1, <1>11, <1>36
  <2>4. \A k \in 1 .. len + 1 :
          offsets[k] = IF k <= r + 1 THEN IndentOffset(from, to, k - 1, r) ELSE offs[p + k - r]
    BY <1>35, <1>36, <1>37, <2>1, <2>3
  <2> QED
    BY <2>2, <2>4 DEF v
<1>25. StripBlockQuote(line) = [line EXCEPT !.logical = logical, !.offsets = offsets]
  BY <1>12, <1>33, <1>36, <1>37
<1>26. PICK new : new = StripBlockQuote(line)
  OBVIOUS
<1>27. /\ new.start = start /\ new.end = stop /\ new.newlineEnd = line.newlineEnd
       /\ new.logical = logical /\ new.offsets = offsets
  BY <1>2, <1>4, <1>25, <1>26 DEF LineRecord
<1>28. /\ \A k \in 1 .. r + 1 : offsets[k] = v(k - 1) /\ v(k - 1) \in from .. to
       /\ \A k \in r + 1 .. len + 1 : offsets[k] = to + k - r - 1
       /\ offsets \in Seq(Int) /\ Len(offsets) = len + 1
  <2>1. ASSUME NEW k \in 1 .. r + 1 PROVE offsets[k] = v(k - 1) /\ v(k - 1) \in from .. to
    <3>1. k - 1 \in 0 .. r /\ k \in 1 .. len + 1 /\ k <= r + 1
      BY <1>32
    <3> QED
      BY <1>15, <1>24, <3>1
  <2>2. ASSUME NEW k \in r + 1 .. len + 1 PROVE offsets[k] = to + k - r - 1
    <3>1. CASE k = r + 1
      <4>1. k \in 1 .. r + 1 /\ k - 1 = r
        BY <1>14, <3>1
      <4>2. offsets[k] = v(r)
        BY <2>1, <4>1
      <4> QED
        BY <1>11, <1>14, <1>15, <3>1, <4>2
    <3>2. CASE k # r + 1
      <4>1. k \in 1 .. len + 1 /\ ~(k <= r + 1)
        BY <1>32, <3>2
      <4>2. offsets[k] = offs[p + k - r]
        BY <1>24, <4>1
      <4>3. p + k - r \in head + 1 .. n + 1
        BY <1>6, <1>8, <1>10, <1>32, <3>2
      <4>4. offs[p + k - r] = at + (p + k - r) - head - 1
        BY <1>5, <4>3
      <4> QED
        BY <1>3, <1>10, <1>14, <4>2, <4>4 DEF to
    <3> QED
      BY <3>1, <3>2
  <2>3. ASSUME NEW k \in 1 .. len + 1 PROVE offsets[k] \in Int
    <3>1. k \in 1 .. r + 1 \/ k \in r + 1 .. len + 1
      BY <1>32
    <3>2. CASE k \in 1 .. r + 1
      BY <1>11, <2>1, <3>2
    <3>3. CASE k \in r + 1 .. len + 1
      BY <1>11, <1>14, <2>2, <3>3
    <3> QED
      BY <3>1, <3>2, <3>3
  <2>4. DOMAIN offsets = 1 .. len + 1 /\ offsets = [k \in 1 .. len + 1 |-> offsets[k]]
    BY <1>24
  <2>5. offsets \in [1 .. len + 1 -> Int]
    BY <2>3, <2>4
  <2>6. offsets \in Seq(Int) /\ Len(offsets) = len + 1
    BY <1>32, <2>5
  <2> QED
    BY <2>1, <2>2, <2>6
<1>29. new \in LineRecord
  BY <1>2, <1>23, <1>25, <1>26, <1>28 DEF LineRecord
<1>30. HeadAndRest(src, new, r, to)
  <2>1. r \in 0 .. Len(new.logical) /\ to \in new.start .. new.end
    <3>1. r \in 0 .. len /\ to \in start .. stop
      BY <1>6, <1>11, <1>32
    <3> QED
      BY <1>23, <1>27, <3>1
  <2>2. to + Len(new.logical) - r = new.end
    <3>1. to + len - r = stop
      BY <1>6, <1>10, <1>32 DEF to
    <3> QED
      BY <1>23, <1>27, <3>1
  <2>3. \A k \in r + 1 .. Len(new.logical) + 1 : new.offsets[k] = to + k - r - 1
    BY <1>23, <1>27, <1>28
  <2>4. ASSUME NEW k \in r + 1 .. Len(new.logical) PROVE new.logical[k] = src[to + k - r]
    <3>1. k \in r + 1 .. len
      BY <1>23, <1>27
    <3>2. new.logical[k] = bytes[p + k - r]
      BY <1>23, <1>27, <3>1
    <3>3. p + k - r \in head + 1 .. n
      BY <1>6, <1>8, <1>10, <1>32, <3>1
    <3>4. bytes[p + k - r] = src[at + (p + k - r) - head]
      BY <1>5, <3>3
    <3>5. at + (p + k - r) - head = to + k - r
      BY <1>3, <1>10, <1>14, <3>1 DEF to
    <3> QED
      BY <3>2, <3>4, <3>5
  <2>5. ASSUME NEW k \in 1 .. r
        PROVE  /\ new.logical[k] = " " /\ new.offsets[k] \in new.start .. new.offsets[k + 1]
               /\ Tabbed(src, new) \/ (new.offsets[k] < new.end /\ ByteAt(src, new.offsets[k]) \in Blanks)
    <3>1. /\ k \in 1 .. r + 1 /\ k + 1 \in 1 .. r + 1 /\ k - 1 \in 0 .. r /\ k - 1 < r
          /\ (k - 1) + 1 = k /\ (k + 1) - 1 = k /\ k \in 0 .. r
      BY <1>14
    <3>2. PICK x, y : x = v(k - 1) /\ y = v(k)
      OBVIOUS
    <3>3. offsets[k] = x /\ offsets[k + 1] = y /\ x \in from .. to /\ y \in from .. to
      BY <1>28, <3>1, <3>2
    <3>4. x <= y /\ (from < to => x < to)
      BY <1>15, <3>1, <3>2
    <3>5. new.offsets[k] \in new.start .. new.offsets[k + 1]
      BY <1>6, <1>11, <1>27, <3>3, <3>4
    <3>6. CASE from = to
      <4>1. Tabbed(src, line)
        BY <1>14, <1>16, <3>6
      <4>2. Tabbed(src, new)
        BY <1>4, <1>27, <4>1 DEF Tabbed
      <4> QED
        BY <1>23, <1>27, <3>5, <4>2
    <3>7. CASE from < to
      <4>1. x \in Nat /\ from <= x /\ x < to
        BY <1>11, <3>3, <3>4, <3>7
      <4>2. PICK i : i = x + 1 - at + head
        OBVIOUS
      <4>3. i \in m + 1 .. p /\ i \in head + 1 .. n /\ at + i - head = x + 1
        BY <1>2, <1>3, <1>6, <1>8, <1>10, <4>1, <4>2 DEF from, to
      <4>4. bytes[i] \in Blanks /\ bytes[i] = src[x + 1]
        BY <1>5, <1>9, <4>3
      <4>5. x < stop /\ ByteAt(src, x) \in Blanks
        BY <1>6, <1>11, <4>1, <4>4 DEF ByteAt
      <4> QED
        BY <1>23, <1>27, <3>3, <3>5, <4>5
    <3>8. from <= to /\ from \in Nat /\ to \in Nat
      BY <1>11
    <3>9. from = to \/ from < to
      BY <3>8
    <3> QED
      BY <3>6, <3>7, <3>9
  <2>6. r = Len(new.logical) \/ new.logical[r + 1] \notin Blanks
    <3> SUFFICES ASSUME r # len PROVE logical[r + 1] \notin Blanks
      BY <1>23, <1>27
    <3>0. r # len
      OBVIOUS
    <3>1. r + 1 \in r + 1 .. len /\ p + (r + 1) - r = p + 1 /\ p # n
      BY <1>6, <1>10, <1>32, <3>0
    <3>2. logical[r + 1] = bytes[p + 1]
      <4>1. \A k \in r + 1 .. len : logical[k] = bytes[p + k - r]
        BY <1>23
      <4>2. logical[r + 1] = bytes[p + (r + 1) - r]
        BY <3>1, <4>1
      <4> QED
        BY <3>1, <4>2
    <3> QED
      BY <1>9, <3>1, <3>2
  <2> QED
    BY <2>1, <2>2, <2>3, <2>4, <2>5, <2>6 DEF HeadAndRest
<1>31. /\ new.start \in 0 .. Len(src)
       /\ new.end = LineFrom(src, new.start).end /\ new.newlineEnd = LineFrom(src, new.start).newlineEnd
       /\ Len(new.offsets) = Len(new.logical) + 1
  BY <1>2, <1>4, <1>23, <1>27, <1>28 DEF LineFollows
<1> QED
  BY <1>4, <1>11, <1>14, <1>26, <1>27, <1>29, <1>30, <1>31 DEF LineFollows
-----------------------------------------------------------------------------
(* Sequences of anything.                                                  *)
IsSequence(s) == \E S : s \in Seq(S)

LEMMA SequenceIs ==
  ASSUME NEW s, IsSequence(s)
  PROVE  Len(s) \in Nat /\ DOMAIN s = 1 .. Len(s)
BY DEF IsSequence

LEMMA SequenceOf ==
  ASSUME NEW n \in Nat, NEW s, DOMAIN s = 1 .. n, s = [k \in 1 .. n |-> s[k]]
  PROVE  IsSequence(s) /\ Len(s) = n
<1> DEFINE S == {s[k] : k \in 1 .. n}
<1>1. s \in [1 .. n -> S]
  OBVIOUS
<1> HIDE DEF S
<1>2. s \in Seq(S) /\ Len(s) = n
  BY <1>1
<1> QED
  BY <1>2 DEF IsSequence

LEMMA SequenceIn ==
  ASSUME NEW n \in Nat, NEW S, NEW s \in [1 .. n -> S]
  PROVE  s \in Seq(S) /\ Len(s) = n
OBVIOUS

LEMMA AppendedIs ==
  ASSUME NEW s, IsSequence(s), NEW e
  PROVE  /\ IsSequence(Append(s, e)) /\ Len(s) \in Nat /\ Len(Append(s, e)) = Len(s) + 1
         /\ \A k \in 1 .. Len(s) : Append(s, e)[k] = s[k]
         /\ Append(s, e)[Len(s) + 1] = e
<1>1. PICK S : s \in Seq(S)
  BY DEF IsSequence
<1>2. PICK T : T = S \cup {e}
  OBVIOUS
<1>3. Len(s) \in Nat /\ s \in [1 .. Len(s) -> S]
  BY <1>1
<1>4. s \in [1 .. Len(s) -> T]
  BY <1>2, <1>3
<1>5. s \in Seq(T) /\ e \in T
  BY <1>2, <1>3, <1>4
<1>6. Append(s, e) \in Seq(T)
  BY <1>5
<1> QED
  BY <1>5, <1>6 DEF IsSequence

LEMMA FrontIs ==
  ASSUME NEW s, IsSequence(s), Len(s) >= 1
  PROVE  LET t == SubSeq(s, 1, Len(s) - 1)
         IN  IsSequence(t) /\ Len(t) = Len(s) - 1 /\ \A k \in 1 .. Len(s) - 1 : t[k] = s[k]
<1>1. PICK S : s \in Seq(S)
  BY DEF IsSequence
<1>2. Len(s) \in Nat /\ Len(s) - 1 \in Nat
  BY <1>1
<1>3. PICK n : n = Len(s) - 1
  OBVIOUS
<1>4. PICK t : t = SubSeq(s, 1, n)
  OBVIOUS
<1>5. t = [k \in 1 .. n |-> s[k]]
  BY <1>1, <1>2, <1>3, <1>4
<1>6. n \in Nat /\ \A k \in 1 .. n : s[k] \in S
  BY <1>1, <1>2, <1>3
<1>7. t \in [1 .. n -> S]
  BY <1>5, <1>6
<1>8. t \in Seq(S) /\ Len(t) = n
  BY <1>6, <1>7
<1>9. \A k \in 1 .. n : t[k] = s[k]
  BY <1>5
<1> QED
  BY <1>3, <1>4, <1>8, <1>9 DEF IsSequence

LEMMA RestOfQueue ==
  ASSUME NEW s, IsSequence(s), s # <<>>
  PROVE  /\ IsSequence(Tail(s)) /\ Len(s) \in Nat /\ Len(s) >= 1 /\ Len(Tail(s)) = Len(s) - 1
         /\ \A k \in 1 .. Len(s) - 1 : Tail(s)[k] = s[k + 1]
<1>1. PICK S : s \in Seq(S)
  BY DEF IsSequence
<1> QED
  BY <1>1 DEF IsSequence
-----------------------------------------------------------------------------
(* Frames: the lines of a frame follow the source and each other, and what *)
(* is left of a frame follows all lines of the frames inside it.           *)
IsFrame(f) ==
  /\ f = [lines |-> f.lines, at |-> f.at, parent |-> f.parent]
  /\ f.lines \in Seq(LineRecord) /\ f.at \in Nat /\ f.at >= 1

InOrder(lines) == \A m, n \in 1 .. Len(lines) : m < n => lines[m].newlineEnd <= lines[n].start

FrameOk(src, f) ==
  /\ IsFrame(f) /\ InOrder(f.lines)
  /\ \A n \in 1 .. Len(f.lines) : LineFollows(src, f.lines[n]) /\ f.lines[n].start \in Starts(src)

Behind(f, g) ==
  \A m \in f.at .. Len(f.lines), n \in 1 .. Len(g.lines) : g.lines[n].newlineEnd <= f.lines[m].start

FramesOk(src, s) ==
  /\ IsSequence(s)
  /\ \A k \in 1 .. Len(s) : FrameOk(src, s[k])
  /\ \A j, k \in 1 .. Len(s) : j < k => Behind(s[j], s[k])

Advanced(s, at) == [s EXCEPT ![Len(s)].at = at]

LEMMA FramesAdvance ==
  ASSUME NEW src, NEW s, FramesOk(src, s), Len(s) >= 1,
         NEW at \in Nat, at >= s[Len(s)].at,
         NEW t, t = Advanced(s, at)
  PROVE  /\ FramesOk(src, t) /\ Len(s) \in Nat /\ Len(t) = Len(s)
         /\ \A k \in 1 .. Len(s) : t[k].lines = s[k].lines /\ t[k].at >= s[k].at
         /\ t[Len(s)].at = at /\ \A k \in 1 .. Len(s) - 1 : t[k] = s[k]
<1>1. PICK n : n = Len(s)
  OBVIOUS
<1>2. n \in Nat /\ n >= 1 /\ DOMAIN s = 1 .. n
  BY <1>1, SequenceIs DEF FramesOk
<1>3. t = [k \in 1 .. n |-> IF k = n THEN [s[n] EXCEPT !.at = at] ELSE s[k]]
  BY <1>1, <1>2 DEF Advanced
<1>4. /\ DOMAIN t = 1 .. n /\ t = [k \in 1 .. n |-> t[k]] /\ t[n] = [s[n] EXCEPT !.at = at]
      /\ \A k \in 1 .. n : k # n => t[k] = s[k]
  <2>1. DOMAIN t = 1 .. n /\ t = [k \in 1 .. n |-> t[k]]
    BY <1>3
  <2>2. n \in 1 .. n
    BY <1>2
  <2>3. \A k \in 1 .. n : t[k] = IF k = n THEN [s[n] EXCEPT !.at = at] ELSE s[k]
    BY <1>3
  <2> QED
    BY <2>1, <2>2, <2>3
<1>5. IsSequence(t) /\ Len(t) = n
  BY <1>2, <1>4, SequenceOf
<1>6. PICK f, g : f = s[n] /\ g = t[n]
  OBVIOUS
<1>7. FrameOk(src, f) /\ f.at \in Nat /\ f.at >= 1
  BY <1>1, <1>2, <1>6 DEF FramesOk, FrameOk, IsFrame
<1>8. f = [lines |-> f.lines, at |-> f.at, parent |-> f.parent]
  BY <1>7 DEF FrameOk, IsFrame
<1>9. g = [f EXCEPT !.at = at]
  BY <1>4, <1>6
<1>10. g = [lines |-> f.lines, at |-> at, parent |-> f.parent]
  BY <1>8, <1>9
<1>11. g.lines = f.lines /\ g.at = at /\ g.parent = f.parent
  BY <1>10
<1>12. at >= f.at /\ at >= 1
  BY <1>1, <1>6, <1>7
<1>13. FrameOk(src, g)
  BY <1>7, <1>10, <1>11, <1>12 DEF FrameOk, IsFrame
<1>14. ASSUME NEW k \in 1 .. n
       PROVE  FrameOk(src, t[k]) /\ t[k].lines = s[k].lines /\ t[k].at >= s[k].at
  <2>1. CASE k = n
    BY <1>6, <1>11, <1>12, <1>13, <2>1
  <2>2. CASE k # n
    <3>1. t[k] = s[k] /\ FrameOk(src, s[k])
      BY <1>1, <1>4, <2>2 DEF FramesOk
    <3>2. s[k].at \in Nat
      BY <3>1 DEF FrameOk, IsFrame
    <3> QED
      BY <3>1, <3>2
  <2> QED
    BY <2>1, <2>2
<1>15. ASSUME NEW j \in 1 .. n, NEW k \in 1 .. n, j < k PROVE Behind(t[j], t[k])
  <2>1. Behind(s[j], s[k])
    BY <1>1, <1>15 DEF FramesOk
  <2>2. t[j] = s[j]
    BY <1>2, <1>4, <1>15
  <2>3. t[k].lines = s[k].lines
    BY <1>14
  <2> QED
    BY <2>1, <2>2, <2>3 DEF Behind
<1>16. FramesOk(src, t)
  BY <1>5, <1>14, <1>15 DEF FramesOk
<1>17. \A k \in 1 .. n - 1 : t[k] = s[k]
  BY <1>2, <1>4
<1> QED
  BY <1>1, <1>2, <1>5, <1>6, <1>11, <1>14, <1>16, <1>17

LEMMA FramesOpen ==
  ASSUME NEW src, NEW s, FramesOk(src, s), NEW f, FrameOk(src, f),
         \A k \in 1 .. Len(s) : Behind(s[k], f)
  PROVE  /\ FramesOk(src, Append(s, f)) /\ Len(s) \in Nat /\ Len(Append(s, f)) = Len(s) + 1
         /\ \A k \in 1 .. Len(s) : Append(s, f)[k] = s[k]
         /\ Append(s, f)[Len(s) + 1] = f
<1>1. PICK t, n : t = Append(s, f) /\ n = Len(s)
  OBVIOUS
<1>2. /\ IsSequence(t) /\ n \in Nat /\ Len(t) = n + 1
      /\ \A k \in 1 .. n : t[k] = s[k]
      /\ t[n + 1] = f
  BY <1>1, AppendedIs DEF FramesOk
<1>3. ASSUME NEW k \in 1 .. n + 1 PROVE FrameOk(src, t[k])
  <2>1. CASE k = n + 1
    BY <1>2, <2>1
  <2>2. CASE k # n + 1
    <3>1. k \in 1 .. n
      BY <1>2, <2>2
    <3> QED
      BY <1>1, <1>2, <3>1 DEF FramesOk
  <2> QED
    BY <2>1, <2>2
<1>4. ASSUME NEW j \in 1 .. n + 1, NEW k \in 1 .. n + 1, j < k PROVE Behind(t[j], t[k])
  <2>1. j \in 1 .. n
    BY <1>2, <1>4
  <2>2. CASE k = n + 1
    BY <1>1, <1>2, <2>1, <2>2
  <2>3. CASE k # n + 1
    <3>1. k \in 1 .. n
      BY <1>2, <2>3
    <3> QED
      BY <1>1, <1>2, <1>4, <2>1, <3>1 DEF FramesOk
  <2> QED
    BY <2>2, <2>3
<1>5. FramesOk(src, t)
  BY <1>2, <1>3, <1>4 DEF FramesOk
<1> QED
  BY <1>1, <1>2, <1>5

LEMMA FramesEnd ==
  ASSUME NEW src, NEW s, FramesOk(src, s), Len(s) >= 1
  PROVE  LET t == SubSeq(s, 1, Len(s) - 1)
         IN  /\ FramesOk(src, t) /\ Len(s) \in Nat /\ Len(t) = Len(s) - 1
             /\ \A k \in 1 .. Len(s) - 1 : t[k] = s[k]
<1>1. PICK t, n : t = SubSeq(s, 1, Len(s) - 1) /\ n = Len(s)
  OBVIOUS
<1>2. n \in Nat /\ n >= 1
  BY <1>1, SequenceIs DEF FramesOk
<1>3. IsSequence(t) /\ Len(t) = n - 1 /\ \A k \in 1 .. n - 1 : t[k] = s[k]
  BY <1>1, FrontIs DEF FramesOk
<1>4. \A k \in 1 .. n - 1 : k \in 1 .. n
  BY <1>2
<1>5. FramesOk(src, t)
  BY <1>1, <1>3, <1>4 DEF FramesOk
<1> QED
  BY <1>1, <1>2, <1>3, <1>5

LEMMA FramesStart ==
  ASSUME NEW src, IsSource(src), NEW s, s = <<Frame(ScanLines(src), RootNode)>>
  PROVE  FramesOk(src, s) /\ Len(s) = 1 /\ s[1].lines = ScanLines(src)
<1>1. PICK lines : lines = ScanLines(src)
  OBVIOUS
<1>2. /\ lines \in Seq(LineRecord)
      /\ \A n \in 1 .. Len(lines) : lines[n] = LineFrom(src, lines[n].start) /\ lines[n].start \in Starts(src)
      /\ \A m, n \in 1 .. Len(lines) : m < n => lines[m].newlineEnd <= lines[n].start
  BY <1>1, ScanIs
<1>3. ASSUME NEW n \in 1 .. Len(lines) PROVE LineFollows(src, lines[n]) /\ lines[n].start \in Starts(src)
  <2>1. lines[n] = LineFrom(src, lines[n].start) /\ lines[n].start \in Starts(src)
    BY <1>2
  <2>2. lines[n].start \in 0 .. Len(src)
    BY <2>1, StartsAre
  <2>3. LineFollows(src, LineFrom(src, lines[n].start))
    BY <2>2, WholeLineFollows
  <2> QED
    BY <2>1, <2>3
<1>4. PICK f : f = [lines |-> lines, at |-> 1, parent |-> RootNode]
  OBVIOUS
<1>5. f.lines = lines /\ f.at = 1 /\ f.parent = RootNode
  BY <1>4
<1>6. IsFrame(f)
  BY <1>2, <1>4, <1>5 DEF IsFrame
<1>7. InOrder(f.lines)
  BY <1>2, <1>5 DEF InOrder
<1>8. FrameOk(src, f)
  BY <1>3, <1>5, <1>6, <1>7 DEF FrameOk
<1>9. s = <<f>>
  BY <1>1, <1>4 DEF Frame
<1>10. IsSequence(s) /\ Len(s) = 1 /\ s[1] = f
  <2>1. s \in Seq({f})
    BY <1>9
  <2> QED
    <3>1. IsSequence(s)
      BY <2>1 DEF IsSequence
    <3>2. Len(s) = 1 /\ s[1] = f
      BY <1>9
    <3> QED
      BY <3>1, <3>2
<1>11. FramesOk(src, s)
  BY <1>8, <1>10 DEF FramesOk
<1> QED
  BY <1>1, <1>5, <1>10, <1>11

(* The lines a quote takes, without their marks. *)
AllMarked(f, at) == \A n \in f.at .. at - 1 : Marked(f.lines[n])
Quoting(f, at) == [n \in 1 .. at - f.at |-> StripBlockQuote(f.lines[f.at + n - 1])]

LEMMA QuotedFrame ==
  ASSUME NEW src, IsSource(src), NEW f, FrameOk(src, f),
         NEW at \in Nat, f.at <= at, at <= Len(f.lines) + 1,
         AllMarked(f, at), NEW quoted, quoted = Quoting(f, at),
         NEW parent, NEW g, g = Frame(quoted, parent)
  PROVE  /\ FrameOk(src, g) /\ g.lines = quoted /\ g.at = 1 /\ Len(quoted) = at - f.at
         /\ \A n \in 1 .. Len(quoted) :
              /\ f.at + n - 1 \in f.at .. at - 1 /\ f.at + n - 1 \in 1 .. Len(f.lines)
              /\ quoted[n].start = f.lines[f.at + n - 1].start
              /\ quoted[n].newlineEnd = f.lines[f.at + n - 1].newlineEnd
<1>1. PICK from, lines, len : from = f.at /\ lines = f.lines /\ len = at - from
  OBVIOUS
<1>2. /\ from \in Nat /\ from >= 1 /\ lines \in Seq(LineRecord) /\ Len(lines) \in Nat /\ InOrder(lines)
      /\ \A n \in 1 .. Len(lines) : LineFollows(src, lines[n]) /\ lines[n].start \in Starts(src)
  BY <1>1 DEF FrameOk, IsFrame
<1>3. len \in Nat /\ from <= at /\ at <= Len(lines) + 1 /\ from + len = at
  BY <1>1, <1>2
<1>4. \A n \in 1 .. len : quoted[n] = StripBlockQuote(lines[from + n - 1])
  BY <1>1 DEF Quoting
<1>5. ASSUME NEW n \in 1 .. len
      PROVE  /\ from + n - 1 \in from .. at - 1 /\ from + n - 1 \in 1 .. Len(lines)
             /\ quoted[n].start = lines[from + n - 1].start
             /\ quoted[n].newlineEnd = lines[from + n - 1].newlineEnd
             /\ LineFollows(src, quoted[n]) /\ quoted[n].start \in Starts(src)
             /\ quoted[n] \in LineRecord
  <2>1. from + n - 1 \in from .. at - 1 /\ from + n - 1 \in 1 .. Len(lines)
    BY <1>2, <1>3
  <2>2. PICK line : line = lines[from + n - 1]
    OBVIOUS
  <2>3. LineFollows(src, line) /\ line.start \in Starts(src)
    BY <1>2, <2>1, <2>2
  <2>4. Marked(line)
    BY <1>1, <2>1, <2>2 DEF AllMarked
  <2>5. quoted[n] = StripBlockQuote(line)
    BY <1>4, <2>2
  <2>6. LineFollows(src, quoted[n]) /\ quoted[n].start = line.start
    BY <2>3, <2>4, <2>5, StrippedLineFollows
  <2>7. quoted[n].newlineEnd = line.newlineEnd /\ quoted[n] \in LineRecord
    BY <2>3, <2>6 DEF LineFollows
  <2> QED
    BY <2>1, <2>2, <2>3, <2>6, <2>7
<1>6. DOMAIN quoted = 1 .. len /\ quoted = [n \in 1 .. len |-> quoted[n]]
  BY <1>1 DEF Quoting
<1>7. quoted \in [1 .. len -> LineRecord]
  BY <1>5, <1>6
<1>8. quoted \in Seq(LineRecord) /\ Len(quoted) = len
  BY <1>3, <1>7, SequenceIn
<1>9. ASSUME NEW m \in 1 .. len, NEW n \in 1 .. len, m < n PROVE quoted[m].newlineEnd <= quoted[n].start
  <2>1. from + m - 1 \in 1 .. Len(lines) /\ from + n - 1 \in 1 .. Len(lines) /\ from + m - 1 < from + n - 1
    BY <1>2, <1>3, <1>5, <1>9
  <2>2. lines[from + m - 1].newlineEnd <= lines[from + n - 1].start
    BY <1>2, <2>1 DEF InOrder
  <2> QED
    BY <1>5, <2>2
<1>14. PICK h : h = [lines |-> quoted, at |-> 1, parent |-> parent]
  OBVIOUS
<1>15. h.lines = quoted /\ h.at = 1 /\ h.parent = parent
  BY <1>14
<1>10. g = h
  BY <1>14 DEF Frame
<1>11. g.lines = quoted /\ g.at = 1 /\ g.parent = parent
  BY <1>10, <1>15
<1>12. IsFrame(g)
  <2>1. g = [lines |-> g.lines, at |-> g.at, parent |-> g.parent]
    BY <1>10, <1>11, <1>14
  <2>2. g.lines \in Seq(LineRecord) /\ g.at \in Nat /\ g.at >= 1
    BY <1>8, <1>11
  <2> QED
    BY <2>1, <2>2 DEF IsFrame
<1>13. FrameOk(src, g)
  BY <1>5, <1>8, <1>9, <1>11, <1>12 DEF FrameOk, InOrder
<1> QED
  BY <1>1, <1>5, <1>8, <1>11, <1>13
-----------------------------------------------------------------------------
(* The stack of the block loop.                                            *)
StackInv ==
  /\ SourceIsRead /\ FramesOk(source, stack)
  /\ stage = "blocks" => Len(stack) >= 1

LEMMA TopIs ==
  ASSUME StackInv, stage = "blocks"
  PROVE  /\ FrameOk(source, Top) /\ Len(stack) \in Nat /\ Len(stack) >= 1
         /\ Top.at \in Nat /\ Top.at >= 1 /\ Len(Rest) \in Nat
         /\ AtLine => Top.at \in 1 .. Len(Rest) /\ LineFollows(source, Here)
<1>1. FramesOk(source, stack) /\ Len(stack) >= 1 /\ Len(stack) \in Nat
  BY SequenceIs DEF StackInv, FramesOk
<1>2. FrameOk(source, Top)
  BY <1>1 DEF FramesOk, Top
<1>3. Top.at \in Nat /\ Top.at >= 1 /\ Len(Rest) \in Nat
  BY <1>2 DEF FrameOk, IsFrame, Rest
<1>4. ASSUME AtLine PROVE Top.at \in 1 .. Len(Rest) /\ LineFollows(source, Here)
  <2>1. Top.at \in 1 .. Len(Rest)
    BY <1>3, <1>4 DEF AtLine
  <2> QED
    BY <1>2, <2>1 DEF FrameOk, Rest, Here
<1> QED
  BY <1>1, <1>2, <1>3, <1>4

LEMMA FirstIs ==
  ASSUME StackInv, AtLine, NEW S \in SUBSET Later
  PROVE  /\ First(S) \in Nat /\ Top.at < First(S) /\ First(S) <= Len(Rest) + 1
         /\ \A n \in Top.at + 1 .. First(S) - 1 : n \notin S
         /\ First(S) <= Len(Rest) => First(S) \in S
<1>1. /\ Top.at \in Nat /\ Len(Rest) \in Nat /\ Top.at <= Len(Rest)
  BY TopIs DEF AtLine
<1>2. PICK T : T = S \cup {Len(Rest) + 1}
  OBVIOUS
<1>3. \A n \in S : n \in Nat /\ Top.at < n /\ n <= Len(Rest)
  BY <1>1 DEF Later
<1>4. T \in SUBSET Nat /\ T # {} /\ \A n \in T : Top.at < n /\ n <= Len(Rest) + 1
  BY <1>1, <1>2, <1>3
<1>5. First(S) = Min(T)
  BY <1>2 DEF First
<1>6. First(S) \in T /\ \A n \in T : First(S) <= n
  BY <1>4, <1>5, MinIs
<1>7. First(S) \in Nat /\ Top.at < First(S) /\ First(S) <= Len(Rest) + 1
  BY <1>4, <1>6
<1>8. ASSUME NEW n \in Top.at + 1 .. First(S) - 1 PROVE n \notin S
  <2> SUFFICES ASSUME n \in S PROVE FALSE
    OBVIOUS
  <2>1. First(S) <= n
    BY <1>2, <1>6
  <2>2. n <= First(S) - 1 /\ n \in Int
    BY <1>1, <1>7
  <2> QED
    BY <1>7, <2>1, <2>2
<1>9. First(S) <= Len(Rest) => First(S) \in S
  BY <1>1, <1>2, <1>6
<1> QED
  BY <1>7, <1>8, <1>9

(* Going on in the innermost frame. *)
LEMMA GoesOn ==
  ASSUME StackInv, stage = "blocks", NEW at \in Nat, at >= Top.at, GoOn(at)
  PROVE  /\ FramesOk(source, stack') /\ Len(stack') = Len(stack)
         /\ \A k \in 1 .. Len(stack) : stack'[k].lines = stack[k].lines /\ stack'[k].at >= stack[k].at
         /\ stack'[Len(stack)].at = at /\ \A k \in 1 .. Len(stack) - 1 : stack'[k] = stack[k]
<1>1. FramesOk(source, stack) /\ Len(stack) >= 1 /\ at >= stack[Len(stack)].at
  BY DEF StackInv, Top
<1>2. PICK s, t : s = stack /\ t = stack'
  OBVIOUS
<1>3. t = Advanced(s, at)
  BY <1>2 DEF GoOn, Advanced
<1>4. /\ FramesOk(source, t) /\ Len(t) = Len(s)
      /\ \A k \in 1 .. Len(s) : t[k].lines = s[k].lines /\ t[k].at >= s[k].at
      /\ t[Len(s)].at = at /\ \A k \in 1 .. Len(s) - 1 : t[k] = s[k]
  BY <1>1, <1>2, <1>3, FramesAdvance
<1> QED
  BY <1>2, <1>4

(* The next line a quote takes is the last before one without its mark. *)
QuoteEnd == First({n \in Later : ~Marked(Rest[n])})
Quoted == Quoting(Top, QuoteEnd)

LEMMA QuoteTakes ==
  ASSUME StackInv, AtLine, Marked(Here)
  PROVE  /\ QuoteEnd \in Nat /\ Top.at < QuoteEnd /\ QuoteEnd <= Len(Rest) + 1
         /\ \A n \in Top.at .. QuoteEnd - 1 : Marked(Rest[n])
<1>1. PICK S : S = {n \in Later : ~Marked(Rest[n])}
  OBVIOUS
<1>2. S \in SUBSET Later /\ QuoteEnd = First(S)
  BY <1>1 DEF QuoteEnd
<1>3. /\ QuoteEnd \in Nat /\ Top.at < QuoteEnd /\ QuoteEnd <= Len(Rest) + 1
      /\ \A n \in Top.at + 1 .. QuoteEnd - 1 : n \notin S
  BY <1>2, FirstIs
<1>4. Top.at \in Nat /\ Len(Rest) \in Nat
  BY TopIs DEF AtLine
<1>5. ASSUME NEW n \in Top.at .. QuoteEnd - 1 PROVE Marked(Rest[n])
  <2>1. CASE n = Top.at
    BY <2>1 DEF Here
  <2>2. CASE n # Top.at
    <3>1. n \in Top.at + 1 .. QuoteEnd - 1 /\ n \in Top.at + 1 .. Len(Rest)
      BY <1>3, <1>4, <2>2
    <3>2. n \in Later /\ n \notin S
      BY <1>3, <3>1 DEF Later
    <3> QED
      BY <1>1, <3>2
  <2> QED
    BY <2>1, <2>2
<1> QED
  BY <1>3, <1>5

LEMMA QuoteOpens ==
  ASSUME StackInv, OpenQuote
  PROVE  /\ FramesOk(source, stack') /\ Len(stack') = Len(stack) + 1
         /\ \A k \in 1 .. Len(stack) - 1 : stack'[k] = stack[k]
         /\ stack'[Len(stack)].lines = Rest /\ stack'[Len(stack)].at = QuoteEnd
         /\ stack'[Len(stack) + 1].lines = Quoted /\ stack'[Len(stack) + 1].at = 1
<1>1. AtLine /\ Marked(Here) /\ stage = "blocks"
  BY DEF OpenQuote, Declined, AtLine
<1>2. /\ QuoteEnd \in Nat /\ Top.at < QuoteEnd /\ QuoteEnd <= Len(Rest) + 1
      /\ \A n \in Top.at .. QuoteEnd - 1 : Marked(Rest[n])
  BY <1>1, QuoteTakes
<1>3. PICK f, s, t, at, quoted, g :
        /\ f = Top /\ s = stack /\ at = QuoteEnd /\ quoted = Quoted /\ g = Frame(quoted, NewNode)
        /\ t = Advanced(stack, at)
  OBVIOUS
<1>4. stack' = Append(t, g)
  BY <1>3 DEF OpenQuote, QuoteEnd, Quoted, Quoting, Advanced, Rest
<1>5. IsSource(source) /\ FramesOk(source, s) /\ Len(s) >= 1 /\ f = s[Len(s)] /\ Len(s) \in Nat
  BY <1>1, <1>3, TopIs DEF StackInv, SourceIsRead, Top
<1>6. FrameOk(source, f) /\ f.at \in Nat /\ f.at >= 1 /\ Len(f.lines) \in Nat
  BY <1>1, <1>3, TopIs DEF Rest
<1>7. /\ at \in Nat /\ f.at < at /\ at <= Len(f.lines) + 1
      /\ AllMarked(f, at)
  BY <1>2, <1>3 DEF Rest, AllMarked
<1>8. f.at <= at /\ at >= s[Len(s)].at
  BY <1>5, <1>6, <1>7
<1>9. quoted = Quoting(f, at)
  BY <1>3 DEF Quoted
<1>10. /\ FrameOk(source, g) /\ g.lines = quoted /\ g.at = 1 /\ Len(quoted) = at - f.at
       /\ \A n \in 1 .. Len(quoted) :
            /\ f.at + n - 1 \in f.at .. at - 1 /\ f.at + n - 1 \in 1 .. Len(f.lines)
            /\ quoted[n].start = f.lines[f.at + n - 1].start
            /\ quoted[n].newlineEnd = f.lines[f.at + n - 1].newlineEnd
  <2>1. PICK parent : parent = NewNode
    OBVIOUS
  <2>2. g = Frame(quoted, parent)
    BY <1>3, <2>1
  <2>3. IsSource(source) /\ FrameOk(source, f) /\ at \in Nat /\ f.at <= at /\ at <= Len(f.lines) + 1
        /\ AllMarked(f, at)
    BY <1>5, <1>6, <1>7, <1>8
  <2> QED
    BY <1>9, <2>2, <2>3, QuotedFrame
<1>11. /\ FramesOk(source, t) /\ Len(t) = Len(s)
       /\ \A k \in 1 .. Len(s) : t[k].lines = s[k].lines /\ t[k].at >= s[k].at
       /\ t[Len(s)].at = at /\ \A k \in 1 .. Len(s) - 1 : t[k] = s[k]
  <2>1. t = Advanced(s, at)
    BY <1>3
  <2> QED
    BY <1>5, <1>7, <1>8, <2>1, FramesAdvance
<1>12. ASSUME NEW k \in 1 .. Len(t) PROVE Behind(t[k], g)
  <2>1. CASE k = Len(s)
    <3>1. t[k].lines = f.lines /\ t[k].at = at
      BY <1>5, <1>11, <2>1
    <3>2. ASSUME NEW m \in at .. Len(f.lines), NEW n \in 1 .. Len(quoted)
          PROVE  quoted[n].newlineEnd <= f.lines[m].start
      <4>1. PICK i : i = f.at + n - 1
        OBVIOUS
      <4>2. i \in f.at .. at - 1 /\ i \in 1 .. Len(f.lines) /\ quoted[n].newlineEnd = f.lines[i].newlineEnd
        BY <1>10, <4>1
      <4>3. m \in 1 .. Len(f.lines) /\ i < m
        BY <1>6, <1>7, <4>2
      <4>4. f.lines[i].newlineEnd <= f.lines[m].start
        BY <1>6, <4>2, <4>3 DEF FrameOk, InOrder
      <4> QED
        BY <4>2, <4>4
    <3> QED
      BY <1>10, <3>1, <3>2 DEF Behind
  <2>2. CASE k # Len(s)
    <3>1. k \in 1 .. Len(s) - 1 /\ k \in 1 .. Len(s) /\ k < Len(s) /\ Len(s) \in 1 .. Len(s)
      BY <1>5, <1>11, <2>2
    <3>2. t[k] = s[k] /\ Behind(s[k], f)
      BY <1>5, <1>11, <3>1 DEF FramesOk
    <3>3. ASSUME NEW m \in t[k].at .. Len(t[k].lines), NEW n \in 1 .. Len(quoted)
          PROVE  quoted[n].newlineEnd <= t[k].lines[m].start
      <4>1. PICK i : i = f.at + n - 1
        OBVIOUS
      <4>2. i \in 1 .. Len(f.lines) /\ quoted[n].newlineEnd = f.lines[i].newlineEnd
        BY <1>10, <4>1
      <4> QED
        BY <3>2, <4>2 DEF Behind
    <3> QED
      BY <1>10, <3>3 DEF Behind
  <2> QED
    BY <2>1, <2>2
<1>13. /\ FramesOk(source, Append(t, g)) /\ Len(Append(t, g)) = Len(t) + 1
       /\ \A k \in 1 .. Len(t) : Append(t, g)[k] = t[k]
       /\ Append(t, g)[Len(t) + 1] = g
  BY <1>10, <1>11, <1>12, FramesOpen
<1>14. Len(s) \in 1 .. Len(s) /\ \A k \in 1 .. Len(s) - 1 : k \in 1 .. Len(s)
  BY <1>5
<1>15. /\ stack'[Len(s)] = t[Len(s)] /\ stack'[Len(s) + 1] = g
       /\ \A k \in 1 .. Len(s) - 1 : stack'[k] = s[k]
  BY <1>4, <1>11, <1>13, <1>14
<1>16. t[Len(s)].lines = f.lines
  BY <1>5, <1>11, <1>14
<1> QED
  BY <1>3, <1>4, <1>10, <1>11, <1>13, <1>15, <1>16 DEF Rest

LEMMA HookGoesOn ==
  ASSUME StackInv, AtLine, NEW last, last \subseteq Top.at .. Len(Rest), last # {}
  PROVE  Max(last) \in last /\ Max(last) + 1 \in Nat /\ Max(last) + 1 > Top.at
<1>1. Top.at \in Nat /\ Len(Rest) \in Nat
  BY TopIs DEF AtLine
<1>2. last \in SUBSET Nat /\ \A n \in last : n <= Len(Rest)
  BY <1>1
<1>3. Max(last) \in last
  BY <1>1, <1>2, MaxIs
<1>4. Max(last) \in Top.at .. Len(Rest)
  BY <1>3
<1>5. \A m \in Top.at .. Len(Rest) : m + 1 \in Nat /\ m + 1 > Top.at
  BY <1>1
<1> QED
  BY <1>3, <1>4, <1>5

LEMMA StackStays == DispatchSpec => []StackInv
<1>1. DispatchInit => StackInv
  <2> SUFFICES ASSUME DispatchInit PROVE StackInv
    OBVIOUS
  <2>1. source = <<>> /\ stack = <<>> /\ stage = "new"
    BY DEF DispatchInit
  <2>2. IsSource(source) /\ IsSequence(stack) /\ Len(stack) = 0
    <3>1. <<>> \in Seq({})
      OBVIOUS
    <3> QED
      BY <2>1, <3>1 DEF IsSource, IsSequence
  <2> QED
    BY <2>1, <2>2 DEF StackInv, SourceIsRead, FramesOk
<1>2. StackInv /\ [BuildParser \/ StartParse \/ DispatchNext]_dispatchVars => StackInv'
  <2> SUFFICES ASSUME StackInv, [BuildParser \/ StartParse \/ DispatchNext]_dispatchVars
               PROVE  StackInv'
    OBVIOUS
  <2>1. ASSUME UNCHANGED <<source, stack>>, stage' = "blocks" => stage = "blocks" PROVE StackInv'
    BY <2>1 DEF StackInv, SourceIsRead, IsSource
  <2>2. ASSUME UNCHANGED source, FramesOk(source, stack'), stage' = "blocks" => Len(stack') >= 1
        PROVE  StackInv'
    BY <2>2 DEF StackInv, SourceIsRead, IsSource
  <2>3. CASE StartParse
    <3>1. IsSource(source')
      BY <2>3, TextIsSource, DispatchAssumption DEF StartParse
    <3>2. stack' = <<Frame(ScanLines(source'), RootNode)>>
      BY <2>3 DEF StartParse
    <3>3. FramesOk(source', stack') /\ Len(stack') = 1
      BY <3>1, <3>2, FramesStart
    <3> QED
      BY <3>1, <3>3 DEF StackInv, SourceIsRead, IsSource
  <2>4. CASE BuildParser \/ UNCHANGED dispatchVars
    BY <2>1, <2>4 DEF BuildParser, dispatchVars, parseVars
  <2>5. CASE HookDeclines \/ HookFails \/ InlineHookMatches \/ WalkText \/ EndText
    BY <2>1, <2>5 DEF HookDeclines, HookFails, Refuse, InlineHookMatches, WalkText, EndText
  <2>6. CASE BlockHookMatches
    <3>1. AtLine /\ stage = "blocks" /\ UNCHANGED source
      BY <2>6 DEF BlockHookMatches, AtBlockHook, AtLine, Refuse
    <3>2. \/ Refuse
          \/ \E last : /\ last \subseteq Top.at .. Len(Rest) /\ last # {}
                       /\ GoOn(Max(last) + 1) /\ UNCHANGED stage
      <4>1. PICK length \in Lengths, offset \in Lengths, node \in Offered :
              LET start    == LineSourceOffset(Here, 0)
                  consumed == Consumed(start, length, offset, node, Len(source) - start)
                  last     == {n \in Top.at .. Len(Rest) : EndsLine(n, start + consumed)}
              IN  \/ Refuse
                  \/ last # {} /\ GoOn(Max(last) + 1) /\ UNCHANGED stage
        BY <2>6 DEF BlockHookMatches, GoOn
      <4>2. PICK end :
              LET last == {n \in Top.at .. Len(Rest) : EndsLine(n, end)}
              IN  \/ Refuse
                  \/ last # {} /\ GoOn(Max(last) + 1) /\ UNCHANGED stage
        BY <4>1
      <4>3. {n \in Top.at .. Len(Rest) : EndsLine(n, end)} \subseteq Top.at .. Len(Rest)
        OBVIOUS
      <4> QED
        BY <4>2, <4>3
    <3>3. CASE Refuse
      BY <2>1, <3>3 DEF Refuse
    <3>4. ASSUME NEW last, last \subseteq Top.at .. Len(Rest), last # {}, GoOn(Max(last) + 1), UNCHANGED stage
          PROVE  StackInv'
      <4>1. Max(last) + 1 \in Nat /\ Max(last) + 1 > Top.at /\ Top.at \in Nat
        BY <3>1, <3>4, HookGoesOn, TopIs
      <4>2. PICK at : at = Max(last) + 1
        OBVIOUS
      <4>3. at \in Nat /\ at >= Top.at /\ GoOn(at)
        BY <3>4, <4>1, <4>2
      <4> QED
        BY <2>2, <3>1, <4>3, GoesOn, TopIs
    <3> QED
      BY <3>2, <3>3, <3>4
  <2>7. ASSUME NEW at \in Nat, at >= Top.at, GoOn(at), AtLine, UNCHANGED <<stage, source>> PROVE StackInv'
    <3>1. stage = "blocks"
      BY <2>7 DEF AtLine
    <3>2. FramesOk(source, stack') /\ Len(stack') = Len(stack) /\ Len(stack) >= 1
      BY <2>7, <3>1, GoesOn, TopIs
    <3> QED
      BY <2>2, <2>7, <3>2
  <2>8. CASE SkipBlankLine
    <3>1. AtLine /\ GoOn(Top.at + 1) /\ UNCHANGED <<stage, source>>
      BY <2>8 DEF SkipBlankLine
    <3>2. Top.at \in Nat
      BY <3>1, TopIs DEF AtLine
    <3>3. Top.at + 1 \in Nat /\ Top.at + 1 >= Top.at
      BY <3>2
    <3> QED
      BY <2>7, <3>1, <3>3
  <2>9. CASE OpenQuote
    <3>1. FramesOk(source, stack') /\ Len(stack') = Len(stack) + 1
      BY <2>9, QuoteOpens
    <3>2. stage = "blocks" /\ UNCHANGED <<stage, source>>
      BY <2>9 DEF OpenQuote, Declined, AtLine
    <3>3. Len(stack) \in Nat
      BY <3>2, TopIs
    <3> QED
      BY <2>2, <3>1, <3>2, <3>3
  <2>10. ASSUME AtLine, UNCHANGED <<stage, source>>, NEW S \in SUBSET Later, GoOn(First(S)) PROVE StackInv'
    <3>1. First(S) \in Nat /\ Top.at < First(S)
      BY <2>10, FirstIs
    <3>2. Top.at \in Nat
      BY <2>10, TopIs DEF AtLine
    <3>3. First(S) >= Top.at
      BY <3>1, <3>2
    <3> QED
      BY <2>7, <2>10, <3>1, <3>3
  <2>11. CASE ParseCode
    <3>1. PICK S : S = {n \in Later : ~IsBlank(Rest[n].logical) /\ IndentWidth(Rest[n].logical) < 4}
      OBVIOUS
    <3>2. S \in SUBSET Later
      BY <3>1
    <3>3. AtLine /\ UNCHANGED <<stage, source>> /\ GoOn(First(S))
      BY <2>11, <3>1 DEF ParseCode, Declined
    <3> QED
      BY <2>10, <3>2, <3>3
  <2>12. CASE ParseText
    <3>1. PICK S : S = {n \in Later : EndsParagraph(Rest[n])}
      OBVIOUS
    <3>2. S \in SUBSET Later
      BY <3>1
    <3>3. AtLine /\ UNCHANGED <<stage, source>> /\ GoOn(First(S))
      BY <2>12, <3>1 DEF ParseText, Declined
    <3> QED
      BY <2>10, <3>2, <3>3
  <2>13. CASE EndFrame
    <3>1. stage = "blocks" /\ UNCHANGED source /\ stack' = SubSeq(stack, 1, Len(stack) - 1)
          /\ stage' = IF Len(stack) = 1 THEN "inlines" ELSE stage
      BY <2>13 DEF EndFrame
    <3>2. FramesOk(source, stack) /\ Len(stack) \in Nat /\ Len(stack) >= 1
      BY <3>1, TopIs DEF StackInv
    <3>3. FramesOk(source, stack') /\ Len(stack') = Len(stack) - 1
      BY <3>1, <3>2, FramesEnd
    <3>4. stage' = "blocks" => Len(stack') >= 1
      BY <3>1, <3>2, <3>3
    <3> QED
      BY <2>2, <3>1, <3>3, <3>4
  <2> QED
    BY <2>3, <2>4, <2>5, <2>6, <2>8, <2>9, <2>11, <2>12, <2>13 DEF DispatchNext
<1> QED
  BY <1>1, <1>2, PTL DEF DispatchSpec

-----------------------------------------------------------------------------
(* A line that follows the source tells the truth about its offsets.       *)
OffsetsAreTrue(line) ==
  /\ Len(line.offsets) = Len(line.logical) + 1
  /\ line.offsets[Len(line.offsets)] = line.end
  /\ \A k \in 1 .. Len(line.logical) :
       /\ line.offsets[k] \in line.start .. line.offsets[k + 1]
       /\ \/ line.logical[k] = " " /\ TabbedMark(line)
          \/ /\ line.offsets[k] < line.end
             /\ \/ ByteAt(source, line.offsets[k]) = line.logical[k]
                \/ line.logical[k] = " " /\ ByteAt(source, line.offsets[k]) \in Blanks
       /\ line.logical[k] \notin Blanks => line.offsets[k] < line.offsets[k + 1]

LEMMA OffsetsOfLine ==
  ASSUME IsSource(source), NEW line, LineFollows(source, line)
  PROVE  OffsetsAreTrue(line)
<1>1. PICK head, at \in Nat : HeadAndRest(source, line, head, at)
  BY DEF LineFollows
<1>2. PICK bytes, offs, n, start, stop :
        bytes = line.logical /\ offs = line.offsets /\ n = Len(bytes) /\ start = line.start /\ stop = line.end
  OBVIOUS
<1>3. n \in Nat /\ start \in Nat /\ stop \in Nat /\ Len(offs) = n + 1
  BY <1>2 DEF LineFollows, LineRecord
<1>4. /\ head \in 0 .. n /\ at \in start .. stop /\ at + n - head = stop
      /\ \A k \in head + 1 .. n + 1 : offs[k] = at + k - head - 1
      /\ \A k \in head + 1 .. n : bytes[k] = source[at + k - head]
      /\ \A k \in 1 .. head :
           /\ bytes[k] = " " /\ offs[k] \in start .. offs[k + 1]
           /\ Tabbed(source, line) \/ (offs[k] < stop /\ ByteAt(source, offs[k]) \in Blanks)
  BY <1>1, <1>2 DEF HeadAndRest
<1>5. head \in Nat /\ head <= n /\ at \in Nat /\ start <= at /\ at + n - head = stop
  <2>1. head \in 0 .. n /\ at \in start .. stop /\ at + n - head = stop
    BY <1>4
  <2> QED
    BY <1>1, <1>3, <2>1
<1>6. offs[n + 1] = stop
  <2>1. n + 1 \in head + 1 .. n + 1
    BY <1>3, <1>5
  <2>2. offs[n + 1] = at + (n + 1) - head - 1
    BY <1>4, <2>1
  <2> QED
    BY <1>3, <1>5, <2>2
<1>7. ASSUME NEW k \in 1 .. n
      PROVE  /\ offs[k] \in start .. offs[k + 1]
             /\ \/ bytes[k] = " " /\ TabbedMark(line)
                \/ /\ offs[k] < stop
                   /\ \/ ByteAt(source, offs[k]) = bytes[k]
                      \/ bytes[k] = " " /\ ByteAt(source, offs[k]) \in Blanks
             /\ bytes[k] \notin Blanks => offs[k] < offs[k + 1]
  <2>1. CASE k <= head
    <3>1. k \in 1 .. head
      BY <1>3, <1>5, <2>1
    <3>2. Tabbed(source, line) => TabbedMark(line)
      BY DEF Tabbed, TabbedMark
    <3>3. " " \in Blanks
      BY DEF Blanks
    <3> QED
      BY <1>4, <3>1, <3>2, <3>3
  <2>2. CASE k > head
    <3>1. k \in head + 1 .. n + 1 /\ k + 1 \in head + 1 .. n + 1 /\ k \in head + 1 .. n
      BY <1>3, <1>5, <2>2
    <3>2. offs[k] = at + k - head - 1 /\ offs[k + 1] = at + (k + 1) - head - 1 /\ bytes[k] = source[at + k - head]
      BY <1>4, <3>1
    <3>3. /\ offs[k] \in Nat /\ start <= offs[k] /\ offs[k] < stop /\ offs[k + 1] = offs[k] + 1
          /\ at + k - head = offs[k] + 1
      BY <1>3, <1>5, <2>2, <3>2
    <3>4. ByteAt(source, offs[k]) = bytes[k]
      BY <3>2, <3>3 DEF ByteAt
    <3>5. offs[k] \in start .. offs[k + 1] /\ offs[k] < offs[k + 1]
      BY <1>3, <3>3
    <3> QED
      BY <3>3, <3>4, <3>5
  <2>3. k <= head \/ k > head
    BY <1>3, <1>5
  <2> QED
    BY <2>1, <2>2, <2>3
<1> QED
  BY <1>2, <1>3, <1>6, <1>7 DEF OffsetsAreTrue

(* In any depth of containers each byte of a line stands at its offset in  *)
(* the source: stripLineContainer keeps its map true, a column left over   *)
(* from a tab included, for every source and every nesting of quotes.      *)
THEOREM OffsetsFollow == DispatchSpec => []OffsetsFollowTheSource
<1>1. StackInv => OffsetsFollowTheSource
  <2> SUFFICES ASSUME StackInv PROVE OffsetsFollowTheSource
    OBVIOUS
  <2>1. ASSUME NEW line \in ActiveLines PROVE OffsetsAreTrue(line)
    <3>1. \E k \in 1 .. Len(stack) : \E n \in 1 .. Len(stack[k].lines) : line = stack[k].lines[n]
      <4> DEFINE Of(k) == {stack[k].lines[n] : n \in 1 .. Len(stack[k].lines)}
      <4>1. line \in UNION {Of(k) : k \in 1 .. Len(stack)}
        BY DEF ActiveLines
      <4>2. PICK k \in 1 .. Len(stack) : line \in Of(k)
        <5> HIDE DEF Of
        <5> QED
          BY <4>1
      <4> QED
        BY <4>2
    <3>2. LineFollows(source, line)
      BY <3>1 DEF StackInv, FramesOk, FrameOk
    <3>3. IsSource(source)
      BY DEF StackInv, SourceIsRead
    <3> QED
      BY <3>2, <3>3, OffsetsOfLine
  <2>2. OffsetsFollowTheSource <=> \A line \in ActiveLines : OffsetsAreTrue(line)
    BY ZenonT(30) DEF OffsetsFollowTheSource, OffsetsAreTrue
  <2> QED
    BY <2>1, <2>2
<1> QED
  BY <1>1, StackStays, PTL
-----------------------------------------------------------------------------
(* The text of a paragraph.                                                *)
GoodSpans(src, spans) ==
  /\ Len(spans) \in Nat /\ Len(spans) >= 1
  /\ \A n \in 1 .. Len(spans) :
       /\ spans[n].start \in Nat /\ spans[n].end \in Nat
       /\ spans[n].start <= spans[n].end /\ spans[n].end <= Len(src)
  /\ \A m, n \in 1 .. Len(spans) : m < n => spans[m].end < spans[n].start

InSpans(spans, byte) == \E n \in 1 .. Len(spans) : byte \in spans[n].start .. spans[n].end - 1
BetweenSpans(spans, byte) == \E n \in 1 .. Len(spans) - 1 : spans[n].end = byte

Flattened(f, seqs, n) == f = [i \in 1 .. n |-> IF i = 1 THEN seqs[i] ELSE f[i - 1] \o seqs[i]]

LEMMA FlattenExists ==
  ASSUME NEW seqs, NEW n \in Nat, n >= 1
  PROVE  \E f : Flattened(f, seqs, n)
<1> DEFINE Fine == {m \in Nat : m >= 1 => \E f : Flattened(f, seqs, m)}
<1>1. 0 \in Fine
  OBVIOUS
<1>2. ASSUME NEW m \in Nat, m \in Fine PROVE m + 1 \in Fine
  <2>1. CASE m = 0
    <3>1. PICK f : f = [i \in 1 .. 1 |-> seqs[i]]
      OBVIOUS
    <3>2. f = [i \in 1 .. 1 |-> IF i = 1 THEN seqs[i] ELSE f[i - 1] \o seqs[i]]
      BY <3>1
    <3>3. Flattened(f, seqs, 1)
      BY <3>2 DEF Flattened
    <3> QED
      BY <2>1, <3>3
  <2>2. CASE m >= 1
    <3>1. PICK g : Flattened(g, seqs, m)
      BY <1>2, <2>2
    <3>2. PICK h : h = [i \in 1 .. m + 1 |-> IF i = m + 1 THEN g[m] \o seqs[m + 1] ELSE g[i]]
      OBVIOUS
    <3>3. \A i \in 1 .. m : h[i] = g[i]
      BY <3>2
    <3>4. ASSUME NEW i \in 1 .. m + 1 PROVE h[i] = IF i = 1 THEN seqs[i] ELSE h[i - 1] \o seqs[i]
      <4>1. CASE i = m + 1
        <5>1. i # 1 /\ i - 1 = m /\ m \in 1 .. m
          BY <2>2, <4>1
        <5>2. h[i] = g[m] \o seqs[m + 1]
          BY <3>2, <4>1
        <5> QED
          BY <3>3, <4>1, <5>1, <5>2
      <4>2. CASE i # m + 1
        <5>1. i \in 1 .. m /\ (i # 1 => i - 1 \in 1 .. m)
          BY <4>2
        <5>2. g[i] = IF i = 1 THEN seqs[i] ELSE g[i - 1] \o seqs[i]
          BY <3>1, <5>1 DEF Flattened
        <5> QED
          BY <3>3, <5>1, <5>2
      <4> QED
        BY <4>1, <4>2
    <3>5. h = [i \in 1 .. m + 1 |-> h[i]]
      BY <3>2
    <3>6. Flattened(h, seqs, m + 1)
      BY <3>4, <3>5 DEF Flattened
    <3> QED
      BY <3>6
  <2> QED
    BY <2>1, <2>2
<1>3. Nat \subseteq Fine
  <2> HIDE DEF Fine
  <2> QED
    BY <1>1, <1>2, SetInduction
<1> QED
  BY <1>3

LEMMA FlattenIs ==
  ASSUME NEW seqs, Len(seqs) \in Nat, Len(seqs) >= 1
  PROVE  \E f : Flattened(f, seqs, Len(seqs)) /\ FlattenSeq(seqs) = f[Len(seqs)]
<1>1. PICK f : f = CHOOSE g : Flattened(g, seqs, Len(seqs))
  OBVIOUS
<1>2. Flattened(f, seqs, Len(seqs))
  BY <1>1, FlattenExists
<1>3. FlattenSeq(seqs) = f[Len(seqs)]
  BY <1>1 DEF FlattenSeq, Flattened
<1> QED
  BY <1>2, <1>3

(* The offsets of the n-th span, behind the line ending before it. *)
SpanOffsets(spans, n) == [k \in 1 .. spans[n].end - spans[n].start |-> spans[n].start + k - 1]
Piece(spans, n) == (IF n > 1 THEN <<spans[n - 1].end>> ELSE <<>>) \o SpanOffsets(spans, n)

LEMMA PieceIs ==
  ASSUME NEW src, NEW spans, GoodSpans(src, spans), NEW n \in 1 .. Len(spans),
         NEW low, low = IF n > 1 THEN spans[n - 1].end ELSE spans[n].start
  PROVE  LET piece == Piece(spans, n)
         IN  /\ piece \in Seq(Nat)
             /\ \A k \in 1 .. Len(piece) :
                  /\ piece[k] >= low /\ piece[k] < spans[n].end
                  /\ InSpans(spans, piece[k]) \/ BetweenSpans(spans, piece[k])
             /\ \A j, k \in 1 .. Len(piece) : j < k => piece[j] < piece[k]
<1>1. PICK a, b, N : a = spans[n].start /\ b = spans[n].end /\ N = Len(spans)
  OBVIOUS
<1>2. a \in Nat /\ b \in Nat /\ a <= b /\ N \in Nat /\ n \in Nat /\ n >= 1 /\ n <= N
  BY <1>1 DEF GoodSpans
<1>3. PICK offs : offs = SpanOffsets(spans, n)
  OBVIOUS
<1>4. offs = [k \in 1 .. b - a |-> a + k - 1]
  BY <1>1, <1>3 DEF SpanOffsets
<1>5. b - a \in Nat /\ offs \in [1 .. b - a -> Nat] /\ \A k \in 1 .. b - a : offs[k] = a + k - 1
  BY <1>2, <1>4
<1>6. offs \in Seq(Nat) /\ Len(offs) = b - a
  BY <1>5, SequenceIn
<1>7. ASSUME NEW k \in 1 .. b - a PROVE offs[k] \in a .. b - 1 /\ InSpans(spans, offs[k])
  <2>1. offs[k] \in a .. b - 1
    BY <1>2, <1>5
  <2> QED
    BY <1>1, <2>1 DEF InSpans
<1>8. CASE n > 1
  <2>1. n - 1 \in 1 .. N /\ n - 1 \in 1 .. N - 1 /\ n - 1 < n
    BY <1>2, <1>8
  <2>2. PICK e : e = spans[n - 1].end
    OBVIOUS
  <2>3. e \in Nat /\ e < a /\ low = e
    BY <1>1, <1>2, <1>8, <2>1, <2>2 DEF GoodSpans
  <2>4. BetweenSpans(spans, e)
    BY <1>1, <2>1, <2>2 DEF BetweenSpans
  <2>5. PICK piece : piece = <<e>> \o offs
    OBVIOUS
  <2>6. Piece(spans, n) = piece
    BY <1>3, <1>8, <2>2, <2>5 DEF Piece
  <2>7. <<e>> \in Seq(Nat) /\ Len(<<e>>) = 1 /\ <<e>>[1] = e
    BY <2>3
  <2>8. PICK o : o = <<e>>
    OBVIOUS
  <2>9. /\ piece \in Seq(Nat) /\ Len(piece) = 1 + (b - a)
        /\ piece[1] = e
        /\ \A k \in 2 .. 1 + (b - a) : piece[k] = offs[k - 1]
    <3>1. o \in Seq(Nat) /\ Len(o) = 1 /\ o[1] = e
      BY <2>7, <2>8
    <3>2. /\ piece \in Seq(Nat) /\ Len(piece) = Len(o) + Len(offs)
          /\ \A k \in 1 .. Len(o) : piece[k] = o[k]
          /\ \A k \in Len(o) + 1 .. Len(o) + Len(offs) : piece[k] = offs[k - Len(o)]
      BY <1>6, <2>5, <2>8, <3>1, JoinIs
    <3>3. 1 \in 1 .. Len(o) /\ Len(o) + 1 = 2
      BY <3>1
    <3> QED
      BY <1>6, <3>1, <3>2, <3>3
  <2>10. ASSUME NEW k \in 2 .. 1 + (b - a)
         PROVE  k - 1 \in 1 .. b - a /\ piece[k] = a + (k - 1) - 1 /\ piece[k] \in a .. b - 1
                /\ InSpans(spans, piece[k])
    <3>1. k - 1 \in 1 .. b - a
      BY <1>2
    <3> QED
      BY <1>5, <1>7, <2>9, <3>1
  <2>11. \A k \in 1 .. 1 + (b - a) : k = 1 \/ k \in 2 .. 1 + (b - a)
    BY <1>2
  <2>12. ASSUME NEW k \in 1 .. 1 + (b - a)
         PROVE  /\ piece[k] >= low /\ piece[k] < b
                /\ InSpans(spans, piece[k]) \/ BetweenSpans(spans, piece[k])
    <3>1. CASE k = 1
      BY <1>2, <2>3, <2>4, <2>9, <3>1
    <3>2. CASE k \in 2 .. 1 + (b - a)
      <4>1. piece[k] \in a .. b - 1 /\ InSpans(spans, piece[k])
        BY <2>10, <3>2
      <4>2. piece[k] >= low /\ piece[k] < b
        BY <1>2, <2>3, <4>1
      <4> QED
        BY <4>1, <4>2
    <3> QED
      BY <2>11, <3>1, <3>2
  <2>13. ASSUME NEW j \in 1 .. 1 + (b - a), NEW k \in 1 .. 1 + (b - a), j < k PROVE piece[j] < piece[k]
    <3>1. k \in 2 .. 1 + (b - a) /\ (j = 1 \/ j \in 2 .. 1 + (b - a))
      BY <1>2, <2>13
    <3>2. piece[k] = a + (k - 1) - 1
      BY <2>10, <3>1
    <3>3. CASE j = 1
      BY <1>2, <2>3, <2>9, <3>1, <3>2, <3>3
    <3>4. CASE j \in 2 .. 1 + (b - a)
      <4>1. piece[j] = a + (j - 1) - 1
        BY <2>10, <3>4
      <4> QED
        BY <1>2, <2>13, <3>2, <4>1
    <3> QED
      BY <3>1, <3>3, <3>4
  <2> QED
    BY <1>1, <2>6, <2>9, <2>12, <2>13
<1>9. CASE ~(n > 1)
  <2>1. PICK none : none = <<>>
    OBVIOUS
  <2>2. Piece(spans, n) = none \o offs
    BY <1>3, <1>9, <2>1 DEF Piece
  <2>3. none \o offs = offs
    BY <1>6, <2>1
  <2>4. low = a
    BY <1>1, <1>9
  <2>5. \A j, k \in 1 .. b - a : j < k => offs[j] < offs[k]
    BY <1>2, <1>5
  <2>6. \A k \in 1 .. b - a : offs[k] >= low /\ offs[k] < b
    BY <1>2, <1>7, <2>4
  <2> QED
    BY <1>1, <1>6, <1>7, <2>2, <2>3, <2>5, <2>6
<1> QED
  BY <1>8, <1>9

(* All of them in a row. *)
Pieces(spans) == [n \in 1 .. Len(spans) |-> Piece(spans, n)]

LEMMA JoinedIs ==
  ASSUME NEW src, NEW spans, GoodSpans(src, spans),
         NEW joined, joined = FlattenSeq(Pieces(spans))
  PROVE  /\ joined \in Seq(Nat)
         /\ \A k \in 1 .. Len(joined) :
              /\ joined[k] \in spans[1].start .. spans[Len(spans)].end - 1
              /\ InSpans(spans, joined[k]) \/ BetweenSpans(spans, joined[k])
         /\ \A j, k \in 1 .. Len(joined) : j < k => joined[j] < joined[k]
<1>1. PICK N, seqs : N = Len(spans) /\ seqs = Pieces(spans)
  OBVIOUS
<1>2. N \in Nat /\ N >= 1
  BY <1>1 DEF GoodSpans
<1>3. DOMAIN seqs = 1 .. N /\ seqs = [n \in 1 .. N |-> seqs[n]] /\ \A n \in 1 .. N : seqs[n] = Piece(spans, n)
  BY <1>1 DEF Pieces
<1>4. Len(seqs) = N
  BY <1>2, <1>3, SequenceOf
<1>5. PICK f : Flattened(f, seqs, N) /\ joined = f[N]
  BY <1>1, <1>2, <1>4, FlattenIs
<1> DEFINE Upto(s, n) ==
             /\ s \in Seq(Nat)
             /\ \A k \in 1 .. Len(s) :
                  /\ s[k] >= spans[1].start /\ s[k] < spans[n].end
                  /\ InSpans(spans, s[k]) \/ BetweenSpans(spans, s[k])
             /\ \A j, k \in 1 .. Len(s) : j < k => s[j] < s[k]
           Fine == {m \in Nat : m >= 1 /\ m <= N => Upto(f[m], m)}
<1>6. 0 \in Fine
  OBVIOUS
<1>7. ASSUME NEW m \in Nat, m \in Fine PROVE m + 1 \in Fine
  <2> SUFFICES ASSUME m + 1 <= N PROVE Upto(f[m + 1], m + 1)
    OBVIOUS
  <2>1. m + 1 \in 1 .. N /\ m + 1 \in 1 .. Len(spans)
    BY <1>1, <1>2
  <2>2. PICK low : low = IF m + 1 > 1 THEN spans[(m + 1) - 1].end ELSE spans[m + 1].start
    OBVIOUS
  <2>3. PICK piece : piece = Piece(spans, m + 1)
    OBVIOUS
  <2>4. /\ piece \in Seq(Nat)
        /\ \A k \in 1 .. Len(piece) :
             /\ piece[k] >= low /\ piece[k] < spans[m + 1].end
             /\ InSpans(spans, piece[k]) \/ BetweenSpans(spans, piece[k])
        /\ \A j, k \in 1 .. Len(piece) : j < k => piece[j] < piece[k]
    BY <2>1, <2>2, <2>3, PieceIs
  <2>5. CASE m = 0
    <3>1. f[1] = seqs[1]
      BY <1>2, <1>5 DEF Flattened
    <3>2. f[1] = piece /\ low = spans[1].start
      BY <1>2, <1>3, <2>2, <2>3, <2>5, <3>1
    <3> QED
      BY <2>4, <2>5, <3>2
  <2>6. CASE m >= 1
    <3>1. m \in 1 .. N /\ m <= N /\ m \in 1 .. Len(spans) /\ m < m + 1 /\ (m + 1) - 1 = m
      BY <1>1, <1>2, <2>1, <2>6
    <3>2. PICK s : s = f[m]
      OBVIOUS
    <3>3. Upto(s, m)
      BY <1>7, <2>6, <3>1, <3>2
    <3>4. f[m + 1] = s \o piece
      <4>1. f[m + 1] = IF m + 1 = 1 THEN seqs[m + 1] ELSE f[(m + 1) - 1] \o seqs[m + 1]
        <5> HIDE DEF Upto, Fine
        <5>1. \A i \in 1 .. N : f[i] = IF i = 1 THEN seqs[i] ELSE f[i - 1] \o seqs[i]
          BY <1>5 DEF Flattened
        <5> QED
          BY <2>1, <5>1
      <4>2. m + 1 # 1 /\ seqs[m + 1] = piece /\ f[(m + 1) - 1] = s
        BY <1>3, <2>1, <2>3, <2>6, <3>1, <3>2
      <4> QED
        BY <4>1, <4>2
    <3>5. low = spans[m].end /\ low \in Nat /\ low < spans[m + 1].start /\ spans[m + 1].start <= spans[m + 1].end
          /\ spans[m + 1].end \in Nat /\ spans[m + 1].start \in Nat
          /\ spans[1].start \in Nat
      BY <1>1, <1>2, <2>1, <2>2, <3>1 DEF GoodSpans
    <3>6. spans[1].start <= low
      <4>1. 1 \in 1 .. Len(spans) /\ spans[1].start <= spans[1].end /\ spans[1].end \in Nat
        BY <1>1, <1>2 DEF GoodSpans
      <4>2. CASE m = 1
        BY <3>5, <4>1, <4>2
      <4>3. CASE m # 1
        <5>1. spans[1].end < spans[m].start /\ spans[m].start <= spans[m].end /\ spans[m].start \in Nat
          BY <3>1, <4>1, <4>3 DEF GoodSpans
        <5> QED
          BY <3>5, <4>1, <5>1
      <4> QED
        BY <4>2, <4>3
    <3> HIDE DEF Fine
    <3>7. PICK t, a, b : t = s \o piece /\ a = Len(s) /\ b = Len(piece)
      OBVIOUS
    <3>8. a \in Nat /\ b \in Nat
      BY <2>4, <3>3, <3>7
    <3>9. /\ t \in Seq(Nat) /\ Len(t) = a + b
          /\ \A k \in 1 .. a : t[k] = s[k]
          /\ \A k \in a + 1 .. a + b : t[k] = piece[k - a]
      BY <2>4, <3>3, <3>7, JoinIs
    <3>10. \A k \in 1 .. a : t[k] = s[k] /\ t[k] \in Nat /\ t[k] >= spans[1].start /\ t[k] < low
                             /\ (InSpans(spans, t[k]) \/ BetweenSpans(spans, t[k]))
      BY <3>3, <3>5, <3>7, <3>9
    <3>11. ASSUME NEW k \in a + 1 .. a + b
           PROVE  /\ k - a \in 1 .. b /\ t[k] = piece[k - a] /\ t[k] \in Nat
                  /\ t[k] >= low /\ t[k] < spans[m + 1].end
                  /\ InSpans(spans, t[k]) \/ BetweenSpans(spans, t[k])
      <4>1. k - a \in 1 .. b
        BY <3>8
      <4> QED
        BY <2>4, <3>7, <3>9, <4>1
    <3>12. ASSUME NEW k \in 1 .. a + b PROVE k \in 1 .. a \/ k \in a + 1 .. a + b
      BY <3>8
    <3>13. ASSUME NEW k \in 1 .. a + b
           PROVE  /\ t[k] >= spans[1].start /\ t[k] < spans[m + 1].end
                  /\ InSpans(spans, t[k]) \/ BetweenSpans(spans, t[k])
      <4>1. CASE k \in 1 .. a
        BY <3>5, <3>10, <4>1
      <4>2. CASE k \in a + 1 .. a + b
        BY <3>5, <3>6, <3>11, <4>2
      <4> QED
        BY <3>12, <4>1, <4>2
    <3>14. ASSUME NEW j \in 1 .. a + b, NEW k \in 1 .. a + b, j < k PROVE t[j] < t[k]
      <4>1. CASE k \in 1 .. a
        <5>1. j \in 1 .. a
          BY <3>8, <3>14, <4>1
        <5>2. s[j] < s[k]
          BY <3>3, <3>7, <3>14, <4>1, <5>1
        <5> QED
          BY <3>10, <4>1, <5>1, <5>2
      <4>2. CASE k \in a + 1 .. a + b
        <5>1. CASE j \in 1 .. a
          BY <3>5, <3>10, <3>11, <4>2, <5>1
        <5>2. CASE j \in a + 1 .. a + b
          <6>1. j - a \in 1 .. b /\ k - a \in 1 .. b /\ j - a < k - a
            BY <3>8, <3>11, <3>14, <4>2, <5>2
          <6>2. piece[j - a] < piece[k - a]
            BY <2>4, <3>7, <6>1
          <6> QED
            BY <3>11, <4>2, <5>2, <6>2
        <5> QED
          BY <3>12, <5>1, <5>2
      <4> QED
        BY <3>12, <4>1, <4>2
    <3>15. Upto(t, m + 1)
      BY <3>9, <3>13, <3>14
    <3> QED
      BY <3>4, <3>7, <3>15
  <2> QED
    BY <2>5, <2>6
<1>8. Nat \subseteq Fine
  <2> HIDE DEF Fine
  <2> QED
    BY <1>6, <1>7, SetInduction
<1>9. Upto(joined, N)
  BY <1>2, <1>5, <1>8
<1>10. spans[1].start \in Nat /\ spans[N].end \in Nat
  <2>1. 1 \in 1 .. Len(spans) /\ N \in 1 .. Len(spans)
    BY <1>1, <1>2
  <2> QED
    BY <2>1 DEF GoodSpans
<1>11. ASSUME NEW k \in 1 .. Len(joined)
       PROVE  /\ joined[k] \in spans[1].start .. spans[N].end - 1
              /\ InSpans(spans, joined[k]) \/ BetweenSpans(spans, joined[k])
  <2>1. joined[k] \in Nat /\ joined[k] >= spans[1].start /\ joined[k] < spans[N].end
    BY <1>9
  <2>2. joined[k] \in spans[1].start .. spans[N].end - 1
    BY <1>10, <2>1
  <2> QED
    BY <1>9, <2>2
<1> QED
  BY <1>1, <1>9, <1>11

Joined(spans) == FlattenSeq(Pieces(spans))
JoinedData(src, spans) ==
  [k \in 1 .. Len(Joined(spans)) |->
     IF Joined(spans)[k] \in {spans[n].end : n \in 1 .. Len(spans) - 1} THEN "nl"
     ELSE ByteAt(src, Joined(spans)[k])]

LEMMA InputForms ==
  ASSUME NEW src, NEW spans
  PROVE  InlineInput(src, spans) =
           IF Len(spans) = 1 \/ LFContiguous(src, spans)
           THEN [data |-> SubSeq(src, spans[1].start + 1, spans[Len(spans)].end), offsets |-> <<>>,
                 terminal |-> spans[Len(spans)].end]
           ELSE [data |-> JoinedData(src, spans), offsets |-> Joined(spans),
                 terminal |-> spans[Len(spans)].end]
BY DEF InlineInput, Joined, JoinedData, Pieces, Piece, SpanOffsets

(* A part of a source, read from the offset of its first byte. *)
LEMMA PartIs ==
  ASSUME NEW src, IsSource(src), NEW from \in Nat, NEW to \in Nat, from <= to, to <= Len(src),
         NEW data, data = SubSeq(src, from + 1, to)
  PROVE  Len(data) = to - from /\ \A p \in 0 .. to - from - 1 : ByteAt(data, p) = ByteAt(src, from + p)
<1>1. data = [k \in 1 .. to - from |-> src[from + k]]
  BY DEF IsSource
<1>2. to - from \in Nat /\ DOMAIN data = 1 .. to - from /\ data = [k \in 1 .. to - from |-> data[k]]
  BY <1>1
<1>3. Len(data) = to - from
  BY <1>2, SequenceOf
<1>4. ASSUME NEW p \in 0 .. to - from - 1 PROVE ByteAt(data, p) = ByteAt(src, from + p)
  <2>1. p + 1 \in 1 .. to - from /\ from + (p + 1) = (from + p) + 1
    OBVIOUS
  <2>2. data[p + 1] = src[from + (p + 1)]
    BY <1>1, <2>1
  <2> QED
    BY <2>1, <2>2 DEF ByteAt
<1> QED
  BY <1>3, <1>4

(* Text of one piece has no gap but the line endings between its lines. *)
LEMMA ContiguousText ==
  ASSUME NEW src, NEW spans, GoodSpans(src, spans), Len(spans) = 1 \/ LFContiguous(src, spans),
         NEW byte \in spans[1].start .. spans[Len(spans)].end - 1
  PROVE  InSpans(spans, byte) \/ (BetweenSpans(spans, byte) /\ ByteAt(src, byte) = "nl")
<1>1. PICK N : N = Len(spans)
  OBVIOUS
<1>2. /\ N \in Nat /\ N >= 1
      /\ \A n \in 1 .. N : spans[n].start \in Nat /\ spans[n].end \in Nat /\ spans[n].start <= spans[n].end
  BY <1>1 DEF GoodSpans
<1>3. PICK S : S = {n \in 1 .. N : byte < spans[n].end}
  OBVIOUS
<1>4. 1 \in 1 .. N /\ N \in 1 .. N
  BY <1>2
<1>5. byte \in Nat /\ spans[1].start <= byte /\ byte < spans[N].end
  BY <1>1, <1>2, <1>4
<1>6. N \in S /\ S \in SUBSET Nat
  BY <1>2, <1>3, <1>4, <1>5
<1>7. PICK n \in S : \A m \in S : n <= m
  BY <1>6, SmallestExists
<1>8. n \in 1 .. N /\ byte < spans[n].end /\ spans[n].start \in Nat /\ spans[n].end \in Nat
  BY <1>2, <1>3, <1>7
<1>9. CASE spans[n].start <= byte
  <2>1. byte \in spans[n].start .. spans[n].end - 1
    BY <1>5, <1>8, <1>9
  <2> QED
    BY <1>1, <1>8, <2>1 DEF InSpans
<1>10. CASE byte < spans[n].start
  <2>1. n # 1
    BY <1>2, <1>4, <1>5, <1>10
  <2>2. n - 1 \in 1 .. N /\ n - 1 \in 1 .. N - 1 /\ n \in 2 .. N /\ n - 1 < n
    BY <1>2, <1>8, <2>1
  <2>3. n - 1 \notin S
    BY <1>2, <1>7, <1>8, <2>2
  <2>4. spans[n - 1].end <= byte /\ spans[n - 1].end \in Nat
    BY <1>2, <1>3, <1>5, <2>2, <2>3
  <2>5. N # 1
    BY <1>2, <2>2
  <2>6. ByteAt(src, spans[n - 1].end) = "nl" /\ spans[n].start = spans[n - 1].end + 1
    BY <1>1, <2>2, <2>5 DEF LFContiguous
  <2>7. byte = spans[n - 1].end
    BY <1>5, <1>8, <1>10, <2>4, <2>6
  <2> QED
    BY <1>1, <2>2, <2>6, <2>7 DEF BetweenSpans
<1> QED
  BY <1>5, <1>8, <1>9, <1>10

(* The offsets of a text rise with its bytes, and a byte that is the       *)
(* source's is one of a line or a line ending between two.                 *)
LEMMA InputIs ==
  ASSUME NEW src, IsSource(src), NEW spans, GoodSpans(src, spans),
         NEW input, input = InlineInput(src, spans)
  PROVE  /\ Len(input.data) \in Nat
         /\ \A p \in 0 .. Len(input.data) - 1 :
              InputOffset(input, p) \in spans[1].start .. spans[Len(spans)].end - 1
         /\ \A p, q \in 0 .. Len(input.data) - 1 : p < q => InputOffset(input, p) < InputOffset(input, q)
         /\ \A p \in 0 .. Len(input.data) - 1 :
              ByteAt(input.data, p) = ByteAt(src, InputOffset(input, p)) =>
                \/ InSpans(spans, InputOffset(input, p))
                \/ /\ BetweenSpans(spans, InputOffset(input, p))
                   /\ ByteAt(src, InputOffset(input, p)) = "nl"
<1>1. PICK N, a, b : N = Len(spans) /\ a = spans[1].start /\ b = spans[N].end
  OBVIOUS
<1>2. N \in Nat /\ N >= 1 /\ a \in Nat /\ b \in Nat /\ a <= b /\ b <= Len(src) /\ Len(src) \in Nat
  <2>1. N \in Nat /\ N >= 1 /\ Len(src) \in Nat
    BY <1>1 DEF GoodSpans, IsSource
  <2>2. 1 \in 1 .. N /\ N \in 1 .. N
    BY <2>1
  <2>3. /\ spans[1].start \in Nat /\ spans[1].end \in Nat /\ spans[N].end \in Nat /\ spans[N].start \in Nat
        /\ spans[1].start <= spans[1].end /\ spans[N].start <= spans[N].end /\ spans[N].end <= Len(src)
    BY <1>1, <2>2 DEF GoodSpans
  <2>4. CASE N = 1
    BY <1>1, <2>1, <2>3, <2>4
  <2>5. CASE N # 1
    <3>1. 1 < N
      BY <2>1, <2>5
    <3>2. spans[1].end < spans[N].start
      BY <1>1, <2>2, <3>1 DEF GoodSpans
    <3> QED
      BY <1>1, <2>1, <2>3, <3>2
  <2> QED
    BY <2>4, <2>5
<1>3. CASE N = 1 \/ LFContiguous(src, spans)
  <2>1. PICK data : data = SubSeq(src, a + 1, b)
    OBVIOUS
  <2>2. input = [data |-> data, offsets |-> <<>>, terminal |-> b]
    BY <1>1, <1>3, <2>1, InputForms
  <2>3. input.data = data /\ input.offsets = <<>> /\ input.terminal = b
    BY <2>2
  <2>4. Len(data) = b - a /\ \A p \in 0 .. b - a - 1 : ByteAt(data, p) = ByteAt(src, a + p)
    <3>1. a \in Nat /\ b \in Nat /\ a <= b /\ b <= Len(src) /\ IsSource(src)
      BY <1>2
    <3> HIDE <1>3
    <3> QED
      BY <2>1, <3>1, PartIs
  <2>5. PICK len : len = b - a
    OBVIOUS
  <2>6. len \in Nat /\ Len(input.data) = len
    BY <1>2, <2>3, <2>4, <2>5
  <2>7. ASSUME NEW p \in 0 .. len - 1
        PROVE  /\ InputOffset(input, p) = a + p /\ a + p \in a .. b - 1
               /\ ByteAt(input.data, p) = ByteAt(src, a + p)
    <3>1. ~(p >= Len(input.data)) /\ a + p \in a .. b - 1 /\ b - len + p = a + p /\ p \in 0 .. b - a - 1
      BY <1>2, <2>5, <2>6
    <3> QED
      BY <2>3, <2>4, <2>6, <3>1 DEF InputOffset
  <2>8. ASSUME NEW p \in 0 .. len - 1
        PROVE  InSpans(spans, a + p) \/ (BetweenSpans(spans, a + p) /\ ByteAt(src, a + p) = "nl")
    BY <1>1, <1>3, <2>7, ContiguousText
  <2>9. ASSUME NEW p \in 0 .. len - 1, NEW q \in 0 .. len - 1, p < q
        PROVE  InputOffset(input, p) < InputOffset(input, q)
    <3>1. InputOffset(input, p) = a + p /\ InputOffset(input, q) = a + q
      BY <2>7
    <3> QED
      BY <1>2, <2>9, <3>1
  <2> QED
    BY <1>1, <2>6, <2>7, <2>8, <2>9
<1>4. CASE ~(N = 1 \/ LFContiguous(src, spans))
  <2>1. PICK joined, data : joined = Joined(spans) /\ data = JoinedData(src, spans)
    OBVIOUS
  <2>2. input = [data |-> data, offsets |-> joined, terminal |-> b]
    BY <1>1, <1>4, <2>1, InputForms
  <2>3. input.data = data /\ input.offsets = joined /\ input.terminal = b
    BY <2>2
  <2>4. /\ joined \in Seq(Nat)
        /\ \A k \in 1 .. Len(joined) :
             /\ joined[k] \in a .. b - 1
             /\ InSpans(spans, joined[k]) \/ BetweenSpans(spans, joined[k])
        /\ \A j, k \in 1 .. Len(joined) : j < k => joined[j] < joined[k]
    BY <1>1, <2>1, JoinedIs DEF Joined
  <2>5. PICK len : len = Len(joined)
    OBVIOUS
  <2>6. len \in Nat
    BY <2>4, <2>5
  <2>7. data = [k \in 1 .. len |-> IF joined[k] \in {spans[n].end : n \in 1 .. N - 1} THEN "nl"
                                   ELSE ByteAt(src, joined[k])]
    BY <1>1, <2>1, <2>5 DEF JoinedData
  <2>8. DOMAIN data = 1 .. len /\ data = [k \in 1 .. len |-> data[k]]
    BY <2>7
  <2>9. Len(input.data) = len
    BY <2>3, <2>6, <2>8, SequenceOf
  <2>10. ASSUME NEW p \in 0 .. len - 1
         PROVE  p + 1 \in 1 .. len /\ InputOffset(input, p) = joined[p + 1]
    <3>1. p + 1 \in 1 .. len /\ ~(p >= Len(input.data))
      BY <2>6, <2>9
    <3>2. joined # <<>>
      <4>1. len >= 1
        BY <2>6
      <4> QED
        BY <2>4, <2>5, <4>1
    <3> QED
      BY <2>3, <3>1, <3>2 DEF InputOffset
  <2>11. ASSUME NEW p \in 0 .. len - 1, ByteAt(input.data, p) = ByteAt(src, InputOffset(input, p))
         PROVE  \/ InSpans(spans, InputOffset(input, p))
                \/ /\ BetweenSpans(spans, InputOffset(input, p))
                   /\ ByteAt(src, InputOffset(input, p)) = "nl"
    <3>1. p + 1 \in 1 .. len /\ InputOffset(input, p) = joined[p + 1]
      BY <2>10
    <3>2. InSpans(spans, joined[p + 1]) \/ BetweenSpans(spans, joined[p + 1])
      BY <2>4, <2>5, <3>1
    <3>3. ASSUME BetweenSpans(spans, joined[p + 1]) PROVE ByteAt(src, joined[p + 1]) = "nl"
      <4>1. joined[p + 1] \in {spans[n].end : n \in 1 .. N - 1}
        BY <1>1, <3>3 DEF BetweenSpans
      <4>2. data[p + 1] = "nl"
        BY <2>7, <3>1, <4>1
      <4>3. ByteAt(input.data, p) = data[p + 1]
        BY <2>3 DEF ByteAt
      <4> QED
        BY <2>11, <3>1, <4>2, <4>3
    <3> QED
      BY <3>1, <3>2, <3>3
  <2>12. ASSUME NEW p \in 0 .. len - 1, NEW q \in 0 .. len - 1, p < q
         PROVE  InputOffset(input, p) < InputOffset(input, q)
    <3>1. /\ p + 1 \in 1 .. len /\ InputOffset(input, p) = joined[p + 1]
          /\ q + 1 \in 1 .. len /\ InputOffset(input, q) = joined[q + 1]
      BY <2>10
    <3>2. p + 1 < q + 1
      BY <2>6, <2>12
    <3> QED
      BY <2>4, <2>5, <3>1, <3>2
  <2>13. \A p \in 0 .. len - 1 : InputOffset(input, p) \in a .. b - 1
    BY <2>4, <2>5, <2>10
  <2> QED
    BY <1>1, <2>6, <2>9, <2>11, <2>12, <2>13
<1> QED
  BY <1>3, <1>4
-----------------------------------------------------------------------------
(* The spans of a paragraph's lines.                                       *)
LEMMA OffsetsAreInLine ==
  ASSUME IsSource(source), NEW line, LineFollows(source, line)
  PROVE  /\ Len(line.logical) \in Nat /\ line.start \in Nat /\ line.end \in Nat
         /\ Len(line.offsets) = Len(line.logical) + 1
         /\ \A k \in 1 .. Len(line.logical) + 1 : line.offsets[k] \in line.start .. line.end
         /\ line.offsets[Len(line.logical) + 1] = line.end
<1>1. PICK offs, n, start, stop :
        offs = line.offsets /\ n = Len(line.logical) /\ start = line.start /\ stop = line.end
  OBVIOUS
<1>2. n \in Nat /\ start \in Nat /\ stop \in Nat /\ Len(offs) = n + 1
  BY <1>1 DEF LineFollows, LineRecord
<1>3. OffsetsAreTrue(line)
  BY OffsetsOfLine
<1>4. offs[n + 1] = stop /\ \A k \in 1 .. n : offs[k] \in start .. offs[k + 1]
  BY <1>1, <1>2, <1>3 DEF OffsetsAreTrue
<1>5. \A k \in 1 .. n + 1 : offs[k] \in Int
  <2>1. offs \in Seq(Int)
    BY <1>1 DEF LineFollows, LineRecord
  <2> QED
    BY <1>2, <2>1
<1>6. start <= stop
  <2>1. PICK head, at \in Nat : HeadAndRest(source, line, head, at)
    BY DEF LineFollows
  <2>2. at \in start .. stop
    BY <1>1, <2>1 DEF HeadAndRest
  <2> QED
    BY <1>2, <2>2
<1>7. PICK Wrong : Wrong = {k \in 1 .. n + 1 : offs[k] > stop}
  OBVIOUS
<1>8. Wrong = {}
  <2> SUFFICES ASSUME Wrong # {} PROVE FALSE
    OBVIOUS
  <2>1. Wrong \in SUBSET Nat /\ n + 1 \in Nat /\ \A k \in Wrong : k <= n + 1
    BY <1>2, <1>7
  <2>2. PICK k \in Wrong : \A m \in Wrong : m <= k
    BY <2>1, LargestExists
  <2>3. k \in 1 .. n + 1 /\ offs[k] > stop
    BY <1>7, <2>2
  <2>4. k # n + 1
    BY <1>2, <1>4, <2>3
  <2>5. k \in 1 .. n /\ k + 1 \in 1 .. n + 1
    BY <1>2, <2>3, <2>4
  <2>6. offs[k] <= offs[k + 1] /\ offs[k + 1] \in Int /\ offs[k] \in Int
    BY <1>2, <1>4, <1>5, <2>3, <2>5
  <2>7. offs[k + 1] > stop
    BY <1>2, <2>3, <2>6
  <2>8. k + 1 \in Wrong
    BY <1>7, <2>5, <2>7
  <2>9. k + 1 <= k
    BY <2>2, <2>8
  <2> QED
    BY <2>5, <2>9
<1>9. ASSUME NEW k \in 1 .. n + 1 PROVE offs[k] \in start .. stop
  <2>1. ~(offs[k] > stop) /\ offs[k] \in Int
    BY <1>5, <1>7, <1>8
  <2>2. offs[k] >= start
    <3>1. CASE k = n + 1
      BY <1>4, <1>6, <3>1, <1>2
    <3>2. CASE k # n + 1
      <4>1. k \in 1 .. n /\ k + 1 \in 1 .. n + 1
        BY <1>2, <3>2
      <4>2. offs[k] \in start .. offs[k + 1]
        BY <1>4, <4>1
      <4> QED
        BY <1>2, <1>5, <4>1, <4>2
    <3> QED
      BY <3>1, <3>2
  <2> QED
    BY <1>2, <2>1, <2>2
<1> QED
  BY <1>1, <1>2, <1>4, <1>9

LEMMA SourceOffsetIs ==
  ASSUME IsSource(source), NEW line, LineFollows(source, line), NEW k \in 0 .. Len(line.logical)
  PROVE  LineSourceOffset(line, k) = line.offsets[k + 1] /\ LineSourceOffset(line, k) \in line.start .. line.end
<1>1. PICK n : n = Len(line.logical)
  OBVIOUS
<1>2. /\ n \in Nat /\ Len(line.offsets) = n + 1
      /\ \A m \in 1 .. n + 1 : line.offsets[m] \in line.start .. line.end
  BY <1>1, OffsetsAreInLine
<1>3. k + 1 \in 1 .. n + 1 /\ k + 1 \in Int /\ n + 1 \in Int /\ k + 1 <= n + 1
  BY <1>1, <1>2
<1>4. Min({k + 1, n + 1}) = k + 1
  BY <1>3, SmallerOf
<1>5. LineSourceOffset(line, k) = line.offsets[k + 1]
  BY <1>2, <1>4 DEF LineSourceOffset
<1> QED
  BY <1>2, <1>3, <1>5

LEMMA TextSpanIs ==
  ASSUME IsSource(source), NEW line, LineFollows(source, line), NEW span, span = TextSpan(line)
  PROVE  /\ span.start \in line.start .. line.end /\ span.end = line.end
         /\ line.start \in Nat /\ line.end \in Nat /\ span = [start |-> span.start, end |-> span.end]
<1>1. /\ Len(line.logical) \in Nat /\ line.start \in Nat /\ line.end \in Nat
      /\ line.offsets[Len(line.logical) + 1] = line.end
  BY OffsetsAreInLine
<1>2. line.logical \in Seq(Byte)
  BY DEF LineFollows, LineRecord
<1>3. PICK n, k : n = Len(line.logical) /\ k = BlanksFrom(line.logical, 0)
  OBVIOUS
<1>4. n \in Nat /\ 0 \in 0 .. n
  BY <1>1, <1>3
<1>5. k \in 0 .. n - 0
  BY <1>2, <1>3, <1>4, BlanksAre
<1>6. k \in 0 .. n /\ n \in 0 .. n
  BY <1>4, <1>5
<1>7. LineSourceOffset(line, k) \in line.start .. line.end
  BY <1>3, <1>6, SourceOffsetIs
<1>8. LineSourceOffset(line, n) = line.end
  BY <1>1, <1>3, <1>6, SourceOffsetIs
<1>9. span = [start |-> LineSourceOffset(line, k), end |-> LineSourceOffset(line, n)]
  BY <1>3 DEF TextSpan
<1> QED
  BY <1>1, <1>7, <1>8, <1>9

LEMMA TrimSpanIs ==
  ASSUME NEW span, span = [start |-> span.start, end |-> span.end],
         span.start \in Nat, span.end \in Nat, span.start <= span.end,
         NEW trimmed, trimmed = TrimSpan(source, span)
  PROVE  trimmed.start = span.start /\ trimmed.end \in span.start .. span.end
<1>1. PICK a, b : a = span.start /\ b = span.end
  OBVIOUS
<1>2. PICK S : S = {e \in a .. b : e = a \/ ByteAt(source, e - 1) \notin Blanks}
  OBVIOUS
<1>3. S \in SUBSET Nat /\ a \in S /\ \A e \in S : e <= b
  BY <1>1, <1>2
<1>4. Max(S) \in S
  BY <1>1, <1>3, MaxIs
<1>5. trimmed = [span EXCEPT !.end = Max(S)]
  BY <1>1, <1>2 DEF TrimSpan
<1>6. trimmed.start = a /\ trimmed.end = Max(S)
  BY <1>1, <1>5
<1> QED
  BY <1>1, <1>2, <1>4, <1>6

LEMMA LineEndsIn ==
  ASSUME IsSource(source), NEW line, LineFollows(source, line), line.start \in Starts(source)
  PROVE  /\ line.start \in Nat /\ line.end \in Nat /\ line.newlineEnd \in Nat /\ Len(source) \in Nat
         /\ line.start < Len(source) /\ line.start <= line.end /\ line.end <= line.newlineEnd
         /\ line.newlineEnd <= Len(source)
         /\ line.end < line.newlineEnd \/ line.end = Len(source)
<1>1. PICK start, whole, len : start = line.start /\ whole = LineFrom(source, line.start) /\ len = Len(source)
  OBVIOUS
<1>2. len \in Nat /\ start \in Nat /\ start < len /\ start \in 0 .. Len(source)
  BY <1>1, StartsAre
<1>3. /\ whole.end \in start .. Len(source) /\ whole.newlineEnd \in whole.end .. Len(source)
      /\ whole.end < whole.newlineEnd \/ whole.end = Len(source)
  BY <1>1, <1>2, LineIs
<1>4. line.end = whole.end /\ line.newlineEnd = whole.newlineEnd
  BY <1>1 DEF LineFollows
<1>5. PICK e, b : e = line.end /\ b = line.newlineEnd
  OBVIOUS
<1>6. e \in start .. len /\ b \in e .. len /\ (e < b \/ e = len)
  BY <1>1, <1>3, <1>4, <1>5
<1>7. e \in Nat /\ b \in Nat /\ start <= e /\ e <= b /\ b <= len
  <2>1. e \in Nat /\ start <= e /\ e <= len
    BY <1>2, <1>6
  <2> QED
    BY <1>2, <1>6, <2>1
<1> QED
  BY <1>1, <1>2, <1>5, <1>6, <1>7

Paragraph(lines, from, at) ==
  [n \in 1 .. at - from |->
     LET span == TextSpan(lines[from + n - 1])
     IN  IF from + n = at THEN TrimSpan(source, span) ELSE span]

LEMMA ParagraphIs ==
  ASSUME IsSource(source), NEW lines, InOrder(lines), Len(lines) \in Nat,
         \A n \in 1 .. Len(lines) : LineFollows(source, lines[n]) /\ lines[n].start \in Starts(source),
         NEW from \in Nat, NEW at \in Nat, 1 <= from, from < at, at <= Len(lines) + 1,
         NEW spans, spans = Paragraph(lines, from, at)
  PROVE  /\ GoodSpans(source, spans)
         /\ lines[from].start <= spans[1].start
         /\ spans[Len(spans)].end <= lines[at - 1].end
<1>1. PICK N : N = at - from
  OBVIOUS
<1>2. N \in Nat /\ N >= 1 /\ \A n \in 1 .. N : n \in Nat /\ from + n - 1 \in 1 .. Len(lines)
  BY <1>1
<1>3. DOMAIN spans = 1 .. N /\ spans = [n \in 1 .. N |-> spans[n]]
  BY <1>1 DEF Paragraph
<1>4. Len(spans) = N
  BY <1>2, <1>3, SequenceOf
<1>5. ASSUME NEW n \in 1 .. N
      PROVE  LET line == lines[from + n - 1]
             IN  /\ spans[n].start \in Nat /\ spans[n].end \in Nat /\ line.start \in Nat /\ line.end \in Nat
                 /\ line.start <= spans[n].start /\ spans[n].start <= spans[n].end /\ spans[n].end <= line.end
                 /\ line.end <= Len(source)
  <2>1. PICK line, span : line = lines[from + n - 1] /\ span = TextSpan(line)
    OBVIOUS
  <2>2. LineFollows(source, line) /\ line.start \in Starts(source)
    BY <1>2, <2>1
  <2>3. /\ span.start \in line.start .. line.end /\ span.end = line.end
        /\ line.start \in Nat /\ line.end \in Nat /\ span = [start |-> span.start, end |-> span.end]
    BY <2>1, <2>2, TextSpanIs
  <2>4. span.start \in Nat /\ span.end \in Nat /\ span.start <= span.end /\ line.start <= span.start
    BY <2>3
  <2>5. line.end <= Len(source)
    <3>1. line.end \in Nat /\ line.newlineEnd \in Nat /\ Len(source) \in Nat
          /\ line.end <= line.newlineEnd /\ line.newlineEnd <= Len(source)
      BY <2>2, LineEndsIn
    <3> QED
      BY <3>1
  <2>6. spans[n] = IF from + n = at THEN TrimSpan(source, span) ELSE span
    BY <1>1, <2>1 DEF Paragraph
  <2>7. spans[n].start = span.start /\ spans[n].end \in span.start .. span.end
    <3>1. CASE from + n = at
      <4>1. PICK trimmed : trimmed = TrimSpan(source, span)
        OBVIOUS
      <4>2. trimmed.start = span.start /\ trimmed.end \in span.start .. span.end
        BY <2>3, <2>4, <4>1, TrimSpanIs
      <4> QED
        BY <2>6, <3>1, <4>1, <4>2
    <3>2. CASE from + n # at
      BY <2>4, <2>6, <3>2
    <3> QED
      BY <3>1, <3>2
  <2>8. spans[n].end \in Nat /\ spans[n].start <= spans[n].end /\ spans[n].end <= span.end
    BY <2>4, <2>7
  <2> QED
    BY <2>1, <2>3, <2>4, <2>5, <2>7, <2>8
<1>6. ASSUME NEW m \in 1 .. N, NEW n \in 1 .. N, m < n PROVE spans[m].end < spans[n].start
  <2>1. PICK a, b : a = lines[from + m - 1] /\ b = lines[from + n - 1]
    OBVIOUS
  <2>2. /\ spans[m].end \in Nat /\ a.end \in Nat /\ spans[m].end <= a.end
        /\ spans[n].start \in Nat /\ b.start \in Nat /\ b.start <= spans[n].start
    BY <1>5, <2>1
  <2>3. a.newlineEnd <= b.start
    <3>1. from + m - 1 \in 1 .. Len(lines) /\ from + n - 1 \in 1 .. Len(lines) /\ from + m - 1 < from + n - 1
      BY <1>2, <1>6
    <3> QED
      BY <2>1, <3>1 DEF InOrder
  <2>4. LineFollows(source, a) /\ a.start \in Starts(source) /\ LineFollows(source, b) /\ b.start \in Starts(source)
    BY <1>2, <2>1
  <2>5. b.start < Len(source) /\ Len(source) \in Nat
    BY <2>4, LineEndsIn
  <2>6. /\ a.newlineEnd \in Nat /\ a.newlineEnd <= Len(source) /\ a.end <= a.newlineEnd
        /\ a.end < a.newlineEnd \/ a.end = Len(source)
    BY <2>4, LineEndsIn
  <2>7. a.end < a.newlineEnd
    BY <2>2, <2>3, <2>5, <2>6
  <2> QED
    BY <2>2, <2>3, <2>6, <2>7
<1>7. ASSUME NEW n \in 1 .. N
      PROVE  /\ spans[n].start \in Nat /\ spans[n].end \in Nat
             /\ spans[n].start <= spans[n].end /\ spans[n].end <= Len(source)
  <2>1. PICK line : line = lines[from + n - 1]
    OBVIOUS
  <2>2. /\ spans[n].start \in Nat /\ spans[n].end \in Nat /\ line.end \in Nat
        /\ spans[n].start <= spans[n].end /\ spans[n].end <= line.end /\ line.end <= Len(source)
    BY <1>5, <2>1
  <2>3. Len(source) \in Nat
    BY DEF IsSource
  <2> QED
    BY <2>2, <2>3
<1>8. GoodSpans(source, spans)
  BY <1>2, <1>4, <1>6, <1>7 DEF GoodSpans
<1>9. 1 \in 1 .. N /\ N \in 1 .. N /\ from + 1 - 1 = from /\ from + N - 1 = at - 1
  BY <1>1, <1>2
<1>10. lines[from].start <= spans[1].start
  BY <1>5, <1>9
<1>11. spans[N].end <= lines[at - 1].end
  BY <1>5, <1>9
<1> QED
  BY <1>4, <1>8, <1>10, <1>11
-----------------------------------------------------------------------------
(* What is left of the frames lies behind a byte.                          *)
Ahead(s, byte) ==
  \A k \in 1 .. Len(s) : \A n \in s[k].at .. Len(s[k].lines) : byte <= s[k].lines[n].start

(* What has been taken stays behind: going on in a frame, ...              *)
LEMMA GoingOnKeepsAhead ==
  ASSUME StackInv, stage = "blocks", NEW at \in Nat, at >= Top.at, GoOn(at), NEW byte, Ahead(stack, byte)
  PROVE  Ahead(stack', byte)
<1>1. /\ FramesOk(source, stack) /\ Len(stack') = Len(stack)
      /\ \A k \in 1 .. Len(stack) : stack'[k].lines = stack[k].lines /\ stack'[k].at >= stack[k].at
  BY GoesOn DEF StackInv
<1>2. FramesOk(source, stack')
  BY GoesOn
<1>3. ASSUME NEW k \in 1 .. Len(stack), NEW n \in stack'[k].at .. Len(stack'[k].lines)
      PROVE  byte <= stack'[k].lines[n].start
  <2>1. stack[k].at \in Nat /\ stack'[k].at \in Nat /\ Len(stack[k].lines) \in Nat
    <3>1. k \in 1 .. Len(stack')
      BY <1>1
    <3>2. IsFrame(stack[k]) /\ IsFrame(stack'[k])
      BY <1>1, <1>2, <3>1 DEF FramesOk, FrameOk
    <3> QED
      BY <3>2 DEF IsFrame
  <2>2. stack'[k].lines = stack[k].lines /\ stack'[k].at >= stack[k].at
    BY <1>1
  <2>3. n \in stack[k].at .. Len(stack[k].lines)
    BY <2>1, <2>2
  <2> QED
    BY <2>2, <2>3 DEF Ahead
<1> QED
  BY <1>1, <1>3 DEF Ahead

(* ... up to the line behind those that were taken, ...                    *)
LEMMA GoingOnTakes ==
  ASSUME StackInv, AtLine, NEW at \in Nat, at > Top.at, at <= Len(Rest) + 1, GoOn(at),
         NEW byte \in Nat, byte <= Rest[at - 1].newlineEnd
  PROVE  Ahead(stack', byte)
<1>1. stage = "blocks"
  BY DEF AtLine
<1>2. /\ FrameOk(source, Top) /\ Len(stack) \in Nat /\ Len(stack) >= 1
      /\ Top.at \in Nat /\ Top.at >= 1 /\ Len(Rest) \in Nat
  BY <1>1, TopIs
<1>3. at >= Top.at
  BY <1>2
<1>4. /\ Len(stack') = Len(stack)
      /\ \A k \in 1 .. Len(stack) : stack'[k].lines = stack[k].lines
      /\ stack'[Len(stack)].at = at /\ \A k \in 1 .. Len(stack) - 1 : stack'[k] = stack[k]
  BY <1>1, <1>3, GoesOn
<1>5. at - 1 \in 1 .. Len(Rest)
  BY <1>2
<1>6. Rest[at - 1].newlineEnd \in Nat
  <2>1. LineFollows(source, Rest[at - 1])
    BY <1>2, <1>5 DEF FrameOk, Rest
  <2> QED
    BY <2>1 DEF LineFollows, LineRecord
<1>7. ASSUME NEW k \in 1 .. Len(stack), NEW n \in stack'[k].at .. Len(stack'[k].lines)
      PROVE  byte <= stack'[k].lines[n].start
  <2>1. CASE k = Len(stack)
    <3>1. n \in at .. Len(Rest) /\ stack'[k].lines = Rest
      BY <1>4, <2>1 DEF Rest, Top
    <3>2. n \in 1 .. Len(Rest) /\ at - 1 < n
      BY <1>2, <3>1
    <3>3. Rest[at - 1].newlineEnd <= Rest[n].start
      BY <1>2, <1>5, <3>2 DEF FrameOk, InOrder, Rest
    <3>4. Rest[n].start \in Nat
      <4>1. LineFollows(source, Rest[n])
        BY <1>2, <3>2 DEF FrameOk, Rest
      <4> QED
        BY <4>1 DEF LineFollows, LineRecord
    <3> QED
      BY <1>6, <3>1, <3>3, <3>4
  <2>2. CASE k # Len(stack)
    <3>1. k \in 1 .. Len(stack) - 1 /\ k < Len(stack) /\ Len(stack) \in 1 .. Len(stack)
      BY <1>2, <2>2
    <3>2. stack'[k] = stack[k]
      BY <1>4, <3>1
    <3>3. Behind(stack[k], Top)
      BY <3>1 DEF StackInv, FramesOk, Top
    <3>4. Rest[at - 1].newlineEnd <= stack[k].lines[n].start
      BY <1>5, <3>2, <3>3 DEF Behind, Rest
    <3>5. stack[k].lines[n].start \in Nat
      <4>1. FrameOk(source, stack[k]) /\ n \in stack[k].at .. Len(stack[k].lines)
        BY <3>2 DEF StackInv, FramesOk
      <4>2. n \in 1 .. Len(stack[k].lines)
        BY <4>1 DEF FrameOk, IsFrame
      <4>3. LineFollows(source, stack[k].lines[n])
        BY <4>1, <4>2 DEF FrameOk
      <4> QED
        BY <4>3 DEF LineFollows, LineRecord
    <3> QED
      BY <1>6, <3>2, <3>4, <3>5
  <2> QED
    BY <2>1, <2>2
<1> QED
  BY <1>4, <1>7 DEF Ahead

(* ... into a quote, ...                                                   *)
LEMMA QuotingKeepsAhead ==
  ASSUME StackInv, OpenQuote, NEW byte, Ahead(stack, byte)
  PROVE  Ahead(stack', byte)
<1>1. AtLine /\ Marked(Here) /\ stage = "blocks"
  BY DEF OpenQuote, Declined, AtLine
<1>2. /\ Len(stack') = Len(stack) + 1
      /\ \A k \in 1 .. Len(stack) - 1 : stack'[k] = stack[k]
      /\ stack'[Len(stack)].lines = Rest /\ stack'[Len(stack)].at = QuoteEnd
      /\ stack'[Len(stack) + 1].lines = Quoted /\ stack'[Len(stack) + 1].at = 1
  BY QuoteOpens
<1>3. /\ FrameOk(source, Top) /\ Len(stack) \in Nat /\ Len(stack) >= 1
      /\ Top.at \in Nat /\ Top.at >= 1 /\ Len(Rest) \in Nat
  BY <1>1, TopIs
<1>4. /\ QuoteEnd \in Nat /\ Top.at < QuoteEnd /\ QuoteEnd <= Len(Rest) + 1
      /\ \A n \in Top.at .. QuoteEnd - 1 : Marked(Rest[n])
  BY <1>1, QuoteTakes
<1>5. \A n \in Top.at .. Len(Rest) : byte <= Rest[n].start
  <2>1. Len(stack) \in 1 .. Len(stack)
    BY <1>3
  <2> QED
    BY <2>1 DEF Ahead, Top, Rest
<1>6. /\ Len(Quoted) = QuoteEnd - Top.at
      /\ \A n \in 1 .. Len(Quoted) :
           /\ Top.at + n - 1 \in Top.at .. QuoteEnd - 1
           /\ Quoted[n].start = Rest[Top.at + n - 1].start
  <2>1. PICK f, at, quoted, parent, g :
          f = Top /\ at = QuoteEnd /\ quoted = Quoted /\ parent = NewNode /\ g = Frame(quoted, parent)
    OBVIOUS
  <2>2. IsSource(source) /\ FrameOk(source, f)
    BY <1>3, <2>1 DEF StackInv, SourceIsRead
  <2>3. at \in Nat /\ f.at <= at /\ at <= Len(f.lines) + 1 /\ AllMarked(f, at) /\ quoted = Quoting(f, at)
    BY <1>3, <1>4, <2>1 DEF Rest, AllMarked, Quoted
  <2>4. /\ Len(quoted) = at - f.at
        /\ \A n \in 1 .. Len(quoted) :
              /\ f.at + n - 1 \in f.at .. at - 1 /\ f.at + n - 1 \in 1 .. Len(f.lines)
              /\ quoted[n].start = f.lines[f.at + n - 1].start
              /\ quoted[n].newlineEnd = f.lines[f.at + n - 1].newlineEnd
    <3>1. g = Frame(quoted, parent)
      BY <2>1
    <3> QED
      BY <2>2, <2>3, <3>1, QuotedFrame
  <2> QED
    BY <2>1, <2>4 DEF Rest
<1>7. ASSUME NEW k \in 1 .. Len(stack) + 1, NEW n \in stack'[k].at .. Len(stack'[k].lines)
      PROVE  byte <= stack'[k].lines[n].start
  <2>1. CASE k = Len(stack) + 1
    <3>1. n \in 1 .. Len(Quoted) /\ stack'[k].lines = Quoted
      BY <1>2, <2>1
    <3>2. Top.at + n - 1 \in Top.at .. QuoteEnd - 1 /\ Quoted[n].start = Rest[Top.at + n - 1].start
      BY <1>6, <3>1
    <3>3. Top.at + n - 1 \in Top.at .. Len(Rest)
      BY <1>3, <1>4, <3>2
    <3> QED
      BY <1>5, <3>1, <3>2, <3>3
  <2>2. CASE k = Len(stack)
    <3>1. n \in QuoteEnd .. Len(Rest) /\ stack'[k].lines = Rest
      BY <1>2, <2>2
    <3>2. n \in Top.at .. Len(Rest)
      BY <1>3, <1>4, <3>1
    <3> QED
      BY <1>5, <3>1, <3>2
  <2>3. CASE k # Len(stack) /\ k # Len(stack) + 1
    <3>1. k \in 1 .. Len(stack) - 1 /\ k \in 1 .. Len(stack)
      BY <1>3, <2>3
    <3> QED
      BY <1>2, <3>1 DEF Ahead
  <2> QED
    BY <2>1, <2>2, <2>3
<1> QED
  BY <1>2, <1>7 DEF Ahead

(* ... and out of one.                                                     *)
LEMMA EndingKeepsAhead ==
  ASSUME StackInv, EndFrame, NEW byte, Ahead(stack, byte)
  PROVE  Ahead(stack', byte)
<1>1. stack' = SubSeq(stack, 1, Len(stack) - 1) /\ FramesOk(source, stack) /\ Len(stack) >= 1
  BY DEF EndFrame, StackInv
<1>2. Len(stack) \in Nat /\ Len(stack') = Len(stack) - 1 /\ \A k \in 1 .. Len(stack) - 1 : stack'[k] = stack[k]
  BY <1>1, FramesEnd
<1>3. \A k \in 1 .. Len(stack) - 1 : k \in 1 .. Len(stack)
  BY <1>2
<1> QED
  BY <1>2, <1>3 DEF Ahead
-----------------------------------------------------------------------------
(* What hooks and paragraphs have taken.                                   *)
LastEnd(spans) == spans[Len(spans)].end
FirstStart(spans) == spans[1].start

MatchOk(src, m) ==
  /\ m.from \in Nat /\ m.to \in Nat /\ m.from <= m.to
  /\ m.phase \in {BlockPhase, InlinePhase}
  /\ m.phase = BlockPhase =>
       \E n \in 1 .. Len(ScanLines(src)) : m.to \in {ScanLines(src)[n].end, ScanLines(src)[n].newlineEnd}
  /\ m.phase = InlinePhase =>
       \A byte \in m.from .. m.to - 1 :
         InSpans(m.spans, byte) \/ (BetweenSpans(m.spans, byte) /\ ByteAt(src, byte) = "nl")

MatchBehind(m, later) == m.to <= later.from \/ (m.phase # later.phase /\ later.to <= m.from)
BesideText(m, block) == m.to <= FirstStart(block.spans) \/ LastEnd(block.spans) <= m.from

SharesApart(src, ms, ins) ==
  /\ IsSequence(ms) /\ IsSequence(ins)
  /\ \A k \in 1 .. Len(ms) : MatchOk(src, ms[k])
  /\ \A i \in 1 .. Len(ins) : GoodSpans(src, ins[i].spans)
  /\ \A i, k \in 1 .. Len(ms) : i < k => MatchBehind(ms[i], ms[k])
  /\ \A i, j \in 1 .. Len(ins) : i < j => LastEnd(ins[i].spans) <= FirstStart(ins[j].spans)
  /\ \A k \in 1 .. Len(ms), i \in 1 .. Len(ins) : ms[k].phase = BlockPhase => BesideText(ms[k], ins[i])

LEMMA EndsOfSpans ==
  ASSUME NEW src, NEW spans, GoodSpans(src, spans)
  PROVE  /\ FirstStart(spans) \in Nat /\ LastEnd(spans) \in Nat /\ FirstStart(spans) <= LastEnd(spans)
         /\ \A n \in 1 .. Len(spans) :
              /\ spans[n].start \in Nat /\ spans[n].end \in Nat
              /\ FirstStart(spans) <= spans[n].start /\ spans[n].end <= LastEnd(spans)
<1>1. PICK N : N = Len(spans)
  OBVIOUS
<1>2. /\ N \in Nat /\ N >= 1
      /\ \A n \in 1 .. N : spans[n].start \in Nat /\ spans[n].end \in Nat /\ spans[n].start <= spans[n].end
      /\ \A m, n \in 1 .. N : m < n => spans[m].end < spans[n].start
  BY <1>1 DEF GoodSpans
<1>3. 1 \in 1 .. N /\ N \in 1 .. N
  BY <1>2
<1>4. ASSUME NEW n \in 1 .. N PROVE FirstStart(spans) <= spans[n].start /\ spans[n].end <= LastEnd(spans)
  <2>1. spans[1].start <= spans[n].start
    <3>1. CASE n = 1
      BY <1>2, <1>3, <3>1
    <3>2. CASE n # 1
      <4>1. 1 < n
        BY <3>2
      <4>2. spans[1].end < spans[n].start
        BY <1>2, <1>3, <4>1
      <4> QED
        BY <1>2, <1>3, <4>2
    <3> QED
      BY <3>1, <3>2
  <2>2. spans[n].end <= spans[N].end
    <3>1. CASE n = N
      BY <1>2, <1>3, <3>1
    <3>2. CASE n # N
      <4>1. n < N
        BY <1>2, <3>2
      <4>2. spans[n].end < spans[N].start
        BY <1>2, <1>3, <4>1
      <4> QED
        BY <1>2, <1>3, <4>2
    <3> QED
      BY <3>1, <3>2
  <2> QED
    BY <1>1, <2>1, <2>2 DEF FirstStart, LastEnd
<1>5. spans[1].start \in Nat /\ spans[N].end \in Nat /\ spans[1].start <= spans[N].end
  <2>1. spans[1].start <= spans[N].start /\ spans[N].start <= spans[N].end
        /\ spans[1].start \in Nat /\ spans[N].start \in Nat /\ spans[N].end \in Nat
    BY <1>2, <1>3, <1>4 DEF FirstStart
  <2> QED
    BY <2>1
<1> QED
  BY <1>1, <1>2, <1>4, <1>5 DEF FirstStart, LastEnd

(* A hook takes what lies apart from all that was taken.                   *)
LEMMA MatchAdded ==
  ASSUME NEW src, NEW ms, NEW ins, SharesApart(src, ms, ins), NEW m, MatchOk(src, m),
         \A k \in 1 .. Len(ms) : MatchBehind(ms[k], m),
         m.phase = BlockPhase => \A i \in 1 .. Len(ins) : BesideText(m, ins[i])
  PROVE  SharesApart(src, Append(ms, m), ins)
<1>1. PICK t, n : t = Append(ms, m) /\ n = Len(ms)
  OBVIOUS
<1>2. /\ IsSequence(t) /\ n \in Nat /\ Len(t) = n + 1
      /\ \A k \in 1 .. n : t[k] = ms[k]
      /\ t[n + 1] = m
  BY <1>1, AppendedIs DEF SharesApart
<1>3. \A k \in 1 .. Len(t) : k \in 1 .. n \/ k = n + 1
  BY <1>2
<1>4. \A k \in 1 .. Len(t) : MatchOk(src, t[k])
  BY <1>1, <1>2, <1>3 DEF SharesApart
<1>5. ASSUME NEW i \in 1 .. Len(t), NEW k \in 1 .. Len(t), i < k PROVE MatchBehind(t[i], t[k])
  <2>1. i \in 1 .. n
    BY <1>2, <1>5
  <2>2. CASE k \in 1 .. n
    BY <1>1, <1>2, <1>5, <2>1, <2>2 DEF SharesApart
  <2>3. CASE k = n + 1
    BY <1>1, <1>2, <2>1, <2>3
  <2> QED
    BY <1>3, <2>2, <2>3
<1>6. ASSUME NEW k \in 1 .. Len(t), NEW i \in 1 .. Len(ins), t[k].phase = BlockPhase PROVE BesideText(t[k], ins[i])
  <2>1. CASE k \in 1 .. n
    BY <1>1, <1>2, <1>6, <2>1 DEF SharesApart
  <2>2. CASE k = n + 1
    BY <1>2, <1>6, <2>2
  <2> QED
    BY <1>3, <2>1, <2>2
<1> QED
  BY <1>1, <1>2, <1>4, <1>5, <1>6 DEF SharesApart

(* So does a paragraph.                                                    *)
LEMMA TextAdded ==
  ASSUME NEW src, NEW ms, NEW ins, SharesApart(src, ms, ins), NEW block, GoodSpans(src, block.spans),
         \A k \in 1 .. Len(ms) : ms[k].phase = BlockPhase => BesideText(ms[k], block),
         \A i \in 1 .. Len(ins) : LastEnd(ins[i].spans) <= FirstStart(block.spans)
  PROVE  SharesApart(src, ms, Append(ins, block))
<1>1. PICK t, n : t = Append(ins, block) /\ n = Len(ins)
  OBVIOUS
<1>2. /\ IsSequence(t) /\ n \in Nat /\ Len(t) = n + 1
      /\ \A k \in 1 .. n : t[k] = ins[k]
      /\ t[n + 1] = block
  BY <1>1, AppendedIs DEF SharesApart
<1>3. \A k \in 1 .. Len(t) : k \in 1 .. n \/ k = n + 1
  BY <1>2
<1>4. \A i \in 1 .. Len(t) : GoodSpans(src, t[i].spans)
  BY <1>1, <1>2, <1>3 DEF SharesApart
<1>5. ASSUME NEW i \in 1 .. Len(t), NEW j \in 1 .. Len(t), i < j
      PROVE  LastEnd(t[i].spans) <= FirstStart(t[j].spans)
  <2>1. i \in 1 .. n
    BY <1>2, <1>5
  <2>2. CASE j \in 1 .. n
    BY <1>1, <1>2, <1>5, <2>1, <2>2 DEF SharesApart
  <2>3. CASE j = n + 1
    BY <1>1, <1>2, <2>1, <2>3
  <2> QED
    BY <1>3, <2>2, <2>3
<1>6. ASSUME NEW k \in 1 .. Len(ms), NEW i \in 1 .. Len(t), ms[k].phase = BlockPhase PROVE BesideText(ms[k], t[i])
  <2>1. CASE i \in 1 .. n
    BY <1>1, <1>2, <1>6, <2>1 DEF SharesApart
  <2>2. CASE i = n + 1
    BY <1>2, <1>6, <2>2
  <2> QED
    BY <1>3, <2>1, <2>2
<1> QED
  BY <1>1, <1>2, <1>4, <1>5, <1>6 DEF SharesApart

(* A text that is done leaves the queue.                                   *)
LEMMA TextDropped ==
  ASSUME NEW src, NEW ms, NEW ins, SharesApart(src, ms, ins), ins # <<>>
  PROVE  SharesApart(src, ms, Tail(ins))
<1>1. PICK t, n : t = Tail(ins) /\ n = Len(ins)
  OBVIOUS
<1>2. IsSequence(t) /\ n \in Nat /\ n >= 1 /\ Len(t) = n - 1 /\ \A k \in 1 .. n - 1 : t[k] = ins[k + 1]
  BY <1>1, RestOfQueue DEF SharesApart
<1>3. \A k \in 1 .. Len(t) : k \in 1 .. n - 1 /\ k + 1 \in 1 .. n
  BY <1>2
<1>4. \A i \in 1 .. Len(t) : GoodSpans(src, t[i].spans)
  BY <1>1, <1>2, <1>3 DEF SharesApart
<1>5. ASSUME NEW i \in 1 .. Len(t), NEW j \in 1 .. Len(t), i < j
      PROVE  LastEnd(t[i].spans) <= FirstStart(t[j].spans)
  <2>1. i + 1 \in 1 .. n /\ j + 1 \in 1 .. n /\ i + 1 < j + 1 /\ t[i] = ins[i + 1] /\ t[j] = ins[j + 1]
    BY <1>2, <1>3, <1>5
  <2> QED
    BY <1>1, <2>1 DEF SharesApart
<1>6. ASSUME NEW k \in 1 .. Len(ms), NEW i \in 1 .. Len(t), ms[k].phase = BlockPhase PROVE BesideText(ms[k], t[i])
  <2>1. i + 1 \in 1 .. n /\ t[i] = ins[i + 1]
    BY <1>2, <1>3
  <2> QED
    BY <1>1, <1>6, <2>1 DEF SharesApart
<1> QED
  BY <1>1, <1>2, <1>4, <1>5, <1>6 DEF SharesApart

(* What is taken apart is everyone's share.                                *)
LEMMA SharesAreApart ==
  ASSUME SharesApart(source, matches, inlines)
  PROVE  HooksTakeTheirShare
<1>1. \A k \in 1 .. Len(matches) :
        matches[k].from \in Nat /\ matches[k].to \in Nat /\ matches[k].from <= matches[k].to
  BY DEF SharesApart, MatchOk
<1>2. ASSUME NEW k \in BlockMatches
      PROVE  \E n \in 1 .. Len(Lines) : matches[k].to \in {Lines[n].end, Lines[n].newlineEnd}
  BY DEF BlockMatches, SharesApart, MatchOk, Lines
<1>3. ASSUME NEW k \in BlockMatches, NEW i \in 1 .. Len(inlines)
      PROVE  Taken(matches[k]) \cap TextBytes(inlines[i]) = {}
  <2>1. k \in 1 .. Len(matches) /\ BesideText(matches[k], inlines[i]) /\ GoodSpans(source, inlines[i].spans)
    BY DEF BlockMatches, SharesApart
  <2>2. PICK spans, a, b : spans = inlines[i].spans /\ a = FirstStart(spans) /\ b = LastEnd(spans)
    OBVIOUS
  <2>3. /\ a \in Nat /\ b \in Nat
        /\ \A n \in 1 .. Len(spans) :
             spans[n].start \in Nat /\ spans[n].end \in Nat /\ a <= spans[n].start /\ spans[n].end <= b
    BY <2>1, <2>2, EndsOfSpans
  <2>4. ASSUME NEW byte \in TextBytes(inlines[i]) PROVE byte \in a .. b - 1
    <3> DEFINE Of(n) == spans[n].start .. spans[n].end - 1
    <3>1. byte \in UNION {Of(n) : n \in 1 .. Len(spans)}
      BY <2>2 DEF TextBytes
    <3>2. PICK n \in 1 .. Len(spans) : byte \in Of(n)
      <4> HIDE DEF Of
      <4> QED
        BY <3>1
    <3>3. byte \in spans[n].start .. spans[n].end - 1
      BY <3>2
    <3> QED
      BY <2>3, <3>3
  <2>5. matches[k].to <= a \/ b <= matches[k].from
    BY <2>1, <2>2 DEF BesideText
  <2>6. \A byte \in Taken(matches[k]) : byte \notin a .. b - 1
    BY <1>1, <2>1, <2>3, <2>5 DEF Taken
  <2> QED
    BY <2>4, <2>6
<1>4. ASSUME NEW i \in 1 .. Len(matches), NEW k \in 1 .. Len(matches), i < k
      PROVE  /\ Taken(matches[i]) \cap Taken(matches[k]) = {}
             /\ matches[i].phase = matches[k].phase => matches[i].to <= matches[k].from
  <2>1. MatchBehind(matches[i], matches[k])
    BY <1>4 DEF SharesApart
  <2>2. matches[i].to <= matches[k].from \/ matches[k].to <= matches[i].from
    BY <2>1 DEF MatchBehind
  <2>3. Taken(matches[i]) \cap Taken(matches[k]) = {}
    BY <1>1, <2>2 DEF Taken
  <2> QED
    BY <2>1, <2>3 DEF MatchBehind
<1>5. BlockHooksTakeWholeLines
  BY <1>2, <1>3, <1>4 DEF BlockHooksTakeWholeLines
<1>6. ASSUME NEW k \in 1 .. Len(matches), matches[k].phase = InlinePhase,
             NEW byte \in Taken(matches[k]) \ TextBytes(matches[k])
      PROVE  /\ ByteAt(source, byte) = "nl"
             /\ \E n \in 1 .. Len(matches[k].spans) - 1 : matches[k].spans[n].end = byte
  <2>1. PICK m : m = matches[k]
    OBVIOUS
  <2>2. byte \in m.from .. m.to - 1 /\ MatchOk(source, m) /\ m.phase = InlinePhase
    BY <1>6, <2>1 DEF Taken, SharesApart
  <2>3. InSpans(m.spans, byte) \/ (BetweenSpans(m.spans, byte) /\ ByteAt(source, byte) = "nl")
    BY <2>2 DEF MatchOk
  <2>4. ~InSpans(m.spans, byte)
    BY <1>6, <2>1 DEF InSpans, TextBytes
  <2> QED
    BY <2>1, <2>3, <2>4 DEF BetweenSpans
<1>7. InlineHooksStayInTheirText
  BY <1>6 DEF InlineHooksStayInTheirText
<1> QED
  BY <1>5, <1>7 DEF HooksTakeTheirShare

(* What an inline hook may take of a text is the text's, and lies before   *)
(* the offsets of the rest of it.                                          *)
Reads(src, input, from, consumed, start) ==
  \A k \in 0 .. consumed - 1 :
    /\ InputOffset(input, from + k) = start + k
    /\ ByteAt(input.data, from + k) = ByteAt(src, start + k)

LEMMA HookTakesText ==
  ASSUME NEW src, IsSource(src), NEW spans, GoodSpans(src, spans),
         NEW input, input = InlineInput(src, spans),
         NEW from \in Nat, NEW consumed \in Nat, consumed > 0, from + consumed <= Len(input.data),
         NEW start, start = InputOffset(input, from),
         Reads(src, input, from, consumed, start)
  PROVE  /\ start \in Nat /\ FirstStart(spans) <= start /\ start + consumed <= LastEnd(spans)
         /\ \A byte \in start .. start + consumed - 1 :
              InSpans(spans, byte) \/ (BetweenSpans(spans, byte) /\ ByteAt(src, byte) = "nl")
         /\ \A p \in from + consumed .. Len(input.data) - 1 : start + consumed <= InputOffset(input, p)
<1>1. PICK a, b, len : a = FirstStart(spans) /\ b = LastEnd(spans) /\ len = Len(input.data)
  OBVIOUS
<1>2. a \in Nat /\ b \in Nat
  BY <1>1, EndsOfSpans
<1>3. /\ len \in Nat
      /\ \A p \in 0 .. len - 1 : InputOffset(input, p) \in a .. b - 1
      /\ \A p, q \in 0 .. len - 1 : p < q => InputOffset(input, p) < InputOffset(input, q)
      /\ \A p \in 0 .. len - 1 :
           ByteAt(input.data, p) = ByteAt(src, InputOffset(input, p)) =>
             \/ InSpans(spans, InputOffset(input, p))
             \/ /\ BetweenSpans(spans, InputOffset(input, p))
                /\ ByteAt(src, InputOffset(input, p)) = "nl"
  <2>1. /\ Len(input.data) \in Nat
        /\ \A p \in 0 .. Len(input.data) - 1 :
             InputOffset(input, p) \in spans[1].start .. spans[Len(spans)].end - 1
        /\ \A p, q \in 0 .. Len(input.data) - 1 : p < q => InputOffset(input, p) < InputOffset(input, q)
        /\ \A p \in 0 .. Len(input.data) - 1 :
             ByteAt(input.data, p) = ByteAt(src, InputOffset(input, p)) =>
               \/ InSpans(spans, InputOffset(input, p))
               \/ /\ BetweenSpans(spans, InputOffset(input, p))
                  /\ ByteAt(src, InputOffset(input, p)) = "nl"
    BY InputIs
  <2> QED
    BY <1>1, <2>1 DEF FirstStart, LastEnd
<1>4. PICK last : last = consumed - 1
  OBVIOUS
<1>5. last \in Nat /\ last \in 0 .. consumed - 1 /\ from \in 0 .. len - 1 /\ from + last \in 0 .. len - 1
  BY <1>1, <1>3, <1>4
<1>6. start \in Nat /\ a <= start
  <2>1. start \in a .. b - 1
    BY <1>3, <1>5
  <2> QED
    BY <1>2, <2>1
<1>7. InputOffset(input, from + last) = start + last
  BY <1>5 DEF Reads
<1>8. start + consumed <= b
  <2>1. start + last \in a .. b - 1
    BY <1>3, <1>5, <1>7
  <2> QED
    BY <1>2, <1>4, <1>6, <2>1
<1>9. ASSUME NEW byte \in start .. start + consumed - 1
      PROVE  InSpans(spans, byte) \/ (BetweenSpans(spans, byte) /\ ByteAt(src, byte) = "nl")
  <2>1. PICK k : k = byte - start
    OBVIOUS
  <2>2. k \in 0 .. consumed - 1 /\ start + k = byte /\ from + k \in 0 .. len - 1
    <3>1. byte \in Int /\ start <= byte /\ byte <= start + consumed - 1
      BY <1>6
    <3>2. k \in 0 .. consumed - 1 /\ start + k = byte
      BY <1>6, <2>1, <3>1
    <3>3. from + k \in 0 .. len - 1
      BY <1>1, <1>3, <3>2
    <3> QED
      BY <3>2, <3>3
  <2>3. InputOffset(input, from + k) = byte /\ ByteAt(input.data, from + k) = ByteAt(src, byte)
    BY <2>2 DEF Reads
  <2> QED
    BY <1>3, <2>2, <2>3
<1>10. ASSUME NEW p \in from + consumed .. len - 1 PROVE start + consumed <= InputOffset(input, p)
  <2>1. p \in 0 .. len - 1 /\ from + last < p
    BY <1>1, <1>3, <1>4
  <2>2. InputOffset(input, from + last) < InputOffset(input, p)
    BY <1>3, <1>5, <2>1
  <2>3. InputOffset(input, p) \in a .. b - 1
    BY <1>3, <2>1
  <2>4. InputOffset(input, p) \in Int
    BY <1>2, <2>3
  <2> QED
    BY <1>4, <1>6, <1>7, <2>2, <2>4
<1> QED
  BY <1>1, <1>6, <1>8, <1>9, <1>10

(* While blocks are parsed, what has been taken lies before all lines that *)
(* are left.                                                               *)
AllAhead(s, ms, ins) ==
  /\ \A k \in 1 .. Len(ms) : ms[k].phase = BlockPhase /\ Ahead(s, ms[k].to)
  /\ \A i \in 1 .. Len(ins) : Ahead(s, LastEnd(ins[i].spans))

(* While text is parsed, what inline hooks have taken lies before the rest *)
(* of the text and the texts behind it.                                    *)
Unread(src, ms, ins, from) ==
  \A k \in 1 .. Len(ms) : ms[k].phase = InlinePhase =>
    /\ \A i \in 2 .. Len(ins) : ms[k].to <= FirstStart(ins[i].spans)
    /\ ins # <<>> =>
         LET input == InlineInput(src, ins[1].spans)
         IN  \A p \in from .. Len(input.data) - 1 : ms[k].to <= InputOffset(input, p)

ShareInv ==
  /\ position \in Nat /\ SharesApart(source, matches, inlines)
  /\ stage = "new" => matches = <<>> /\ inlines = <<>>
  /\ stage = "blocks" => AllAhead(stack, matches, inlines)
  /\ stage = "inlines" => Unread(source, matches, inlines, position)

LEMMA PhasesDiffer == BlockPhase # InlinePhase
BY DEF BlockPhase, InlinePhase

(* A step that takes nothing and hands no line back.                       *)
LEMMA NothingTaken ==
  ASSUME ShareInv, UNCHANGED <<source, matches, inlines, position>>, stage = "blocks", stage' \in {"blocks", "inlines", "failed"},
         \A byte : Ahead(stack, byte) => Ahead(stack', byte)
  PROVE  ShareInv'
<1>1. AllAhead(stack, matches, inlines)
  BY DEF ShareInv
<1>2. AllAhead(stack', matches, inlines)
  BY <1>1 DEF AllAhead
<1>3. Unread(source, matches, inlines, position)
  BY <1>1, PhasesDiffer DEF AllAhead, Unread
<1>4. /\ position' \in Nat /\ SharesApart(source', matches', inlines')
      /\ stage' # "new" /\ AllAhead(stack', matches', inlines') /\ Unread(source', matches', inlines', position')
  BY <1>2, <1>3 DEF ShareInv
<1> QED
  BY <1>4 DEF ShareInv

LEMMA HereIsAhead ==
  ASSUME StackInv, AtLine, NEW byte, Ahead(stack, byte)
  PROVE  byte <= Here.start
<1>1. stage = "blocks"
  BY DEF AtLine
<1>2. Len(stack) \in Nat /\ Len(stack) >= 1 /\ Top.at \in Nat /\ Len(Rest) \in Nat /\ Top.at <= Len(Rest)
  BY <1>1, TopIs DEF AtLine
<1>3. Len(stack) \in 1 .. Len(stack) /\ Top.at \in Top.at .. Len(Rest)
  BY <1>2
<1> QED
  BY <1>3 DEF Ahead, Top, Rest, Here

LEMMA LineHasPlace ==
  ASSUME StackInv, AtLine, NEW n \in 1 .. Len(Rest)
  PROVE  /\ LineFollows(source, Rest[n]) /\ Rest[n].start \in Starts(source)
         /\ \E m \in 1 .. Len(ScanLines(source)) :
              /\ ScanLines(source)[m].end = Rest[n].end
              /\ ScanLines(source)[m].newlineEnd = Rest[n].newlineEnd
<1>1. stage = "blocks"
  BY DEF AtLine
<1>2. FrameOk(source, Top) /\ IsSource(source)
  BY <1>1, TopIs DEF StackInv, SourceIsRead
<1>3. LineFollows(source, Rest[n]) /\ Rest[n].start \in Starts(source)
  BY <1>2 DEF FrameOk, Rest
<1>4. PICK lines : lines = ScanLines(source)
  OBVIOUS
<1>5. \A s \in Starts(source) : \E m \in 1 .. Len(lines) : lines[m] = LineFrom(source, s)
  BY <1>2, <1>4, ScanIs
<1>6. PICK m \in 1 .. Len(lines) : lines[m] = LineFrom(source, Rest[n].start)
  BY <1>3, <1>5
<1>7. lines[m].end = Rest[n].end /\ lines[m].newlineEnd = Rest[n].newlineEnd
  BY <1>3, <1>6 DEF LineFollows
<1> QED
  BY <1>3, <1>4, <1>7

(* What a block hook takes begins with a line that nobody has taken and    *)
(* ends where a line does.                                                 *)
LEMMA BlockHookShares ==
  ASSUME StackInv, ShareInv, AtLine, NEW end \in Nat, NEW last,
         last = {n \in Top.at .. Len(Rest) : EndsLine(n, end)}, last # {}, GoOn(Max(last) + 1),
         LineSourceOffset(Here, 0) <= end, UNCHANGED <<source, inlines, position, stage>>,
         NEW m, m.phase = BlockPhase, m.from = LineSourceOffset(Here, 0), m.to = end,
         matches' = Append(matches, m)
  PROVE  ShareInv'
<1>1. stage = "blocks" /\ IsSource(source)
  BY DEF AtLine, StackInv, SourceIsRead
<1>2. /\ Top.at \in Nat /\ Top.at >= 1 /\ Len(Rest) \in Nat /\ Top.at \in 1 .. Len(Rest)
      /\ LineFollows(source, Here)
  BY <1>1, TopIs
<1>3. PICK n, at : n = Max(last) /\ at = Max(last) + 1
  OBVIOUS
<1>4. n \in last /\ at \in Nat /\ at > Top.at
  <2>1. last \subseteq Top.at .. Len(Rest)
    OBVIOUS
  <2> QED
    BY <1>3, <2>1, HookGoesOn
<1>5. n \in Top.at .. Len(Rest) /\ end \in {Rest[n].end, Rest[n].newlineEnd}
  BY <1>4 DEF EndsLine
<1>6. n \in 1 .. Len(Rest) /\ at = n + 1 /\ at - 1 = n /\ at <= Len(Rest) + 1
  BY <1>2, <1>3, <1>5
<1>7. /\ LineFollows(source, Rest[n]) /\ Rest[n].start \in Starts(source)
      /\ \E j \in 1 .. Len(ScanLines(source)) :
           /\ ScanLines(source)[j].end = Rest[n].end
           /\ ScanLines(source)[j].newlineEnd = Rest[n].newlineEnd
  BY <1>6, LineHasPlace
<1>8. end <= Rest[n].newlineEnd
  <2>1. Rest[n].end \in Nat /\ Rest[n].newlineEnd \in Nat /\ Rest[n].end <= Rest[n].newlineEnd
    BY <1>1, <1>7, LineEndsIn
  <2> QED
    BY <1>5, <2>1
<1>9. Ahead(stack', end)
  <2>1. GoOn(at) /\ end <= Rest[at - 1].newlineEnd
    BY <1>3, <1>6, <1>8
  <2> QED
    BY <1>4, <1>6, <2>1, GoingOnTakes
<1>10. ASSUME NEW byte, Ahead(stack, byte) PROVE Ahead(stack', byte)
  <2>1. GoOn(at) /\ at >= Top.at
    BY <1>2, <1>3, <1>4
  <2> QED
    BY <1>1, <1>4, <1>10, <2>1, GoingOnKeepsAhead
<1>11. m.from \in Nat /\ Here.start \in Nat /\ Here.start <= m.from /\ m.to \in Nat /\ m.from <= m.to
  <2>1. Len(Here.logical) \in Nat /\ Here.start \in Nat /\ Here.end \in Nat
    BY <1>1, <1>2, OffsetsAreInLine
  <2>2. 0 \in 0 .. Len(Here.logical)
    BY <2>1
  <2>3. LineSourceOffset(Here, 0) \in Here.start .. Here.end
    BY <1>1, <1>2, <2>2, SourceOffsetIs
  <2> QED
    BY <2>1, <2>3
<1>12. SharesApart(source, matches, inlines) /\ AllAhead(stack, matches, inlines)
  BY <1>1 DEF ShareInv
<1>13. MatchOk(source, m)
  BY <1>5, <1>7, <1>11, PhasesDiffer DEF MatchOk
<1>14. ASSUME NEW k \in 1 .. Len(matches) PROVE MatchBehind(matches[k], m) /\ Ahead(stack', matches[k].to)
  <2>1. Ahead(stack, matches[k].to) /\ matches[k].to \in Nat
    BY <1>12 DEF AllAhead, SharesApart, MatchOk
  <2>2. matches[k].to <= Here.start
    BY <2>1, HereIsAhead
  <2>3. matches[k].to <= m.from
    BY <1>11, <2>1, <2>2
  <2> QED
    BY <1>10, <2>1, <2>3 DEF MatchBehind
<1>15. ASSUME NEW i \in 1 .. Len(inlines)
       PROVE  BesideText(m, inlines[i]) /\ Ahead(stack', LastEnd(inlines[i].spans))
  <2>1. Ahead(stack, LastEnd(inlines[i].spans))
    BY <1>12 DEF AllAhead
  <2>2. LastEnd(inlines[i].spans) \in Nat
    BY <1>12, EndsOfSpans DEF SharesApart
  <2>3. LastEnd(inlines[i].spans) <= Here.start
    BY <2>1, HereIsAhead
  <2>4. LastEnd(inlines[i].spans) <= m.from
    BY <1>11, <2>2, <2>3
  <2> QED
    BY <1>10, <2>1, <2>4 DEF BesideText
<1>16. SharesApart(source, Append(matches, m), inlines)
  BY <1>12, <1>13, <1>14, <1>15, MatchAdded
<1>17. AllAhead(stack', Append(matches, m), inlines)
  <2>1. PICK t, len : t = Append(matches, m) /\ len = Len(matches)
    OBVIOUS
  <2>2. len \in Nat /\ Len(t) = len + 1 /\ t[len + 1] = m /\ \A k \in 1 .. len : t[k] = matches[k]
    BY <1>12, <2>1, AppendedIs DEF SharesApart
  <2>3. ASSUME NEW k \in 1 .. Len(t) PROVE t[k].phase = BlockPhase /\ Ahead(stack', t[k].to)
    <3>1. CASE k \in 1 .. len
      BY <1>12, <1>14, <2>1, <2>2, <3>1 DEF AllAhead
    <3>2. CASE k = len + 1
      BY <1>9, <2>2, <3>2
    <3> QED
      BY <2>2, <3>1, <3>2
  <2> QED
    BY <1>15, <2>1, <2>3 DEF AllAhead
<1>18. /\ position' \in Nat /\ SharesApart(source', matches', inlines')
       /\ stage' = "blocks" /\ AllAhead(stack', matches', inlines')
  BY <1>1, <1>16, <1>17 DEF ShareInv
<1> QED
  BY <1>18 DEF ShareInv

(* So does a paragraph.                                                    *)
LEMMA ParagraphShares ==
  ASSUME StackInv, ShareInv, AtLine, NEW at \in Nat, Top.at < at, at <= Len(Rest) + 1, GoOn(at),
         NEW block, block.spans = Paragraph(Rest, Top.at, at), inlines' = Append(inlines, block),
         UNCHANGED <<source, matches, position, stage>>
  PROVE  ShareInv'
<1>1. stage = "blocks" /\ IsSource(source)
  BY DEF AtLine, StackInv, SourceIsRead
<1>2. /\ FrameOk(source, Top) /\ Top.at \in Nat /\ Top.at >= 1 /\ Len(Rest) \in Nat /\ Top.at \in 1 .. Len(Rest)
      /\ LineFollows(source, Here)
  BY <1>1, TopIs
<1>3. PICK lines, from, spans : lines = Rest /\ from = Top.at /\ spans = block.spans
  OBVIOUS
<1>4. /\ InOrder(lines) /\ Len(lines) \in Nat
      /\ \A n \in 1 .. Len(lines) : LineFollows(source, lines[n]) /\ lines[n].start \in Starts(source)
  BY <1>2, <1>3 DEF FrameOk, Rest
<1>5. /\ GoodSpans(source, spans) /\ lines[from].start <= spans[1].start
      /\ spans[Len(spans)].end <= lines[at - 1].end
  <2>1. spans = Paragraph(lines, from, at) /\ from \in Nat /\ 1 <= from /\ from < at /\ at <= Len(lines) + 1
    BY <1>2, <1>3
  <2> QED
    BY <1>1, <1>4, <2>1, ParagraphIs
<1>6. Here.start <= FirstStart(spans) /\ LastEnd(spans) <= Rest[at - 1].end
  BY <1>3, <1>5 DEF Here, FirstStart, LastEnd
<1>7. FirstStart(spans) \in Nat /\ LastEnd(spans) \in Nat
  BY <1>5, EndsOfSpans
<1>8. at - 1 \in 1 .. Len(Rest)
  BY <1>2
<1>9. Ahead(stack', LastEnd(spans))
  <2>1. LineFollows(source, Rest[at - 1]) /\ Rest[at - 1].start \in Starts(source)
    BY <1>8, LineHasPlace
  <2>2. /\ Rest[at - 1].end \in Nat /\ Rest[at - 1].newlineEnd \in Nat
        /\ Rest[at - 1].end <= Rest[at - 1].newlineEnd
    BY <1>1, <2>1, LineEndsIn
  <2>3. LastEnd(spans) <= Rest[at - 1].newlineEnd /\ at > Top.at
    BY <1>2, <1>6, <1>7, <2>2
  <2> QED
    BY <1>7, <2>3, GoingOnTakes
<1>10. ASSUME NEW byte, Ahead(stack, byte) PROVE Ahead(stack', byte)
  <2>1. at >= Top.at
    BY <1>2
  <2> QED
    BY <1>1, <1>10, <2>1, GoingOnKeepsAhead
<1>11. Here.start \in Nat
  BY <1>2 DEF LineFollows, LineRecord
<1>12. SharesApart(source, matches, inlines) /\ AllAhead(stack, matches, inlines)
  BY <1>1 DEF ShareInv
<1>13. ASSUME NEW k \in 1 .. Len(matches)
       PROVE  /\ matches[k].phase = BlockPhase /\ Ahead(stack', matches[k].to)
              /\ BesideText(matches[k], block)
  <2>1. matches[k].phase = BlockPhase /\ Ahead(stack, matches[k].to) /\ matches[k].to \in Nat
    BY <1>12 DEF AllAhead, SharesApart, MatchOk
  <2>2. matches[k].to <= Here.start
    BY <2>1, HereIsAhead
  <2>3. matches[k].to <= FirstStart(spans)
    BY <1>6, <1>7, <1>11, <2>1, <2>2
  <2> QED
    BY <1>3, <1>10, <2>1, <2>3 DEF BesideText
<1>14. ASSUME NEW i \in 1 .. Len(inlines)
       PROVE  /\ LastEnd(inlines[i].spans) <= FirstStart(block.spans)
              /\ Ahead(stack', LastEnd(inlines[i].spans))
  <2>1. Ahead(stack, LastEnd(inlines[i].spans))
    BY <1>12 DEF AllAhead
  <2>2. LastEnd(inlines[i].spans) \in Nat
    BY <1>12, EndsOfSpans DEF SharesApart
  <2>3. LastEnd(inlines[i].spans) <= Here.start
    BY <2>1, HereIsAhead
  <2>4. LastEnd(inlines[i].spans) <= FirstStart(spans)
    BY <1>6, <1>7, <1>11, <2>2, <2>3
  <2> QED
    BY <1>3, <1>10, <2>1, <2>4
<1>15. SharesApart(source, matches, Append(inlines, block))
  BY <1>3, <1>5, <1>12, <1>13, <1>14, TextAdded
<1>16. AllAhead(stack', matches, Append(inlines, block))
  <2>1. PICK t, len : t = Append(inlines, block) /\ len = Len(inlines)
    OBVIOUS
  <2>2. len \in Nat /\ Len(t) = len + 1 /\ t[len + 1] = block /\ \A i \in 1 .. len : t[i] = inlines[i]
    BY <1>12, <2>1, AppendedIs DEF SharesApart
  <2>3. ASSUME NEW i \in 1 .. Len(t) PROVE Ahead(stack', LastEnd(t[i].spans))
    <3>1. CASE i \in 1 .. len
      BY <1>14, <2>1, <2>2, <3>1
    <3>2. CASE i = len + 1
      BY <1>3, <1>9, <2>2, <3>2
    <3> QED
      BY <2>2, <3>1, <3>2
  <2> QED
    BY <1>13, <2>1, <2>3 DEF AllAhead
<1>17. /\ position' \in Nat /\ SharesApart(source', matches', inlines')
       /\ stage' = "blocks" /\ AllAhead(stack', matches', inlines')
  BY <1>1, <1>15, <1>16 DEF ShareInv
<1> QED
  BY <1>17 DEF ShareInv

(* An inline hook takes bytes of its own text, before what is left of it.  *)
LEMMA InlineHookShares ==
  ASSUME StackInv, ShareInv, AtText, NEW consumed \in Nat, consumed > 0,
         NEW start, start = InputOffset(Text, position), Contiguous(position, consumed, start),
         position' = position + consumed, UNCHANGED <<source, inlines, stage>>,
         NEW m, m.phase = InlinePhase, m.from = start, m.to = start + consumed,
         m.spans = inlines[1].spans, matches' = Append(matches, m)
  PROVE  ShareInv'
<1>1. /\ stage = "inlines" /\ inlines # <<>> /\ IsSource(source) /\ position \in Nat
      /\ SharesApart(source, matches, inlines) /\ Unread(source, matches, inlines, position)
  BY DEF AtText, StackInv, SourceIsRead, ShareInv
<1>2. PICK spans, input : spans = inlines[1].spans /\ input = InlineInput(source, spans)
  OBVIOUS
<1>3. Text = input
  BY <1>2 DEF Text
<1>4. PICK n : n = Len(inlines)
  OBVIOUS
<1>5. n \in Nat /\ n >= 1 /\ 1 \in 1 .. n
  <2>1. IsSequence(inlines)
    BY <1>1 DEF SharesApart
  <2>2. Len(inlines) \in Nat /\ Len(inlines) >= 1
    BY <1>1, <2>1, RestOfQueue
  <2> QED
    BY <1>4, <2>2
<1>6. GoodSpans(source, spans)
  BY <1>1, <1>2, <1>4, <1>5 DEF SharesApart
<1>7. position + consumed <= Len(input.data) /\ Reads(source, input, position, consumed, start)
  BY <1>3 DEF Contiguous, Reads
<1>8. /\ start \in Nat /\ FirstStart(spans) <= start /\ start + consumed <= LastEnd(spans)
      /\ \A byte \in start .. start + consumed - 1 :
           InSpans(spans, byte) \/ (BetweenSpans(spans, byte) /\ ByteAt(source, byte) = "nl")
      /\ \A p \in position + consumed .. Len(input.data) - 1 : start + consumed <= InputOffset(input, p)
  <2>1. PICK from : from = position
    OBVIOUS
  <2>2. start = InputOffset(input, from) /\ from \in Nat /\ IsSource(source) /\ input = InlineInput(source, spans)
    BY <1>1, <1>2, <1>3, <2>1
  <2>3. from + consumed <= Len(input.data) /\ Reads(source, input, from, consumed, start)
    BY <1>7, <2>1
  <2>4. /\ start \in Nat /\ FirstStart(spans) <= start /\ start + consumed <= LastEnd(spans)
        /\ \A byte \in start .. start + consumed - 1 :
             InSpans(spans, byte) \/ (BetweenSpans(spans, byte) /\ ByteAt(source, byte) = "nl")
        /\ \A p \in from + consumed .. Len(input.data) - 1 : start + consumed <= InputOffset(input, p)
    BY <1>6, <2>2, <2>3, HookTakesText
  <2> QED
    BY <2>1, <2>4
<1>9. MatchOk(source, m)
  <2>1. m.from \in Nat /\ m.to \in Nat /\ m.from <= m.to
    BY <1>8
  <2>2. \A byte \in m.from .. m.to - 1 :
          InSpans(m.spans, byte) \/ (BetweenSpans(m.spans, byte) /\ ByteAt(source, byte) = "nl")
    BY <1>2, <1>8
  <2> QED
    BY <2>1, <2>2, PhasesDiffer DEF MatchOk
<1>10. Len(input.data) \in Nat
  BY <1>1, <1>2, <1>6, InputIs
<1>11. FirstStart(spans) \in Nat /\ LastEnd(spans) \in Nat
  BY <1>6, EndsOfSpans
<1>12. ASSUME NEW k \in 1 .. Len(matches) PROVE MatchBehind(matches[k], m)
  <2>1. MatchOk(source, matches[k])
    BY <1>1 DEF SharesApart
  <2>2. matches[k].from \in Nat /\ matches[k].to \in Nat
    BY <2>1 DEF MatchOk
  <2>3. CASE matches[k].phase = InlinePhase
    <3>1. position \in position .. Len(input.data) - 1
      BY <1>1, <1>7, <1>10
    <3>2. \A p \in position .. Len(input.data) - 1 : matches[k].to <= InputOffset(input, p)
      BY <1>1, <1>2, <2>3 DEF Unread
    <3>3. matches[k].to <= start
      BY <1>3, <3>1, <3>2
    <3> QED
      BY <3>3 DEF MatchBehind
  <2>4. CASE matches[k].phase = BlockPhase
    <3>1. BesideText(matches[k], inlines[1])
      BY <1>1, <1>4, <1>5, <2>4 DEF SharesApart
    <3>2. matches[k].to <= FirstStart(spans) \/ LastEnd(spans) <= matches[k].from
      BY <1>2, <3>1 DEF BesideText
    <3>3. matches[k].to <= m.from \/ m.to <= matches[k].from
      BY <1>8, <1>11, <2>2, <3>2
    <3> QED
      BY <2>4, <3>3, PhasesDiffer DEF MatchBehind
  <2>5. matches[k].phase \in {BlockPhase, InlinePhase}
    BY <2>1 DEF MatchOk
  <2> QED
    BY <2>3, <2>4, <2>5
<1>13. SharesApart(source, Append(matches, m), inlines)
  BY <1>1, <1>9, <1>12, PhasesDiffer, MatchAdded
<1>14. Unread(source, Append(matches, m), inlines, position + consumed)
  <2>1. PICK t, len : t = Append(matches, m) /\ len = Len(matches)
    OBVIOUS
  <2>2. len \in Nat /\ Len(t) = len + 1 /\ t[len + 1] = m /\ \A k \in 1 .. len : t[k] = matches[k]
    BY <1>1, <2>1, AppendedIs DEF SharesApart
  <2>3. ASSUME NEW k \in 1 .. Len(t), t[k].phase = InlinePhase, NEW i \in 2 .. Len(inlines)
        PROVE  t[k].to <= FirstStart(inlines[i].spans)
    <3>1. CASE k \in 1 .. len
      BY <1>1, <2>1, <2>2, <2>3, <3>1 DEF Unread
    <3>2. CASE k = len + 1
      <4>1. i \in 1 .. n /\ 1 < i
        BY <1>4, <1>5
      <4>2. LastEnd(spans) <= FirstStart(inlines[i].spans)
        BY <1>1, <1>2, <1>4, <1>5, <4>1 DEF SharesApart
      <4>3. FirstStart(inlines[i].spans) \in Nat
        <5>1. GoodSpans(source, inlines[i].spans)
          BY <1>1, <1>4, <4>1 DEF SharesApart
        <5> QED
          BY <5>1, EndsOfSpans
      <4> QED
        BY <1>8, <1>11, <2>2, <3>2, <4>2, <4>3
    <3> QED
      BY <2>2, <3>1, <3>2
  <2>4. ASSUME NEW k \in 1 .. Len(t), t[k].phase = InlinePhase,
               NEW p \in position + consumed .. Len(input.data) - 1
        PROVE  t[k].to <= InputOffset(input, p)
    <3>1. CASE k \in 1 .. len
      <4>1. p \in position .. Len(input.data) - 1
        BY <1>1, <1>10
      <4>2. matches[k].phase = InlinePhase
        BY <2>2, <2>4, <3>1
      <4>3. matches[k].to <= InputOffset(input, p)
        BY <1>1, <1>2, <2>1, <3>1, <4>1, <4>2 DEF Unread
      <4> QED
        BY <2>2, <3>1, <4>3
    <3>2. CASE k = len + 1
      BY <1>8, <2>2, <3>2
    <3> QED
      BY <2>2, <3>1, <3>2
  <2> QED
    BY <1>2, <2>1, <2>3, <2>4 DEF Unread
<1>15. /\ position' \in Nat /\ SharesApart(source', matches', inlines')
       /\ stage' = "inlines" /\ Unread(source', matches', inlines', position')
  BY <1>1, <1>13, <1>14
<1> QED
  BY <1>15 DEF ShareInv

(* Plain text is walked over.                                              *)
LEMMA WalkShares ==
  ASSUME StackInv, ShareInv, stage = "inlines", position' \in Nat, position' >= position,
         UNCHANGED <<source, inlines, stage, matches>>
  PROVE  ShareInv'
<1>1. /\ SharesApart(source, matches, inlines) /\ Unread(source, matches, inlines, position) /\ position \in Nat
      /\ IsSource(source)
  BY DEF ShareInv, StackInv, SourceIsRead
<1>2. PICK next : next = position'
  OBVIOUS
<1>3. Unread(source, matches, inlines, next)
  <2> SUFFICES ASSUME NEW k \in 1 .. Len(matches), matches[k].phase = InlinePhase, inlines # <<>>,
                      NEW input, input = InlineInput(source, inlines[1].spans),
                      NEW p \in next .. Len(input.data) - 1
               PROVE  matches[k].to <= InputOffset(input, p)
    BY <1>1 DEF Unread
  <2>1. Len(input.data) \in Nat
    <3>1. IsSequence(inlines)
      BY <1>1 DEF SharesApart
    <3>2. Len(inlines) \in Nat /\ Len(inlines) >= 1
      BY <3>1, RestOfQueue
    <3>3. 1 \in 1 .. Len(inlines)
      BY <3>2
    <3>4. GoodSpans(source, inlines[1].spans)
      BY <1>1, <3>3 DEF SharesApart
    <3> QED
      BY <1>1, <3>4, InputIs
  <2>2. p \in position .. Len(input.data) - 1
    BY <1>1, <1>2, <2>1
  <2> QED
    BY <1>1, <2>2 DEF Unread
<1>4. /\ position' \in Nat /\ SharesApart(source', matches', inlines')
      /\ stage' = "inlines" /\ Unread(source', matches', inlines', position')
  BY <1>1, <1>2, <1>3
<1> QED
  BY <1>4 DEF ShareInv

(* The next text lies behind the one that is done.                         *)
LEMMA EndShares ==
  ASSUME StackInv, ShareInv, EndText
  PROVE  ShareInv'
<1>1. /\ stage = "inlines" /\ SharesApart(source, matches, inlines) /\ Unread(source, matches, inlines, position)
      /\ IsSource(source) /\ position' = 0 /\ UNCHANGED <<source, matches>>
  BY DEF EndText, ShareInv, StackInv, SourceIsRead
<1>2. CASE inlines = <<>>
  <2>1. position' \in Nat /\ SharesApart(source', matches', inlines') /\ stage' = "done"
    BY <1>1, <1>2 DEF EndText
  <2> QED
    BY <2>1 DEF ShareInv
<1>3. CASE inlines # <<>>
  <2>1. inlines' = Tail(inlines) /\ stage' = "inlines"
    BY <1>1, <1>3 DEF EndText
  <2>2. PICK t, n : t = Tail(inlines) /\ n = Len(inlines)
    OBVIOUS
  <2>3. n \in Nat /\ n >= 1 /\ Len(t) = n - 1 /\ IsSequence(t) /\ \A k \in 1 .. n - 1 : t[k] = inlines[k + 1]
    BY <1>1, <1>3, <2>2, RestOfQueue DEF SharesApart
  <2>4. SharesApart(source, matches, t)
    BY <1>1, <1>3, <2>2, TextDropped
  <2>5. ASSUME NEW k \in 1 .. Len(matches), matches[k].phase = InlinePhase, NEW i \in 1 .. Len(t)
        PROVE  matches[k].to <= FirstStart(t[i].spans)
    <3>1. i + 1 \in 2 .. n /\ t[i] = inlines[i + 1]
      BY <2>3
    <3> QED
      BY <1>1, <2>2, <2>5, <3>1 DEF Unread
  <2>6. Unread(source, matches, t, 0)
    <3>1. ASSUME NEW k \in 1 .. Len(matches), matches[k].phase = InlinePhase, t # <<>>,
                 NEW input, input = InlineInput(source, t[1].spans),
                 NEW p \in 0 .. Len(input.data) - 1
          PROVE  matches[k].to <= InputOffset(input, p)
      <4>1. Len(t) \in Nat /\ Len(t) >= 1
        BY <2>3, <3>1, RestOfQueue
      <4>2. 1 \in 1 .. Len(t)
        BY <4>1
      <4>3. PICK spans : spans = t[1].spans
        OBVIOUS
      <4>4. GoodSpans(source, spans)
        BY <2>4, <4>2, <4>3 DEF SharesApart
      <4>5. input = InlineInput(source, spans)
        BY <3>1, <4>3
      <4>6. InputOffset(input, p) \in spans[1].start .. spans[Len(spans)].end - 1
        BY <1>1, <4>4, <4>5, InputIs
      <4>7. FirstStart(spans) \in Nat /\ LastEnd(spans) \in Nat
        BY <4>4, EndsOfSpans
      <4>8. matches[k].to <= FirstStart(spans)
        BY <2>5, <3>1, <4>2, <4>3
      <4>9. matches[k].to \in Nat
        BY <1>1 DEF SharesApart, MatchOk
      <4> QED
        BY <4>6, <4>7, <4>8, <4>9 DEF FirstStart, LastEnd
    <3>2. \A i \in 2 .. Len(t) : i \in 1 .. Len(t)
      BY <2>3
    <3> QED
      BY <2>5, <3>1, <3>2 DEF Unread
  <2>7. /\ position' \in Nat /\ SharesApart(source', matches', inlines')
        /\ stage' = "inlines" /\ Unread(source', matches', inlines', position')
    BY <1>1, <2>1, <2>2, <2>4, <2>6
  <2> QED
    BY <2>7 DEF ShareInv
<1> QED
  BY <1>2, <1>3

LEMMA ConsumedIs ==
  ASSUME NEW start \in Nat, NEW length \in Nat, NEW offset \in Nat, NEW node, NEW available
  PROVE  Consumed(start, length, offset, node, available) \in Nat
<1>1. PICK consumed : consumed = IF length = 0 /\ offset > start THEN offset - start ELSE length
  OBVIOUS
<1>2. consumed \in Nat
  BY <1>1
<1>3. \/ Consumed(start, length, offset, node, available) = consumed
      \/ Consumed(start, length, offset, node, available) = 0
  BY <1>1 DEF Consumed
<1> QED
  BY <1>2, <1>3

LEMMA StartIsInText ==
  ASSUME StackInv, ShareInv, AtText
  PROVE  /\ IsSource(source) /\ position \in Nat /\ Len(Text.data) \in Nat /\ position < Len(Text.data)
         /\ InputOffset(Text, position) \in Nat
<1>1. /\ inlines # <<>> /\ IsSource(source) /\ position \in Nat
      /\ SharesApart(source, matches, inlines)
  BY DEF AtText, StackInv, SourceIsRead, ShareInv
<1>2. IsSequence(inlines)
  BY <1>1 DEF SharesApart
<1>3. Len(inlines) \in Nat /\ Len(inlines) >= 1
  BY <1>1, <1>2, RestOfQueue
<1>4. 1 \in 1 .. Len(inlines)
  BY <1>3
<1>5. PICK spans, input : spans = inlines[1].spans /\ input = InlineInput(source, spans)
  OBVIOUS
<1>6. GoodSpans(source, spans)
  BY <1>1, <1>4, <1>5 DEF SharesApart
<1>7. /\ Len(input.data) \in Nat
      /\ \A p \in 0 .. Len(input.data) - 1 :
           InputOffset(input, p) \in spans[1].start .. spans[Len(spans)].end - 1
  BY <1>1, <1>5, <1>6, InputIs
<1>8. Text = input /\ position < Len(input.data)
  BY <1>5 DEF Text, AtText
<1>9. position \in 0 .. Len(input.data) - 1
  BY <1>1, <1>7, <1>8
<1>10. FirstStart(spans) \in Nat /\ LastEnd(spans) \in Nat
  BY <1>6, EndsOfSpans
<1>11. InputOffset(input, position) \in Nat
  BY <1>7, <1>9, <1>10 DEF FirstStart, LastEnd
<1> QED
  BY <1>1, <1>7, <1>8, <1>11

LEMMA WalkGoesOn ==
  ASSUME StackInv, ShareInv, WalkText
  PROVE  stage = "inlines" /\ position \in Nat /\ position' \in Nat /\ position' >= position
<1>1. /\ AtText /\ stage = "inlines" /\ inlines # <<>> /\ IsSource(source) /\ position \in Nat
      /\ SharesApart(source, matches, inlines)
  BY DEF WalkText, AtText, StackInv, SourceIsRead, ShareInv
<1>2. PICK len : len = Len(Text.data)
  OBVIOUS
<1>3. len \in Nat /\ position < len
  BY <1>1, <1>2, StartIsInText
<1>4. PICK stops : /\ stops = {p \in position + 1 .. len :
                                \/ p = len \/ ByteAt(Text.data, p) = "nl"
                                \/ Triggered(HooksOf(InlinePhase), ByteAt(Text.data, p)) # <<>>}
                   /\ position' \in {Min(stops) + 1, position + 1, Min(stops)}
  BY <1>2 DEF WalkText
<1>5. len \in stops /\ stops \in SUBSET Nat
  BY <1>1, <1>3, <1>4
<1>6. Min(stops) \in stops
  BY <1>5, MinIs
<1>7. Min(stops) \in position + 1 .. len
  BY <1>4, <1>6
<1>8. PICK stop : stop = Min(stops)
  OBVIOUS
<1>9. stop \in Nat /\ stop >= position /\ position' \in {stop + 1, position + 1, stop}
  BY <1>1, <1>3, <1>4, <1>7, <1>8
<1> QED
  BY <1>1, <1>9

LEMMA SharesStay == DispatchSpec => []ShareInv
<1>1. DispatchInit => ShareInv
  <2> SUFFICES ASSUME DispatchInit PROVE ShareInv
    OBVIOUS
  <2>1. position = 0 /\ inlines = <<>> /\ matches = <<>> /\ stage = "new"
    BY DEF DispatchInit
  <2>2. IsSequence(<<>>) /\ Len(<<>>) = 0
    <3>1. <<>> \in Seq({})
      OBVIOUS
    <3> QED
      BY <3>1 DEF IsSequence
  <2>3. SharesApart(source, <<>>, <<>>)
    BY <2>2 DEF SharesApart
  <2> QED
    BY <2>1, <2>3 DEF ShareInv
<1>2. StackInv /\ ShareInv /\ [BuildParser \/ StartParse \/ DispatchNext]_dispatchVars => ShareInv'
  <2> SUFFICES ASSUME StackInv, ShareInv, [BuildParser \/ StartParse \/ DispatchNext]_dispatchVars
               PROVE  ShareInv'
    OBVIOUS
  <2>1. ASSUME UNCHANGED <<stage, source, stack, inlines, position, matches>> PROVE ShareInv'
    BY <2>1 DEF ShareInv
  <2>2. ASSUME Refuse PROVE ShareInv'
    <3>1. /\ stage' = "failed" /\ position' \in Nat /\ SharesApart(source', matches', inlines')
      BY <2>2 DEF Refuse, ShareInv
    <3> QED
      BY <3>1 DEF ShareInv
  <2>3. CASE StartParse
    <3>1. /\ stage = "new" /\ stage' = "blocks" /\ UNCHANGED <<inlines, position, matches>>
      BY <2>3 DEF StartParse
    <3>2. matches' = <<>> /\ inlines' = <<>> /\ position' \in Nat
      BY <3>1 DEF ShareInv
    <3>3. IsSequence(<<>>) /\ Len(<<>>) = 0
      <4>1. <<>> \in Seq({})
        OBVIOUS
      <4> QED
        BY <4>1 DEF IsSequence
    <3>4. SharesApart(source', matches', inlines')
      BY <3>2, <3>3 DEF SharesApart
    <3>5. AllAhead(stack', matches', inlines')
      BY <3>2, <3>3 DEF AllAhead
    <3> QED
      BY <3>1, <3>2, <3>4, <3>5 DEF ShareInv
  <2>4. CASE BuildParser \/ UNCHANGED dispatchVars
    BY <2>1, <2>4 DEF BuildParser, dispatchVars, parseVars
  <2>5. CASE HookDeclines
    BY <2>1, <2>5 DEF HookDeclines
  <2>6. CASE HookFails
    BY <2>2, <2>6 DEF HookFails
  <2>7. CASE BlockHookMatches
    <3>1. AtLine /\ stage = "blocks"
      BY <2>7 DEF BlockHookMatches, AtBlockHook, AtLine
    <3>2. PICK start, id : start = LineSourceOffset(Here, 0) /\ id = BlockHooks[asked + 1].id
      OBVIOUS
    <3>10. PICK length \in Lengths, offset \in Lengths, node \in Offered :
             \E consumed, last :
               /\ consumed = Consumed(start, length, offset, node, Len(source) - start)
               /\ last = {n \in Top.at .. Len(Rest) : EndsLine(n, start + consumed)}
               /\ \/ Refuse
                  \/ /\ last # {} /\ GoOn(Max(last) + 1)
                     /\ Matched(BlockPhase, id, start, start + consumed, <<>>)
                     /\ UNCHANGED <<stage, source, inlines, position>>
      BY <2>7, <3>2 DEF BlockHookMatches, GoOn
    <3>3. PICK consumed, last :
            /\ consumed = Consumed(start, length, offset, node, Len(source) - start)
            /\ last = {n \in Top.at .. Len(Rest) : EndsLine(n, start + consumed)}
            /\ \/ Refuse
               \/ /\ last # {} /\ GoOn(Max(last) + 1)
                  /\ Matched(BlockPhase, id, start, start + consumed, <<>>)
                  /\ UNCHANGED <<stage, source, inlines, position>>
      BY <3>10
    <3>4. start \in Nat
      <4>1. IsSource(source) /\ LineFollows(source, Here)
        BY <3>1, TopIs DEF StackInv, SourceIsRead
      <4>2. Len(Here.logical) \in Nat /\ Here.start \in Nat
        BY <4>1, OffsetsAreInLine
      <4>3. 0 \in 0 .. Len(Here.logical)
        BY <4>2
      <4>4. start \in Here.start .. Here.end
        BY <3>2, <4>1, <4>3, SourceOffsetIs
      <4> QED
        BY <4>2, <4>4
    <3>5. consumed \in Nat
      <4>1. Len(source) \in Nat
        BY DEF StackInv, SourceIsRead, IsSource
      <4>2. length \in Nat /\ offset \in Nat
        BY <4>1 DEF Lengths
      <4> QED
        BY <3>3, <3>4, <4>2, ConsumedIs
    <3>6. CASE Refuse
      BY <2>2, <3>6
    <3>7. CASE ~Refuse
      <4>1. PICK end : end = start + consumed
        OBVIOUS
      <4>2. end \in Nat /\ LineSourceOffset(Here, 0) <= end
        BY <3>2, <3>4, <3>5, <4>1
      <4>3. /\ last = {n \in Top.at .. Len(Rest) : EndsLine(n, end)} /\ last # {} /\ GoOn(Max(last) + 1)
            /\ UNCHANGED <<source, inlines, position, stage>>
        BY <3>3, <3>7, <4>1
      <4>4. PICK m : m = [phase |-> BlockPhase, id |-> id, from |-> start, to |-> end, spans |-> <<>>]
        OBVIOUS
      <4>5. /\ m.phase = BlockPhase /\ m.from = LineSourceOffset(Here, 0) /\ m.to = end
            /\ matches' = Append(matches, m)
        BY <3>2, <3>3, <3>7, <4>1, <4>4 DEF Matched
      <4> QED
        BY <3>1, <4>2, <4>3, <4>5, BlockHookShares
    <3> QED
      BY <3>6, <3>7
  <2>8. CASE InlineHookMatches
    <3>1. AtText
      BY <2>8 DEF InlineHookMatches, AtInlineHook
    <3>2. PICK start, id : start = InputOffset(Text, position) /\ id = InlineHooks[asked + 1].id
      OBVIOUS
    <3>10. PICK length \in Lengths, offset \in Lengths, node \in Offered :
             \E consumed :
               /\ consumed = Consumed(start, length, offset, node, Len(Text.data) - position)
               /\ \/ Refuse
                  \/ /\ consumed > 0 /\ Contiguous(position, consumed, start)
                     /\ position' = position + consumed
                     /\ Matched(InlinePhase, id, start, start + consumed, inlines[1].spans)
                     /\ UNCHANGED <<stage, source, inlines>>
      BY <2>8, <3>2 DEF InlineHookMatches
    <3>3. PICK consumed :
            /\ consumed = Consumed(start, length, offset, node, Len(Text.data) - position)
            /\ \/ Refuse
               \/ /\ consumed > 0 /\ Contiguous(position, consumed, start)
                  /\ position' = position + consumed
                  /\ Matched(InlinePhase, id, start, start + consumed, inlines[1].spans)
                  /\ UNCHANGED <<stage, source, inlines>>
      BY <3>10
    <3>4. start \in Nat
      BY <3>1, <3>2, StartIsInText
    <3>5. consumed \in Nat
      <4>1. Len(source) \in Nat
        BY DEF StackInv, SourceIsRead, IsSource
      <4>2. length \in Nat /\ offset \in Nat
        BY <4>1 DEF Lengths
      <4> QED
        BY <3>3, <3>4, <4>2, ConsumedIs
    <3>6. CASE Refuse
      BY <2>2, <3>6
    <3>7. CASE ~Refuse
      <4>1. /\ consumed > 0 /\ Contiguous(position, consumed, start)
            /\ position' = position + consumed /\ UNCHANGED <<source, inlines, stage>>
        BY <3>3, <3>7
      <4>2. PICK m : m = [phase |-> InlinePhase, id |-> id, from |-> start, to |-> start + consumed,
                          spans |-> inlines[1].spans]
        OBVIOUS
      <4>3. /\ m.phase = InlinePhase /\ m.from = start /\ m.to = start + consumed
            /\ m.spans = inlines[1].spans /\ matches' = Append(matches, m)
        BY <3>3, <3>7, <4>2 DEF Matched
      <4> QED
        BY <3>1, <3>2, <3>5, <4>1, <4>3, InlineHookShares
    <3> QED
      BY <3>6, <3>7
  <2>9. ASSUME AtLine, NEW at \in Nat, at > Top.at, GoOn(at), UNCHANGED <<stage, source, inlines, position, matches>>
        PROVE  ShareInv'
    <3>1. stage = "blocks"
      BY <2>9 DEF AtLine
    <3>2. at >= Top.at
      BY <2>9, <3>1, TopIs
    <3>3. \A byte : Ahead(stack, byte) => Ahead(stack', byte)
      BY <2>9, <3>1, <3>2, GoingOnKeepsAhead
    <3> QED
      BY <2>9, <3>1, <3>3, NothingTaken
  <2>10. CASE SkipBlankLine
    <3>1. AtLine /\ GoOn(Top.at + 1) /\ UNCHANGED <<stage, source, inlines, position, matches>>
      BY <2>10 DEF SkipBlankLine
    <3>2. Top.at \in Nat
      BY <3>1, TopIs DEF AtLine
    <3>3. Top.at + 1 \in Nat /\ Top.at + 1 > Top.at
      BY <3>2
    <3> QED
      BY <2>9, <3>1, <3>3
  <2>11. CASE OpenQuote
    <3>1. stage = "blocks" /\ UNCHANGED <<stage, source, inlines, position, matches>>
      BY <2>11 DEF OpenQuote, Declined, AtLine
    <3>2. \A byte : Ahead(stack, byte) => Ahead(stack', byte)
      BY <2>11, QuotingKeepsAhead
    <3> QED
      BY <3>1, <3>2, NothingTaken
  <2>12. CASE ParseCode
    <3>1. PICK S : S = {n \in Later : ~IsBlank(Rest[n].logical) /\ IndentWidth(Rest[n].logical) < 4}
      OBVIOUS
    <3>2. S \in SUBSET Later
      BY <3>1
    <3>3. AtLine /\ GoOn(First(S)) /\ UNCHANGED <<stage, source, inlines, position, matches>>
      BY <2>12, <3>1 DEF ParseCode, Declined
    <3>4. First(S) \in Nat /\ Top.at < First(S) /\ Top.at \in Nat
      BY <3>2, <3>3, FirstIs, TopIs DEF AtLine
    <3>5. First(S) > Top.at
      BY <3>4
    <3> QED
      BY <2>9, <3>3, <3>4, <3>5
  <2>13. CASE ParseText
    <3>1. PICK S, at : S = {n \in Later : EndsParagraph(Rest[n])} /\ at = First(S)
      OBVIOUS
    <3>2. S \in SUBSET Later
      BY <3>1
    <3>3. PICK block : block = [node |-> NewNode, spans |-> Paragraph(Rest, Top.at, at)]
      OBVIOUS
    <3>4. /\ AtLine /\ GoOn(at) /\ UNCHANGED <<source, matches, position, stage>>
          /\ inlines' = Append(inlines, block)
      BY <2>13, <3>1, <3>3 DEF ParseText, Declined, Paragraph
    <3>5. at \in Nat /\ Top.at < at /\ at <= Len(Rest) + 1
      BY <3>1, <3>2, <3>4, FirstIs
    <3>6. block.spans = Paragraph(Rest, Top.at, at)
      BY <3>3
    <3> QED
      BY <3>4, <3>5, <3>6, ParagraphShares
  <2>14. CASE EndFrame
    <3>1. /\ stage = "blocks" /\ stage' \in {"blocks", "inlines"}
          /\ UNCHANGED <<source, inlines, position, matches>>
      BY <2>14 DEF EndFrame
    <3>2. \A byte : Ahead(stack, byte) => Ahead(stack', byte)
      BY <2>14, EndingKeepsAhead
    <3> QED
      BY <3>1, <3>2, NothingTaken
  <2>15. CASE WalkText
    <3>1. stage = "inlines" /\ position \in Nat /\ position' \in Nat /\ position' >= position
      BY <2>15, WalkGoesOn
    <3>2. UNCHANGED <<source, inlines, stage, matches>>
      BY <2>15 DEF WalkText
    <3> QED
      BY <3>1, <3>2, WalkShares
  <2>16. CASE EndText
    BY <2>16, EndShares
  <2> QED
    BY <2>3, <2>4, <2>5, <2>6, <2>7, <2>8, <2>10, <2>11, <2>12, <2>13, <2>14, <2>15, <2>16 DEF DispatchNext
<1> QED
  BY <1>1, <1>2, StackStays, PTL DEF DispatchSpec

(* Hooks of both phases, in any number and order, nested in containers and *)
(* beside paragraphs, never get a byte twice or one that is not theirs:    *)
(* block hooks end where lines end, and an inline hook stays in the text   *)
(* of its block, over the gaps stripped container markers leave.           *)
THEOREM HooksShare == DispatchSpec => []HooksTakeTheirShare
<1>1. ShareInv => HooksTakeTheirShare
  BY SharesAreApart DEF ShareInv
<1> QED
  BY <1>1, SharesStay, PTL
=============================================================================
