------------------------------ MODULE Counting ------------------------------
(***************************************************************************)
(* Induction over the naturals, with sets in place of predicates, and what *)
(* the other modules count with: largest elements, running totals of a     *)
(* sequence of naturals, sums over a finite set, and the ranks of the      *)
(* elements of a finite set in a total order.                              *)
(***************************************************************************)
EXTENDS Integers, FiniteSets, Functions, FiniteSetTheorems, FunctionTheorems, WellFoundedInduction, TLAPS

Below == OpToRel(<, Nat)

(* A set of naturals to which a number belongs whenever the smaller ones   *)
(* do holds them all.                                                      *)
LEMMA StrongInduction ==
  ASSUME NEW S, \A n \in Nat : (\A m \in 0 .. n - 1 : m \in S) => n \in S
  PROVE  Nat \subseteq S
<1> SUFFICES ASSUME Nat \ S # {} PROVE FALSE
  OBVIOUS
<1>1. IsWellFoundedOn(Below, Nat)
  BY NatLessThanWellFounded DEF Below
<1>2. PICK x \in Nat \ S : \A y \in Nat \ S : ~(<<y, x>> \in Below)
  BY <1>1, WFMin
<1>3. Below = {ss \in Nat \X Nat : ss[1] < ss[2]}
  BY DEF Below, OpToRel
<1>4. \A y \in 0 .. x - 1 : y \in Nat /\ <<y, x>> \in Below
  BY <1>2, <1>3
<1> QED
  BY <1>2, <1>4

LEMMA SetInduction ==
  ASSUME NEW S, 0 \in S, \A n \in Nat : n \in S => n + 1 \in S
  PROVE  Nat \subseteq S
<1>1. ASSUME NEW n \in Nat, \A m \in 0 .. n - 1 : m \in S PROVE n \in S
  <2>1. CASE n = 0
    BY <2>1
  <2>2. CASE n # 0
    <3>1. n - 1 \in Nat /\ n - 1 \in S /\ (n - 1) + 1 = n
      BY <1>1, <2>2
    <3> QED
      BY <3>1
  <2> QED
    BY <2>1, <2>2
<1> QED
  BY <1>1, StrongInduction

(* A set of numbers that is not empty has a smallest.                      *)
LEMMA SmallestExists ==
  ASSUME NEW S \in SUBSET Nat, S # {}
  PROVE  \E m \in S : \A s \in S : m <= s
<1>1. IsWellFoundedOn(Below, Nat)
  BY NatLessThanWellFounded DEF Below
<1>2. PICK x \in S : \A y \in S : ~(<<y, x>> \in Below)
  BY <1>1, WFMin
<1>3. Below = {ss \in Nat \X Nat : ss[1] < ss[2]}
  BY DEF Below, OpToRel
<1>4. \A y \in S : x <= y
  <2> SUFFICES ASSUME NEW y \in S, y < x PROVE FALSE
    OBVIOUS
  <2>1. <<y, x>> \in Below
    BY <1>3
  <2> QED
    BY <1>2, <2>1
<1> QED
  BY <1>4

(* Of numbers with a bound, if there are any, one is the largest.          *)
LEMMA LargestExists ==
  ASSUME NEW S \in SUBSET Nat, S # {}, NEW bound \in Nat, \A s \in S : s <= bound
  PROVE  \E m \in S : \A s \in S : s <= m
<1> SUFFICES ASSUME \A m \in S : \E s \in S : s > m PROVE FALSE
  OBVIOUS
<1> DEFINE Missing == {d \in Nat : bound - d \notin S}
<1>1. ASSUME NEW n \in Nat, \A m \in 0 .. n - 1 : m \in Missing PROVE n \in Missing
  <2> SUFFICES ASSUME bound - n \in S PROVE FALSE
    OBVIOUS
  <2>1. PICK s \in S : s > bound - n
    OBVIOUS
  <2>2. bound - s \in 0 .. n - 1 /\ bound - (bound - s) = s
    BY <2>1
  <2> QED
    BY <1>1, <2>1, <2>2
<1> HIDE DEF Missing
<1>2. Nat \subseteq Missing
  BY <1>1, StrongInduction
<1>3. PICK s \in S : TRUE
  OBVIOUS
<1>4. bound - s \in Nat /\ bound - (bound - s) = s
  BY <1>3
<1> QED
  BY <1>2, <1>3, <1>4 DEF Missing
-----------------------------------------------------------------------------
(* f adds up the first n of the amounts. *)
IsTotal(f, amount, n) ==
  f = [m \in 0 .. n |-> IF m = 0 THEN 0 ELSE f[m - 1] + amount[m]]

LEMMA TotalExists ==
  ASSUME NEW n \in Nat, NEW amount \in [1 .. n -> Nat]
  PROVE  \E f \in [0 .. n -> Nat] : IsTotal(f, amount, n)
<1> DEFINE Reached == {k \in Nat : k <= n => \E f \in [0 .. k -> Nat] : IsTotal(f, amount, k)}
<1>1. 0 \in Reached
  <2>1. IsTotal([m \in 0 .. 0 |-> 0], amount, 0)
    BY DEF IsTotal
  <2> QED
    BY <2>1
<1>2. ASSUME NEW k \in Nat, k \in Reached PROVE k + 1 \in Reached
  <2> SUFFICES ASSUME k + 1 <= n PROVE \E f \in [0 .. k + 1 -> Nat] : IsTotal(f, amount, k + 1)
    OBVIOUS
  <2>1. PICK f \in [0 .. k -> Nat] : IsTotal(f, amount, k)
    BY <1>2
  <2> DEFINE g == [m \in 0 .. k + 1 |-> IF m = k + 1 THEN f[k] + amount[k + 1] ELSE f[m]]
  <2>2. g \in [0 .. k + 1 -> Nat]
    BY <2>1
  <2>3. \A m \in 0 .. k : f[m] = IF m = 0 THEN 0 ELSE f[m - 1] + amount[m]
    BY <2>1 DEF IsTotal
  <2>4. \A m \in 0 .. k + 1 : g[m] = IF m = 0 THEN 0 ELSE g[m - 1] + amount[m]
    <3> TAKE m \in 0 .. k + 1
    <3>1. CASE m = k + 1
      <4>1. m - 1 = k /\ k \in 0 .. k + 1 /\ k # k + 1 /\ m # 0
        BY <3>1
      <4> QED
        BY <3>1, <4>1
    <3>2. CASE m # k + 1
      <4>1. m \in 0 .. k /\ (m # 0 => m - 1 \in 0 .. k + 1 /\ m - 1 # k + 1)
        BY <3>2
      <4> QED
        BY <2>3, <3>2, <4>1
    <3> QED
      BY <3>1, <3>2
  <2>5. IsTotal(g, amount, k + 1)
    <3> HIDE DEF g
    <3> QED
      BY <2>2, <2>4 DEF IsTotal
  <2> QED
    BY <2>2, <2>5
<1> HIDE DEF Reached
<1>3. n \in Reached
  BY <1>1, <1>2, SetInduction
<1> QED
  BY <1>3 DEF Reached

LEMMA TotalsAgree ==
  ASSUME NEW n \in Nat, NEW m \in Nat, NEW f, NEW g, NEW a, NEW b,
         IsTotal(f, a, n), IsTotal(g, b, m), NEW k \in 0 .. n, k <= m, \A i \in 1 .. k : a[i] = b[i]
  PROVE  f[k] = g[k]
<1> DEFINE Agree == {i \in Nat : i <= k => f[i] = g[i]}
<1>1. /\ \A i \in 0 .. n : f[i] = IF i = 0 THEN 0 ELSE f[i - 1] + a[i]
      /\ \A i \in 0 .. m : g[i] = IF i = 0 THEN 0 ELSE g[i - 1] + b[i]
  BY DEF IsTotal
<1>2. 0 \in Agree
  BY <1>1
<1>3. ASSUME NEW i \in Nat, i \in Agree PROVE i + 1 \in Agree
  <2> SUFFICES ASSUME i + 1 <= k PROVE f[i + 1] = g[i + 1]
    OBVIOUS
  <2>1. i + 1 \in 0 .. n /\ i + 1 \in 0 .. m /\ i + 1 \in 1 .. k /\ (i + 1) - 1 = i /\ i + 1 # 0
    OBVIOUS
  <2>2. f[i] = g[i]
    BY <1>3
  <2> QED
    BY <1>1, <2>1, <2>2
<1> HIDE DEF Agree
<1>4. k \in Agree
  BY <1>2, <1>3, SetInduction
<1> QED
  BY <1>4 DEF Agree
-----------------------------------------------------------------------------
(* The sum of a function over a finite set, as FoldFunction takes it: sums *)
(* holds the sum over every member of D, from which Pick takes an element. *)
Pick(s) == CHOOSE x \in s : TRUE
AreSums(sums, a, D) ==
  sums = [s \in D |-> IF s = {} THEN 0 ELSE a[Pick(s)] + sums[s \ {Pick(s)}]]
Sum(a) == FoldFunction(+, 0, a)

LEMMA Picked == ASSUME NEW s, s # {} PROVE Pick(s) \in s
BY DEF Pick

(* One element less is left, of a finite set and of its number. *)
LEMMA OneLess ==
  ASSUME NEW S, IsFiniteSet(S), NEW s \in SUBSET S, NEW x \in s
  PROVE  /\ IsFiniteSet(s) /\ Cardinality(s) \in Nat
         /\ s \ {x} \in SUBSET S /\ Cardinality(s \ {x}) = Cardinality(s) - 1
         /\ Cardinality(s \ {x}) \in Nat
<1>1. IsFiniteSet(s)
  BY FS_Subset
<1>2. IsFiniteSet(s \ {x}) /\ Cardinality(s \ {x}) = Cardinality(s) - 1
  BY <1>1, FS_RemoveElement
<1>3. Cardinality(s) \in Nat /\ Cardinality(s \ {x}) \in Nat
  BY <1>1, <1>2, FS_CardinalityType
<1> QED
  BY <1>1, <1>2, <1>3

LEMMA SumsExist ==
  ASSUME NEW S, IsFiniteSet(S), NEW a \in [S -> Int]
  PROVE  \E sums \in [SUBSET S -> Int] : AreSums(sums, a, SUBSET S)
<1> DEFINE Small(k) == {s \in SUBSET S : Cardinality(s) <= k}
           Reached == {k \in Nat : \E sums \in [Small(k) -> Int] : AreSums(sums, a, Small(k))}
<1>1. \A s \in SUBSET S : Cardinality(s) \in Nat /\ (s # {} => Cardinality(s) # 0)
  <2> SUFFICES ASSUME NEW s \in SUBSET S PROVE Cardinality(s) \in Nat /\ (s # {} => Cardinality(s) # 0)
    OBVIOUS
  <2>1. IsFiniteSet(s)
    BY FS_Subset
  <2> QED
    BY <2>1, FS_CardinalityType, FS_EmptySet
<1>2. 0 \in Reached
  <2> DEFINE none == [s \in Small(0) |-> 0]
  <2>1. \A s \in Small(0) : s = {}
    BY <1>1
  <2>2. AreSums(none, a, Small(0)) /\ none \in [Small(0) -> Int]
    <3> HIDE DEF Small
    <3> QED
      BY <2>1 DEF AreSums
  <2> HIDE DEF none
  <2> QED
    BY <2>2
<1>3. ASSUME NEW k \in Nat, k \in Reached PROVE k + 1 \in Reached
  <2>1. PICK f \in [Small(k) -> Int] : AreSums(f, a, Small(k))
    BY <1>3
  <2> DEFINE g == [s \in Small(k + 1) |-> IF s = {} THEN 0 ELSE a[Pick(s)] + f[s \ {Pick(s)}]]
  <2>2. ASSUME NEW s \in Small(k + 1), s # {}
        PROVE  a[Pick(s)] \in Int /\ s \ {Pick(s)} \in Small(k) /\ s \ {Pick(s)} \in Small(k + 1)
    <3>1. Pick(s) \in s /\ s \in SUBSET S
      BY <2>2, Picked
    <3>2. s \ {Pick(s)} \in SUBSET S /\ Cardinality(s \ {Pick(s)}) = Cardinality(s) - 1
      BY <3>1, OneLess
    <3>3. Cardinality(s) \in Nat /\ Cardinality(s) <= k + 1
      BY <1>1, <3>1
    <3> QED
      BY <3>1, <3>2, <3>3
  <2>3. \A s \in Small(k) : f[s] = IF s = {} THEN 0 ELSE a[Pick(s)] + f[s \ {Pick(s)}]
    <3> HIDE DEF Small
    <3> QED
      BY <2>1 DEF AreSums
  <2>4. \A s \in Small(k) : s \in Small(k + 1)
    BY <1>1
  <2> HIDE DEF Small
  <2>5. g \in [Small(k + 1) -> Int]
    BY <2>2
  <2>6. \A s \in Small(k) : g[s] = f[s]
    BY <2>3, <2>4
  <2>7. \A s \in Small(k + 1) : g[s] = IF s = {} THEN 0 ELSE a[Pick(s)] + g[s \ {Pick(s)}]
    <3> TAKE s \in Small(k + 1)
    <3>1. CASE s = {}
      BY <3>1
    <3>2. CASE s # {}
      <4>1. g[s] = a[Pick(s)] + f[s \ {Pick(s)}]
        BY <3>2
      <4>2. g[s \ {Pick(s)}] = f[s \ {Pick(s)}]
        BY <2>2, <2>6, <3>2
      <4> HIDE DEF g
      <4> QED
        BY <3>2, <4>1, <4>2
    <3> QED
      BY <3>1, <3>2
  <2>8. AreSums(g, a, Small(k + 1))
    <3> HIDE DEF g
    <3> QED
      BY <2>5, <2>7 DEF AreSums
  <2> HIDE DEF g
  <2>9. k + 1 \in Nat /\ \E sums \in [Small(k + 1) -> Int] : AreSums(sums, a, Small(k + 1))
    BY <2>5, <2>8
  <2> QED
    BY ONLY <2>9
<1>4. Cardinality(S) \in Nat
  BY FS_CardinalityType
<1>5. Cardinality(S) \in Reached
  <2> HIDE DEF Reached
  <2> QED
    BY <1>2, <1>3, <1>4, SetInduction
<1>6. Small(Cardinality(S)) = SUBSET S
  BY <1>1, FS_Subset
<1> HIDE DEF Small
<1> QED
  BY <1>5, <1>6

(* Of two families of sums, for amounts that are the same on s. *)
Summed(f, a, s) == \A t \in SUBSET s : f[t] = IF t = {} THEN 0 ELSE a[Pick(t)] + f[t \ {Pick(t)}]

LEMMA SumsAgree ==
  ASSUME NEW s, IsFiniteSet(s), NEW a, NEW b, NEW f, NEW g,
         Summed(f, a, s), Summed(g, b, s), \A x \in s : a[x] = b[x]
  PROVE  f[s] = g[s]
<1> DEFINE Agree == {k \in Nat : \A t \in SUBSET s : Cardinality(t) = k => f[t] = g[t]}
<1>1. \A t \in SUBSET s : /\ f[t] = IF t = {} THEN 0 ELSE a[Pick(t)] + f[t \ {Pick(t)}]
                          /\ g[t] = IF t = {} THEN 0 ELSE b[Pick(t)] + g[t \ {Pick(t)}]
  BY DEF Summed
<1>2. IsFiniteSet(s)
  OBVIOUS
<1>3. 0 \in Agree
  <2> SUFFICES ASSUME NEW t \in SUBSET s, Cardinality(t) = 0 PROVE f[t] = g[t]
    OBVIOUS
  <2>1. t = {}
    BY <1>2, FS_Subset, FS_EmptySet
  <2> QED
    BY <1>1, <2>1
<1>4. ASSUME NEW k \in Nat, k \in Agree PROVE k + 1 \in Agree
  <2> SUFFICES ASSUME NEW t \in SUBSET s, Cardinality(t) = k + 1 PROVE f[t] = g[t]
    OBVIOUS
  <2>1. t # {}
    <3>1. IsFiniteSet(t)
      BY <1>2, FS_Subset
    <3> QED
      BY <3>1, FS_EmptySet
  <2>2. Pick(t) \in t
    BY <2>1, Picked
  <2>3. t \ {Pick(t)} \in SUBSET s /\ Cardinality(t \ {Pick(t)}) = k
    BY <1>2, <2>2, OneLess
  <2>4. f[t \ {Pick(t)}] = g[t \ {Pick(t)}]
    BY <1>4, <2>3
  <2> QED
    BY <1>1, <2>1, <2>2, <2>4
<1>5. Cardinality(s) \in Nat
  BY <1>2, FS_CardinalityType
<1> HIDE DEF Agree
<1>6. Cardinality(s) \in Agree
  BY <1>3, <1>4, <1>5, SetInduction
<1> QED
  BY <1>6 DEF Agree

(* Whichever element is taken off, the rest makes up the sum. *)
LEMMA SumsSplit ==
  ASSUME NEW S, IsFiniteSet(S), NEW a \in [S -> Int], NEW f \in [SUBSET S -> Int],
         AreSums(f, a, SUBSET S), NEW s \in SUBSET S, NEW x \in s
  PROVE  f[s] = a[x] + f[s \ {x}]
<1> DEFINE Fine == {k \in Nat : \A t \in SUBSET S : \A y \in t :
                                  Cardinality(t) = k => f[t] = a[y] + f[t \ {y}]}
<1>1. \A t \in SUBSET S : f[t] = IF t = {} THEN 0 ELSE a[Pick(t)] + f[t \ {Pick(t)}]
  BY DEF AreSums
<1>2. 0 \in Fine
  <2> SUFFICES ASSUME NEW t \in SUBSET S, NEW y \in t, Cardinality(t) = 0 PROVE FALSE
    OBVIOUS
  <2>1. Cardinality(t \ {y}) = Cardinality(t) - 1 /\ Cardinality(t \ {y}) \in Nat
    BY OneLess
  <2> QED
    BY <2>1
<1>3. ASSUME NEW k \in Nat, k \in Fine PROVE k + 1 \in Fine
  <2> SUFFICES ASSUME NEW t \in SUBSET S, NEW y \in t, Cardinality(t) = k + 1, y # Pick(t)
               PROVE  f[t] = a[y] + f[t \ {y}]
    BY <1>1
  <2> DEFINE p == Pick(t)
             rest == t \ {y, p}
  <2>1. p \in t
    BY Picked
  <2> HIDE DEF p
  <2>2. /\ t \ {p} \in SUBSET S /\ Cardinality(t \ {p}) = k /\ y \in t \ {p}
        /\ t \ {y} \in SUBSET S /\ Cardinality(t \ {y}) = k /\ p \in t \ {y}
    BY <2>1, OneLess DEF p
  <2>3. (t \ {p}) \ {y} = rest /\ (t \ {y}) \ {p} = rest
    OBVIOUS
  <2>4. f[t] = a[p] + f[t \ {p}]
    BY <1>1, <2>1 DEF p
  <2>5. f[t \ {p}] = a[y] + f[rest] /\ f[t \ {y}] = a[p] + f[rest]
    <3>1. \A r \in SUBSET S : \A z \in r : Cardinality(r) = k => f[r] = a[z] + f[r \ {z}]
      BY <1>3
    <3>2. f[t \ {p}] = a[y] + f[(t \ {p}) \ {y}]
      BY <2>2, <3>1
    <3>3. f[t \ {y}] = a[p] + f[(t \ {y}) \ {p}]
      BY <2>2, <3>1
    <3> QED
      BY <2>3, <3>2, <3>3
  <2>6. a[p] \in Int /\ a[y] \in Int /\ f[rest] \in Int
    BY <2>1
  <2> QED
    BY <2>4, <2>5, <2>6
<1>4. Cardinality(s) \in Nat
  BY OneLess
<1> HIDE DEF Fine
<1>5. Cardinality(s) \in Fine
  BY <1>2, <1>3, <1>4, SetInduction
<1> QED
  BY <1>5 DEF Fine

LEMMA SumIsOne ==
  ASSUME NEW S, IsFiniteSet(S), NEW a \in [S -> Int]
  PROVE  \E sums \in [SUBSET S -> Int] : AreSums(sums, a, SUBSET S) /\ Sum(a) = sums[S]
<1> DEFINE sums == CHOOSE f : AreSums(f, a, SUBSET S)
<1>1. Sum(a) = sums[S]
  BY DEF Sum, FoldFunction, FoldFunctionOnSet, MapThenFoldSet, AreSums, Pick
<1>2. PICK g \in [SUBSET S -> Int] : AreSums(g, a, SUBSET S)
  BY SumsExist
<1>3. AreSums(sums, a, SUBSET S)
  BY <1>2
<1> HIDE DEF sums
<1>4. \A s \in SUBSET S : sums[s] = g[s]
  <2> TAKE s \in SUBSET S
  <2>1. IsFiniteSet(s)
    BY FS_Subset
  <2>2. Summed(sums, a, s) /\ Summed(g, a, s)
    BY <1>2, <1>3 DEF AreSums, Summed
  <2> QED
    BY <2>1, <2>2, SumsAgree
<1>5. sums = [s \in SUBSET S |-> sums[s]]
  BY <1>3 DEF AreSums
<1>6. sums \in [SUBSET S -> Int]
  BY <1>4, <1>5
<1> QED
  BY <1>1, <1>3, <1>6

(* A sum over no elements is 0; any amount can be taken out of a sum. *)
LEMMA SumOfNone ==
  ASSUME NEW a \in [{} -> Int]
  PROVE  Sum(a) = 0
<1>1. IsFiniteSet({})
  BY FS_EmptySet
<1>2. PICK sums \in [SUBSET {} -> Int] : AreSums(sums, a, SUBSET {}) /\ Sum(a) = sums[{}]
  BY <1>1, SumIsOne
<1> QED
  BY <1>2 DEF AreSums

(* b holds the amounts of a but that of x. *)
AllBut(a, S, x, b) ==
  IsFiniteSet(S) /\ x \in S /\ a \in [S -> Int] /\ b = [y \in S \ {x} |-> a[y]]

LEMMA SumWithout ==
  ASSUME NEW a, NEW S, NEW x, NEW b, AllBut(a, S, x, b)
  PROVE  Sum(a) \in Int /\ Sum(b) \in Int /\ Sum(a) = a[x] + Sum(b)
<1> DEFINE R == S \ {x}
<1>1. /\ IsFiniteSet(S) /\ x \in S /\ a \in [S -> Int]
      /\ b \in [R -> Int] /\ \A y \in R : a[y] = b[y]
  BY DEF AllBut
<1>2. IsFiniteSet(R)
  BY <1>1, FS_Subset
<1>3. PICK f \in [SUBSET S -> Int] : AreSums(f, a, SUBSET S) /\ Sum(a) = f[S]
  BY <1>1, SumIsOne
<1>4. PICK g \in [SUBSET R -> Int] : AreSums(g, b, SUBSET R) /\ Sum(b) = g[R]
  <2> HIDE DEF R
  <2> QED
    BY <1>1, <1>2, SumIsOne
<1>5. f[R] = g[R]
  <2>1. Summed(f, a, R) /\ Summed(g, b, R)
    BY <1>3, <1>4 DEF AreSums, Summed
  <2> HIDE DEF R
  <2> QED
    BY <1>1, <1>2, <2>1, SumsAgree
<1>6. f[S] = a[x] + f[R]
  BY <1>1, <1>3, SumsSplit
<1> QED
  BY <1>3, <1>4, <1>5, <1>6

(* The sum of the amounts from one place to the last. *)
SumFrom(w, n, at) == Sum([k \in at .. n |-> w[k]])

LEMMA SumFromNext ==
  ASSUME NEW n \in Nat, NEW w \in [1 .. n -> Nat], NEW at \in 1 .. n + 1
  PROVE  /\ SumFrom(w, n, at) \in Nat
         /\ at = n + 1 => SumFrom(w, n, at) = 0
         /\ at <= n => SumFrom(w, n, at) = w[at] + SumFrom(w, n, at + 1)
<1> DEFINE tail(i) == [k \in i .. n |-> w[k]]
           Fine == {d \in Nat : d <= n => SumFrom(w, n, n + 1 - d) \in Nat}
<1>1. SumFrom(w, n, n + 1) = 0
  <2>1. n + 1 .. n = {}
    OBVIOUS
  <2>2. tail(n + 1) \in [{} -> Int]
    BY <2>1
  <2> HIDE DEF tail
  <2>3. Sum(tail(n + 1)) = 0
    BY <2>2, SumOfNone
  <2> QED
    BY <2>3 DEF SumFrom, tail
<1>2. ASSUME NEW i \in 1 .. n
      PROVE  /\ SumFrom(w, n, i) = w[i] + SumFrom(w, n, i + 1)
             /\ SumFrom(w, n, i) \in Int /\ SumFrom(w, n, i + 1) \in Int
  <2> DEFINE S == i .. n
             a == tail(i)
             b == tail(i + 1)
  <2>1. IsFiniteSet(S) /\ i \in S /\ a \in [S -> Int] /\ a[i] = w[i]
    BY FS_Interval
  <2>2. S \ {i} = i + 1 .. n /\ \A k \in i + 1 .. n : k \in S
    OBVIOUS
  <2>3. b = [k \in S \ {i} |-> a[k]]
    BY <2>2
  <2>4. SumFrom(w, n, i) = Sum(a) /\ SumFrom(w, n, i + 1) = Sum(b)
    BY DEF SumFrom
  <2> HIDE DEF S, a, b
  <2>5. AllBut(a, S, i, b)
    BY <2>1, <2>3 DEF AllBut
  <2>6. Sum(a) \in Int /\ Sum(b) \in Int /\ Sum(a) = a[i] + Sum(b)
    BY <2>5, SumWithout
  <2> QED
    BY <2>1, <2>4, <2>6
<1> HIDE DEF tail
<1>3. 0 \in Fine
  BY <1>1
<1>4. ASSUME NEW d \in Nat, d \in Fine PROVE d + 1 \in Fine
  <2> SUFFICES ASSUME d + 1 <= n PROVE SumFrom(w, n, n + 1 - (d + 1)) \in Nat
    OBVIOUS
  <2> DEFINE i == n + 1 - (d + 1)
  <2>1. i \in 1 .. n /\ i + 1 = n + 1 - d /\ w[i] \in Nat
    OBVIOUS
  <2>2. SumFrom(w, n, i + 1) \in Nat
    BY <1>4, <2>1
  <2> HIDE DEF i
  <2>3. SumFrom(w, n, i) \in Nat
    BY <1>2, <2>1, <2>2
  <2> QED
    BY <2>3 DEF i
<1>5. n + 1 - at \in Nat /\ n + 1 - (n + 1 - at) = at /\ n + 1 - at <= n
  OBVIOUS
<1> HIDE DEF Fine
<1>6. n + 1 - at \in Fine
  BY <1>3, <1>4, <1>5, SetInduction
<1>7. SumFrom(w, n, at) \in Nat
  BY <1>5, <1>6 DEF Fine
<1> QED
  BY <1>1, <1>2, <1>7

(* Later tails are smaller, where every amount counts. *)
LEMMA SumFromShrinks ==
  ASSUME NEW n \in Nat, NEW w \in [1 .. n -> Nat], NEW at \in 1 .. n + 1, NEW to \in at .. n + 1,
         \A k \in 1 .. n : w[k] > 0
  PROVE  /\ SumFrom(w, n, to) <= SumFrom(w, n, at)
         /\ at < to => SumFrom(w, n, to) < SumFrom(w, n, at)
<1> DEFINE Fine == {d \in Nat : at + d <= n + 1 => SumFrom(w, n, at + d) + d <= SumFrom(w, n, at)}
<1>1. SumFrom(w, n, at) \in Nat
  BY SumFromNext
<1>2. 0 \in Fine
  BY <1>1
<1>3. ASSUME NEW d \in Nat, d \in Fine PROVE d + 1 \in Fine
  <2> SUFFICES ASSUME at + (d + 1) <= n + 1 PROVE SumFrom(w, n, at + (d + 1)) + (d + 1) <= SumFrom(w, n, at)
    OBVIOUS
  <2> DEFINE i == at + d
  <2>1. i \in 1 .. n + 1 /\ i + 1 \in 1 .. n + 1 /\ i <= n /\ at + (d + 1) = i + 1 /\ i \in 1 .. n
    OBVIOUS
  <2>2. SumFrom(w, n, i) + d <= SumFrom(w, n, at)
    BY <1>3, <2>1
  <2> HIDE DEF i
  <2>3. /\ SumFrom(w, n, i) = w[i] + SumFrom(w, n, i + 1)
        /\ SumFrom(w, n, i) \in Nat /\ SumFrom(w, n, i + 1) \in Nat /\ w[i] \in Nat /\ w[i] > 0
    BY <2>1, SumFromNext
  <2> QED
    BY <1>1, <2>1, <2>2, <2>3
<1>4. to - at \in Nat /\ at + (to - at) = to
  OBVIOUS
<1> HIDE DEF Fine
<1>5. to - at \in Fine
  BY <1>2, <1>3, <1>4, SetInduction
<1>6. SumFrom(w, n, to) \in Nat
  <2>1. to \in 1 .. n + 1
    OBVIOUS
  <2> QED
    BY <2>1, SumFromNext
<1>7. SumFrom(w, n, to) + (to - at) <= SumFrom(w, n, at)
  BY <1>4, <1>5 DEF Fine
<1> QED
  BY <1>1, <1>6, <1>7

(* What is left of some amounts and what comes behind them make up no more *)
(* than there was, and less when the first has shrunk.                     *)
LEMMA SumsHanded ==
  ASSUME NEW n \in Nat, NEW w \in [1 .. n -> Nat], NEW at \in 1 .. n, NEW to \in at + 1 .. n + 1,
         NEW m \in Nat, m = to - at, NEW v \in [1 .. m -> Nat],
         \A k \in 1 .. m : v[k] <= w[at + k - 1], v[1] < w[at]
  PROVE  SumFrom(v, m, 1) + SumFrom(w, n, to) < SumFrom(w, n, at)
<1> DEFINE Fine == {d \in Nat : d < m => SumFrom(v, m, m + 1 - d) + SumFrom(w, n, to) <= SumFrom(w, n, to - d)}
<1>1. m >= 1 /\ to \in 1 .. n + 1
  OBVIOUS
<1>2. SumFrom(v, m, m + 1) = 0 /\ SumFrom(w, n, to) \in Nat
  <2>1. m + 1 \in 1 .. m + 1
    OBVIOUS
  <2>2. SumFrom(v, m, m + 1) = 0
    BY <2>1, SumFromNext
  <2> QED
    BY <1>1, <2>2, SumFromNext
<1>3. 0 \in Fine
  BY <1>1, <1>2
<1>4. ASSUME NEW d \in Nat, d \in Fine PROVE d + 1 \in Fine
  <2> SUFFICES ASSUME d + 1 < m
               PROVE  SumFrom(v, m, m + 1 - (d + 1)) + SumFrom(w, n, to) <= SumFrom(w, n, to - (d + 1))
    OBVIOUS
  <2> DEFINE j == m + 1 - (d + 1)
             i == to - (d + 1)
  <2>1. j \in 1 .. m /\ j + 1 = m + 1 - d /\ i \in 1 .. n /\ i + 1 = to - d /\ i = at + j - 1
    OBVIOUS
  <2>2. j \in 1 .. m + 1 /\ i \in 1 .. n + 1 /\ j <= m /\ i <= n /\ j + 1 \in 1 .. m + 1 /\ i + 1 \in 1 .. n + 1
    BY <2>1
  <2>3. SumFrom(v, m, j + 1) + SumFrom(w, n, to) <= SumFrom(w, n, i + 1)
    BY <1>4, <2>1
  <2> HIDE DEF i, j
  <2>4. SumFrom(v, m, j) = v[j] + SumFrom(v, m, j + 1) /\ SumFrom(v, m, j + 1) \in Nat
    BY <2>2, SumFromNext
  <2>5. SumFrom(w, n, i) = w[i] + SumFrom(w, n, i + 1) /\ SumFrom(w, n, i + 1) \in Nat
    BY <2>2, SumFromNext
  <2>6. v[j] \in Nat /\ w[i] \in Nat /\ v[j] <= w[i]
    BY <2>1
  <2>7. SumFrom(v, m, j) + SumFrom(w, n, to) <= SumFrom(w, n, i)
    BY <1>2, <2>3, <2>4, <2>5, <2>6
  <2> QED
    BY <2>7 DEF i, j
<1> HIDE DEF Fine
<1>5. m - 1 \in Nat /\ m - 1 < m /\ m + 1 - (m - 1) = 2 /\ to - (m - 1) = at + 1
  BY <1>1
<1>6. m - 1 \in Fine
  BY <1>3, <1>4, <1>5, SetInduction
<1>7. SumFrom(v, m, 2) + SumFrom(w, n, to) <= SumFrom(w, n, at + 1)
  BY <1>5, <1>6 DEF Fine
<1>8. SumFrom(v, m, 1) = v[1] + SumFrom(v, m, 2) /\ SumFrom(v, m, 2) \in Nat /\ v[1] \in Nat
  <2>1. 1 \in 1 .. m + 1 /\ 1 <= m /\ 1 + 1 = 2 /\ 2 \in 1 .. m + 1 /\ 1 \in 1 .. m
    BY <1>1
  <2> QED
    BY <2>1, SumFromNext
<1>9. SumFrom(w, n, at) = w[at] + SumFrom(w, n, at + 1) /\ SumFrom(w, n, at + 1) \in Nat /\ w[at] \in Nat
  <2>1. at \in 1 .. n + 1 /\ at <= n /\ at + 1 \in 1 .. n + 1
    OBVIOUS
  <2> QED
    BY <2>1, SumFromNext
<1> QED
  BY <1>2, <1>7, <1>8, <1>9
-----------------------------------------------------------------------------
(* How many come before r. *)
RankIn(S, before, r) == Cardinality({e \in S : <<e, r>> \in before})

TotalOrder(S, before) ==
  /\ before \in SUBSET (S \X S)
  /\ \A r \in S : <<r, r>> \notin before
  /\ \A r, e \in S : r # e => <<r, e>> \in before \/ <<e, r>> \in before
  /\ \A r, e, t \in S : <<r, e>> \in before /\ <<e, t>> \in before => <<r, t>> \in before

LEMMA RanksGrow ==
  ASSUME NEW S, IsFiniteSet(S), NEW before, TotalOrder(S, before), NEW r \in S, NEW e \in S
  PROVE  /\ RankIn(S, before, r) \in 0 .. Cardinality(S) - 1
         /\ <<e, r>> \in before <=> RankIn(S, before, e) < RankIn(S, before, r)
<1> DEFINE Earlier(x) == {y \in S : <<y, x>> \in before}
<1>1. \A x \in S : /\ IsFiniteSet(Earlier(x)) /\ Cardinality(Earlier(x)) \in Nat
                   /\ Cardinality(Earlier(x)) <= Cardinality(S) - 1
                   /\ Cardinality(S) \in Nat
  <2> TAKE x \in S
  <2>1. Earlier(x) \in SUBSET (S \ {x})
    BY DEF TotalOrder
  <2>2. IsFiniteSet(S \ {x}) /\ Cardinality(S \ {x}) = Cardinality(S) - 1
    BY FS_RemoveElement
  <2>6. Cardinality(S) \in Nat
    BY FS_CardinalityType
  <2> HIDE DEF Earlier
  <2>3. IsFiniteSet(Earlier(x)) /\ Cardinality(Earlier(x)) <= Cardinality(S \ {x})
    BY <2>1, <2>2, FS_Subset
  <2>4. Cardinality(Earlier(x)) \in Nat
    BY <2>3, FS_CardinalityType
  <2> QED
    BY <2>2, <2>3, <2>4, <2>6
<1>2. ASSUME NEW x \in S, NEW y \in S, <<x, y>> \in before
      PROVE  Cardinality(Earlier(x)) < Cardinality(Earlier(y))
  <2>1. Earlier(x) \in SUBSET Earlier(y) /\ x \in Earlier(y) /\ x \notin Earlier(x)
    BY <1>2 DEF TotalOrder
  <2>2. Earlier(x) # Earlier(y)
    BY <2>1
  <2>3. /\ Cardinality(Earlier(x)) <= Cardinality(Earlier(y))
        /\ Cardinality(Earlier(y)) = Cardinality(Earlier(x)) => Earlier(y) = Earlier(x)
    BY <1>1, <2>1, FS_Subset
  <2>4. Cardinality(Earlier(x)) # Cardinality(Earlier(y))
    BY <2>2, <2>3
  <2> QED
    BY <1>1, <2>3, <2>4
<1> HIDE DEF Earlier
<1>3. <<e, r>> \in before <=> Cardinality(Earlier(e)) < Cardinality(Earlier(r))
  <2>1. ASSUME Cardinality(Earlier(e)) < Cardinality(Earlier(r)) PROVE <<e, r>> \in before
    <3>1. e # r
      BY <1>1, <2>1
    <3>2. ~(<<r, e>> \in before)
      BY <1>1, <1>2, <2>1
    <3> QED
      BY <3>1, <3>2 DEF TotalOrder
  <2> QED
    BY <1>2, <2>1
<1> QED
  BY <1>1, <1>3 DEF RankIn, Earlier

(* In a total order every place is taken, by one element. *)
LEMMA EveryRankIsTaken ==
  ASSUME NEW S, IsFiniteSet(S), NEW before, TotalOrder(S, before), NEW k \in 0 .. Cardinality(S) - 1
  PROVE  \E r \in S : RankIn(S, before, r) = k
<1> DEFINE n == Cardinality(S)
<1> DEFINE Places == 0 .. n - 1
<1> DEFINE rank == [r \in S |-> RankIn(S, before, r)]
<1>1. n \in Nat /\ IsFiniteSet(Places) /\ Cardinality(Places) = n
  <2>1. n \in Nat
    BY FS_CardinalityType
  <2> QED
    BY <2>1, FS_Interval
<1>2. rank \in [S -> Places]
  BY RanksGrow
<1>3. \A r, e \in S : rank[r] = rank[e] => r = e
  <2> SUFFICES ASSUME NEW r \in S, NEW e \in S, rank[r] = rank[e], r # e PROVE FALSE
    OBVIOUS
  <2>1. <<r, e>> \in before \/ <<e, r>> \in before
    BY DEF TotalOrder
  <2>2. rank[r] \in Int
    BY <1>1, <1>2
  <2>3. rank[r] < rank[e] \/ rank[e] < rank[r]
    BY <2>1, RanksGrow
  <2> QED
    BY <2>2, <2>3
<1> HIDE DEF rank
<1>4. rank \in Injection(S, Places)
  BY <1>2, <1>3, Fun_IsInj
<1>5. rank \in Surjection(S, Places)
  BY <1>1, <1>4, FS_Injection
<1>6. \E r \in S : rank[r] = k
  <2>1. k \in Places
    OBVIOUS
  <2> HIDE DEF Places
  <2>2. \A t \in Places : \E r \in S : rank[r] = t
    BY <1>5, Fun_SurjectionProperties
  <2> QED
    BY <2>1, <2>2
<1> QED
  BY <1>6 DEF rank
=============================================================================
