---------------------------- MODULE ArenaProofs ----------------------------
(***************************************************************************)
(* Proofs about Arena for an arena of any capacity and a source of any     *)
(* length.  The inductive invariant is TypeOK, LinkInv and the facts that  *)
(* make Validate succeed; it is proved for Detached and Appended, the two  *)
(* link rewritings AppendChild and Detach are made of, in that order,      *)
(* because AppendChild continues from the links Detach leaves.  A ranking  *)
(* makes what is read off the links a list that ends, and there is only    *)
(* one such list; so what the rewritings do to the lists is what the       *)
(* builder does to Tree.  The last part unrolls Walk over such lists.      *)
(***************************************************************************)
EXTENDS ArenaTree, Counting, SequenceTheorems

(* LinkInv as a property of five arbitrary link functions. *)
LinkTypes(d, bound) ==
  /\ d.parent \in [Node -> Link]
  /\ d.first \in [Node -> Link]
  /\ d.last \in [Node -> Link]
  /\ d.previous \in [Node -> Link]
  /\ d.next \in [Node -> Link]
  /\ \A n \in Node :
       /\ d.parent[n] # NoNode => n <= bound /\ d.parent[n] <= bound
       /\ d.first[n] # NoNode => n <= bound /\ d.first[n] <= bound

Siblings(d) ==
  \A n \in Node :
    /\ d.next[n] # NoNode =>
         d.previous[d.next[n]] = n /\ d.parent[d.next[n]] = d.parent[n]
    /\ d.previous[n] # NoNode =>
         d.next[d.previous[n]] = n /\ d.parent[d.previous[n]] = d.parent[n]

Ends(d) ==
  \A n \in Node :
    /\ d.first[n] # NoNode => d.parent[d.first[n]] = n /\ d.previous[d.first[n]] = NoNode
    /\ d.last[n] # NoNode => d.parent[d.last[n]] = n /\ d.next[d.last[n]] = NoNode
    /\ d.parent[n] # NoNode /\ d.previous[n] = NoNode => d.first[d.parent[n]] = n
    /\ d.parent[n] # NoNode /\ d.next[n] = NoNode => d.last[d.parent[n]] = n

Alone(d) ==
  \A n \in Node :
    /\ d.parent[n] = NoNode => d.next[n] = NoNode /\ d.previous[n] = NoNode
    /\ d.first[n] = NoNode <=> d.last[n] = NoNode
    /\ d.parent[n] # n

Linked(d, bound) == LinkTypes(d, bound) /\ Siblings(d) /\ Ends(d) /\ Alone(d)

(* A numbering of the nodes that grows along every child list: as long as  *)
(* one exists no list of siblings runs into itself.                        *)
Ranked(d, rank, top) ==
  /\ top \in Nat
  /\ rank \in [Node -> 0 .. top]
  /\ \A n \in Node : d.next[n] # NoNode => rank[n] < rank[d.next[n]]

(* The links of a state that LinkInv holds of. *)
LEMMA LinkedNow ==
  ASSUME TypeOK
  PROVE  LinkInv <=> Linked(Current, size)
  BY DEF TypeOK, LinkInv, LinksAllocated, SiblingsAgree, EndsAgree, DetachedAlone,
         Linked, LinkTypes, Siblings, Ends, Alone, Current

(* Taking a node out of its list leaves well-linked lists, and the node    *)
(* without a parent.                                                       *)
LEMMA DetachLinked ==
  ASSUME ArenaAssumption, NEW id \in Node, Linked(Current, size)
  PROVE  Linked(Detached(id), size) /\ Detached(id).parent[id] = NoNode
<1>1. CASE parent[id] = NoNode
  BY <1>1 DEF Detached, Current
<1>2. CASE parent[id] # NoNode
  <2> DEFINE d == Detached(id)
             p == parent[id]
             a == previous[id]
             b == next[id]
  <2>1. /\ d.parent = [parent EXCEPT ![id] = NoNode]
        /\ d.first = IF a = NoNode THEN [first EXCEPT ![p] = b] ELSE first
        /\ d.last = IF b = NoNode THEN [last EXCEPT ![p] = a] ELSE last
        /\ d.previous = IF b = NoNode THEN [previous EXCEPT ![id] = NoNode]
                        ELSE [previous EXCEPT ![b] = a, ![id] = NoNode]
        /\ d.next = IF a = NoNode THEN [next EXCEPT ![id] = NoNode]
                    ELSE [next EXCEPT ![a] = b, ![id] = NoNode]
    BY <1>2 DEF Detached
  <2> HIDE DEF d
  <2>a. /\ parent \in [Node -> Link] /\ first \in [Node -> Link] /\ last \in [Node -> Link]
        /\ previous \in [Node -> Link] /\ next \in [Node -> Link]
        /\ p \in Node /\ a \in Link /\ b \in Link
    BY <1>2 DEF Linked, LinkTypes, Link, Current
  <2>b. /\ \A n \in Node : parent[n] # NoNode => n <= size /\ parent[n] <= size
        /\ \A n \in Node : first[n] # NoNode => n <= size /\ first[n] <= size
        /\ p <= size
        /\ b # NoNode => b \in Node /\ b <= size
    BY <1>2, <2>a DEF Linked, LinkTypes, Link, Current, Siblings
  <2>c. /\ d.parent \in [Node -> Link] /\ d.first \in [Node -> Link] /\ d.last \in [Node -> Link]
        /\ d.previous \in [Node -> Link] /\ d.next \in [Node -> Link]
    BY <2>1, <2>a DEF Link
  <2>2. LinkTypes(d, size)
    BY <2>1, <2>a, <2>b, <2>c DEF LinkTypes
  <2>3. Siblings(d)
    BY <1>2, <2>1 DEF Linked, LinkTypes, Link, Current, Siblings, Ends, Alone, Node, NoNode
  <2>4. Ends(d)
    BY <1>2, <2>1 DEF Linked, LinkTypes, Link, Current, Siblings, Ends, Alone, Node, NoNode
  <2>5. Alone(d)
    BY <1>2, <2>1 DEF Linked, LinkTypes, Link, Current, Siblings, Ends, Alone, Node, NoNode
  <2>6. d.parent[id] = NoNode
    BY <2>1 DEF Linked, LinkTypes, Current
  <2> QED BY <2>2, <2>3, <2>4, <2>5, <2>6 DEF Linked, d
<1> QED BY <1>1, <1>2

(* Hanging an unattached node behind the last child of another keeps the   *)
(* lists well linked.                                                      *)
LEMMA AppendLinked ==
  ASSUME ArenaAssumption, NEW d, NEW bound \in Node,
         NEW p \in Node, NEW child \in Node, p # child, p <= bound, child <= bound,
         Linked(d, bound), d.parent[child] = NoNode
  PROVE  Linked(Appended(d, p, child), bound)
<1> DEFINE e == Appended(d, p, child)
           tail == d.last[p]
<1>1. /\ e.parent = [d.parent EXCEPT ![child] = p]
      /\ e.first = IF tail = NoNode THEN [d.first EXCEPT ![p] = child] ELSE d.first
      /\ e.last = [d.last EXCEPT ![p] = child]
      /\ e.previous = [d.previous EXCEPT ![child] = tail]
      /\ e.next = IF tail = NoNode THEN d.next ELSE [d.next EXCEPT ![tail] = child]
  BY DEF Appended
<1> HIDE DEF e
<1>2. /\ d.parent \in [Node -> Link] /\ d.first \in [Node -> Link] /\ d.last \in [Node -> Link]
      /\ d.previous \in [Node -> Link] /\ d.next \in [Node -> Link]
      /\ tail \in Link
  BY DEF Linked, LinkTypes
<1>3. /\ tail # NoNode => d.parent[tail] = p /\ d.next[tail] = NoNode /\ tail # child
      /\ d.previous[child] = NoNode /\ d.next[child] = NoNode
      /\ tail = NoNode => d.first[p] = NoNode
  BY <1>2 DEF Linked, Ends, Alone, Node, NoNode
<1>4. /\ e.parent \in [Node -> Link] /\ e.first \in [Node -> Link] /\ e.last \in [Node -> Link]
      /\ e.previous \in [Node -> Link] /\ e.next \in [Node -> Link]
  BY <1>1, <1>2 DEF Link
<1>5. LinkTypes(e, bound)
  BY <1>1, <1>2, <1>4 DEF Linked, LinkTypes
<1>6. Siblings(e)
  <2>1. ASSUME NEW n \in Node, e.next[n] # NoNode
        PROVE  e.previous[e.next[n]] = n /\ e.parent[e.next[n]] = e.parent[n]
    <3>1. CASE n = tail
      BY <1>1, <1>2, <1>3, <3>1 DEF Node, NoNode
    <3>2. CASE n # tail
      <4>1. e.next[n] = d.next[n] /\ d.next[n] \in Node
        BY <1>1, <1>2, <2>1, <3>2 DEF Link
      <4>2. /\ d.previous[d.next[n]] = n /\ d.parent[d.next[n]] = d.parent[n]
            /\ n # child /\ d.next[n] # child
        BY <1>3, <2>1, <4>1 DEF Linked, Siblings, Node, NoNode
      <4> QED BY <1>1, <1>2, <4>1, <4>2
    <3> QED BY <3>1, <3>2
  <2>2. ASSUME NEW n \in Node, e.previous[n] # NoNode
        PROVE  e.next[e.previous[n]] = n /\ e.parent[e.previous[n]] = e.parent[n]
    <3>1. CASE n = child
      BY <1>1, <1>2, <1>3, <2>2, <3>1 DEF Link
    <3>2. CASE n # child
      <4>1. e.previous[n] = d.previous[n] /\ d.previous[n] \in Node
        BY <1>1, <1>2, <2>2, <3>2 DEF Link
      <4>2. /\ d.next[d.previous[n]] = n /\ d.parent[d.previous[n]] = d.parent[n]
            /\ d.previous[n] # child /\ d.previous[n] # tail
        BY <1>3, <2>2, <4>1 DEF Linked, Siblings, Node, NoNode
      <4> QED BY <1>1, <1>2, <3>2, <4>1, <4>2
    <3> QED BY <3>1, <3>2
  <2> QED BY <2>1, <2>2 DEF Siblings
<1>7. Ends(e)
  <2> SUFFICES ASSUME NEW n \in Node
      PROVE  /\ e.first[n] # NoNode => e.parent[e.first[n]] = n /\ e.previous[e.first[n]] = NoNode
             /\ e.last[n] # NoNode => e.parent[e.last[n]] = n /\ e.next[e.last[n]] = NoNode
             /\ e.parent[n] # NoNode /\ e.previous[n] = NoNode => e.first[e.parent[n]] = n
             /\ e.parent[n] # NoNode /\ e.next[n] = NoNode => e.last[e.parent[n]] = n
    BY DEF Ends
  <2> USE DEF Link
  <2>1. /\ d.first[n] # NoNode => d.parent[d.first[n]] = n /\ d.previous[d.first[n]] = NoNode
                                  /\ d.first[n] \in Node /\ d.first[n] # child
        /\ d.last[n] # NoNode => d.parent[d.last[n]] = n /\ d.next[d.last[n]] = NoNode
                                  /\ d.last[n] \in Node /\ d.last[n] # child
        /\ d.parent[n] # NoNode /\ d.previous[n] = NoNode => d.first[d.parent[n]] = n
        /\ d.parent[n] # NoNode /\ d.next[n] = NoNode => d.last[d.parent[n]] = n
    BY <1>2 DEF Linked, Ends, Node, NoNode
  <2>2. e.first[n] # NoNode => e.parent[e.first[n]] = n /\ e.previous[e.first[n]] = NoNode
    BY <1>1, <1>2, <1>3, <2>1
  <2>3. e.last[n] # NoNode => e.parent[e.last[n]] = n /\ e.next[e.last[n]] = NoNode
    <3>1. CASE n = p
      BY <1>1, <1>2, <1>3, <3>1
    <3>2. CASE n # p /\ e.last[n] # NoNode
      <4>1. e.last[n] = d.last[n] /\ d.last[n] # tail
        BY <1>1, <1>2, <1>3, <2>1, <3>2
      <4> QED BY <1>1, <1>2, <2>1, <3>2, <4>1
    <3> QED BY <3>1, <3>2
  <2>4. e.parent[n] # NoNode /\ e.previous[n] = NoNode => e.first[e.parent[n]] = n
    <3>1. CASE n = child
      BY <1>1, <1>2, <3>1
    <3>2. CASE n # child /\ d.parent[n] # NoNode /\ d.previous[n] = NoNode
      <4>1. d.first[d.parent[n]] = n /\ d.parent[n] \in Node
        BY <1>2, <2>1, <3>2
      <4>2. d.parent[n] = p => tail # NoNode
        BY <1>3, <4>1 DEF Node, NoNode
      <4> QED BY <1>1, <1>2, <3>2, <4>1, <4>2
    <3> QED BY <1>1, <1>2, <3>1, <3>2
  <2>5. e.parent[n] # NoNode /\ e.next[n] = NoNode => e.last[e.parent[n]] = n
    <3>1. CASE n = child
      BY <1>1, <1>2, <3>1
    <3>2. CASE n # child /\ e.parent[n] # NoNode /\ e.next[n] = NoNode
      <4>1. n # tail /\ d.next[n] = NoNode /\ d.parent[n] = e.parent[n] /\ d.parent[n] \in Node
        BY <1>1, <1>2, <3>2 DEF Node, NoNode
      <4>2. d.last[d.parent[n]] = n
        BY <2>1, <3>2, <4>1
      <4> QED BY <1>1, <1>2, <4>1, <4>2
    <3> QED BY <3>1, <3>2
  <2> QED BY <2>2, <2>3, <2>4, <2>5
<1>8. Alone(e)
  BY <1>1, <1>2, <1>3 DEF Linked, Siblings, Ends, Alone, Link, Node, NoNode
<1> QED BY <1>5, <1>6, <1>7, <1>8 DEF Linked, e

(* A child list that runs into itself admits no ranking; moving and        *)
(* removing nodes keeps one.                                               *)
LEMMA DetachRanked ==
  ASSUME ArenaAssumption, NEW id \in Node, Linked(Current, size),
         NEW rank, NEW top, Ranked(Current, rank, top)
  PROVE  Ranked(Detached(id), rank, top)
<1>1. CASE parent[id] = NoNode
  BY <1>1 DEF Detached
<1>2. CASE parent[id] # NoNode
  <2> DEFINE a == previous[id]
             b == next[id]
             x == Detached(id).next
  <2>1. x = IF a = NoNode THEN [next EXCEPT ![id] = NoNode]
            ELSE [next EXCEPT ![a] = b, ![id] = NoNode]
    BY <1>2 DEF Detached
  <2>2. /\ next \in [Node -> Link] /\ a \in Link /\ b \in Link
        /\ a # NoNode => next[a] = id
        /\ rank \in [Node -> 0 .. top] /\ top \in Nat
        /\ \A n \in Node : next[n] # NoNode => rank[n] < rank[next[n]]
    BY DEF Linked, LinkTypes, Siblings, Current, Ranked, Link
  <2> HIDE DEF x, a, b
  <2>3. ASSUME NEW n \in Node, x[n] # NoNode
        PROVE  rank[n] < rank[x[n]]
    <3>1. CASE n = id
      BY <2>1, <2>2, <2>3, <3>1 DEF NoNode
    <3>2. CASE n # id /\ n = a
      <4>1. x[n] = b /\ b \in Node /\ b = next[id] /\ a # NoNode
        BY <2>1, <2>2, <2>3, <3>2 DEF Link, Node, NoNode, b
      <4>2. rank[a] < rank[id] /\ rank[id] < rank[b]
        BY <2>2, <4>1, <3>2 DEF Node, NoNode
      <4>3. rank[a] \in Nat /\ rank[id] \in Nat /\ rank[b] \in Nat
        BY <2>2, <4>1, <3>2
      <4> QED BY <4>1, <4>2, <4>3, <3>2
    <3>3. CASE n # id /\ n # a
      BY <2>1, <2>2, <2>3, <3>3
    <3> QED BY <3>1, <3>2, <3>3
  <2> QED BY <2>2, <2>3 DEF Ranked, x
<1> QED BY <1>1, <1>2

(* The node appended gets a rank above all others. *)
LEMMA AppendRanked ==
  ASSUME ArenaAssumption, NEW d, NEW bound \in Node, Linked(d, bound),
         NEW p \in Node, NEW child \in Node, p # child, d.parent[child] = NoNode,
         NEW rank, NEW top, Ranked(d, rank, top)
  PROVE  Ranked(Appended(d, p, child), [rank EXCEPT ![child] = top + 1], top + 1)
<1> DEFINE tail == d.last[p]
           x == Appended(d, p, child).next
           newRank == [rank EXCEPT ![child] = top + 1]
<1>1. x = IF tail = NoNode THEN d.next ELSE [d.next EXCEPT ![tail] = child]
  BY DEF Appended
<1>2. /\ d.next \in [Node -> Link] /\ tail \in Link
      /\ d.parent \in [Node -> Link]
      /\ rank \in [Node -> 0 .. top] /\ top \in Nat
      /\ \A n \in Node : d.next[n] # NoNode => rank[n] < rank[d.next[n]]
      /\ \A n \in Node : d.next[n] # NoNode => d.parent[d.next[n]] = d.parent[n]
      /\ \A n \in Node : d.parent[n] = NoNode => d.next[n] = NoNode
      /\ tail # NoNode => tail # child
  BY DEF Linked, LinkTypes, Siblings, Alone, Ends, Ranked, Link, Node, NoNode
<1>3. newRank \in [Node -> 0 .. top + 1] /\ top + 1 \in Nat
  BY <1>2
<1>4. /\ newRank[child] = top + 1
      /\ \A n \in Node : n # child => newRank[n] = rank[n] /\ rank[n] \in 0 .. top
  BY <1>2
<1> HIDE DEF x, newRank, tail
<1>5. ASSUME NEW n \in Node, x[n] # NoNode
      PROVE  newRank[n] < newRank[x[n]]
  <2>1. CASE n = tail
    <3>1. x[n] = child /\ n # child
      BY <1>1, <1>2, <2>1 DEF Node, NoNode
    <3> QED BY <1>2, <1>4, <3>1
  <2>2. CASE n # tail
    <3>1. x[n] = d.next[n] /\ d.next[n] # NoNode /\ d.next[n] \in Node
      BY <1>1, <1>2, <1>5, <2>2 DEF Link
    <3>2. n # child /\ d.next[n] # child
      <4>1. d.parent[n] # NoNode
        BY <1>2, <3>1
      <4> QED BY <1>2, <3>1, <4>1
    <3> QED BY <1>2, <1>4, <3>1, <3>2
  <2> QED BY <2>1, <2>2
<1> QED BY <1>3, <1>5 DEF Ranked, x, newRank

(* The inductive invariant: well-typed records, well-linked child lists,   *)
(* none of which runs into itself, and a root that is the document.        *)
SiblingsFinite == \E top \in Nat, rank \in [Node -> Nat] : Ranked(Current, rank, top)

IInv == TypeOK /\ LinkInv /\ SiblingsFinite /\ kind[Root] = "document"

(* NewBuilder's arena. *)
LEMMA InitIInv == ASSUME ArenaAssumption, Init PROVE IInv
<1> USE DEF ArenaAssumption, Node, Link, NoNode, Root
<1>1. TypeOK
  <2>1. <<0, 0>> \in Span /\ <<0, SourceLen>> \in Span
    BY DEF Span
  <2>2. span \in [Node -> Span] /\ content \in [Node -> Span]
    BY <2>1 DEF Init
  <2>3. size \in 1 .. MaxNodes
    BY DEF Init
  <2>5. built \in BOOLEAN /\ payload \in [Node -> SUBSET Fields]
    BY DEF Init
  <2>4. kind \in [Node -> Kinds \cup {"document", "none"}]
    BY DEF Init
  <2> QED BY <2>2, <2>3, <2>4, <2>5 DEF Init, TypeOK
<1>2. LinkInv
  BY DEF Init, LinkInv, LinksAllocated, SiblingsAgree, EndsAgree, DetachedAlone
<1>3. SiblingsFinite
  <2>1. Ranked(Current, [n \in Node |-> 0], 0)
    BY DEF Init, Ranked, Current
  <2> QED BY <2>1 DEF SiblingsFinite
<1> QED BY <1>1, <1>2, <1>3 DEF IInv, Init

(* The types of all that is not a link. *)
DataOK ==
  /\ size \in 1 .. MaxNodes
  /\ kind \in [Node -> Kinds \cup {"document", "none"}] /\ kind[Root] = "document"
  /\ span \in [Node -> Span] /\ content \in [Node -> Span]
  /\ payload \in [Node -> SUBSET Fields]
  /\ built \in BOOLEAN

(* What the rewritings have in common: if the links of a state are those   *)
(* of a well-linked, ranked record, IInv holds of them.                    *)
LEMMA SetLinksIInv ==
  ASSUME ArenaAssumption, DataOK', NEW d, SetLinks(d),
         Linked(d, size'), NEW rank, NEW top, Ranked(d, rank, top)
  PROVE  IInv'
<1>1. Current' = [parent |-> d.parent, first |-> d.first, last |-> d.last,
                  previous |-> d.previous, next |-> d.next]
  BY DEF Current, SetLinks
<1>2. TypeOK'
  BY DEF TypeOK, DataOK, SetLinks, Linked, LinkTypes
<1>3. Linked(Current', size')
  BY <1>1 DEF Linked, LinkTypes, Siblings, Ends, Alone
<1>4. LinkInv'
  BY <1>3 DEF LinkInv, LinksAllocated, SiblingsAgree, EndsAgree, DetachedAlone,
              Linked, LinkTypes, Siblings, Ends, Alone, Current
<1>5. SiblingsFinite'
  <2>1. Ranked(Current', rank, top)
    BY <1>1 DEF Ranked
  <2>2. top \in Nat /\ rank \in [Node -> Nat]
    BY DEF Ranked
  <2> QED BY <2>1, <2>2 DEF SiblingsFinite
<1> QED BY <1>2, <1>4, <1>5 DEF IInv, DataOK

(* A fresh record, whatever its links, keeps the types of the others. *)
LEMMA RecordData ==
  ASSUME ArenaAssumption, IInv, NEW k \in Kinds, NEW s \in Span, Record(k, s)
  PROVE  DataOK' /\ size' = size + 1 /\ size + 1 \in Node
<1>1. size \in 1 .. MaxNodes /\ size < MaxNodes /\ size' = size + 1 /\ MaxNodes \in Nat
  BY DEF IInv, TypeOK, Record, ArenaAssumption
<1>2. size' \in 1 .. MaxNodes /\ size + 1 \in Node /\ Root # size + 1
  BY <1>1 DEF Node, Root
<1>3. kind'[Root] = "document"
  BY <1>2 DEF IInv, TypeOK, Record, Node, Root, ArenaAssumption
<1>4. /\ kind' \in [Node -> Kinds \cup {"document", "none"}]
      /\ span' \in [Node -> Span] /\ content' \in [Node -> Span]
      /\ payload' \in [Node -> SUBSET Fields] /\ built' \in BOOLEAN
  BY DEF IInv, TypeOK, Record
<1> QED BY <1>1, <1>2, <1>3, <1>4 DEF DataOK

(* Every call of the builder. *)
LEMMA StepIInv == ASSUME ArenaAssumption, IInv, [Next]_vars PROVE IInv'
<1> USE DEF IInv
<1>0. size \in Node /\ Root \in Node /\ Linked(Current, size)
  BY LinkedNow DEF ArenaAssumption, TypeOK, Node, Root
<1>a. PICK top \in Nat, rank \in [Node -> Nat] : Ranked(Current, rank, top)
  BY DEF SiblingsFinite
<1>1. ASSUME NEW k \in Kinds, NEW s \in Span, Add(k, s)
      PROVE  IInv'
  <2>1. TypeOK'
    <3>1. DataOK'
      BY <1>1, RecordData DEF Add
    <3> QED BY <1>1, <3>1 DEF DataOK, Add, TypeOK, links
  <2>2. LinkInv'
    BY <1>1 DEF Add, Record, TypeOK, links, LinkInv, LinksAllocated, SiblingsAgree, EndsAgree,
                DetachedAlone, Node, Link
  <2>3. SiblingsFinite'
    <3>1. Ranked(Current', rank, top)
      BY <1>1, <1>a DEF Add, links, Ranked, Current
    <3> QED BY <1>a, <3>1 DEF SiblingsFinite
  <2>4. kind'[Root] = "document"
    BY <1>1, RecordData DEF Add, DataOK
  <2> QED BY <2>1, <2>2, <2>3, <2>4
<1>2. ASSUME NEW p \in Node, NEW child \in Node, AppendChild(p, child)
      PROVE  IInv'
  <2>1. /\ p <= size /\ child <= size /\ p # child
        /\ SetLinks(Appended(Detached(child), p, child))
        /\ UNCHANGED <<size, data, built>>
    BY <1>2 DEF AppendChild, Allocated, Node
  <2>2. Linked(Detached(child), size) /\ Detached(child).parent[child] = NoNode
    BY <1>0, DetachLinked
  <2>3. Ranked(Detached(child), rank, top)
    BY <1>0, <1>a, DetachRanked
  <2>4. Linked(Appended(Detached(child), p, child), size)
    BY <1>0, <2>1, <2>2, AppendLinked
  <2>5. Ranked(Appended(Detached(child), p, child), [rank EXCEPT ![child] = top + 1], top + 1)
    BY <1>0, <2>1, <2>2, <2>3, AppendRanked
  <2>6. DataOK' /\ size' = size
    BY <1>0, <2>1 DEF DataOK, TypeOK, data
  <2> QED BY <2>1, <2>4, <2>5, <2>6, SetLinksIInv
<1>3. ASSUME NEW id \in Node, Detach(id)
      PROVE  IInv'
  <2>1. SetLinks(Detached(id)) /\ UNCHANGED <<size, data, built>>
    BY <1>3 DEF Detach
  <2>2. Linked(Detached(id), size)
    BY <1>0, DetachLinked
  <2>3. Ranked(Detached(id), rank, top)
    BY <1>0, <1>a, DetachRanked
  <2>4. DataOK' /\ size' = size
    BY <1>0, <2>1 DEF DataOK, TypeOK, data
  <2> QED BY <2>1, <2>2, <2>3, <2>4, SetLinksIInv
<1>4. ASSUME NEW n \in Node, NEW s \in Span, SetContentSpan(n, s)
      PROVE  IInv'
  BY <1>4 DEF SetContentSpan, TypeOK, links, LinkInv, LinksAllocated, SiblingsAgree,
              EndsAgree, DetachedAlone, SiblingsFinite, Ranked, Current
<1>5. ASSUME NEW n \in Node, NEW f \in Fields, SetPayload(n, f)
      PROVE  IInv'
  BY <1>5 DEF SetPayload, TypeOK, links, LinkInv, LinksAllocated, SiblingsAgree,
              EndsAgree, DetachedAlone, SiblingsFinite, Ranked, Current
<1>6. ASSUME Build
      PROVE  IInv'
  BY <1>6 DEF Build, TypeOK, data, links, LinkInv, LinksAllocated, SiblingsAgree,
              EndsAgree, DetachedAlone, SiblingsFinite, Ranked, Current
<1>7. ASSUME UNCHANGED vars
      PROVE  IInv'
  BY <1>7 DEF vars, TypeOK, data, links, LinkInv, LinksAllocated, SiblingsAgree,
              EndsAgree, DetachedAlone, SiblingsFinite, Ranked, Current
<1> QED BY <1>1, <1>2, <1>3, <1>4, <1>5, <1>6, <1>7 DEF Next

(* Whatever sequence of Add, AppendChild, Detach, setters and Build a      *)
(* caller makes, the records are well typed, every child list is properly  *)
(* doubly linked and no child list runs into itself.                       *)
THEOREM ArenaLinked == Spec => [](TypeOK /\ LinkInv /\ SiblingsFinite)
<1>1. Init => IInv
  BY InitIInv, ArenaAssumption
<1>2. IInv /\ [Next]_vars => IInv'
  BY StepIInv, ArenaAssumption
<1>3. IInv => TypeOK /\ LinkInv /\ SiblingsFinite
  BY DEF IInv
<1> QED BY <1>1, <1>2, <1>3, PTL DEF Spec

(* Build of a document made through the builder never reports a defect.    *)
THEOREM BuildAlwaysValid == Spec => []BuildNeverFails
<1>1. Init => IInv
  BY InitIInv, ArenaAssumption
<1>2. IInv /\ [Next]_vars => IInv'
  BY StepIInv, ArenaAssumption
<1>3. IInv => BuildNeverFails
  <2> SUFFICES ASSUME IInv PROVE Validates
    BY DEF BuildNeverFails
  <2>1. size >= Root /\ kind[Root] = "document"
    BY ArenaAssumption DEF IInv, TypeOK, Root
  <2>2. ASSUME NEW n \in Allocated
        PROVE  /\ span[n][1] <= span[n][2] /\ span[n][2] <= SourceLen
               /\ parent[n] # NoNode => parent[n] \in Allocated
               /\ next[n] # NoNode => previous[next[n]] = n
    <3>1. n \in Node
      BY ArenaAssumption DEF IInv, TypeOK, Allocated, Node
    <3>2. \A s \in Span : s[1] <= s[2] /\ s[2] <= SourceLen
      BY ArenaAssumption DEF Span
    <3>3. span[n] \in Span
      BY <3>1 DEF IInv, TypeOK
    <3>4. parent[n] # NoNode => parent[n] \in Allocated
      BY <3>1, ArenaAssumption DEF IInv, TypeOK, LinkInv, LinksAllocated, Link, Allocated, Node
    <3>5. next[n] # NoNode => previous[next[n]] = n
      BY <3>1 DEF IInv, LinkInv, SiblingsAgree
    <3> QED BY <3>2, <3>3, <3>4, <3>5
  <2> QED BY <2>1, <2>2 DEF Validates
<1> QED BY <1>1, <1>2, <1>3, PTL DEF Spec

(* The record a parser adds is linked to nothing yet, so hanging it below  *)
(* the parent needs no detaching.                                          *)
LEMMA AddedUnder ==
  ASSUME ArenaAssumption, IInv, NEW p \in Node, NEW k \in Kinds, NEW s \in Span, AddUnder(p, k, s)
  PROVE  /\ IInv'
         /\ size' = size + 1 /\ p \in 1 .. size /\ last[p] \in 0 .. size
         /\ parent' = [parent EXCEPT ![size + 1] = p]
         /\ previous' = [previous EXCEPT ![size + 1] = last[p]]
<1> DEFINE c == size + 1
           d == Appended(Current, p, c)
<1>1. /\ DataOK' /\ size' = c /\ c \in Node /\ p \in 1 .. size
      /\ SetLinks(Appended(Detached(c), p, c))
  BY RecordData DEF AddUnder, Allocated
<1>2. /\ size \in Nat /\ parent \in [Node -> Link] /\ last \in [Node -> Link]
      /\ Linked(Current, size)
  BY LinkedNow DEF IInv, TypeOK, ArenaAssumption
<1>3. \A n \in Node : parent[n] # NoNode => n <= size /\ parent[n] <= size
  BY <1>2 DEF IInv, LinkInv, LinksAllocated
<1>4. parent[c] = NoNode
  BY <1>1, <1>2, <1>3
<1>5. Detached(c) = Current
  BY <1>4 DEF Detached
<1>6. /\ Current.parent = parent /\ Current.last = last /\ Current.previous = previous
  BY DEF Current
<1>7. Linked(Current, c)
  <2>1. LinkTypes(Current, c)
    BY <1>1, <1>2 DEF Linked, LinkTypes, Link, Node
  <2> QED BY <1>2, <2>1 DEF Linked
<1>8. Linked(d, c)
  <2>1. c \in Node /\ p # c /\ p <= c /\ c <= c /\ Current.parent[c] = NoNode
    BY <1>1, <1>2, <1>4, <1>6
  <2> HIDE DEF c
  <2> QED BY <1>7, <2>1, AppendLinked
<1>9. PICK top \in Nat, rank \in [Node -> Nat] : Ranked(Current, rank, top)
  BY DEF IInv, SiblingsFinite
<1>10. Ranked(d, [rank EXCEPT ![c] = top + 1], top + 1)
  <2>1. c \in Node /\ p # c /\ Current.parent[c] = NoNode
    BY <1>1, <1>2, <1>4, <1>6
  <2> HIDE DEF c
  <2> QED BY <1>7, <1>9, <2>1, AppendRanked
<1>11. SetLinks(d)
  BY <1>1, <1>5
<1>12. IInv'
  <2> HIDE DEF c, d
  <2> QED BY <1>1, <1>8, <1>10, <1>11, SetLinksIInv
<1>13. /\ parent' = [parent EXCEPT ![c] = p]
       /\ previous' = [previous EXCEPT ![c] = last[p]]
  BY <1>6, <1>11 DEF SetLinks, Appended
<1>14. last[p] \in 0 .. size
  <2>1. last[p] # NoNode => last[p] \in Node /\ parent[last[p]] = p /\ p # NoNode
    BY <1>2 DEF IInv, LinkInv, EndsAgree, Link, Node, NoNode
  <2> QED BY <1>2, <1>3, <2>1 DEF Link, Node, NoNode
<1> QED BY <1>1, <1>12, <1>13, <1>14

(* In a parse every node added hangs below an older one and behind older   *)
(* siblings, so the document is one tree in which nothing is left out.     *)
THEOREM ParserBuildsTrees == BuilderRuns => [](ParsedIsRooted /\ LinkInv)
<1> DEFINE PInv == IInv /\ RootedTree
           CInv == IInv /\ ParsedIsRooted
<1>1. Init => PInv
  <2> SUFFICES ASSUME Init PROVE RootedTree
    BY InitIInv, ArenaAssumption
  <2>1. Allocated \ {Root} = {}
    BY DEF Init, Allocated, Root
  <2> QED BY <2>1, ArenaAssumption DEF Init, RootedTree, Node, Root, NoNode
<1>2. PInv /\ [ParserNext]_vars => PInv'
  <2> SUFFICES ASSUME PInv, [ParserNext]_vars
               PROVE  PInv'
    OBVIOUS
  <2>0. /\ ArenaAssumption /\ size \in Nat /\ MaxNodes \in Nat
        /\ parent \in [Node -> Link] /\ previous \in [Node -> Link]
    BY ArenaAssumption DEF ArenaAssumption, IInv, TypeOK
  <2>1. ASSUME NEW p \in Node, NEW k \in Kinds, NEW s \in Span, AddUnder(p, k, s)
        PROVE  PInv'
    <3>1. /\ IInv' /\ size' = size + 1 /\ p \in 1 .. size /\ last[p] \in 0 .. size
          /\ parent' = [parent EXCEPT ![size + 1] = p]
          /\ previous' = [previous EXCEPT ![size + 1] = last[p]]
      BY <2>0, <2>1, AddedUnder
    <3>2. \A n \in Node : n # size + 1 => parent'[n] = parent[n] /\ previous'[n] = previous[n]
      BY <2>0, <3>1
    <3>3. size + 1 \in Node => parent'[size + 1] = p /\ previous'[size + 1] = last[p]
      BY <2>0, <3>1
    <3>4. size' \in 1 .. MaxNodes
      BY <3>1 DEF IInv, TypeOK
    <3>5. parent'[Root] = NoNode
      BY <2>0, <3>1, <3>2, <3>4 DEF RootedTree, Root, Node
    <3>6. \A n \in Allocated' \ {Root} : parent'[n] \in 1 .. n - 1
      BY <2>0, <3>1, <3>2, <3>3, <3>4 DEF RootedTree, Allocated, Node
    <3>7. \A n \in Node : previous'[n] < n
      BY <2>0, <3>1, <3>2, <3>3, <3>4 DEF RootedTree, Node
    <3> QED BY <3>1, <3>5, <3>6, <3>7 DEF RootedTree
  <2>2. CASE UNCHANGED <<size, links>> /\ [Next]_vars
    <3>1. IInv'
      BY <2>0, <2>2, StepIInv
    <3> QED BY <2>2, <3>1 DEF RootedTree, Allocated, links
  <2>3. ASSUME NEW n \in Node, NEW s \in Span, SetContentSpan(n, s)
        PROVE  PInv'
    BY <2>2, <2>3 DEF SetContentSpan, Next
  <2>4. ASSUME NEW n \in Node, NEW f \in Fields, SetPayload(n, f)
        PROVE  PInv'
    BY <2>2, <2>4 DEF SetPayload, Next
  <2>5. ASSUME Build
        PROVE  PInv'
    BY <2>2, <2>5 DEF Build, Next
  <2>6. ASSUME UNCHANGED vars
        PROVE  PInv'
    BY <2>2, <2>6 DEF vars
  <2> QED BY <2>1, <2>3, <2>4, <2>5, <2>6 DEF ParserNext
<1>3. BuilderInit => CInv
  BY <1>1 DEF BuilderInit, ParsedIsRooted
<1>4. CInv /\ [BuilderNext]_<<vars, caller>> => CInv'
  <2> SUFFICES ASSUME CInv, [BuilderNext]_<<vars, caller>>
               PROVE  CInv'
    OBVIOUS
  <2> HIDE DEF PInv
  <2>1. CASE caller = "parser" /\ [ParserNext]_vars /\ caller' = caller
    <3>1. PInv
      BY <2>1 DEF PInv, ParsedIsRooted
    <3>2. PInv'
      BY <1>2, <2>1, <3>1
    <3> QED BY <3>2 DEF PInv, ParsedIsRooted
  <2>2. CASE caller # "parser" /\ [Next]_vars /\ caller' = caller
    <3>1. IInv'
      BY <2>2, StepIInv, ArenaAssumption
    <3> QED BY <2>2, <3>1 DEF ParsedIsRooted
  <2> QED BY <2>1, <2>2 DEF BuilderNext, ParserCalls, ExtensionCalls
<1>5. CInv => ParsedIsRooted /\ LinkInv
  BY DEF IInv
<1> QED BY <1>3, <1>4, <1>5, PTL DEF BuilderRuns

-----------------------------------------------------------------------------
(* The lists the links hold, and that the builder keeps them as Tree does. *)

(* s is the child list of p in links d. *)
IsList(d, p, s) ==
  /\ s \in Seq(Node)
  /\ d.first[p] = IF Len(s) = 0 THEN NoNode ELSE s[1]
  /\ \A i \in 1 .. Len(s) : d.next[s[i]] = IF i = Len(s) THEN NoNode ELSE s[i + 1]

(* The nodes met from n on, and behind the last of them NoNode. *)
Steps(at, f, n) ==
  at = [k \in 1 .. MaxNodes + 1 |-> IF k = 1 THEN n ELSE IF at[k - 1] = NoNode THEN NoNode ELSE f[at[k - 1]]]

(* Such a sequence of nodes exists, of any length. *)
LEMMA StepsExist ==
  ASSUME ArenaAssumption, NEW f, NEW n
  PROVE  \E at : Steps(at, f, n)
<1> DEFINE Upto(at, m) ==
             at = [k \in 1 .. m |-> IF k = 1 THEN n ELSE IF at[k - 1] = NoNode THEN NoNode ELSE f[at[k - 1]]]
           Reached == {m \in Nat : \E at : Upto(at, m)}
<1>1. 0 \in Reached
  <2> DEFINE at == [k \in 1 .. 0 |-> n]
  <2>1. at = [k \in 1 .. 0 |-> IF k = 1 THEN n ELSE IF at[k - 1] = NoNode THEN NoNode ELSE f[at[k - 1]]]
    OBVIOUS
  <2> QED
    BY <2>1
<1>2. ASSUME NEW m \in Nat, m \in Reached PROVE m + 1 \in Reached
  <2>1. PICK at : Upto(at, m)
    BY <1>2
  <2> DEFINE new == IF m = 0 THEN n ELSE IF at[m] = NoNode THEN NoNode ELSE f[at[m]]
             bt == [k \in 1 .. m + 1 |-> IF k = m + 1 THEN new ELSE at[k]]
  <2>2. ASSUME NEW k \in 1 .. m + 1
        PROVE  bt[k] = IF k = 1 THEN n ELSE IF bt[k - 1] = NoNode THEN NoNode ELSE f[bt[k - 1]]
    <3>1. CASE k = m + 1
      <4>1. k # 1 => k - 1 = m /\ k - 1 \in 1 .. m + 1 /\ k - 1 # m + 1
        BY <3>1
      <4>2. k # 1 => bt[k - 1] = at[m]
        BY <4>1
      <4> QED
        BY <3>1, <4>1, <4>2
    <3>2. CASE k # m + 1
      <4>1. k \in 1 .. m /\ bt[k] = at[k] /\ (k # 1 => k - 1 \in 1 .. m + 1 /\ k - 1 # m + 1)
        BY <3>2
      <4>2. k # 1 => bt[k - 1] = at[k - 1]
        BY <4>1
      <4>3. at[k] = IF k = 1 THEN n ELSE IF at[k - 1] = NoNode THEN NoNode ELSE f[at[k - 1]]
        BY <2>1, <4>1
      <4> QED
        BY <4>1, <4>2, <4>3
    <3> QED
      BY <3>1, <3>2
  <2>3. bt = [k \in 1 .. m + 1 |-> bt[k]]
    OBVIOUS
  <2> HIDE DEF bt
  <2>4. Upto(bt, m + 1)
    BY <2>2, <2>3
  <2> QED
    BY <2>4
<1>3. MaxNodes + 1 \in Reached
  <2>1. MaxNodes + 1 \in Nat
    BY DEF ArenaAssumption
  <2> HIDE DEF Reached
  <2> QED
    BY <1>1, <1>2, <2>1, SetInduction
<1> QED
  BY <1>3 DEF Steps

(* A set that holds every number below each of its own is as large as its  *)
(* largest number.                                                         *)
LEMMA ReachIsCount ==
  ASSUME NEW top \in Nat, NEW S \in SUBSET (1 .. top), \A k \in S : \A j \in 1 .. k : j \in S
  PROVE  Cardinality(S) \in 0 .. top /\ S = 1 .. Cardinality(S)
<1>1. CASE S = {}
  BY <1>1, FS_EmptySet
<1>2. CASE S # {}
  <2>1. S \in SUBSET Nat /\ \A s \in S : s <= top
    OBVIOUS
  <2>2. PICK m \in S : \A s \in S : s <= m
    BY <1>2, <2>1, LargestExists
  <2>a. m \in 1 .. top /\ \A j \in 1 .. m : j \in S
    OBVIOUS
  <2>b. \A j \in S : j \in 1 .. m
    <3> TAKE j \in S
    <3>1. j \in 1 .. top /\ j <= m
      BY <2>2
    <3> QED
      BY <2>a, <3>1
  <2>3. S = 1 .. m
    BY <2>a, <2>b
  <2>4. Cardinality(1 .. m) = m
    BY <2>2, FS_Interval
  <2> QED
    BY <2>2, <2>3, <2>4
<1> QED
  BY <1>1, <1>2

(* A list that no node is met twice in ends within the arena. *)
LEMMA FollowEnds ==
  ASSUME ArenaAssumption, NEW f \in [Node -> Link], NEW n \in Link, NEW rank \in [Node -> Nat],
         \A m \in Node : f[m] # NoNode => rank[m] < rank[f[m]]
  PROVE  /\ Follow(f, n) \in Seq(Node)
         /\ n = IF Len(Follow(f, n)) = 0 THEN NoNode ELSE Follow(f, n)[1]
         /\ \A i \in 1 .. Len(Follow(f, n)) :
              f[Follow(f, n)[i]] = IF i = Len(Follow(f, n)) THEN NoNode ELSE Follow(f, n)[i + 1]
<1> DEFINE at[k \in 1 .. MaxNodes + 1] ==
             IF k = 1 THEN n ELSE IF at[k - 1] = NoNode THEN NoNode ELSE f[at[k - 1]]
           Met == {m \in 1 .. MaxNodes + 1 : at[m] # NoNode}
           c == Cardinality(Met)
           s == [k \in 1 .. c |-> at[k]]
<1>1. at = CHOOSE a : Steps(a, f, n)
  BY DEF Steps
<1>2. Follow(f, n) = s
  BY DEF Follow
<1> HIDE DEF at
<1>3. Steps(at, f, n)
  BY <1>1, StepsExist
<1>4. MaxNodes \in Nat /\ MaxNodes + 1 \in Nat /\ Node = 1 .. MaxNodes /\ Link = 0 .. MaxNodes /\ NoNode = 0
  BY DEF ArenaAssumption, Node, Link, NoNode
<1>5. /\ at[1] = n
      /\ \A k \in 1 .. MaxNodes : at[k + 1] = IF at[k] = NoNode THEN NoNode ELSE f[at[k]]
  <2>1. \A k \in 1 .. MaxNodes + 1 : at[k] = IF k = 1 THEN n ELSE IF at[k - 1] = NoNode THEN NoNode ELSE f[at[k - 1]]
    BY <1>3 DEF Steps
  <2>2. 1 \in 1 .. MaxNodes + 1 /\ \A k \in 1 .. MaxNodes : k + 1 \in 1 .. MaxNodes + 1 /\ k + 1 # 1 /\ (k + 1) - 1 = k
    BY <1>4
  <2> QED
    BY <2>1, <2>2
<1>6. \A k \in 1 .. MaxNodes + 1 : at[k] \in Link
  <2> DEFINE Good == {k \in Nat : k + 1 \in 1 .. MaxNodes + 1 => at[k + 1] \in Link}
  <2>1. 0 \in Good
    BY <1>5
  <2>2. ASSUME NEW k \in Nat, k \in Good PROVE k + 1 \in Good
    <3> SUFFICES ASSUME (k + 1) + 1 \in 1 .. MaxNodes + 1 PROVE at[(k + 1) + 1] \in Link
      OBVIOUS
    <3>1. k + 1 \in 1 .. MaxNodes /\ at[k + 1] \in Link
      BY <1>4, <2>2
    <3>2. at[k + 1] # NoNode => at[k + 1] \in Node
      BY <3>1 DEF Link
    <3> QED
      BY <1>4, <1>5, <3>1, <3>2
  <2>3. Nat \subseteq Good
    <3> HIDE DEF Good
    <3> QED
      BY <2>1, <2>2, SetInduction
  <2> QED
    <3> TAKE k \in 1 .. MaxNodes + 1
    <3>1. k - 1 \in Nat /\ (k - 1) + 1 = k
      BY <1>4
    <3> QED
      BY <2>3, <3>1
<1>7. ASSUME NEW k \in Met, NEW j \in 1 .. k PROVE j \in Met
  <2> DEFINE Back == {d \in Nat : d < k => k - d \in Met}
  <2>1. 0 \in Back
    BY <1>4
  <2>2. ASSUME NEW d \in Nat, d \in Back PROVE d + 1 \in Back
    <3> SUFFICES ASSUME d + 1 < k PROVE k - (d + 1) \in Met
      OBVIOUS
    <3>1. k - d \in Met /\ k - (d + 1) \in 1 .. MaxNodes /\ (k - (d + 1)) + 1 = k - d
      BY <1>4, <2>2
    <3>2. at[k - (d + 1)] # NoNode
      BY <1>5, <3>1
    <3> QED
      BY <1>4, <3>1, <3>2
  <2>3. Nat \subseteq Back
    <3> HIDE DEF Back
    <3> QED
      BY <2>1, <2>2, SetInduction
  <2>4. k - j \in Nat /\ k - j < k /\ k - (k - j) = j
    BY <1>4
  <2> QED
    BY <2>3, <2>4
<1>8. c \in 0 .. MaxNodes + 1 /\ Met = 1 .. c
  <2>1. Met \in SUBSET (1 .. MaxNodes + 1)
    OBVIOUS
  <2> HIDE DEF Met
  <2> QED
    BY <1>4, <1>7, <2>1, ReachIsCount
<1>a. \A k \in 1 .. MaxNodes + 1 : k \in Met <=> at[k] # NoNode
  OBVIOUS
<1> HIDE DEF Met, c
<1>b. \A k \in 1 .. c : k \in 1 .. MaxNodes + 1 /\ k \in Nat /\ at[k] # NoNode
  BY <1>4, <1>8, <1>a
<1>9. \A k \in 1 .. c : at[k] \in Node
  BY <1>6, <1>b DEF Link
<1>10. \A k \in 1 .. c : k # c => at[k + 1] = f[at[k]] /\ k + 1 \in 1 .. c /\ k \in 1 .. MaxNodes
  <2> TAKE k \in 1 .. c
  <2> SUFFICES ASSUME k # c PROVE at[k + 1] = f[at[k]] /\ k + 1 \in 1 .. c /\ k \in 1 .. MaxNodes
    OBVIOUS
  <2>1. k + 1 \in 1 .. c /\ k \in 1 .. MaxNodes
    BY <1>4, <1>8
  <2> QED
    BY <1>5, <1>b, <2>1
<1>11. ASSUME NEW i \in 1 .. c, NEW j \in 1 .. c, i < j PROVE rank[at[i]] < rank[at[j]]
  <2> DEFINE Far == {d \in Nat : i + d + 1 <= c => rank[at[i]] < rank[at[i + d + 1]]}
  <2>1. ASSUME NEW k \in 1 .. c, k # c PROVE rank[at[k]] < rank[at[k + 1]] /\ rank[at[k]] \in Nat /\ rank[at[k + 1]] \in Nat
    <3>1. at[k] \in Node /\ at[k + 1] \in Node /\ at[k + 1] = f[at[k]] /\ f[at[k]] # NoNode
      BY <1>4, <1>9, <1>10, <1>b, <2>1
    <3> QED
      BY <3>1
  <2>2. 0 \in Far
    BY <1>8, <2>1
  <2>3. ASSUME NEW d \in Nat, d \in Far PROVE d + 1 \in Far
    <3> SUFFICES ASSUME i + (d + 1) + 1 <= c PROVE rank[at[i]] < rank[at[i + (d + 1) + 1]]
      OBVIOUS
    <3> DEFINE m == i + d + 1
    <3>1. m \in 1 .. c /\ m # c /\ i + (d + 1) + 1 = m + 1 /\ rank[at[i]] < rank[at[m]]
      BY <1>8, <2>3
    <3>2. rank[at[m]] < rank[at[m + 1]] /\ rank[at[m]] \in Nat /\ rank[at[m + 1]] \in Nat
      BY <2>1, <3>1
    <3>3. rank[at[i]] \in Nat
      BY <1>9
    <3> HIDE DEF m
    <3> QED
      BY <3>1, <3>2, <3>3
  <2>4. Nat \subseteq Far
    <3> HIDE DEF Far
    <3> QED
      BY <2>2, <2>3, SetInduction
  <2> DEFINE e == j - i - 1
  <2>5. e \in Nat /\ i + e + 1 = j /\ j <= c
    BY <1>8, <1>11
  <2>6. e \in Far
    <3> HIDE DEF Far, e
    <3> QED
      BY <2>4, <2>5
  <2> HIDE DEF e
  <2> QED
    BY <2>5, <2>6
<1>12. c <= MaxNodes
  <2> SUFFICES ASSUME ~(c <= MaxNodes) PROVE FALSE
    OBVIOUS
  <2>0. c = MaxNodes + 1
    BY <1>4, <1>8
  <2> DEFINE S == 1 .. c
             g == [k \in S |-> at[k]]
  <2>1. IsFiniteSet(S) /\ Cardinality(S) = MaxNodes + 1 /\ IsFiniteSet(Node) /\ Cardinality(Node) = MaxNodes
    BY <1>4, <2>0, FS_Interval
  <2>2. g \in [S -> Node]
    BY <1>9
  <2>3. \A i, j \in S : i # j => g[i] # g[j]
    <3> SUFFICES ASSUME NEW i \in S, NEW j \in S, i # j, at[i] = at[j] PROVE FALSE
      OBVIOUS
    <3>1. i < j \/ j < i
      BY <1>8
    <3>2. rank[at[i]] < rank[at[j]] \/ rank[at[j]] < rank[at[i]]
      BY <1>11, <3>1
    <3>3. rank[at[i]] \in Nat
      BY <1>9
    <3> QED
      BY <3>2, <3>3
  <2> HIDE DEF S, g
  <2>4. Cardinality(Node) < Cardinality(S)
    BY <1>4, <2>1
  <2> QED
    BY <2>1, <2>2, <2>3, <2>4, FS_PigeonHole
<1>13. c > 0 => f[at[c]] = NoNode
  <2> SUFFICES ASSUME c > 0 PROVE f[at[c]] = NoNode
    OBVIOUS
  <2>1. c \in 1 .. MaxNodes /\ c + 1 \in 1 .. MaxNodes + 1 /\ c \in Met /\ ~(c + 1 \in Met)
    BY <1>4, <1>8, <1>12
  <2>2. at[c + 1] = f[at[c]] /\ at[c + 1] = NoNode
    BY <1>5, <1>a, <2>1
  <2> QED
    BY <2>2
<1>14. c = 0 <=> n = NoNode
  <2>1. 1 \in Met <=> n # NoNode
    BY <1>4, <1>5, <1>a
  <2>2. 1 \in Met <=> c # 0
    BY <1>8
  <2> QED
    BY <2>1, <2>2
<1>15. s \in Seq(Node) /\ Len(s) = c /\ \A k \in 1 .. c : s[k] = at[k]
  <2>1. c \in Nat
    BY <1>8
  <2> QED
    BY <1>9, <2>1
<1> HIDE DEF s
<1>16. n = IF Len(s) = 0 THEN NoNode ELSE s[1]
  BY <1>5, <1>8, <1>14, <1>15
<1>17. \A i \in 1 .. Len(s) : f[s[i]] = IF i = Len(s) THEN NoNode ELSE s[i + 1]
  BY <1>10, <1>13, <1>15
<1> QED
  BY <1>2, <1>15, <1>16, <1>17

(* A sequence without the one place at which an element stands.            *)
LEMMA RemoveFirstIs ==
  ASSUME NEW S, NEW s \in Seq(S), NEW k \in 1 .. Len(s), \A i \in 1 .. Len(s) : i # k => s[i] # s[k]
  PROVE  /\ RemoveFirst(s, s[k]) \in Seq(S)
         /\ Len(RemoveFirst(s, s[k])) = Len(s) - 1
         /\ \A i \in 1 .. Len(s) - 1 : RemoveFirst(s, s[k])[i] = IF i < k THEN s[i] ELSE s[i + 1]
<1> DEFINE n == Len(s)
           front == SubSeq(s, 1, k - 1)
           back == SubSeq(s, k + 1, n)
           I == {i \in 1 .. n : s[i] = s[k]}
<1>1. RemoveFirst(s, s[k]) = RemoveAt(s, SelectInSeq(s, LAMBDA v : v = s[k]))
  BY DEF RemoveFirst
<1>2. I = {k}
  OBVIOUS
<1>3. SelectInSeq(s, LAMBDA v : v = s[k]) = k
  <2>1. Min({k}) = k
    BY DEF Min
  <2>2. SelectInSeq(s, LAMBDA v : v = s[k]) = IF I # {} THEN Min(I) ELSE 0
    BY DEF SelectInSeq
  <2> QED
    BY <1>2, <2>1, <2>2
<1>4. RemoveFirst(s, s[k]) = front \o back
  BY <1>1, <1>3 DEF RemoveAt
<1>5. n \in Nat /\ k \in 1 .. n /\ \A i \in 1 .. n : s[i] \in S
  OBVIOUS
<1>6. front \in Seq(S) /\ Len(front) = k - 1 /\ \A i \in 1 .. k - 1 : front[i] = s[i]
  <2>1. 1 \in Int /\ k - 1 \in Int /\ (\A i \in 1 .. k - 1 : s[i] \in S)
    BY <1>5
  <2>2. /\ front \in Seq(S)
        /\ Len(front) = IF 1 <= k - 1 THEN k - 1 - 1 + 1 ELSE 0
        /\ \A i \in 1 .. k - 1 - 1 + 1 : front[i] = s[1 + i - 1]
    BY <2>1, SubSeqProperties
  <2> HIDE DEF front
  <2> QED
    BY <1>5, <2>2
<1>7. back \in Seq(S) /\ Len(back) = n - k /\ \A i \in 1 .. n - k : back[i] = s[k + i]
  <2>1. k + 1 \in Int /\ n \in Int /\ (\A i \in k + 1 .. n : s[i] \in S)
    BY <1>5
  <2>2. /\ back \in Seq(S)
        /\ Len(back) = IF k + 1 <= n THEN n - (k + 1) + 1 ELSE 0
        /\ \A i \in 1 .. n - (k + 1) + 1 : back[i] = s[k + 1 + i - 1]
    BY <2>1, SubSeqProperties
  <2> HIDE DEF back, n
  <2> QED
    BY <1>5, <2>2
<1>8. /\ front \o back \in Seq(S)
      /\ Len(front \o back) = Len(front) + Len(back)
      /\ \A i \in 1 .. Len(front) + Len(back) :
           (front \o back)[i] = IF i <= Len(front) THEN front[i] ELSE back[i - Len(front)]
  BY <1>6, <1>7, ConcatProperties
<1> HIDE DEF front, back, n
<1>9. Len(front) + Len(back) = n - 1
  BY <1>5, <1>6, <1>7
<1>10. ASSUME NEW i \in 1 .. n - 1
       PROVE  (front \o back)[i] = IF i < k THEN s[i] ELSE s[i + 1]
  <2>1. CASE i < k
    BY <1>5, <1>6, <1>8, <1>9, <2>1
  <2>2. CASE ~(i < k)
    <3>1. ~(i <= k - 1) /\ i - (k - 1) \in 1 .. n - k /\ k + (i - (k - 1)) = i + 1
      BY <1>5, <2>2
    <3>2. (front \o back)[i] = back[i - (k - 1)]
      BY <1>6, <1>8, <1>9, <3>1
    <3> QED
      BY <1>7, <2>2, <3>1, <3>2
  <2> QED
    BY <2>1, <2>2
<1> QED
  BY <1>4, <1>8, <1>9, <1>10 DEF n

(* The children in a list are its parent's, and each names the one before. *)
LEMMA ListMembers ==
  ASSUME ArenaAssumption, NEW d, NEW bound, Linked(d, bound), NEW p \in Node, NEW s, IsList(d, p, s)
  PROVE  /\ Len(s) \in Nat
         /\ \A i \in 1 .. Len(s) : s[i] \in Node /\ s[i] # NoNode /\ d.parent[s[i]] = p
         /\ \A i \in 1 .. Len(s) : d.previous[s[i]] = IF i = 1 THEN NoNode ELSE s[i - 1]
<1>1. Len(s) \in Nat /\ (\A i \in 1 .. Len(s) : s[i] \in Node /\ s[i] # NoNode)
  BY DEF IsList, Node, NoNode
<1> DEFINE n == Len(s)
           Told == {k \in Nat : k + 1 <= n => /\ d.parent[s[k + 1]] = p
                                              /\ d.previous[s[k + 1]] = IF k = 0 THEN NoNode ELSE s[k]}
<1> HIDE DEF n
<1>2. 0 \in Told
  <2> SUFFICES ASSUME 1 <= n PROVE d.parent[s[1]] = p /\ d.previous[s[1]] = NoNode
    OBVIOUS
  <2>1. d.first[p] = s[1] /\ s[1] # NoNode
    BY <1>1 DEF IsList, n
  <2> QED
    BY <2>1 DEF Linked, Ends
<1>3. ASSUME NEW k \in Nat, k \in Told PROVE k + 1 \in Told
  <2> SUFFICES ASSUME (k + 1) + 1 <= n
               PROVE  d.parent[s[(k + 1) + 1]] = p /\ d.previous[s[(k + 1) + 1]] = s[k + 1]
    OBVIOUS
  <2>1. k + 1 \in 1 .. n /\ k + 1 # n /\ (k + 1) + 1 \in 1 .. n /\ k + 1 <= n
    BY <1>1 DEF n
  <2>2. d.parent[s[k + 1]] = p
    BY <1>3, <2>1
  <2>3. d.next[s[k + 1]] = s[(k + 1) + 1]
    BY <2>1 DEF IsList, n
  <2>4. s[k + 1] \in Node /\ s[(k + 1) + 1] # NoNode
    BY <1>1, <2>1 DEF n
  <2> HIDE DEF Told
  <2> QED
    BY <2>2, <2>3, <2>4 DEF Linked, Siblings
<1>4. Nat \subseteq Told
  <2> HIDE DEF Told
  <2> QED
    BY <1>2, <1>3, SetInduction
<1>5. ASSUME NEW i \in 1 .. n
      PROVE  d.parent[s[i]] = p /\ d.previous[s[i]] = IF i = 1 THEN NoNode ELSE s[i - 1]
  <2>1. i - 1 \in Nat /\ (i - 1) + 1 = i /\ i <= n /\ (i - 1 = 0 <=> i = 1)
    BY <1>1 DEF n
  <2>2. i - 1 \in Told
    BY <1>4, <2>1
  <2> QED
    BY <2>1, <2>2
<1> QED
  BY <1>1, <1>5 DEF n

(* No child is twice in a list. *)
LEMMA ListDistinct ==
  ASSUME ArenaAssumption, NEW d, NEW bound, Linked(d, bound), NEW p \in Node, NEW s, IsList(d, p, s)
  PROVE  \A i, j \in 1 .. Len(s) : i # j => s[i] # s[j]
<1> DEFINE n == Len(s)
           Once == {k \in Nat : \A j \in 1 .. n : k + 1 < j => s[k + 1] # s[j]}
<1>1. /\ n \in Nat
      /\ \A i \in 1 .. n : s[i] \in Node /\ s[i] # NoNode
      /\ \A i \in 1 .. n : d.previous[s[i]] = IF i = 1 THEN NoNode ELSE s[i - 1]
  BY ListMembers
<1> HIDE DEF n
<1>2. 0 \in Once
  <2> SUFFICES ASSUME NEW j \in 1 .. n, 1 < j, s[1] = s[j] PROVE FALSE
    OBVIOUS
  <2>1. d.previous[s[1]] = NoNode /\ d.previous[s[j]] = s[j - 1] /\ j - 1 \in 1 .. n
    BY <1>1
  <2> QED
    BY <1>1, <2>1
<1>3. ASSUME NEW k \in Nat, k \in Once PROVE k + 1 \in Once
  <2> SUFFICES ASSUME NEW j \in 1 .. n, (k + 1) + 1 < j, s[(k + 1) + 1] = s[j] PROVE FALSE
    OBVIOUS
  <2>1. /\ (k + 1) + 1 \in 1 .. n /\ (k + 1) + 1 # 1 /\ ((k + 1) + 1) - 1 = k + 1
        /\ j # 1 /\ j - 1 \in 1 .. n /\ k + 1 < j - 1
    BY <1>1
  <2>2. d.previous[s[(k + 1) + 1]] = s[k + 1] /\ d.previous[s[j]] = s[j - 1]
    BY <1>1, <2>1
  <2> QED
    BY <1>3, <2>1, <2>2
<1>4. Nat \subseteq Once
  <2> HIDE DEF Once
  <2> QED
    BY <1>2, <1>3, SetInduction
<1>5. ASSUME NEW i \in 1 .. n, NEW j \in 1 .. n, i < j PROVE s[i] # s[j]
  <2>1. i - 1 \in Nat /\ (i - 1) + 1 = i
    BY <1>1
  <2>2. i - 1 \in Once
    BY <1>4, <2>1
  <2> QED
    BY <1>5, <2>1, <2>2
<1> SUFFICES ASSUME NEW i \in 1 .. n, NEW j \in 1 .. n, i # j PROVE s[i] # s[j]
  BY DEF n
<1>6. i < j \/ j < i
  BY <1>1
<1> QED
  BY <1>5, <1>6

(* Whoever names a parent is in its list. *)
LEMMA ListComplete ==
  ASSUME ArenaAssumption, NEW d, NEW bound, Linked(d, bound), NEW rank, NEW top, Ranked(d, rank, top),
         NEW p \in Node, NEW s, IsList(d, p, s), NEW child \in Node, d.parent[child] = p
  PROVE  \E k \in 1 .. Len(s) : s[k] = child
<1> DEFINE In(m) == \E k \in 1 .. Len(s) : s[k] = m
           Held == {r \in Nat : \A m \in Node : rank[m] = r /\ d.parent[m] = p => In(m)}
<1>1. /\ top \in Nat /\ rank \in [Node -> 0 .. top]
      /\ \A m \in Node : d.next[m] # NoNode => rank[m] < rank[d.next[m]]
  BY DEF Ranked
<1>2. d.previous \in [Node -> Link] /\ p # NoNode
  BY DEF Linked, LinkTypes, Node, NoNode
<1>3. ASSUME NEW m \in Node, d.parent[m] = p, d.previous[m] = NoNode PROVE In(m)
  <2>1. d.first[p] = m /\ m # NoNode
    BY <1>2, <1>3 DEF Linked, Ends, Node, NoNode
  <2>2. Len(s) # 0 /\ s[1] = m /\ Len(s) \in Nat
    BY <2>1 DEF IsList
  <2>3. 1 \in 1 .. Len(s)
    BY <2>2
  <2> QED
    BY <2>2, <2>3
<1>4. ASSUME NEW m \in Node, d.parent[m] = p, d.previous[m] # NoNode, In(d.previous[m]) PROVE In(m)
  <2>1. PICK k \in 1 .. Len(s) : s[k] = d.previous[m]
    BY <1>4
  <2>2. d.next[s[k]] = m /\ m # NoNode
    BY <1>4, <2>1 DEF Linked, Siblings, Node, NoNode
  <2>3. k # Len(s) /\ s[k + 1] = m /\ Len(s) \in Nat
    BY <2>2 DEF IsList
  <2>4. k + 1 \in 1 .. Len(s)
    BY <2>3
  <2> QED
    BY <2>3, <2>4
<1>5. ASSUME NEW m \in Node, d.parent[m] = p, d.previous[m] # NoNode
      PROVE  d.previous[m] \in Node /\ d.parent[d.previous[m]] = p /\ rank[d.previous[m]] < rank[m]
  <2>1. d.previous[m] \in Node
    BY <1>2, <1>5 DEF Link
  <2>2. d.next[d.previous[m]] = m /\ d.parent[d.previous[m]] = p /\ m # NoNode
    BY <1>5 DEF Linked, Siblings, Node, NoNode
  <2> QED
    BY <1>1, <2>1, <2>2
<1> HIDE DEF In
<1>6. ASSUME NEW r \in Nat, \A q \in 0 .. r - 1 : q \in Held PROVE r \in Held
  <2> SUFFICES ASSUME NEW m \in Node, rank[m] = r, d.parent[m] = p PROVE In(m)
    OBVIOUS
  <2>1. CASE d.previous[m] = NoNode
    BY <1>3, <2>1
  <2>2. CASE d.previous[m] # NoNode
    <3>1. d.previous[m] \in Node /\ d.parent[d.previous[m]] = p /\ rank[d.previous[m]] < r
      BY <1>5, <2>2
    <3>2. rank[d.previous[m]] \in Nat
      BY <1>1, <3>1
    <3>3. rank[d.previous[m]] \in 0 .. r - 1
      BY <3>1, <3>2
    <3>4. In(d.previous[m])
      BY <1>6, <3>1, <3>3
    <3> QED
      BY <1>4, <2>2, <3>4
  <2> QED
    BY <2>1, <2>2
<1>7. Nat \subseteq Held
  <2> HIDE DEF Held
  <2> QED
    BY ONLY <1>6, StrongInduction
<1>8. rank[child] \in Nat
  BY <1>1
<1>9. In(child)
  BY <1>7, <1>8
<1> QED
  BY <1>9 DEF In

(* There is one list of a parent's children. *)
LEMMA ListReaches ==
  ASSUME ArenaAssumption, NEW d, NEW p \in Node, NEW s, NEW t, IsList(d, p, s), IsList(d, p, t)
  PROVE  \A i \in 1 .. Len(s) : i <= Len(t) /\ s[i] = t[i]
<1> DEFINE Same == {k \in Nat : k + 1 <= Len(s) => k + 1 <= Len(t) /\ s[k + 1] = t[k + 1]}
<1>1. /\ Len(s) \in Nat /\ Len(t) \in Nat
      /\ \A i \in 1 .. Len(s) : s[i] \in Node /\ s[i] # NoNode
      /\ \A i \in 1 .. Len(t) : t[i] \in Node /\ t[i] # NoNode
  BY DEF IsList, Node, NoNode
<1>2. 0 \in Same
  <2> SUFFICES ASSUME 1 <= Len(s) PROVE 1 <= Len(t) /\ s[1] = t[1]
    OBVIOUS
  <2>1. 1 \in 1 .. Len(s)
    BY <1>1
  <2>2. d.first[p] = s[1] /\ d.first[p] # NoNode
    BY <1>1, <2>1 DEF IsList
  <2>3. Len(t) # 0 /\ d.first[p] = t[1]
    BY <2>2 DEF IsList
  <2> QED
    BY <1>1, <2>2, <2>3
<1>3. ASSUME NEW k \in Nat, k \in Same PROVE k + 1 \in Same
  <2> SUFFICES ASSUME (k + 1) + 1 <= Len(s)
               PROVE  (k + 1) + 1 <= Len(t) /\ s[(k + 1) + 1] = t[(k + 1) + 1]
    OBVIOUS
  <2>1. k + 1 \in 1 .. Len(s) /\ k + 1 # Len(s) /\ (k + 1) + 1 \in 1 .. Len(s)
    BY <1>1
  <2>2. k + 1 \in 1 .. Len(t) /\ s[k + 1] = t[k + 1]
    BY <1>1, <1>3, <2>1
  <2>3. d.next[s[k + 1]] = s[(k + 1) + 1] /\ s[(k + 1) + 1] # NoNode
    BY <1>1, <2>1 DEF IsList
  <2>4. k + 1 # Len(t) /\ d.next[t[k + 1]] = t[(k + 1) + 1]
    BY <2>2, <2>3 DEF IsList
  <2> QED
    BY <1>1, <2>2, <2>3, <2>4
<1>4. Nat \subseteq Same
  <2> HIDE DEF Same
  <2> QED
    BY <1>2, <1>3, SetInduction
<1> TAKE i \in 1 .. Len(s)
<1>5. i - 1 \in Nat /\ (i - 1) + 1 = i /\ i <= Len(s)
  BY <1>1
<1>6. i - 1 \in Same
  BY <1>4, <1>5
<1> QED
  BY <1>5, <1>6

(* Hence two lists of one parent are the same list. *)
LEMMA ListsAgree ==
  ASSUME ArenaAssumption, NEW d, NEW p \in Node, NEW s, NEW t, IsList(d, p, s), IsList(d, p, t)
  PROVE  s = t
<1>1. \A i \in 1 .. Len(s) : i <= Len(t) /\ s[i] = t[i]
  BY ListReaches
<1>2. \A i \in 1 .. Len(t) : i <= Len(s) /\ s[i] = t[i]
  BY ListReaches
<1>3. s \in Seq(Node) /\ t \in Seq(Node) /\ Len(s) \in Nat /\ Len(t) \in Nat
  BY DEF IsList
<1>4. Len(s) = Len(t)
  <2>1. Len(s) = 0 \/ Len(s) \in 1 .. Len(s)
    BY <1>3
  <2>2. Len(t) = 0 \/ Len(t) \in 1 .. Len(t)
    BY <1>3
  <2>3. Len(s) <= Len(t)
    BY <1>1, <1>3, <2>1
  <2>4. Len(t) <= Len(s)
    BY <1>2, <1>3, <2>2
  <2> QED
    BY <1>3, <2>3, <2>4
<1> QED
  BY <1>1, <1>3, <1>4, SeqEqual

(* Detach takes the node out of the list it is in, and touches no other.   *)
LEMMA DetachLists ==
  ASSUME ArenaAssumption, NEW id \in Node, Linked(Current, size),
         NEW rank, NEW top, Ranked(Current, rank, top),
         NEW q \in Node, NEW s, IsList(Current, q, s)
  PROVE  IsList(Detached(id), q, RemoveFirst(s, id))
<1> DEFINE p == parent[id]
           a == previous[id]
           b == next[id]
           n == Len(s)
           e == Detached(id)
           t == RemoveFirst(s, id)
<1>1. /\ n \in Nat /\ s \in Seq(Node)
      /\ \A i \in 1 .. n : s[i] \in Node /\ s[i] # NoNode /\ parent[s[i]] = q
      /\ \A i \in 1 .. n : previous[s[i]] = IF i = 1 THEN NoNode ELSE s[i - 1]
      /\ first[q] = IF n = 0 THEN NoNode ELSE s[1]
      /\ \A i \in 1 .. n : next[s[i]] = IF i = n THEN NoNode ELSE s[i + 1]
  BY ListMembers DEF IsList, Current
<1>2. /\ first \in [Node -> Link] /\ next \in [Node -> Link] /\ a \in Link /\ b \in Link
      /\ a # NoNode => a \in Node /\ next[a] = id /\ parent[a] = p
      /\ q # NoNode
  BY DEF Linked, LinkTypes, Siblings, Current, Link, Node, NoNode
<1>3. \A i, j \in 1 .. n : i # j => s[i] # s[j]
  BY ListDistinct
<1> HIDE DEF e, t, n
<1>4. p # NoNode => /\ e.first = IF a = NoNode THEN [first EXCEPT ![p] = b] ELSE first
                    /\ e.next = IF a = NoNode THEN [next EXCEPT ![id] = NoNode]
                                ELSE [next EXCEPT ![a] = b, ![id] = NoNode]
  BY DEF Detached, e
<1>5. CASE p = NoNode
  <2>1. e = Current
    BY <1>5 DEF Detached, e
  <2>2. \A i \in 1 .. n : s[i] # id
    BY <1>1, <1>2, <1>5
  <2>3. t = s
    BY <2>2 DEF RemoveFirst, t, n
  <2> QED
    BY <2>1, <2>3 DEF e, t
<1>6. CASE p # NoNode /\ p # q
  <2>1. \A i \in 1 .. n : s[i] # id /\ (a # NoNode => s[i] # a)
    BY <1>1, <1>2, <1>6
  <2>2. t = s
    BY <2>1 DEF RemoveFirst, t, n
  <2>3. e.first[q] = first[q]
    BY <1>2, <1>4, <1>6
  <2>4. ASSUME NEW i \in 1 .. n PROVE e.next[s[i]] = next[s[i]]
    BY <1>1, <1>2, <1>4, <1>6, <2>1
  <2> HIDE DEF p, a, b
  <2>5. IsList(e, q, s)
    BY <1>1, <2>3, <2>4 DEF IsList, n
  <2> QED
    BY <2>2, <2>5 DEF e, t
<1>7. CASE p # NoNode /\ p = q
  <2>1. \E k \in 1 .. n : s[k] = id
    <3>1. Current.parent[id] = q
      BY <1>7 DEF Current
    <3> QED
      BY <3>1, ListComplete DEF n
  <2>2. PICK k \in 1 .. n : s[k] = id
    BY <2>1
  <2>3. \A i \in 1 .. n : i # k => s[i] # id
    BY <1>3, <2>2
  <2>4. /\ t \in Seq(Node)
        /\ Len(t) = n - 1
        /\ \A i \in 1 .. n - 1 : t[i] = IF i < k THEN s[i] ELSE s[i + 1]
    <3>1. /\ RemoveFirst(s, s[k]) \in Seq(Node)
          /\ Len(RemoveFirst(s, s[k])) = Len(s) - 1
          /\ \A i \in 1 .. Len(s) - 1 : RemoveFirst(s, s[k])[i] = IF i < k THEN s[i] ELSE s[i + 1]
      BY ONLY <1>1, <2>2, <2>3, RemoveFirstIs DEF n
    <3> QED
      BY ONLY <2>2, <3>1 DEF n, t
  <2>5. a = (IF k = 1 THEN NoNode ELSE s[k - 1]) /\ b = (IF k = n THEN NoNode ELSE s[k + 1])
    BY <1>1, <2>2
  <2> HIDE DEF p, a, b
  <2>6. e.first[q] = IF Len(t) = 0 THEN NoNode ELSE t[1]
    <3>1. CASE k = 1
      <4>1. e.first[q] = b
        BY <1>2, <1>4, <1>7, <2>5, <3>1
      <4>2. n = 1 \/ 1 \in 1 .. n - 1
        BY <1>1
      <4> QED
        BY <1>1, <2>4, <2>5, <3>1, <4>1, <4>2
    <3>2. CASE k # 1
      <4>1. a # NoNode /\ 1 \in 1 .. n - 1 /\ 1 < k
        BY <1>1, <2>5, <3>2
      <4> QED
        BY <1>1, <1>4, <1>7, <2>4, <4>1
    <3> QED
      BY <3>1, <3>2
  <2>7. ASSUME NEW i \in 1 .. n - 1
        PROVE  e.next[t[i]] = IF i = n - 1 THEN NoNode ELSE t[i + 1]
    <3>0. i \in 1 .. n /\ i + 1 \in 1 .. n /\ (i # n - 1 => i + 1 \in 1 .. n - 1)
      BY <1>1
    <3>1. CASE i + 1 < k
      <4>1. t[i] = s[i] /\ i < k /\ i # k
        BY <2>4, <3>1
      <4>2. s[i] # id /\ (a # NoNode => s[i] # a)
        <5>1. i # k - 1 /\ k - 1 \in 1 .. n /\ k # 1
          BY <1>1, <3>0, <3>1
        <5> QED
          BY <1>3, <2>3, <2>5, <3>0, <4>1, <5>1
      <4>3. e.next[s[i]] = next[s[i]]
        BY <1>1, <1>2, <1>4, <1>7, <3>0, <4>2
      <4>4. i # n /\ i # n - 1 /\ t[i + 1] = s[i + 1]
        BY <1>1, <2>4, <3>0, <3>1
      <4> QED
        BY <1>1, <3>0, <4>1, <4>3, <4>4
    <3>2. CASE i + 1 = k
      <4>1. t[i] = s[i] /\ a = s[i] /\ a # NoNode /\ a # id
        BY <1>1, <2>3, <2>4, <2>5, <3>0, <3>2
      <4>2. e.next[s[i]] = b
        BY <1>1, <1>2, <1>4, <1>7, <3>0, <4>1
      <4>3. i = n - 1 <=> k = n
        BY <1>1, <3>2
      <4>4. i # n - 1 => t[i + 1] = s[k + 1]
        BY <2>4, <3>0, <3>2
      <4> QED
        BY <2>5, <4>1, <4>2, <4>3, <4>4
    <3>3. CASE k <= i
      <4>1. t[i] = s[i + 1] /\ ~(i < k)
        BY <1>1, <2>4, <3>3
      <4>2. s[i + 1] # id /\ (a # NoNode => s[i + 1] # a)
        <5>1. i + 1 # k /\ (k # 1 => k - 1 \in 1 .. n /\ k - 1 # i + 1)
          BY <1>1, <3>3
        <5> QED
          BY <1>3, <2>3, <2>5, <3>0, <5>1
      <4>3. e.next[s[i + 1]] = next[s[i + 1]]
        BY <1>1, <1>2, <1>4, <1>7, <3>0, <4>2
      <4>4. i # n - 1 => t[i + 1] = s[(i + 1) + 1]
        BY <1>1, <2>4, <3>0, <3>3
      <4>5. i = n - 1 <=> i + 1 = n
        <5>1. n \in Nat /\ i \in Nat
          BY ONLY <1>1, <3>0
        <5> QED
          BY ONLY <5>1
      <4> QED
        BY <1>1, <3>0, <4>1, <4>3, <4>4, <4>5
    <3> QED
      BY <1>1, <3>1, <3>2, <3>3
  <2>8. IsList(e, q, t)
    BY <2>4, <2>6, <2>7 DEF IsList
  <2> QED
    BY <2>8 DEF e, t
<1> QED
  BY <1>5, <1>6, <1>7

(* Appending an unattached node lengthens its new parent's list only.      *)
LEMMA AppendLists ==
  ASSUME ArenaAssumption, NEW d, NEW bound, Linked(d, bound),
         NEW p \in Node, NEW child \in Node, p # child, d.parent[child] = NoNode,
         NEW q \in Node, NEW s, IsList(d, q, s)
  PROVE  IsList(Appended(d, p, child), q, IF q = p THEN Append(s, child) ELSE s)
<1> DEFINE tail == d.last[p]
           e == Appended(d, p, child)
           n == Len(s)
<1>1. /\ n \in Nat /\ s \in Seq(Node)
      /\ \A i \in 1 .. n : s[i] \in Node /\ s[i] # NoNode /\ d.parent[s[i]] = q
      /\ d.first[q] = IF n = 0 THEN NoNode ELSE s[1]
      /\ \A i \in 1 .. n : d.next[s[i]] = IF i = n THEN NoNode ELSE s[i + 1]
  BY ListMembers DEF IsList
<1>2. /\ d.first \in [Node -> Link] /\ d.next \in [Node -> Link] /\ tail \in Link
      /\ p # NoNode /\ q # NoNode /\ child # NoNode
      /\ tail # NoNode => tail \in Node /\ d.parent[tail] = p /\ tail # child
      /\ d.next[child] = NoNode
      /\ tail = NoNode <=> d.first[p] = NoNode
  BY DEF Linked, LinkTypes, Ends, Alone, Link, Node, NoNode
<1>3. \A i, j \in 1 .. n : i # j => s[i] # s[j]
  BY ListDistinct
<1>4. /\ e.first = IF tail = NoNode THEN [d.first EXCEPT ![p] = child] ELSE d.first
      /\ e.next = IF tail = NoNode THEN d.next ELSE [d.next EXCEPT ![tail] = child]
  BY DEF Appended
<1>5. q = p => tail = IF n = 0 THEN NoNode ELSE s[n]
  <2> SUFFICES ASSUME q = p, n # 0 PROVE tail = s[n]
    BY <1>1, <1>2
  <2>1. n \in 1 .. n
    BY <1>1
  <2>2. d.next[s[n]] = NoNode /\ d.parent[s[n]] = p /\ s[n] \in Node
    BY <1>1, <2>1
  <2> QED
    BY <1>2, <2>2 DEF Linked, Ends
<1> HIDE DEF e, tail, n
<1>6. CASE q # p
  <2>1. e.first[q] = d.first[q]
    BY <1>2, <1>4, <1>6
  <2>2. ASSUME NEW i \in 1 .. n PROVE e.next[s[i]] = d.next[s[i]]
    BY <1>1, <1>2, <1>4, <1>6
  <2>3. IsList(e, q, s)
    BY <1>1, <2>1, <2>2 DEF IsList, n
  <2> QED
    BY <1>6, <2>3 DEF e
<1>7. CASE q = p
  <2> DEFINE t == Append(s, child)
  <2>1. t \in Seq(Node) /\ Len(t) = n + 1 /\ (\A i \in 1 .. n : t[i] = s[i]) /\ t[n + 1] = child
    BY <1>1 DEF n
  <2> HIDE DEF t
  <2>2. e.first[q] = IF Len(t) = 0 THEN NoNode ELSE t[1]
    <3>1. CASE n = 0
      BY <1>2, <1>4, <1>5, <1>7, <2>1, <3>1
    <3>2. CASE n # 0
      <4>1. 1 \in 1 .. n /\ n \in 1 .. n
        BY <1>1, <3>2
      <4> QED
        BY <1>1, <1>4, <1>5, <1>7, <2>1, <3>2, <4>1
    <3> QED
      BY <3>1, <3>2
  <2>3. ASSUME NEW i \in 1 .. n + 1
        PROVE  e.next[t[i]] = IF i = n + 1 THEN NoNode ELSE t[i + 1]
    <3>1. CASE i = n + 1
      BY <1>2, <1>4, <2>1, <3>1
    <3>2. CASE i = n /\ i # n + 1
      <4>1. n # 0 /\ i \in 1 .. n
        BY <1>1, <3>2
      <4>2. t[i] = tail /\ tail # NoNode
        BY <1>1, <1>5, <1>7, <2>1, <3>2, <4>1
      <4> QED
        BY <1>2, <1>4, <2>1, <3>2, <4>2
    <3>3. CASE i # n /\ i # n + 1
      <4>1. i \in 1 .. n /\ n \in 1 .. n /\ i + 1 \in 1 .. n /\ n # 0
        BY <1>1, <3>3
      <4>2. t[i] = s[i] /\ t[i + 1] = s[i + 1] /\ s[i] # tail
        BY <1>3, <1>5, <1>7, <2>1, <3>3, <4>1
      <4>3. e.next[s[i]] = d.next[s[i]]
        BY <1>1, <1>2, <1>4, <4>1, <4>2
      <4> QED
        BY <1>1, <3>3, <4>1, <4>2, <4>3
    <3> QED
      BY <3>1, <3>2, <3>3
  <2>4. IsList(e, q, t)
    BY <2>1, <2>2, <2>3 DEF IsList
  <2> QED
    BY <1>7, <2>4 DEF e, t
<1> QED
  BY <1>6, <1>7

(* What is read off the links by following next is the list.               *)
LEMMA ListOfLinks ==
  ASSUME ArenaAssumption, NEW d, NEW bound, Linked(d, bound), NEW rank, NEW top, Ranked(d, rank, top),
         NEW p \in Node
  PROVE  IsList(d, p, Follow(d.next, d.first[p]))
<1>1. d.next \in [Node -> Link] /\ d.first[p] \in Link
  BY DEF Linked, LinkTypes
<1>2. rank \in [Node -> Nat] /\ \A m \in Node : d.next[m] # NoNode => rank[m] < rank[d.next[m]]
  BY DEF Ranked
<1>3. /\ Follow(d.next, d.first[p]) \in Seq(Node)
      /\ d.first[p] = IF Len(Follow(d.next, d.first[p])) = 0 THEN NoNode ELSE Follow(d.next, d.first[p])[1]
      /\ \A i \in 1 .. Len(Follow(d.next, d.first[p])) :
           d.next[Follow(d.next, d.first[p])[i]] =
             IF i = Len(Follow(d.next, d.first[p])) THEN NoNode ELSE Follow(d.next, d.first[p])[i + 1]
  BY <1>1, <1>2, FollowEnds
<1> QED
  BY <1>3 DEF IsList

(* A new arena holds the empty lists. *)
LEMMA InitTree == ASSUME ArenaAssumption, Init PROVE T!Init
<1>1. Allocated = {1}
  BY DEF Init, Allocated
<1>2. IInv
  BY InitIInv
<1>3. PICK top \in Nat, rank \in [Node -> Nat] : Ranked(Current, rank, top)
  BY <1>2 DEF IInv, SiblingsFinite
<1>4. ASSUME NEW p \in Node PROVE Children(p) = <<>>
  <2>1. Linked(Current, size)
    BY <1>2, LinkedNow DEF IInv
  <2>2. IsList(Current, p, Follow(Current.next, Current.first[p]))
    BY <1>3, <2>1, ListOfLinks
  <2>3. Current.first[p] = NoNode /\ Children(p) = Follow(Current.next, Current.first[p])
    BY DEF Init, Current, Children
  <2>4. IsList(Current, p, <<>>)
    BY <2>3 DEF IsList
  <2> QED
    BY <2>2, <2>3, <2>4, ListsAgree
<1> QED
  BY <1>1, <1>4 DEF T!Init, Init

(* Tree's RemoveFirst is the library's. *)
LEMMA SameRemoveFirst == ASSUME NEW s, NEW n PROVE T!RemoveFirst(s, n) = RemoveFirst(s, n)
  BY DEF T!RemoveFirst, RemoveFirst, T!RemoveAt, RemoveAt, T!SelectInSeq, SelectInSeq, T!Min, Min

(* What each call of the builder does to the lists. *)
LEMMA StepTree == ASSUME ArenaAssumption, IInv, [Next]_vars PROVE [T!Next]_(T!vars)
<1> DEFINE lists == [p \in Node |-> Children(p)]
<1>0. size \in Node /\ Node = 1 .. MaxNodes /\ MaxNodes \in Nat /\ Linked(Current, size)
  BY LinkedNow DEF IInv, ArenaAssumption, TypeOK, Node
<1>a. PICK top \in Nat, rank \in [Node -> Nat] : Ranked(Current, rank, top)
  BY DEF IInv, SiblingsFinite
<1>b. ASSUME NEW q \in Node PROVE IsList(Current, q, Children(q))
  <2>1. IsList(Current, q, Follow(Current.next, Current.first[q]))
    BY <1>0, <1>a, ListOfLinks
  <2> QED
    BY <2>1 DEF Children, Current
<1>c. ASSUME UNCHANGED <<first, next>> PROVE lists' = lists
  BY <1>c DEF Children
<1>d. ASSUME NEW d, SetLinks(d), Linked(d, size), NEW r, NEW m, Ranked(d, r, m),
             NEW q \in Node, NEW s, IsList(d, q, s)
      PROVE  lists'[q] = s
  <2>1. lists'[q] = Follow(d.next, d.first[q])
    BY <1>d DEF SetLinks, Children
  <2>2. IsList(d, q, Follow(d.next, d.first[q]))
    BY <1>d, ListOfLinks
  <2> QED
    BY <1>d, <2>1, <2>2, ListsAgree
<1>1. ASSUME NEW k \in Kinds, NEW sp \in Span, Add(k, sp) PROVE T!Add
  <2>1. /\ ~built /\ built' = built /\ size' = size + 1 /\ size + 1 \in Node \ Allocated
        /\ UNCHANGED <<first, next>>
    BY <1>0, <1>1 DEF Add, Record, links, Allocated
  <2>2. Allocated' = Allocated \cup {size + 1}
    BY <1>0, <2>1 DEF Allocated
  <2>3. lists' = lists
    BY <1>c, <2>1
  <2> QED
    BY <2>1, <2>2, <2>3 DEF T!Add
<1>2. ASSUME NEW p \in Node, NEW child \in Node, AppendChild(p, child) PROVE T!MoveToEnd(p, child)
  <2> DEFINE d == Detached(child)
             e == Appended(d, p, child)
  <2>1. /\ ~built /\ {p, child} \subseteq Allocated /\ p # child /\ p <= size /\ child <= size
        /\ SetLinks(e) /\ UNCHANGED <<size, built>>
    BY <1>2 DEF AppendChild, Allocated, Node
  <2>2. Linked(d, size) /\ d.parent[child] = NoNode
    BY <1>0, DetachLinked
  <2>3. Ranked(d, rank, top)
    BY <1>0, <1>a, DetachRanked
  <2>4. Linked(e, size)
    BY <1>0, <2>1, <2>2, AppendLinked
  <2>5. Ranked(e, [rank EXCEPT ![child] = top + 1], top + 1)
    BY <1>0, <2>1, <2>2, <2>3, AppendRanked
  <2> HIDE DEF d
  <2>6. ASSUME NEW q \in Node
        PROVE  lists'[q] = [T!Without(lists, child) EXCEPT ![p] = Append(@, child)][q]
    <3> DEFINE s == RemoveFirst(Children(q), child)
               t == IF q = p THEN Append(s, child) ELSE s
    <3>1. IsList(d, q, s)
      BY <1>0, <1>a, <1>b, DetachLists DEF d
    <3>2. IsList(e, q, t)
      BY <2>1, <2>2, <3>1, AppendLists
    <3> HIDE DEF s, e
    <3>3. lists'[q] = t
      BY <1>d, <2>1, <2>4, <2>5, <3>2
    <3>4. T!Without(lists, child)[q] = s /\ T!Without(lists, child) = [x \in Node |-> RemoveFirst(lists[x], child)]
      BY SameRemoveFirst DEF T!Without, s
    <3> HIDE DEF lists
    <3> QED
      BY <3>3, <3>4
  <2>7. lists' = [T!Without(lists, child) EXCEPT ![p] = Append(@, child)]
    <3>1. lists' = [q \in Node |-> lists'[q]]
      OBVIOUS
    <3>2. [T!Without(lists, child) EXCEPT ![p] = Append(@, child)]
            = [q \in Node |-> [T!Without(lists, child) EXCEPT ![p] = Append(@, child)][q]]
      BY DEF T!Without
    <3> HIDE DEF lists
    <3> QED
      BY <2>6, <3>1, <3>2
  <2>8. Allocated' = Allocated
    BY <2>1 DEF Allocated
  <2> QED
    BY <2>1, <2>7, <2>8 DEF T!MoveToEnd
<1>3. ASSUME NEW id \in Node, Detach(id) PROVE T!Detach(id)
  <2>1. ~built /\ id \in Allocated /\ SetLinks(Detached(id)) /\ UNCHANGED <<size, built>>
    BY <1>3 DEF Detach
  <2>2. Linked(Detached(id), size)
    BY <1>0, DetachLinked
  <2>3. Ranked(Detached(id), rank, top)
    BY <1>0, <1>a, DetachRanked
  <2>4. ASSUME NEW q \in Node PROVE lists'[q] = RemoveFirst(Children(q), id)
    <3>1. IsList(Detached(id), q, RemoveFirst(Children(q), id))
      BY <1>0, <1>a, <1>b, DetachLists
    <3> QED
      BY <1>d, <2>1, <2>2, <2>3, <3>1
  <2>5. lists' = T!Without(lists, id)
    <3>1. lists' = [q \in Node |-> lists'[q]]
      OBVIOUS
    <3>2. T!Without(lists, id) = [q \in Node |-> RemoveFirst(Children(q), id)]
      BY SameRemoveFirst DEF T!Without
    <3> HIDE DEF lists
    <3> QED
      BY <2>4, <3>1, <3>2
  <2>6. Allocated' = Allocated
    BY <2>1 DEF Allocated
  <2> QED
    BY <2>1, <2>5, <2>6 DEF T!Detach
<1>4. ASSUME Build PROVE T!Freeze
  <2>1. ~built /\ built' = TRUE /\ UNCHANGED <<size, first, next>>
    BY <1>4 DEF Build, links
  <2>2. lists' = lists /\ Allocated' = Allocated
    BY <1>c, <2>1 DEF Allocated
  <2> QED
    BY <2>1, <2>2 DEF T!Freeze
<1>5. ASSUME UNCHANGED <<size, built, first, next>> PROVE UNCHANGED T!vars
  <2>1. lists' = lists /\ Allocated' = Allocated
    BY <1>c, <1>5 DEF Allocated
  <2> QED
    BY <1>5, <2>1 DEF T!vars
<1>6. CASE \E k \in Kinds, sp \in Span : Add(k, sp)
  BY <1>1, <1>6 DEF T!Next
<1>7. CASE \E p, c \in Node : AppendChild(p, c)
  BY <1>2, <1>7 DEF T!Next
<1>8. CASE \E n \in Node : Detach(n)
  BY <1>3, <1>8 DEF T!Next
<1>9. CASE Build
  BY <1>4, <1>9 DEF T!Next
<1>10. CASE \/ \E n \in Node, sp \in Span : SetContentSpan(n, sp)
            \/ \E n \in Node, f \in Fields : SetPayload(n, f)
            \/ UNCHANGED vars
  <2>1. UNCHANGED <<size, built, first, next>>
    BY <1>10 DEF SetContentSpan, SetPayload, vars, links
  <2> QED
    BY <1>5, <2>1
<1> QED
  BY <1>6, <1>7, <1>8, <1>9, <1>10 DEF Next

(* The doubly linked lists a builder keeps behave, under any sequence of   *)
(* calls, as ordered lists of children do: AppendChild moves a node to the *)
(* end of one list, Detach takes it out of the one it is in, and neither   *)
(* changes the order of any other node.                                    *)
THEOREM BuilderIsATree == Spec => ImplementsTree
<1>1. Init => IInv /\ T!Init
  BY InitIInv, InitTree, ArenaAssumption
<1>2. IInv /\ [Next]_vars => IInv' /\ [T!Next]_(T!vars)
  BY StepIInv, StepTree, ArenaAssumption
<1> QED
  BY <1>1, <1>2, PTL DEF Spec, ImplementsTree, T!Spec

-----------------------------------------------------------------------------
(* What Walk calls, and in which order.  Walk is unrolled into turns that  *)
(* go on for as long as one likes.  The stack and the calls never hold the *)
(* same call, so the stack is empty within two turns of each node; and by  *)
(* induction from the deepest nodes up, a node on top of the stack makes   *)
(* the calls of its nested order and is gone.                              *)

(* The same lists read from their far ends.                                *)
Mirror(d) == [parent |-> d.parent, first |-> d.last, last |-> d.first,
              previous |-> d.next, next |-> d.previous]

(* The mirrored links are proper links, ranked the other way round. *)
LEMMA MirrorLinked ==
  ASSUME ArenaAssumption, NEW d, NEW bound, Linked(d, bound), NEW rank, NEW top, Ranked(d, rank, top)
  PROVE  /\ Linked(Mirror(d), bound)
         /\ Ranked(Mirror(d), [n \in Node |-> top - rank[n]], top)
<1> USE DEF Mirror
<1>1. /\ d.parent \in [Node -> Link] /\ d.first \in [Node -> Link] /\ d.last \in [Node -> Link]
      /\ d.previous \in [Node -> Link] /\ d.next \in [Node -> Link]
      /\ \A n \in Node : d.parent[n] # NoNode => n <= bound /\ d.parent[n] <= bound
  BY DEF Linked, LinkTypes
<1>2. ASSUME NEW n \in Node, d.last[n] # NoNode PROVE n <= bound /\ d.last[n] <= bound
  <2>1. d.last[n] \in Node /\ d.parent[d.last[n]] = n /\ n # NoNode
    BY <1>1, <1>2 DEF Linked, Ends, Link, Node, NoNode
  <2> QED
    BY <1>1, <2>1
<1>3. LinkTypes(Mirror(d), bound)
  BY <1>1, <1>2 DEF LinkTypes
<1>4. Siblings(Mirror(d)) /\ Ends(Mirror(d)) /\ Alone(Mirror(d))
  BY DEF Linked, Siblings, Ends, Alone
<1>5. Ranked(Mirror(d), [n \in Node |-> top - rank[n]], top)
  <2>1. top \in Nat /\ rank \in [Node -> 0 .. top]
    BY DEF Ranked
  <2>2. [n \in Node |-> top - rank[n]] \in [Node -> 0 .. top]
    BY <2>1
  <2>3. ASSUME NEW n \in Node, d.previous[n] # NoNode PROVE top - rank[n] < top - rank[d.previous[n]]
    <3>1. d.previous[n] \in Node /\ d.next[d.previous[n]] = n /\ n # NoNode
      BY <1>1, <2>3 DEF Linked, Siblings, Link, Node, NoNode
    <3>2. rank[d.previous[n]] < rank[n] /\ rank[n] \in 0 .. top /\ rank[d.previous[n]] \in 0 .. top
      BY <2>1, <3>1 DEF Ranked
    <3> QED
      BY <2>1, <3>2
  <2>4. \A n \in Node : d.previous[n] # NoNode => d.previous[n] \in Node
    BY <1>1 DEF Link
  <2> QED
    BY <2>1, <2>2, <2>3, <2>4 DEF Ranked
<1> QED
  BY <1>3, <1>4, <1>5 DEF Linked

(* A sequence read backwards. *)
LEMMA ReverseIs ==
  ASSUME NEW S, NEW s \in Seq(S)
  PROVE  /\ Reverse(s) \in Seq(S)
         /\ Len(Reverse(s)) = Len(s)
         /\ \A i \in 1 .. Len(s) : Reverse(s)[i] = s[(Len(s) - i) + 1] /\ (Len(s) - i) + 1 \in 1 .. Len(s)
<1>1. Len(s) \in Nat /\ \A i \in 1 .. Len(s) : (Len(s) - i) + 1 \in 1 .. Len(s)
  OBVIOUS
<1>2. Reverse(s) = [i \in 1 .. Len(s) |-> s[(Len(s) - i) + 1]]
  BY DEF Reverse
<1> QED
  BY <1>1, <1>2

(* From its last child on, the list comes backwards. *)
LEMMA ListBackwards ==
  ASSUME ArenaAssumption, NEW d, NEW bound, Linked(d, bound), NEW rank, NEW top, Ranked(d, rank, top),
         NEW p \in Node
  PROVE  Follow(d.previous, d.last[p]) = Reverse(Follow(d.next, d.first[p]))
<1> DEFINE s == Follow(d.next, d.first[p])
           t == Reverse(s)
           e == Mirror(d)
           n == Len(s)
<1>1. IsList(d, p, s)
  BY ListOfLinks
<1>2. IsList(e, p, Follow(e.next, e.first[p]))
  BY MirrorLinked, ListOfLinks
<1>3. e.next = d.previous /\ e.first = d.last
  BY DEF Mirror
<1> HIDE DEF s
<1>4. /\ n \in Nat /\ s \in Seq(Node)
      /\ \A i \in 1 .. n : s[i] \in Node /\ s[i] # NoNode /\ d.parent[s[i]] = p
      /\ \A i \in 1 .. n : d.previous[s[i]] = IF i = 1 THEN NoNode ELSE s[i - 1]
      /\ d.first[p] = IF n = 0 THEN NoNode ELSE s[1]
      /\ \A i \in 1 .. n : d.next[s[i]] = IF i = n THEN NoNode ELSE s[i + 1]
  BY <1>1, ListMembers DEF IsList
<1>5. t \in Seq(Node) /\ Len(t) = n /\ \A i \in 1 .. n : t[i] = s[(n - i) + 1] /\ (n - i) + 1 \in 1 .. n
  BY <1>4, ReverseIs
<1> HIDE DEF t, n, e
<1>6. d.last[p] = IF n = 0 THEN NoNode ELSE t[1]
  <2>1. CASE n = 0
    BY <1>4, <2>1 DEF Linked, Alone
  <2>2. CASE n # 0
    <3>1. n \in 1 .. n /\ 1 \in 1 .. n /\ (n - 1) + 1 = n
      BY <1>4, <2>2
    <3>2. s[n] \in Node /\ d.parent[s[n]] = p /\ d.next[s[n]] = NoNode /\ t[1] = s[n] /\ p # NoNode
      BY <1>4, <1>5, <3>1 DEF Node, NoNode
    <3> QED
      BY <2>2, <3>2 DEF Linked, Ends
  <2> QED
    BY <2>1, <2>2
<1>7. ASSUME NEW i \in 1 .. n PROVE d.previous[t[i]] = IF i = n THEN NoNode ELSE t[i + 1]
  <2> DEFINE k == (n - i) + 1
  <2>1. k \in 1 .. n /\ t[i] = s[k]
    BY <1>5
  <2>2. (k = 1 <=> i = n) /\ (i # n => i + 1 \in 1 .. n /\ (n - (i + 1)) + 1 = k - 1)
    BY <1>4
  <2>3. i # n => t[i + 1] = s[k - 1]
    BY <1>5, <2>2
  <2> HIDE DEF k
  <2> QED
    BY <1>4, <2>1, <2>2, <2>3
<1>8. IsList(e, p, t)
  BY <1>3, <1>5, <1>6, <1>7 DEF IsList
<1> QED
  BY <1>2, <1>3, <1>8, ListsAgree DEF t, s

(* What is defined step by step exists, for any number of steps.           *)
Runs(f, m, S, start, step) ==
  f \in [0 .. m -> S] /\ f[0] = start /\ \A i \in 0 .. m - 1 : f[i + 1] = step[f[i]]

(* Any number of steps from a start can be taken. *)
LEMMA Recursion ==
  ASSUME NEW S, NEW start \in S, NEW step \in [S -> S], NEW most \in Nat
  PROVE  \E f : Runs(f, most, S, start, step)
<1> DEFINE Reaches(f, m) == f[0] = start /\ \A i \in 0 .. m - 1 : f[i + 1] = step[f[i]]
           Reached == {m \in Nat : \E f \in [0 .. m -> S] : Reaches(f, m)}
<1>1. 0 \in Reached
  <2> DEFINE f == [i \in 0 .. 0 |-> start]
  <2>1. f \in [0 .. 0 -> S] /\ Reaches(f, 0)
    OBVIOUS
  <2> QED
    BY <2>1
<1>2. ASSUME NEW m \in Nat, m \in Reached PROVE m + 1 \in Reached
  <2>1. PICK f \in [0 .. m -> S] : Reaches(f, m)
    BY <1>2
  <2> DEFINE g == [i \in 0 .. m + 1 |-> IF i = m + 1 THEN step[f[m]] ELSE f[i]]
  <2>2. g \in [0 .. m + 1 -> S]
    <3>1. \A i \in 0 .. m + 1 : i # m + 1 => i \in 0 .. m
      OBVIOUS
    <3>2. m \in 0 .. m /\ step[f[m]] \in S
      OBVIOUS
    <3> QED
      BY <3>1, <3>2
  <2>3. g[0] = start
    BY <2>1
  <2>4. ASSUME NEW i \in 0 .. (m + 1) - 1 PROVE g[i + 1] = step[g[i]]
    <3>1. i \in 0 .. m + 1 /\ i # m + 1 /\ i + 1 \in 0 .. m + 1 /\ g[i] = f[i]
      OBVIOUS
    <3>2. CASE i = m
      BY <3>1, <3>2
    <3>3. CASE i # m
      <4>1. i \in 0 .. m - 1 /\ i + 1 # m + 1
        BY <3>3
      <4> QED
        BY <2>1, <3>1, <4>1
    <3> QED
      BY <3>2, <3>3
  <2> HIDE DEF g
  <2>5. Reaches(g, m + 1)
    BY <2>3, <2>4
  <2> HIDE DEF Reaches
  <2> QED
    BY <2>2, <2>5
<1>3. Nat \subseteq Reached
  <2> HIDE DEF Reached
  <2> QED
    BY <1>1, <1>2, SetInduction
<1>4. PICK f \in [0 .. most -> S] : Reaches(f, most)
  BY <1>3
<1> QED
  BY <1>4 DEF Runs

(* Sequences one behind the other: flat[k] holds the first k of them.      *)
IsFlat(flat, S, seqs) ==
  /\ flat \in [0 .. Len(seqs) -> Seq(S)]
  /\ flat[0] = <<>>
  /\ \A k \in 0 .. Len(seqs) - 1 : flat[k + 1] = flat[k] \o seqs[k + 1]
  /\ FlattenSeq(seqs) = flat[Len(seqs)]

(* FlattenSeq makes such a table, and returns its last entry. *)
LEMMA FlatExists ==
  ASSUME NEW S, NEW seqs \in Seq(Seq(S))
  PROVE  \E flat : IsFlat(flat, S, seqs)
<1> DEFINE n == Len(seqs)
           Parts == [at : 0 .. n, all : Seq(S)]
           start == [at |-> 0, all |-> <<>>]
           After(x) == IF x.at < n THEN [at |-> x.at + 1, all |-> x.all \o seqs[x.at + 1]] ELSE x
           step == [x \in Parts |-> After(x)]
<1>1. n \in Nat /\ (\A i \in 1 .. n : seqs[i] \in Seq(S)) /\ <<>> \in Seq(S)
  OBVIOUS
<1> HIDE DEF n
<1>2. start \in Parts
  BY <1>1
<1>3. step \in [Parts -> Parts]
  <2>1. ASSUME NEW x \in Parts, x.at < n PROVE [at |-> x.at + 1, all |-> x.all \o seqs[x.at + 1]] \in Parts
    <3>1. x.at + 1 \in 1 .. n /\ x.all \in Seq(S)
      BY <1>1, <2>1
    <3>2. x.all \o seqs[x.at + 1] \in Seq(S)
      BY <1>1, <3>1, ConcatProperties
    <3> QED
      BY <1>1, <3>1, <3>2
  <2>2. ASSUME NEW x \in Parts PROVE After(x) \in Parts
    BY <2>1
  <2> QED
    BY <2>2
<1>4. PICK f : Runs(f, n, Parts, start, step)
  <2> HIDE DEF Parts, step, start
  <2> QED
    BY <1>1, <1>2, <1>3, Recursion
<1>a. f \in [0 .. n -> Parts] /\ f[0] = start /\ \A i \in 0 .. n - 1 : f[i + 1] = step[f[i]]
  BY <1>4 DEF Runs
<1>5. \A i \in 0 .. n : f[i].at = i
  <2> DEFINE Counted == {i \in Nat : i <= n => f[i].at = i}
  <2>1. 0 \in Counted
    BY <1>a
  <2>2. ASSUME NEW i \in Nat, i \in Counted PROVE i + 1 \in Counted
    <3> SUFFICES ASSUME i + 1 <= n PROVE f[i + 1].at = i + 1
      OBVIOUS
    <3>1. i \in 0 .. n - 1 /\ i \in 0 .. n /\ f[i].at = i /\ f[i] \in Parts /\ i < n
      BY <1>1, <1>a, <2>2
    <3>2. f[i + 1] = After(f[i])
      BY <1>a, <3>1
    <3> QED
      BY <3>1, <3>2
  <2>3. Nat \subseteq Counted
    <3> HIDE DEF Counted
    <3> QED
      BY <2>1, <2>2, SetInduction
  <2> QED
    BY <1>1, <2>3
<1> DEFINE flat == [i \in 0 .. n |-> f[i].all]
<1>6. /\ flat \in [0 .. n -> Seq(S)]
      /\ flat[0] = <<>>
  BY <1>1, <1>a
<1>7. ASSUME NEW k \in 0 .. n - 1 PROVE flat[k + 1] = flat[k] \o seqs[k + 1]
  <2>1. k \in 0 .. n /\ k + 1 \in 0 .. n /\ k < n /\ f[k] \in Parts /\ f[k].at = k
    BY <1>1, <1>a, <1>5
  <2>2. f[k + 1] = After(f[k])
    BY <1>a, <2>1
  <2> DEFINE joined == f[k].all \o seqs[k + 1]
  <2>3. f[k + 1] = [at |-> k + 1, all |-> joined]
    BY <2>1, <2>2
  <2> HIDE DEF joined
  <2>4. f[k + 1].all = joined
    BY <2>3
  <2> QED
    BY <2>1, <2>4 DEF joined
<1> DEFINE flatten[i \in 1 .. n] == IF i = 1 THEN seqs[i] ELSE flatten[i - 1] \o seqs[i]
           Equal(a) == a = [i \in 1 .. n |-> IF i = 1 THEN seqs[i] ELSE a[i - 1] \o seqs[i]]
<1>8. flatten = CHOOSE a : Equal(a)
  OBVIOUS
<1>9. FlattenSeq(seqs) = IF n = 0 THEN seqs ELSE flatten[n]
  BY DEF FlattenSeq, n
<1> HIDE DEF flatten, flat
<1>10. Equal([i \in 1 .. n |-> flat[i]])
  <2> DEFINE a == [i \in 1 .. n |-> flat[i]]
  <2>1. ASSUME NEW i \in 1 .. n PROVE a[i] = IF i = 1 THEN seqs[i] ELSE a[i - 1] \o seqs[i]
    <3>1. i - 1 \in 0 .. n - 1 /\ (i - 1) + 1 = i /\ (i # 1 => i - 1 \in 1 .. n) /\ (i = 1 => i - 1 = 0)
      BY <1>1
    <3>2. flat[i] = flat[i - 1] \o seqs[i]
      BY <1>7, <3>1
    <3>3. <<>> \o seqs[i] = seqs[i]
      BY <1>1, ConcatEmptySeq
    <3>4. i = 1 => flat[i] = seqs[i]
      BY <1>6, <3>1, <3>2, <3>3
    <3> QED
      BY <3>1, <3>2, <3>4
  <2>2. a = [i \in 1 .. n |-> a[i]]
    OBVIOUS
  <2> HIDE DEF a
  <2> QED
    BY <2>1, <2>2 DEF a
<1>11. Equal(flatten)
  <2> HIDE DEF Equal
  <2> QED
    BY <1>8, <1>10
<1>12. \A i \in 1 .. n : flatten[i] = flat[i]
  <2> DEFINE Same == {k \in Nat : k + 1 <= n => flatten[k + 1] = flat[k + 1]}
  <2>0. \A i \in 1 .. n : flatten[i] = IF i = 1 THEN seqs[i] ELSE flatten[i - 1] \o seqs[i]
    BY <1>11
  <2>1. 0 \in Same
    <3> SUFFICES ASSUME 1 <= n PROVE flatten[1] = flat[1]
      OBVIOUS
    <3>1. 1 \in 1 .. n /\ 0 \in 0 .. n - 1
      BY <1>1
    <3>2. flat[0 + 1] = flat[0] \o seqs[0 + 1]
      BY <1>7, <3>1
    <3>3. flatten[1] = seqs[1]
      BY <2>0, <3>1
    <3>4. <<>> \o seqs[1] = seqs[1]
      BY <1>1, <3>1, ConcatEmptySeq
    <3> QED
      BY <1>6, <3>2, <3>3, <3>4
  <2>2. ASSUME NEW k \in Nat, k \in Same PROVE k + 1 \in Same
    <3> SUFFICES ASSUME (k + 1) + 1 <= n PROVE flatten[(k + 1) + 1] = flat[(k + 1) + 1]
      OBVIOUS
    <3>1. (k + 1) + 1 \in 1 .. n /\ (k + 1) + 1 # 1 /\ ((k + 1) + 1) - 1 = k + 1 /\ k + 1 \in 0 .. n - 1
      BY <1>1
    <3>2. flatten[k + 1] = flat[k + 1]
      BY <1>1, <2>2, <3>1
    <3> QED
      BY <1>7, <2>0, <3>1, <3>2
  <2>3. Nat \subseteq Same
    <3> HIDE DEF Same
    <3> QED
      BY <2>1, <2>2, SetInduction
  <2> TAKE i \in 1 .. n
  <2>4. i - 1 \in Nat /\ (i - 1) + 1 = i /\ i <= n
    BY <1>1
  <2>5. i - 1 \in Same
    BY <2>3, <2>4
  <2> QED
    BY <2>4, <2>5
<1>13. FlattenSeq(seqs) = flat[n]
  <2>1. CASE n = 0
    BY <1>6, <1>9, <2>1 DEF n
  <2>2. CASE n # 0
    BY <1>1, <1>9, <1>12, <2>2
  <2> QED
    BY <2>1, <2>2
<1>14. IsFlat(flat, S, seqs)
  BY <1>6, <1>7, <1>13 DEF IsFlat, n
<1> QED
  BY <1>14

(* What Walk's loop and the recursive order are made of. *)
Call     == Node \X BOOLEAN
FrameSet == [id : Node, exiting : BOOLEAN]
Walks    == [stack : Seq(FrameSet), called : Seq(Call)]
ListsAreTyped == \A p \in Node : Children(p) \in Seq(Node)

(* N[h][n] is the nested order below n, cut off h nodes down. *)
Order(x, n) ==
  <<<<n, TRUE>>>>
    \o FlattenSeq([i \in 1 .. Len(Children(n)) |-> x[Children(n)[i]]])
    \o <<<<n, FALSE>>>>
IsNested(N) ==
  /\ N \in [0 .. MaxNodes -> [Node -> Seq(Call)]]
  /\ \A h \in 0 .. MaxNodes - 1 : \A n \in Node : N[h + 1][n] = Order(N[h], n)

(* Its values are sequences of calls. *)
LEMMA OrderType ==
  ASSUME ListsAreTyped, NEW x \in [Node -> Seq(Call)], NEW n \in Node
  PROVE  /\ [i \in 1 .. Len(Children(n)) |-> x[Children(n)[i]]] \in Seq(Seq(Call))
         /\ FlattenSeq([i \in 1 .. Len(Children(n)) |-> x[Children(n)[i]]]) \in Seq(Call)
         /\ Order(x, n) \in Seq(Call)
<1> DEFINE s == Children(n)
           seqs == [i \in 1 .. Len(s) |-> x[s[i]]]
<1>1. s \in Seq(Node) /\ Len(s) \in Nat /\ \A i \in 1 .. Len(s) : s[i] \in Node
  BY DEF ListsAreTyped
<1> HIDE DEF s
<1>2. seqs \in Seq(Seq(Call)) /\ Len(seqs) = Len(s)
  BY <1>1
<1> HIDE DEF seqs
<1>3. PICK flat : IsFlat(flat, Call, seqs)
  BY <1>2, FlatExists
<1>4. FlattenSeq(seqs) \in Seq(Call)
  <2>1. Len(seqs) \in Nat /\ flat \in [0 .. Len(seqs) -> Seq(Call)] /\ FlattenSeq(seqs) = flat[Len(seqs)]
    BY <1>1, <1>2, <1>3 DEF IsFlat
  <2>2. Len(seqs) \in 0 .. Len(seqs)
    BY <2>1
  <2> QED
    BY <2>1, <2>2
<1>5. <<n, TRUE>> \in Call /\ <<n, FALSE>> \in Call
  BY DEF Call
<1> DEFINE a == <<<<n, TRUE>>>>
           b == <<<<n, FALSE>>>>
           mid == FlattenSeq(seqs)
<1>6. a \in Seq(Call) /\ b \in Seq(Call)
  BY <1>5
<1> HIDE DEF a, b, mid
<1>7. a \o mid \in Seq(Call)
  BY <1>4, <1>6, ConcatProperties DEF mid
<1>8. (a \o mid) \o b \in Seq(Call)
  BY <1>6, <1>7, ConcatProperties
<1>9. Order(x, n) = (a \o mid) \o b
  BY DEF Order, a, b, mid, seqs, s
<1> QED
  BY <1>2, <1>4, <1>8, <1>9 DEF seqs, s

(* And Nested is such a table. *)
LEMMA NestedIs ==
  ASSUME ArenaAssumption, ListsAreTyped
  PROVE  \E N : IsNested(N) /\ \A root \in Node : Nested(root) = N[MaxNodes][root]
<1> DEFINE S == [Node -> Seq(Call)]
           start == [n \in Node |-> <<>>]
           step == [x \in S |-> [n \in Node |-> Order(x, n)]]
           nested[depth \in 0 .. MaxNodes] ==
             [n \in Node |->
                IF depth = 0 THEN <<>>
                ELSE <<<<n, TRUE>>>>
                     \o FlattenSeq([i \in 1 .. Len(Children(n)) |-> nested[depth - 1][Children(n)[i]]])
                     \o <<<<n, FALSE>>>>]
           Equal(a) == a = [depth \in 0 .. MaxNodes |->
                              [n \in Node |-> IF depth = 0 THEN <<>> ELSE Order(a[depth - 1], n)]]
<1>1. MaxNodes \in Nat
  BY DEF ArenaAssumption
<1>2. nested = CHOOSE a : Equal(a)
  BY DEF Order
<1>3. \A root \in Node : Nested(root) = nested[MaxNodes][root]
  BY DEF Nested
<1> HIDE DEF nested
<1>4. start \in S
  BY EmptySeq
<1>5. step \in [S -> S]
  BY OrderType
<1>6. PICK f : Runs(f, MaxNodes, S, start, step)
  <2> HIDE DEF S, start, step
  <2> QED
    BY <1>1, <1>4, <1>5, Recursion
<1>7. f \in [0 .. MaxNodes -> S] /\ f[0] = start /\ \A i \in 0 .. MaxNodes - 1 : f[i + 1] = step[f[i]]
  BY <1>6 DEF Runs
<1>8. \A i \in 0 .. MaxNodes - 1 : f[i + 1] = [n \in Node |-> Order(f[i], n)]
  <2> TAKE i \in 0 .. MaxNodes - 1
  <2>1. i \in 0 .. MaxNodes
    BY <1>1
  <2>2. f[i] \in S /\ f[i + 1] = step[f[i]]
    BY <1>7, <2>1
  <2> QED
    BY <2>2
<1>9. Equal(f)
  <2>1. ASSUME NEW k \in 0 .. MaxNodes
        PROVE  f[k] = [n \in Node |-> IF k = 0 THEN <<>> ELSE Order(f[k - 1], n)]
    <3>1. CASE k = 0
      BY <1>7, <3>1
    <3>2. CASE k # 0
      <4>1. k - 1 \in 0 .. MaxNodes - 1 /\ (k - 1) + 1 = k
        BY <1>1, <3>2
      <4>2. f[k] = [n \in Node |-> Order(f[k - 1], n)]
        BY <1>8, <4>1
      <4> QED
        BY <3>2, <4>2
    <3> QED
      BY <3>1, <3>2
  <2>2. f = [k \in 0 .. MaxNodes |-> f[k]]
    BY <1>7
  <2> QED
    BY <2>1, <2>2
<1>10. Equal(nested)
  <2> HIDE DEF Equal
  <2> QED
    BY <1>2, <1>9
<1>11. \A k \in 0 .. MaxNodes : nested[k] = f[k]
  <2> DEFINE Same == {k \in Nat : k <= MaxNodes => nested[k] = f[k]}
  <2>0. /\ \A k \in 0 .. MaxNodes :
             nested[k] = [n \in Node |-> IF k = 0 THEN <<>> ELSE Order(nested[k - 1], n)]
        /\ \A k \in 0 .. MaxNodes : f[k] = [n \in Node |-> IF k = 0 THEN <<>> ELSE Order(f[k - 1], n)]
    BY <1>9, <1>10
  <2>1. 0 \in Same
    <3>1. 0 \in 0 .. MaxNodes
      BY <1>1
    <3> QED
      BY <2>0, <3>1
  <2>2. ASSUME NEW k \in Nat, k \in Same PROVE k + 1 \in Same
    <3> SUFFICES ASSUME k + 1 <= MaxNodes PROVE nested[k + 1] = f[k + 1]
      OBVIOUS
    <3>1. k + 1 \in 0 .. MaxNodes /\ k + 1 # 0 /\ (k + 1) - 1 = k /\ nested[k] = f[k]
      BY <1>1, <2>2
    <3>2. nested[k + 1] = [n \in Node |-> IF k + 1 = 0 THEN <<>> ELSE Order(nested[(k + 1) - 1], n)]
      BY <2>0, <3>1
    <3>3. f[k + 1] = [n \in Node |-> IF k + 1 = 0 THEN <<>> ELSE Order(f[(k + 1) - 1], n)]
      BY <2>0, <3>1
    <3> QED
      BY <3>1, <3>2, <3>3
  <2>3. Nat \subseteq Same
    <3> HIDE DEF Same
    <3> QED
      BY <2>1, <2>2, SetInduction
  <2> QED
    BY <1>1, <2>3
<1>12. IsNested(f)
  <2>1. \A h \in 0 .. MaxNodes - 1 : \A n \in Node : f[h + 1][n] = Order(f[h], n)
    BY <1>8
  <2> QED
    BY <1>7, <2>1 DEF IsNested
<1>13. MaxNodes \in 0 .. MaxNodes
  BY <1>1
<1> QED
  BY <1>3, <1>11, <1>12, <1>13

(* The lists are those of a document whose root hangs below no node.       *)
Document ==
  /\ ListsAreTyped
  /\ parent[Root] = NoNode
  /\ Root \in Node
  /\ \A p \in Node : \A i \in 1 .. Len(Children(p)) : parent[Children(p)[i]] = p
  /\ \A p \in Node : \A i, j \in 1 .. Len(Children(p)) : i # j => Children(p)[i] # Children(p)[j]
  /\ \A p \in Node : parent[p] # p
  /\ \A p \in Node : Follow(previous, last[p]) = Reverse(Children(p))

(* What the inductive invariant says of a document. *)
LEMMA DocumentNow == ASSUME ArenaAssumption, IInv, parent[Root] = NoNode PROVE Document
<1>1. Linked(Current, size) /\ Root \in Node
  BY LinkedNow DEF IInv, ArenaAssumption, Root, Node
<1>2. PICK top \in Nat, rank \in [Node -> Nat] : Ranked(Current, rank, top)
  BY DEF IInv, SiblingsFinite
<1>3. ASSUME NEW p \in Node
      PROVE  /\ IsList(Current, p, Children(p))
             /\ Follow(previous, last[p]) = Reverse(Children(p))
  <2>1. IsList(Current, p, Follow(Current.next, Current.first[p]))
    BY <1>1, <1>2, ListOfLinks
  <2>2. Follow(Current.previous, Current.last[p]) = Reverse(Follow(Current.next, Current.first[p]))
    BY <1>1, <1>2, ListBackwards
  <2> QED
    BY <2>1, <2>2 DEF Children, Current
<1>4. ASSUME NEW p \in Node
      PROVE  /\ Children(p) \in Seq(Node)
             /\ \A i \in 1 .. Len(Children(p)) : parent[Children(p)[i]] = p
             /\ \A i, j \in 1 .. Len(Children(p)) : i # j => Children(p)[i] # Children(p)[j]
  <2>1. Children(p) \in Seq(Node)
    BY <1>3 DEF IsList
  <2>2. \A i \in 1 .. Len(Children(p)) : Current.parent[Children(p)[i]] = p
    BY <1>1, <1>3, ListMembers
  <2>3. \A i, j \in 1 .. Len(Children(p)) : i # j => Children(p)[i] # Children(p)[j]
    BY <1>1, <1>3, ListDistinct
  <2> QED
    BY <2>1, <2>2, <2>3 DEF Current
<1>5. \A p \in Node : parent[p] # p
  BY <1>1 DEF Linked, Alone, Current
<1> QED
  BY <1>1, <1>3, <1>4, <1>5 DEF Document, ListsAreTyped

(* A sequence that has a last element. *)
LEMMA LastIs ==
  ASSUME NEW S, NEW s \in Seq(S), NEW x \in S
  PROVE  Last(Append(s, x)) = x /\ Front(Append(s, x)) = s
<1> DEFINE t == Append(s, x)
           n == Len(s)
<1>1. t \in Seq(S) /\ Len(t) = n + 1 /\ t[n + 1] = x /\ (\A i \in 1 .. n : t[i] = s[i]) /\ n \in Nat
  OBVIOUS
<1> HIDE DEF t
<1>2. Last(t) = x
  BY <1>1 DEF Last
<1>3. Front(t) = SubSeq(t, 1, n)
  <2>1. Len(t) - 1 = n
    BY <1>1
  <2> QED
    BY <2>1 DEF Front
<1>4. SubSeq(t, 1, n) \in Seq(S) /\ Len(SubSeq(t, 1, n)) = n /\ \A i \in 1 .. n : SubSeq(t, 1, n)[i] = t[i]
  <2>1. 1 \in Int /\ n \in Int /\ \A i \in 1 .. n : t[i] \in S
    BY <1>1
  <2>2. /\ SubSeq(t, 1, n) \in Seq(S)
        /\ Len(SubSeq(t, 1, n)) = IF 1 <= n THEN n - 1 + 1 ELSE 0
        /\ \A i \in 1 .. n - 1 + 1 : SubSeq(t, 1, n)[i] = t[1 + i - 1]
    BY <2>1, SubSeqProperties
  <2> DEFINE u == SubSeq(t, 1, n)
  <2> HIDE DEF u, n
  <2>3. u \in Seq(S) /\ Len(u) = n /\ \A i \in 1 .. n : u[i] = t[i]
    BY <1>1, <2>2 DEF u
  <2> QED
    BY <2>3 DEF u
<1>5. SubSeq(t, 1, n) = s
  BY <1>1, <1>4, SeqEqual
<1> QED
  BY <1>2, <1>3, <1>5 DEF t

(* A sequence is its front and its last element. *)
LEMMA FrontIs ==
  ASSUME NEW S, NEW s \in Seq(S), s # <<>>
  PROVE  Front(s) \in Seq(S) /\ Last(s) \in S /\ s = Append(Front(s), Last(s))
<1> DEFINE n == Len(s)
           u == SubSeq(s, 1, n - 1)
<1>1. n \in Nat \ {0} /\ s[n] \in S /\ \A i \in 1 .. n : s[i] \in S
  BY EmptySeq
<1>2. u \in Seq(S) /\ Len(u) = n - 1 /\ \A i \in 1 .. n - 1 : u[i] = s[i]
  <2>1. 1 \in Int /\ n - 1 \in Int /\ \A i \in 1 .. n - 1 : s[i] \in S
    BY <1>1
  <2>2. /\ u \in Seq(S)
        /\ Len(u) = IF 1 <= n - 1 THEN n - 1 - 1 + 1 ELSE 0
        /\ \A i \in 1 .. n - 1 - 1 + 1 : u[i] = s[1 + i - 1]
    BY <2>1, SubSeqProperties
  <2> HIDE DEF u, n
  <2> QED
    BY <1>1, <2>2
<1> DEFINE t == Append(u, s[n])
<1> HIDE DEF u
<1>3. t \in Seq(S) /\ Len(t) = (n - 1) + 1 /\ t[(n - 1) + 1] = s[n] /\ \A i \in 1 .. n - 1 : t[i] = u[i]
  <2> HIDE DEF n
  <2> QED
    BY <1>1, <1>2
<1> HIDE DEF t
<1>4. Len(t) = n /\ \A i \in 1 .. n : t[i] = s[i]
  <2> HIDE DEF n
  <2>1. (n - 1) + 1 = n /\ \A i \in 1 .. n : i = n \/ i \in 1 .. n - 1
    BY <1>1
  <2> QED
    BY <1>1, <1>2, <1>3, <2>1
<1>5. t = s
  BY <1>3, <1>4, SeqEqual
<1> QED
  BY <1>1, <1>2, <1>5 DEF Front, Last, u, t

(* Frames of a list of nodes. *)
LEMMA FramesIs ==
  ASSUME NEW s \in Seq(Node)
  PROVE  /\ Frames(s) \in Seq(FrameSet) /\ Len(Frames(s)) = Len(s)
         /\ \A i \in 1 .. Len(s) : Frames(s)[i] = Frame(s[i], FALSE)
  BY DEF Frames, Frame, FrameSet

(* A turn, in terms of the frame on top. *)
LEMMA TurnIs ==
  ASSUME Document, NEW rest \in Seq(FrameSet), NEW top \in FrameSet, NEW called \in Seq(Call)
  PROVE  LET w == [stack |-> Append(rest, top), called |-> called]
             below == Frames(Reverse(Children(top.id)))
         IN  /\ w.stack # <<>>
             /\ Turn(w) = [stack  |-> IF top.exiting THEN rest ELSE Append(rest, Frame(top.id, TRUE)) \o below,
                           called |-> Append(called, <<top.id, ~top.exiting>>)]
             /\ below \in Seq(FrameSet)
             /\ Turn(w) \in Walks
<1> DEFINE w == [stack |-> Append(rest, top), called |-> called]
           below == Frames(Reverse(Children(top.id)))
           new == [stack  |-> IF top.exiting THEN rest ELSE Append(rest, Frame(top.id, TRUE)) \o below,
                   called |-> Append(called, <<top.id, ~top.exiting>>)]
<1>1. top.id \in Node /\ top.exiting \in BOOLEAN
  BY DEF FrameSet
<1>2. Append(rest, top) # <<>>
  OBVIOUS
<1>3. Turn(w) = new
  <2>1. Last(w.stack) = top /\ Front(w.stack) = rest
    BY LastIs
  <2>2. Follow(previous, last[top.id]) = Reverse(Children(top.id))
    BY <1>1 DEF Document
  <2> QED
    BY <2>1, <2>2 DEF Turn
<1>4. below \in Seq(FrameSet)
  <2>1. Children(top.id) \in Seq(Node)
    BY <1>1 DEF Document, ListsAreTyped
  <2>2. Reverse(Children(top.id)) \in Seq(Node)
    BY <2>1, ReverseIs
  <2> QED
    BY <2>2, FramesIs
<1> HIDE DEF below
<1>5. Append(rest, Frame(top.id, TRUE)) \o below \in Seq(FrameSet)
  <2>1. Frame(top.id, TRUE) \in FrameSet
    BY <1>1 DEF Frame, FrameSet
  <2>2. Append(rest, Frame(top.id, TRUE)) \in Seq(FrameSet)
    BY <2>1, AppendProperties
  <2> QED
    BY <1>4, <2>2, ConcatProperties
<1>6. Append(called, <<top.id, ~top.exiting>>) \in Seq(Call)
  <2>1. <<top.id, ~top.exiting>> \in Call
    BY <1>1 DEF Call
  <2> QED
    BY <2>1
<1>7. new \in Walks
  BY <1>1, <1>5, <1>6 DEF Walks
<1> QED
  BY <1>2, <1>3, <1>4, <1>7 DEF below

(* The elements of a sequence, and that none is in it twice. *)
Members(s)  == {s[i] : i \in 1 .. Len(s)}
Distinct(s) == \A i, j \in 1 .. Len(s) : i # j => s[i] # s[j]

(* One element more. *)
LEMMA MembersAppend ==
  ASSUME NEW S, NEW s \in Seq(S), NEW x \in S
  PROVE  /\ Members(Append(s, x)) = Members(s) \cup {x}
         /\ Distinct(Append(s, x)) <=> Distinct(s) /\ x \notin Members(s)
<1> DEFINE t == Append(s, x)
           n == Len(s)
<1>1. Len(t) = n + 1 /\ t[n + 1] = x /\ (\A i \in 1 .. n : t[i] = s[i]) /\ n \in Nat
  OBVIOUS
<1> HIDE DEF t, n
<1>2. (\A i \in 1 .. n : i \in 1 .. n + 1 /\ i # n + 1) /\ n + 1 \in 1 .. n + 1
      /\ \A i \in 1 .. n + 1 : i = n + 1 \/ i \in 1 .. n
  BY <1>1
<1>3. Members(t) = Members(s) \cup {x}
  BY <1>1, <1>2 DEF Members, n
<1>4. ASSUME Distinct(t) PROVE Distinct(s) /\ x \notin Members(s)
  BY <1>1, <1>2, <1>4 DEF Distinct, Members, n
<1>5. ASSUME Distinct(s), x \notin Members(s) PROVE Distinct(t)
  <2> SUFFICES ASSUME NEW i \in 1 .. n + 1, NEW j \in 1 .. n + 1, i # j PROVE t[i] # t[j]
    BY <1>1 DEF Distinct
  <2>1. \A k \in 1 .. n : s[k] # x
    BY <1>5 DEF Members, n
  <2>2. \A k, m \in 1 .. n : k # m => s[k] # s[m]
    BY <1>5 DEF Distinct, n
  <2>3. CASE i = n + 1
    BY <1>1, <1>2, <2>1, <2>3
  <2>4. CASE j = n + 1
    BY <1>1, <1>2, <2>1, <2>4
  <2>5. CASE i # n + 1 /\ j # n + 1
    BY <1>1, <1>2, <2>2, <2>5
  <2> QED
    BY <2>3, <2>4, <2>5
<1> QED
  BY <1>3, <1>4, <1>5 DEF t

(* Two sequences that have no element in common. *)
LEMMA MembersConcat ==
  ASSUME NEW S, NEW s \in Seq(S), NEW t \in Seq(S)
  PROVE  /\ Members(s \o t) = Members(s) \cup Members(t)
         /\ Distinct(s) /\ Distinct(t) /\ Members(s) \cap Members(t) = {} => Distinct(s \o t)
<1> DEFINE u == s \o t
           m == Len(s)
           n == Len(t)
<1>1. /\ m \in Nat /\ n \in Nat /\ Len(u) = m + n
      /\ \A i \in 1 .. m + n : u[i] = IF i <= m THEN s[i] ELSE t[i - m]
  BY ConcatProperties
<1> HIDE DEF u, m, n
<1>2. /\ \A i \in 1 .. m : i \in 1 .. m + n /\ u[i] = s[i]
      /\ \A i \in 1 .. n : m + i \in 1 .. m + n /\ u[m + i] = t[i]
      /\ \A i \in 1 .. m + n : i \in 1 .. m \/ (i - m \in 1 .. n /\ m + (i - m) = i /\ ~(i <= m))
  <2>1. \A i \in 1 .. m : i \in 1 .. m + n /\ i <= m
    BY <1>1
  <2>2. \A i \in 1 .. n : m + i \in 1 .. m + n /\ ~(m + i <= m) /\ (m + i) - m = i
    BY <1>1
  <2>3. \A i \in 1 .. m + n : i \in 1 .. m \/ (i - m \in 1 .. n /\ m + (i - m) = i /\ ~(i <= m))
    BY <1>1
  <2> QED
    BY <1>1, <2>1, <2>2, <2>3
<1>3. Members(u) = Members(s) \cup Members(t)
  <2>1. ASSUME NEW x \in Members(u) PROVE x \in Members(s) \cup Members(t)
    <3>1. PICK i \in 1 .. m + n : x = u[i]
      BY <1>1 DEF Members
    <3>2. (i \in 1 .. m /\ x = s[i]) \/ (i - m \in 1 .. n /\ x = t[i - m])
      BY <1>1, <1>2, <3>1
    <3> QED
      BY <3>2 DEF Members, m, n
  <2>2. ASSUME NEW x \in Members(s) PROVE x \in Members(u)
    <3>1. PICK i \in 1 .. m : x = s[i]
      BY DEF Members, m
    <3> QED
      BY <1>1, <1>2, <3>1 DEF Members
  <2>3. ASSUME NEW x \in Members(t) PROVE x \in Members(u)
    <3>1. PICK i \in 1 .. n : x = t[i]
      BY DEF Members, n
    <3> QED
      BY <1>1, <1>2, <3>1 DEF Members
  <2> QED
    BY <2>1, <2>2, <2>3
<1>4. ASSUME Distinct(s), Distinct(t), Members(s) \cap Members(t) = {} PROVE Distinct(u)
  <2>1. /\ \A k, l \in 1 .. m : k # l => s[k] # s[l]
        /\ \A k, l \in 1 .. n : k # l => t[k] # t[l]
        /\ \A k \in 1 .. m : \A l \in 1 .. n : s[k] # t[l]
    BY <1>4 DEF Distinct, Members, m, n
  <2> SUFFICES ASSUME NEW i \in 1 .. m + n, NEW j \in 1 .. m + n, i # j PROVE u[i] # u[j]
    BY <1>1 DEF Distinct
  <2>2. ASSUME NEW k \in 1 .. m + n
        PROVE  (k \in 1 .. m /\ u[k] = s[k]) \/ (k - m \in 1 .. n /\ ~(k \in 1 .. m) /\ u[k] = t[k - m])
    BY <1>1, <1>2
  <2>3. i - m # j - m
    BY <1>1
  <2> QED
    BY <2>1, <2>2, <2>3
<1> QED
  BY <1>3, <1>4 DEF u

(* A sequence without repetition is no longer than there are elements.     *)
LEMMA DistinctShort ==
  ASSUME NEW S, IsFiniteSet(S), NEW s \in Seq(S), Distinct(s)
  PROVE  Len(s) <= Cardinality(S)
<1> SUFFICES ASSUME ~(Len(s) <= Cardinality(S)) PROVE FALSE
  OBVIOUS
<1> DEFINE D == 1 .. Len(s)
<1>1. Len(s) \in Nat /\ Cardinality(S) \in Nat /\ s \in [D -> S]
  <2>1. Cardinality(S) \in Nat
    BY FS_CardinalityType
  <2>2. Len(s) \in Nat /\ s \in [1 .. Len(s) -> S]
    BY LenProperties
  <2> QED
    BY <2>1, <2>2
<1>2. IsFiniteSet(D) /\ Cardinality(D) = Len(s)
  <2> DEFINE n == Len(s)
  <2>1. n \in Nat /\ 1 \in Int /\ n \in Int
    BY <1>1
  <2> HIDE DEF n
  <2>2. IsFiniteSet(1 .. n) /\ Cardinality(1 .. n) = n
    BY <2>1, FS_Interval
  <2> QED
    BY <2>2 DEF n
<1>3. Cardinality(S) < Cardinality(D)
  BY <1>1, <1>2
<1>4. \E x, y \in D : x # y /\ s[x] = s[y]
  <2> HIDE DEF D
  <2> QED
    BY <1>1, <1>2, <1>3, FS_PigeonHole
<1> QED
  BY <1>4 DEF Distinct

(* What Walk has still to call and what it has called do not overlap: it   *)
(* has entered whatever is above a node it has met, and never meets a node *)
(* twice.                                                                  *)
Entered(n, C) == <<n, TRUE>> \in C
MetFromAbove(n, C) == n = Root \/ Entered(parent[n], C)

Fresh(w) ==
  LET C == Members(w.called)
      F == Members(w.stack)
  IN  /\ Distinct(w.called) /\ Distinct(w.stack)
      /\ \A n \in Node : Frame(n, FALSE) \in F => ~Entered(n, C) /\ MetFromAbove(n, C)
      /\ \A n \in Node : Frame(n, TRUE) \in F => <<n, FALSE>> \notin C /\ Entered(n, C)
      /\ \A n \in Node : <<n, FALSE>> \in C => Entered(n, C)
      /\ \A n \in Node : Entered(n, C) => MetFromAbove(n, C)

(* Frames and calls of a node. *)
LEMMA FrameFacts ==
  ASSUME NEW n \in Node
  PROVE  /\ Frame(n, TRUE) \in FrameSet /\ Frame(n, FALSE) \in FrameSet
         /\ Frame(n, TRUE).id = n /\ Frame(n, FALSE).id = n
         /\ Frame(n, TRUE).exiting = TRUE /\ Frame(n, FALSE).exiting = FALSE
         /\ <<n, TRUE>> \in Call /\ <<n, FALSE>> \in Call
  BY DEF Frame, FrameSet, Call

(* They tell nodes, and entering from leaving, apart. *)
LEMMA FrameInjective ==
  ASSUME NEW m \in Node, NEW n \in Node
  PROVE  /\ Frame(m, FALSE) # Frame(n, TRUE)
         /\ Frame(m, FALSE) = Frame(n, FALSE) => m = n
         /\ Frame(m, TRUE) = Frame(n, TRUE) => m = n
         /\ <<m, FALSE>> # <<n, TRUE>>
         /\ <<m, FALSE>> = <<n, FALSE>> => m = n
         /\ <<m, TRUE>> = <<n, TRUE>> => m = n
  BY DEF Frame

(* Leaving a node. *)
LEMMA FreshLeave ==
  ASSUME Document, NEW rest \in Seq(FrameSet), NEW called \in Seq(Call), NEW n \in Node,
         Fresh([stack |-> Append(rest, Frame(n, TRUE)), called |-> called])
  PROVE  Fresh([stack |-> rest, called |-> Append(called, <<n, FALSE>>)])
<1> DEFINE C == Members(called)
           F == Members(rest)
           C1 == Members(Append(called, <<n, FALSE>>))
           F0 == Members(Append(rest, Frame(n, TRUE)))
<1>1. Frame(n, TRUE) \in FrameSet /\ <<n, FALSE>> \in Call
  BY FrameFacts
<1>2. F0 = F \cup {Frame(n, TRUE)} /\ Distinct(rest) /\ Frame(n, TRUE) \notin F
  <2>1. Distinct(Append(rest, Frame(n, TRUE)))
    BY DEF Fresh
  <2> DEFINE f == Frame(n, TRUE)
  <2>2. f \in FrameSet
    BY <1>1
  <2> HIDE DEF f
  <2>3. /\ Members(Append(rest, f)) = Members(rest) \cup {f}
        /\ Distinct(Append(rest, f)) <=> Distinct(rest) /\ f \notin Members(rest)
    BY <2>2, MembersAppend
  <2> QED
    BY <2>1, <2>3 DEF f
<1>3. /\ Distinct(called)
      /\ \A m \in Node : Frame(m, FALSE) \in F0 => ~Entered(m, C) /\ MetFromAbove(m, C)
      /\ \A m \in Node : Frame(m, TRUE) \in F0 => <<m, FALSE>> \notin C /\ Entered(m, C)
      /\ \A m \in Node : <<m, FALSE>> \in C => Entered(m, C)
      /\ \A m \in Node : Entered(m, C) => MetFromAbove(m, C)
  BY DEF Fresh
<1>4. /\ C1 = C \cup {<<n, FALSE>>}
      /\ Distinct(Append(called, <<n, FALSE>>)) <=> Distinct(called) /\ <<n, FALSE>> \notin C
  <2> DEFINE c == <<n, FALSE>>
  <2>1. c \in Call
    BY <1>1
  <2> HIDE DEF c
  <2>2. /\ Members(Append(called, c)) = Members(called) \cup {c}
        /\ Distinct(Append(called, c)) <=> Distinct(called) /\ c \notin Members(called)
    BY <2>1, MembersAppend
  <2> QED
    BY <2>2 DEF c
<1>5. Distinct(Append(called, <<n, FALSE>>))
  BY <1>2, <1>3, <1>4
<1> HIDE DEF C, F, C1, F0
<1>6. \A m : Entered(m, C1) <=> Entered(m, C)
  <2>1. \A m : <<m, TRUE>> # <<n, FALSE>>
    OBVIOUS
  <2> QED
    BY <1>4, <2>1 DEF Entered
<1>7. \A m \in Node : MetFromAbove(m, C1) <=> MetFromAbove(m, C)
  BY <1>6 DEF MetFromAbove
<1>8. ASSUME NEW m \in Node
      PROVE  /\ Frame(m, FALSE) \in F => ~Entered(m, C1) /\ MetFromAbove(m, C1)
             /\ Frame(m, TRUE) \in F => <<m, FALSE>> \notin C1 /\ Entered(m, C1)
             /\ <<m, FALSE>> \in C1 => Entered(m, C1)
             /\ Entered(m, C1) => MetFromAbove(m, C1)
  <2>1. Frame(m, TRUE) \in F => m # n
    BY <1>2
  <2>2. <<m, FALSE>> = <<n, FALSE>> => m = n
    OBVIOUS
  <2>3. Entered(n, C)
    BY <1>2, <1>3
  <2>4. <<m, FALSE>> \in C1 <=> <<m, FALSE>> \in C \/ m = n
    BY <1>4, <2>2
  <2> QED
    BY <1>2, <1>3, <1>6, <1>7, <2>1, <2>3, <2>4
<1> QED
  BY <1>2, <1>5, <1>8 DEF Fresh, C1, F

(* Entering one. *)
LEMMA FreshEnter ==
  ASSUME Document, NEW rest \in Seq(FrameSet), NEW called \in Seq(Call), NEW n \in Node,
         Fresh([stack |-> Append(rest, Frame(n, FALSE)), called |-> called])
  PROVE  Fresh([stack  |-> Append(rest, Frame(n, TRUE)) \o Frames(Reverse(Children(n))),
                called |-> Append(called, <<n, TRUE>>)])
<1> DEFINE s == Children(n)
           t == Reverse(s)
           below == Frames(t)
           base == Append(rest, Frame(n, TRUE))
           C == Members(called)
           F == Members(rest)
           C1 == Members(Append(called, <<n, TRUE>>))
           F0 == Members(Append(rest, Frame(n, FALSE)))
           F1 == Members(base \o below)
<1>1. Frame(n, TRUE) \in FrameSet /\ Frame(n, FALSE) \in FrameSet /\ <<n, TRUE>> \in Call
  BY FrameFacts
<1>2. F0 = F \cup {Frame(n, FALSE)} /\ Distinct(rest) /\ Frame(n, FALSE) \notin F
  <2>1. Distinct(Append(rest, Frame(n, FALSE)))
    BY DEF Fresh
  <2> DEFINE f == Frame(n, FALSE)
  <2>2. f \in FrameSet
    BY <1>1
  <2> HIDE DEF f
  <2>3. /\ Members(Append(rest, f)) = Members(rest) \cup {f}
        /\ Distinct(Append(rest, f)) <=> Distinct(rest) /\ f \notin Members(rest)
    BY <2>2, MembersAppend
  <2> QED
    BY <2>1, <2>3 DEF f
<1>3. /\ Distinct(called)
      /\ \A m \in Node : Frame(m, FALSE) \in F0 => ~Entered(m, C) /\ MetFromAbove(m, C)
      /\ \A m \in Node : Frame(m, TRUE) \in F0 => <<m, FALSE>> \notin C /\ Entered(m, C)
      /\ \A m \in Node : <<m, FALSE>> \in C => Entered(m, C)
      /\ \A m \in Node : Entered(m, C) => MetFromAbove(m, C)
  BY DEF Fresh
<1>4. /\ C1 = C \cup {<<n, TRUE>>}
      /\ Distinct(Append(called, <<n, TRUE>>)) <=> Distinct(called) /\ <<n, TRUE>> \notin C
  <2> DEFINE c == <<n, TRUE>>
  <2>1. c \in Call
    BY <1>1
  <2> HIDE DEF c
  <2>2. /\ Members(Append(called, c)) = Members(called) \cup {c}
        /\ Distinct(Append(called, c)) <=> Distinct(called) /\ c \notin Members(called)
    BY <2>1, MembersAppend
  <2> QED
    BY <2>2 DEF c
<1>5. ~Entered(n, C) /\ MetFromAbove(n, C)
  BY <1>2, <1>3
<1>6. Distinct(Append(called, <<n, TRUE>>))
  BY <1>3, <1>4, <1>5 DEF Entered
<1>7. /\ s \in Seq(Node)
      /\ \A i \in 1 .. Len(s) : s[i] \in Node /\ parent[s[i]] = n
      /\ \A i, j \in 1 .. Len(s) : i # j => s[i] # s[j]
  BY DEF Document, ListsAreTyped
<1>8. t \in Seq(Node) /\ Len(t) = Len(s)
      /\ \A i \in 1 .. Len(s) : t[i] = s[(Len(s) - i) + 1] /\ (Len(s) - i) + 1 \in 1 .. Len(s)
  BY <1>7, ReverseIs
<1> HIDE DEF s
<1>9. /\ \A i \in 1 .. Len(t) : t[i] \in Node /\ parent[t[i]] = n
      /\ \A i, j \in 1 .. Len(t) : i # j => t[i] # t[j]
  <2>1. \A i, j \in 1 .. Len(t) : i # j => (Len(s) - i) + 1 # (Len(s) - j) + 1
    <3>1. Len(s) \in Nat
      BY <1>7
    <3> QED
      BY <1>8, <3>1
  <2>2. ASSUME NEW i \in 1 .. Len(t)
        PROVE  /\ t[i] \in Node /\ parent[t[i]] = n
               /\ t[i] = s[(Len(s) - i) + 1] /\ (Len(s) - i) + 1 \in 1 .. Len(s)
    BY <1>7, <1>8
  <2>3. ASSUME NEW i \in 1 .. Len(t), NEW j \in 1 .. Len(t), i # j PROVE t[i] # t[j]
    <3> DEFINE k == (Len(s) - i) + 1
               l == (Len(s) - j) + 1
    <3>1. k # l
      BY <2>1, <2>3
    <3>2. k \in 1 .. Len(s) /\ l \in 1 .. Len(s) /\ t[i] = s[k] /\ t[j] = s[l]
      BY <2>2
    <3> HIDE DEF k, l
    <3> QED
      BY <1>7, <3>1, <3>2
  <2> QED
    BY <2>2, <2>3
<1> HIDE DEF t
<1>10. below \in Seq(FrameSet) /\ Len(below) = Len(t) /\ \A i \in 1 .. Len(t) : below[i] = Frame(t[i], FALSE)
  BY <1>8, FramesIs
<1> HIDE DEF below
<1>11. Distinct(below)
  <2>1. ASSUME NEW i \in 1 .. Len(t), NEW j \in 1 .. Len(t), i # j PROVE below[i] # below[j]
    <3>1. t[i] \in Node /\ t[j] \in Node /\ t[i] # t[j]
      BY <1>9, <2>1
    <3>2. Frame(t[i], FALSE) # Frame(t[j], FALSE)
      BY <3>1, FrameInjective
    <3> QED
      BY <1>10, <3>2
  <2> QED
    BY <1>10, <2>1 DEF Distinct
<1>12. \A f \in Members(below) : \E m \in Node : f = Frame(m, FALSE) /\ parent[m] = n
  <2> TAKE f \in Members(below)
  <2>1. PICK i \in 1 .. Len(t) : f = below[i]
    BY <1>10 DEF Members
  <2> QED
    BY <1>9, <1>10, <2>1
<1>13. n # NoNode /\ n \in Node /\ parent[Root] = NoNode /\ parent[n] # n
  BY DEF Document, Node, NoNode
<1>14. base \in Seq(FrameSet) /\ Members(base) = F \cup {Frame(n, TRUE)} /\ Distinct(base)
  <2>1. Frame(n, TRUE) \notin F
    BY <1>2, <1>3, <1>5
  <2> QED
    <3> DEFINE f == Frame(n, TRUE)
    <3>1. f \in FrameSet
      BY <1>1
    <3> HIDE DEF f
    <3>2. /\ Members(Append(rest, f)) = Members(rest) \cup {f}
          /\ Distinct(Append(rest, f)) <=> Distinct(rest) /\ f \notin Members(rest)
      BY <3>1, MembersAppend
    <3>3. Append(rest, f) \in Seq(FrameSet)
      BY <3>1, AppendProperties
    <3> QED
      BY <1>2, <2>1, <3>2, <3>3 DEF f
<1> HIDE DEF C, F, C1, F0, base
<1>15. ASSUME NEW m \in Node, parent[m] = n PROVE ~Entered(m, C) /\ Frame(m, FALSE) \notin F /\ m # n
  <2>1. m # Root
    BY <1>13, <1>15
  <2>2. ~MetFromAbove(m, C)
    BY <1>5, <1>15, <2>1 DEF MetFromAbove
  <2> QED
    BY <1>2, <1>3, <1>13, <1>15, <2>2
<1>16. Members(base) \cap Members(below) = {}
  <2> SUFFICES ASSUME NEW f \in Members(base), f \in Members(below) PROVE FALSE
    OBVIOUS
  <2>1. PICK m \in Node : f = Frame(m, FALSE) /\ parent[m] = n
    BY <1>12
  <2> QED
    BY <1>14, <1>15, <2>1, FrameInjective
<1>17. F1 = Members(base) \cup Members(below) /\ Distinct(base \o below)
  BY <1>10, <1>11, <1>14, <1>16, MembersConcat
<1> HIDE DEF F1
<1>18. \A m \in Node : Entered(m, C1) <=> Entered(m, C) \/ m = n
  <2>1. \A m \in Node : <<m, TRUE>> = <<n, TRUE>> <=> m = n
    OBVIOUS
  <2> QED
    BY <1>4, <2>1 DEF Entered
<1>19. ASSUME NEW m \in Node
       PROVE  (MetFromAbove(m, C) => MetFromAbove(m, C1)) /\ (parent[m] = n => MetFromAbove(m, C1))
  BY <1>4 DEF MetFromAbove, Entered
<1>20. ASSUME NEW m \in Node
       PROVE  /\ Frame(m, FALSE) \in F1 => ~Entered(m, C1) /\ MetFromAbove(m, C1)
              /\ Frame(m, TRUE) \in F1 => <<m, FALSE>> \notin C1 /\ Entered(m, C1)
              /\ <<m, FALSE>> \in C1 => Entered(m, C1)
              /\ Entered(m, C1) => MetFromAbove(m, C1)
  <2>1. <<m, FALSE>> \in C1 <=> <<m, FALSE>> \in C
    BY <1>4, FrameInjective
  <2>2. Frame(m, FALSE) \in F1 => Frame(m, FALSE) \in F \/ parent[m] = n
    <3>1. Frame(m, FALSE) # Frame(n, TRUE)
      BY FrameInjective
    <3>2. Frame(m, FALSE) \in Members(below) => parent[m] = n
      BY <1>12, FrameInjective
    <3> QED
      BY <1>14, <1>17, <3>1, <3>2
  <2>3. Frame(m, TRUE) \in F1 => Frame(m, TRUE) \in F \/ m = n
    <3>1. Frame(m, TRUE) \notin Members(below)
      BY <1>12, FrameInjective
    <3> QED
      BY <1>14, <1>17, <3>1, FrameInjective
  <2>4. Frame(m, FALSE) \in F1 => ~Entered(m, C1) /\ MetFromAbove(m, C1)
    <3>1. Frame(m, FALSE) \in F => m # n
      BY <1>2
    <3> QED
      BY <1>2, <1>3, <1>15, <1>18, <1>19, <2>2, <3>1
  <2>5. Frame(m, TRUE) \in F1 => <<m, FALSE>> \notin C1 /\ Entered(m, C1)
    <3>1. m = n => <<m, FALSE>> \notin C
      BY <1>3, <1>5
    <3> QED
      BY <1>2, <1>3, <1>18, <2>1, <2>3, <3>1
  <2>6. <<m, FALSE>> \in C1 => Entered(m, C1)
    BY <1>3, <1>18, <2>1
  <2>7. Entered(m, C1) => MetFromAbove(m, C1)
    BY <1>3, <1>5, <1>18, <1>19
  <2> QED
    BY <2>4, <2>5, <2>6, <2>7
<1> QED
  BY <1>6, <1>17, <1>20 DEF Fresh, C1, F1, base, below, t, s

(* Walk, turn by turn, for as many turns as one cares to make. *)
Begin == [stack |-> <<Frame(Root, FALSE)>>, called |-> <<>>]
IsWalk(W, most) ==
  /\ W \in [0 .. most -> Walks]
  /\ W[0] = Begin
  /\ \A i \in 0 .. most - 1 : W[i + 1] = IF W[i].stack = <<>> THEN W[i] ELSE Turn(W[i])

(* A turn calls once, and leaves a fresh walk fresh. *)
LEMMA TurnCalls ==
  ASSUME Document, NEW w \in Walks, w.stack # <<>>
  PROVE  /\ Turn(w) \in Walks
         /\ Len(Turn(w).called) = Len(w.called) + 1
         /\ Fresh(w) => Fresh(Turn(w))
<1> DEFINE rest == Front(w.stack)
           top == Last(w.stack)
           called == w.called
           v == [stack |-> Append(rest, top), called |-> called]
           below == Frames(Reverse(Children(top.id)))
<1>1. w.stack \in Seq(FrameSet) /\ called \in Seq(Call)
  BY DEF Walks
<1>2. rest \in Seq(FrameSet) /\ top \in FrameSet /\ w.stack = Append(rest, top)
  BY <1>1, FrontIs
<1>3. w = [stack |-> w.stack, called |-> w.called]
  BY DEF Walks
<1>4. w = v
  BY <1>2, <1>3
<1>5. /\ Turn(v) = [stack  |-> IF top.exiting THEN rest ELSE Append(rest, Frame(top.id, TRUE)) \o below,
                    called |-> Append(called, <<top.id, ~top.exiting>>)]
      /\ Turn(v) \in Walks
  <2> HIDE DEF rest, top, called
  <2> QED
    BY <1>1, <1>2, TurnIs
<1>6. top.id \in Node /\ top.exiting \in BOOLEAN /\ top = [id |-> top.id, exiting |-> top.exiting]
  BY <1>2 DEF FrameSet
<1>7. top = Frame(top.id, top.exiting)
  BY <1>6 DEF Frame
<1>8. Len(Append(called, <<top.id, ~top.exiting>>)) = Len(called) + 1
  BY <1>1
<1> HIDE DEF rest, top, called, below
<1>9. ASSUME Fresh(v) PROVE Fresh(Turn(v))
  <2>1. CASE top.exiting = TRUE
    <3>1. v = [stack |-> Append(rest, Frame(top.id, TRUE)), called |-> called]
      BY <1>7, <2>1
    <3>2. Fresh([stack |-> rest, called |-> Append(called, <<top.id, FALSE>>)])
      BY <1>1, <1>2, <1>6, <1>9, <3>1, FreshLeave
    <3>3. Turn(v) = [stack |-> rest, called |-> Append(called, <<top.id, FALSE>>)]
      BY <1>5, <2>1
    <3> QED
      BY <3>2, <3>3
  <2>2. CASE top.exiting = FALSE
    <3>1. v = [stack |-> Append(rest, Frame(top.id, FALSE)), called |-> called]
      BY <1>7, <2>2
    <3>2. Fresh([stack  |-> Append(rest, Frame(top.id, TRUE)) \o Frames(Reverse(Children(top.id))),
                 called |-> Append(called, <<top.id, TRUE>>)])
      BY <1>1, <1>2, <1>6, <1>9, <3>1, FreshEnter
    <3>3. Turn(v) = [stack  |-> Append(rest, Frame(top.id, TRUE)) \o below,
                     called |-> Append(called, <<top.id, TRUE>>)]
      BY <1>5, <2>2
    <3> QED
      BY <3>2, <3>3 DEF below
  <2> QED
    BY <1>6, <2>1, <2>2
<1> DEFINE more == Append(called, <<top.id, ~top.exiting>>)
           left == IF top.exiting THEN rest ELSE Append(rest, Frame(top.id, TRUE)) \o below
<1>10. Turn(v).called = more
  <2>1. Turn(v) = [stack |-> left, called |-> more]
    BY <1>5
  <2> HIDE DEF v, left, more
  <2> QED
    BY <2>1
<1>11. Len(Turn(v).called) = Len(called) + 1
  BY <1>8, <1>10
<1>12. Turn(v) \in Walks
  BY <1>5
<1> HIDE DEF v, more, left
<1>13. Turn(w) = Turn(v) /\ Fresh(w) = Fresh(v) /\ w.called = called
  BY <1>4 DEF called
<1> QED
  BY <1>9, <1>11, <1>12, <1>13

(* Walk begins with the frame of the root and no call. *)
LEMMA BeginType == ASSUME Root \in Node PROVE Begin \in Walks /\ Fresh(Begin)
<1>1. Frame(Root, FALSE) \in FrameSet
  BY FrameFacts
<1>2. <<Frame(Root, FALSE)>> \in Seq(FrameSet) /\ <<>> \in Seq(Call)
  <2> DEFINE f == Frame(Root, FALSE)
  <2>1. f \in FrameSet
    BY <1>1
  <2> HIDE DEF f
  <2>2. <<f>> \in Seq(FrameSet)
    BY <2>1
  <2>3. <<>> \in Seq(Call)
    OBVIOUS
  <2> QED
    BY <2>2, <2>3 DEF f
<1>3. Begin \in Walks
  <2> DEFINE st == <<Frame(Root, FALSE)>>
  <2>1. st \in Seq(FrameSet)
    BY <1>2
  <2> HIDE DEF st
  <2>2. [stack |-> st, called |-> <<>>] \in Walks
    BY <1>2, <2>1 DEF Walks
  <2> QED
    BY <2>2 DEF Begin, st
<1>4. Members(<<>>) = {} /\ Distinct(<<>>)
  <2>1. Len(<<>>) = 0 /\ 1 .. 0 = {}
    OBVIOUS
  <2> QED
    BY <2>1 DEF Members, Distinct
<1> DEFINE f == Frame(Root, FALSE)
<1>5. Members(<<f>>) = {f} /\ Distinct(<<f>>)
  <2> HIDE DEF f
  <2>1. Len(<<f>>) = 1 /\ <<f>>[1] = f /\ 1 .. 1 = {1}
    OBVIOUS
  <2> QED
    BY <2>1 DEF Members, Distinct
<1>6. ASSUME NEW n \in Node
      PROVE  /\ Frame(n, FALSE) = f => ~Entered(n, {}) /\ MetFromAbove(n, {})
             /\ Frame(n, TRUE) # f
             /\ ~Entered(n, {})
  BY FrameInjective DEF Entered, MetFromAbove
<1> HIDE DEF f
<1>7. Fresh([stack |-> <<f>>, called |-> <<>>])
  BY <1>4, <1>5, <1>6 DEF Fresh
<1> QED
  BY <1>3, <1>7 DEF Begin, f

(* It can take any number of turns. *)
LEMMA WalkExists == ASSUME Document, NEW most \in Nat PROVE \E W : IsWalk(W, most)
<1> DEFINE After(x) == IF x.stack = <<>> THEN x ELSE Turn(x)
           step == [x \in Walks |-> After(x)]
<1>1. step \in [Walks -> Walks]
  <2>1. ASSUME NEW x \in Walks PROVE After(x) \in Walks
    BY TurnCalls
  <2> HIDE DEF After
  <2> QED
    BY <2>1
<1>2. Begin \in Walks
  BY BeginType DEF Document
<1>3. PICK f : Runs(f, most, Walks, Begin, step)
  <2> HIDE DEF step
  <2> QED
    BY <1>1, <1>2, Recursion
<1>4. f \in [0 .. most -> Walks] /\ f[0] = Begin /\ \A i \in 0 .. most - 1 : f[i + 1] = step[f[i]]
  BY <1>3 DEF Runs
<1>5. ASSUME NEW i \in 0 .. most - 1 PROVE f[i + 1] = IF f[i].stack = <<>> THEN f[i] ELSE Turn(f[i])
  <2>1. i \in 0 .. most
    OBVIOUS
  <2>2. f[i] \in Walks
    BY <1>4, <2>1
  <2> QED
    BY <1>4, <2>2
<1>6. IsWalk(f, most)
  BY <1>4, <1>5 DEF IsWalk
<1> QED
  BY <1>6

(* Walk stops after as many turns as it may need. *)
LEMMA WalkIs ==
  ASSUME ArenaAssumption, NEW most \in Nat, 2 * MaxNodes <= most, NEW W, IsWalk(W, most)
  PROVE  Walk(Root) = W[2 * MaxNodes]
<1> DEFINE M == 2 * MaxNodes
           walk[turn \in 0 .. M] ==
             IF turn = 0 THEN [stack |-> <<Frame(Root, FALSE)>>, called |-> <<>>]
             ELSE IF walk[turn - 1].stack = <<>> THEN walk[turn - 1]
             ELSE Turn(walk[turn - 1])
           After(x) == IF x.stack = <<>> THEN x ELSE Turn(x)
           Equal(a) == a = [turn \in 0 .. M |-> IF turn = 0 THEN Begin ELSE After(a[turn - 1])]
<1>1. M \in Nat /\ M <= most
  BY DEF ArenaAssumption
<1>2. walk = CHOOSE a : Equal(a)
  BY DEF Begin
<1>3. Walk(Root) = walk[M]
  BY DEF Walk
<1> HIDE DEF walk, M
<1>4. /\ W[0] = Begin
      /\ \A i \in 0 .. most - 1 : W[i + 1] = After(W[i])
  BY DEF IsWalk
<1> HIDE DEF After
<1> DEFINE f == [i \in 0 .. M |-> W[i]]
<1>5. Equal(f)
  <2>1. ASSUME NEW k \in 0 .. M
        PROVE  f[k] = IF k = 0 THEN Begin ELSE After(f[k - 1])
    <3>1. CASE k = 0
      BY <1>4, <3>1
    <3>2. CASE k # 0
      <4>1. k - 1 \in 0 .. most - 1 /\ k - 1 \in 0 .. M /\ (k - 1) + 1 = k
        BY <1>1, <3>2
      <4>2. W[k] = After(W[k - 1])
        BY <1>4, <4>1
      <4> QED
        BY <3>2, <4>1, <4>2
    <3> QED
      BY <3>1, <3>2
  <2>2. f = [k \in 0 .. M |-> f[k]]
    OBVIOUS
  <2> HIDE DEF f
  <2>3. f = [k \in 0 .. M |-> IF k = 0 THEN Begin ELSE After(f[k - 1])]
    BY <2>1, <2>2
  <2> QED
    BY <2>3
<1>6. Equal(walk)
  <2> HIDE DEF Equal, f
  <2> QED
    BY <1>2, <1>5
<1>7. Nat \subseteq {k \in Nat : k <= M => walk[k] = W[k]}
  <2> DEFINE Same == {k \in Nat : k <= M => walk[k] = W[k]}
  <2>0. \A k \in 0 .. M : walk[k] = IF k = 0 THEN Begin ELSE After(walk[k - 1])
    BY <1>6
  <2>1. 0 \in Same
    <3>1. 0 \in 0 .. M
      BY <1>1
    <3> QED
      BY <1>4, <2>0, <3>1
  <2>2. ASSUME NEW k \in Nat, k \in Same PROVE k + 1 \in Same
    <3> SUFFICES ASSUME k + 1 <= M PROVE walk[k + 1] = W[k + 1]
      OBVIOUS
    <3>1. k + 1 \in 0 .. M /\ k + 1 # 0 /\ (k + 1) - 1 = k /\ walk[k] = W[k] /\ k \in 0 .. most - 1
      BY <1>1, <2>2
    <3>2. walk[k + 1] = IF k + 1 = 0 THEN Begin ELSE After(walk[(k + 1) - 1])
      BY <2>0, <3>1
    <3>3. W[k + 1] = After(W[k])
      BY <1>4, <3>1
    <3> QED
      BY <3>1, <3>2, <3>3
  <2> HIDE DEF Same
  <2>3. Nat \subseteq Same
    BY <2>1, <2>2, SetInduction
  <2> QED
    BY <2>3 DEF Same
<1>8. walk[M] = W[M]
  BY <1>1, <1>7
<1> QED
  BY <1>3, <1>8 DEF M

(* Once its stack is empty, Walk has nothing more to do. *)
LEMMA StaysEmpty ==
  ASSUME NEW most \in Nat, NEW W, IsWalk(W, most), NEW i \in 0 .. most, W[i].stack = <<>>
  PROVE  \A j \in i .. most : W[j] = W[i]
<1> DEFINE Same == {k \in Nat : i + k <= most => W[i + k] = W[i]}
<1>1. 0 \in Same
  BY DEF IsWalk
<1>2. ASSUME NEW k \in Nat, k \in Same PROVE k + 1 \in Same
  <2> SUFFICES ASSUME i + (k + 1) <= most PROVE W[i + (k + 1)] = W[i]
    OBVIOUS
  <2>1. i + k \in 0 .. most - 1 /\ i + (k + 1) = (i + k) + 1 /\ W[i + k] = W[i]
    BY <1>2
  <2>2. W[(i + k) + 1] = W[i + k]
    BY <2>1 DEF IsWalk
  <2> QED
    BY <2>1, <2>2
<1>3. Nat \subseteq Same
  <2> HIDE DEF Same
  <2> QED
    BY <1>1, <1>2, SetInduction
<1> TAKE j \in i .. most
<1>4. j - i \in Nat /\ i + (j - i) = j /\ j <= most
  OBVIOUS
<1>5. j - i \in Same
  BY <1>3, <1>4
<1> QED
  BY <1>4, <1>5

(* Each node is entered and left once, so there are that many calls. *)
LEMMA CallsAreFew == ASSUME ArenaAssumption PROVE IsFiniteSet(Call) /\ Cardinality(Call) = 2 * MaxNodes
<1>1. MaxNodes \in Nat /\ 1 \in Int /\ MaxNodes \in Int
  BY DEF ArenaAssumption
<1>2. IsFiniteSet(Node) /\ Cardinality(Node) = MaxNodes
  BY <1>1, FS_Interval DEF Node
<1>3. IsFiniteSet(BOOLEAN) /\ Cardinality(BOOLEAN) = 2
  <2>1. IsFiniteSet({TRUE}) /\ Cardinality({TRUE}) = 1
    BY FS_Singleton
  <2>2. IsFiniteSet({TRUE} \cup {FALSE}) /\ Cardinality({TRUE} \cup {FALSE}) = 1 + 1
    <3>1. FALSE \notin {TRUE}
      OBVIOUS
    <3>2. /\ IsFiniteSet({TRUE} \cup {FALSE})
          /\ Cardinality({TRUE} \cup {FALSE}) = Cardinality({TRUE}) + 1
      BY <2>1, <3>1, FS_AddElement, Zenon
    <3> QED
      BY <2>1, <3>2
  <2>3. BOOLEAN = {TRUE} \cup {FALSE}
    OBVIOUS
  <2>4. IsFiniteSet(BOOLEAN) /\ Cardinality(BOOLEAN) = 1 + 1
    BY <2>2, <2>3, Zenon
  <2> QED
    BY <2>4
<1>4. IsFiniteSet(Call) /\ Cardinality(Call) = Cardinality(Node) * Cardinality(BOOLEAN)
  BY <1>2, <1>3, FS_Product DEF Call
<1> QED
  BY <1>1, <1>2, <1>3, <1>4

(* So its stack is empty when as many turns are made. *)
LEMMA WalkEnds ==
  ASSUME ArenaAssumption, Document, NEW most \in Nat, 2 * MaxNodes <= most, NEW W, IsWalk(W, most)
  PROVE  W[2 * MaxNodes].stack = <<>>
<1> DEFINE M == 2 * MaxNodes
           Good == {k \in Nat : k <= M => Fresh(W[k]) /\ (W[k].stack = <<>> \/ Len(W[k].called) = k)}
<1>1. M \in Nat /\ M <= most
  BY DEF ArenaAssumption
<1>2. W \in [0 .. most -> Walks] /\ W[0] = Begin
      /\ \A i \in 0 .. most - 1 : W[i + 1] = IF W[i].stack = <<>> THEN W[i] ELSE Turn(W[i])
  BY DEF IsWalk
<1> HIDE DEF M
<1>3. 0 \in Good
  <2>1. Fresh(Begin)
    BY BeginType DEF Document
  <2>2. Len(Begin.called) = 0
    <3> DEFINE st == <<Frame(Root, FALSE)>>
    <3> HIDE DEF st
    <3>1. [stack |-> st, called |-> <<>>].called = <<>>
      OBVIOUS
    <3> QED
      BY <3>1 DEF Begin, st
  <2> QED
    BY <1>2, <2>1, <2>2
<1>4. ASSUME NEW k \in Nat, k \in Good PROVE k + 1 \in Good
  <2> SUFFICES ASSUME k + 1 <= M
               PROVE  Fresh(W[k + 1]) /\ (W[k + 1].stack = <<>> \/ Len(W[k + 1].called) = k + 1)
    OBVIOUS
  <2>1. k \in 0 .. most /\ k \in 0 .. most - 1 /\ k <= M
    BY <1>1
  <2>2. W[k] \in Walks /\ Fresh(W[k]) /\ (W[k].stack = <<>> \/ Len(W[k].called) = k)
    BY <1>2, <1>4, <2>1
  <2>3. CASE W[k].stack = <<>>
    <3>1. W[k + 1] = W[k]
      BY <1>2, <2>1, <2>3
    <3> QED
      BY <2>2, <2>3, <3>1
  <2>4. CASE W[k].stack # <<>>
    <3>1. W[k + 1] = Turn(W[k])
      BY <1>2, <2>1, <2>4
    <3>2. Len(Turn(W[k]).called) = Len(W[k].called) + 1 /\ Fresh(Turn(W[k]))
      BY <2>2, <2>4, TurnCalls
    <3> QED
      BY <2>2, <2>4, <3>1, <3>2
  <2> QED
    BY <2>3, <2>4
<1>5. Nat \subseteq Good
  <2> HIDE DEF Good
  <2> QED
    BY <1>3, <1>4, SetInduction
<1>6. Fresh(W[M]) /\ (W[M].stack = <<>> \/ Len(W[M].called) = M)
  BY <1>1, <1>5
<1>7. W[M] \in Walks
  BY <1>1, <1>2
<1> SUFFICES ASSUME W[M].stack # <<>> PROVE FALSE
  BY DEF M
<1> DEFINE w == Turn(W[M])
<1>8. w \in Walks /\ Len(w.called) = M + 1 /\ Fresh(w)
  BY <1>6, <1>7, TurnCalls
<1> HIDE DEF w
<1>9. w.called \in Seq(Call) /\ Distinct(w.called)
  BY <1>8 DEF Walks, Fresh
<1>10. Len(w.called) <= M
  BY <1>9, CallsAreFew, DistinctShort DEF M
<1> QED
  BY <1>1, <1>8, <1>10

(* The nodes from the root down to n, e steps below. *)
Chain(c, e, n) ==
  c \in [0 .. e -> Node] /\ c[0] = Root /\ c[e] = n /\ \A i \in 0 .. e - 1 : parent[c[i + 1]] = c[i]

(* Such a chain meets no node twice, so no node is deep. *)
LEMMA ChainShort ==
  ASSUME ArenaAssumption, Document, NEW e \in Nat, NEW n, NEW c, Chain(c, e, n)
  PROVE  e + 1 <= MaxNodes
<1>1. /\ c \in [0 .. e -> Node] /\ c[0] = Root
      /\ \A i \in 0 .. e - 1 : parent[c[i + 1]] = c[i]
      /\ parent[Root] = NoNode
  BY DEF Chain, Document
<1> DEFINE Apart == {x \in Nat : \A y \in 0 .. e : x < y => c[x] # c[y]}
<1>2. 0 \in Apart
  <2> SUFFICES ASSUME NEW y \in 0 .. e, 0 < y PROVE c[0] # c[y]
    OBVIOUS
  <2>1. y - 1 \in 0 .. e - 1 /\ y - 1 \in 0 .. e /\ (y - 1) + 1 = y
    OBVIOUS
  <2>2. parent[c[y]] = c[y - 1] /\ c[y - 1] \in Node
    BY <1>1, <2>1
  <2>3. c[y - 1] # NoNode
    BY <2>2 DEF Node, NoNode
  <2> QED
    BY <1>1, <2>2, <2>3
<1>3. ASSUME NEW x \in Nat, x \in Apart PROVE x + 1 \in Apart
  <2> SUFFICES ASSUME NEW y \in 0 .. e, x + 1 < y PROVE c[x + 1] # c[y]
    OBVIOUS
  <2>1. y - 1 \in 0 .. e - 1 /\ y - 1 \in 0 .. e /\ (y - 1) + 1 = y /\ x < y - 1 /\ x \in 0 .. e - 1
    OBVIOUS
  <2>2. parent[c[y]] = c[y - 1] /\ parent[c[x + 1]] = c[x]
    BY <1>1, <2>1
  <2>3. c[x] # c[y - 1]
    BY <1>3, <2>1
  <2> QED
    BY <2>2, <2>3
<1>4. Nat \subseteq Apart
  <2> HIDE DEF Apart
  <2> QED
    BY <1>2, <1>3, SetInduction
<1>5. \A x, y \in 0 .. e : x # y => c[x] # c[y]
  <2> TAKE x, y \in 0 .. e
  <2>1. x \in Nat /\ y \in Nat /\ x \in Apart /\ y \in Apart
    BY <1>4
  <2> QED
    BY <2>1
<1> SUFFICES ASSUME ~(e + 1 <= MaxNodes) PROVE FALSE
  OBVIOUS
<1>6. MaxNodes \in Nat /\ 0 \in Int /\ 1 \in Int /\ e \in Int /\ MaxNodes \in Int
  BY DEF ArenaAssumption
<1>7. IsFiniteSet(Node) /\ Cardinality(Node) = MaxNodes
  BY <1>6, FS_Interval DEF Node
<1> DEFINE D == 0 .. e
<1>8. IsFiniteSet(D) /\ Cardinality(D) = e - 0 + 1
  BY <1>6, FS_Interval
<1>9. Cardinality(Node) < Cardinality(D)
  BY <1>6, <1>7, <1>8
<1>10. c \in [D -> Node]
  BY <1>1
<1> HIDE DEF D
<1>11. \E x, y \in D : x # y /\ c[x] = c[y]
  BY <1>7, <1>8, <1>9, <1>10, FS_PigeonHole
<1> QED
  BY <1>5, <1>11 DEF D

(* Sequences put together one element, or one sequence, at a time. *)
LEMMA AppendConcat ==
  ASSUME NEW S, NEW s \in Seq(S), NEW t \in Seq(S), NEW x \in S
  PROVE  s \o Append(t, x) = Append(s \o t, x)
<1>1. /\ Append(t, x) = t \o <<x>> /\ <<x>> \in Seq(S)
      /\ Append(s \o t, x) = (s \o t) \o <<x>>
  <2>1. <<x>> \in Seq(S)
    OBVIOUS
  <2>2. s \o t \in Seq(S)
    BY ConcatProperties
  <2>3. Append(t, x) = t \o <<x>>
    BY AppendIsConcat
  <2>4. Append(s \o t, x) = (s \o t) \o <<x>>
    <3> DEFINE u == s \o t
    <3>1. u \in Seq(S)
      BY <2>2
    <3> HIDE DEF u
    <3>2. Append(u, x) = u \o <<x>>
      BY <3>1, AppendIsConcat
    <3> QED
      BY <3>2 DEF u
  <2> QED
    BY <2>1, <2>3, <2>4
<1> DEFINE y == <<x>>
<1> HIDE DEF y
<1>2. y \in Seq(S)
  BY <1>1 DEF y
<1>3. (s \o t) \o y = s \o (t \o y)
  BY <1>2, ConcatAssociative
<1> QED
  BY <1>1, <1>3 DEF y

(* A prefix is the shorter one and one element. *)
LEMMA SubSeqAppend ==
  ASSUME NEW S, NEW u \in Seq(S), NEW k \in 1 .. Len(u)
  PROVE  /\ SubSeq(u, 1, k) = Append(SubSeq(u, 1, k - 1), u[k])
         /\ SubSeq(u, 1, k - 1) \in Seq(S)
<1> DEFINE b == SubSeq(u, 1, k - 1)
<1>1. u[k] \in S /\ \A i \in 1 .. k - 1 : u[i] \in S
  OBVIOUS
<1>2. b \in Seq(S)
  <2>1. 1 \in Int /\ k - 1 \in Int
    OBVIOUS
  <2> QED
    BY <1>1, <2>1, SubSeqProperties
<1>3. SubSeq(u, 1, k) = b \o <<u[k]>>
  <2>1. 1 \in 1 .. Len(u) /\ k \in 1 .. Len(u)
    OBVIOUS
  <2> QED
    BY <2>1, SubSeqRecursiveSecond
<1> HIDE DEF b
<1>4. Append(b, u[k]) = b \o <<u[k]>>
  BY <1>1, <1>2, AppendIsConcat
<1> QED
  BY <1>2, <1>3, <1>4 DEF b

(* The first of several sequences are no longer than all of them. *)
LEMMA FlatGrows ==
  ASSUME NEW S, NEW seqs \in Seq(Seq(S)), NEW flat, IsFlat(flat, S, seqs)
  PROVE  /\ \A k \in 0 .. Len(seqs) : Len(flat[k]) <= Len(flat[Len(seqs)])
         /\ \A k \in 0 .. Len(seqs) - 1 : Len(flat[k + 1]) = Len(flat[k]) + Len(seqs[k + 1])
<1> DEFINE n == Len(seqs)
<1>1. n \in Nat /\ \A i \in 1 .. n : seqs[i] \in Seq(S)
  OBVIOUS
<1> HIDE DEF n
<1>2. flat \in [0 .. n -> Seq(S)] /\ \A k \in 0 .. n - 1 : flat[k + 1] = flat[k] \o seqs[k + 1]
  BY DEF IsFlat, n
<1>3. ASSUME NEW k \in 0 .. n - 1
      PROVE  /\ Len(flat[k + 1]) = Len(flat[k]) + Len(seqs[k + 1])
             /\ Len(flat[k]) \in Nat /\ Len(seqs[k + 1]) \in Nat
  <2>1. k + 1 \in 1 .. n /\ k \in 0 .. n
    BY <1>1
  <2> DEFINE a == flat[k]
             b == seqs[k + 1]
  <2>2. a \in Seq(S) /\ b \in Seq(S) /\ flat[k + 1] = a \o b
    BY <1>1, <1>2, <2>1
  <2> HIDE DEF a, b
  <2>3. Len(a \o b) = Len(a) + Len(b) /\ Len(a) \in Nat /\ Len(b) \in Nat
    BY <2>2, ConcatProperties
  <2> QED
    BY <2>2, <2>3 DEF a, b
<1>4. \A k \in 0 .. n : Len(flat[k]) \in Nat
  BY <1>2
<1> DEFINE Short == {j \in Nat : j <= n => Len(flat[n - j]) <= Len(flat[n])}
<1>5. 0 \in Short
  <2>1. n - 0 = n /\ n \in 0 .. n
    BY <1>1
  <2> QED
    BY <1>4, <2>1
<1>6. ASSUME NEW j \in Nat, j \in Short PROVE j + 1 \in Short
  <2> SUFFICES ASSUME j + 1 <= n PROVE Len(flat[n - (j + 1)]) <= Len(flat[n])
    OBVIOUS
  <2> DEFINE k == n - (j + 1)
  <2>1. k \in 0 .. n - 1 /\ k + 1 = n - j /\ n \in 0 .. n /\ j <= n
    BY <1>1
  <2>2. Len(flat[k + 1]) <= Len(flat[n])
    BY <1>6, <2>1
  <2> HIDE DEF k
  <2>3. Len(flat[k + 1]) = Len(flat[k]) + Len(seqs[k + 1]) /\ Len(flat[k]) \in Nat /\ Len(seqs[k + 1]) \in Nat
    BY <1>3, <2>1
  <2>4. Len(flat[k]) <= Len(flat[n])
    <3> DEFINE a == Len(flat[k])
               b == Len(flat[k + 1])
               c == Len(seqs[k + 1])
               d == Len(flat[n])
    <3>1. b = a + c /\ a \in Nat /\ c \in Nat /\ d \in Nat /\ b <= d
      BY <1>4, <2>1, <2>2, <2>3
    <3> HIDE DEF a, b, c, d
    <3>2. a <= d
      BY <3>1
    <3> QED
      BY <3>2 DEF a, d
  <2> QED
    BY <2>4 DEF k
<1>7. Nat \subseteq Short
  <2> HIDE DEF Short
  <2> QED
    BY <1>5, <1>6, SetInduction
<1>8. ASSUME NEW k \in 0 .. n PROVE Len(flat[k]) <= Len(flat[n])
  <2>1. n - k \in Nat /\ n - k <= n /\ n - (n - k) = k
    BY <1>1
  <2>2. n - k \in Short
    BY <1>7, <2>1
  <2> QED
    BY <2>1, <2>2
<1> QED
  BY <1>3, <1>8 DEF n

(* n is e nodes below the root. *)
Deep(n, e) == \E c : Chain(c, e, n)

(* The root is at depth 0. *)
LEMMA DeepRoot == ASSUME Root \in Node PROVE Deep(Root, 0)
<1> DEFINE c == [i \in 0 .. 0 |-> Root]
<1>1. Chain(c, 0, Root)
  BY DEF Chain
<1> QED
  BY <1>1 DEF Deep

(* A child is one deeper than its parent. *)
LEMMA DeepChild ==
  ASSUME NEW n \in Node, NEW e \in Nat, Deep(n, e), NEW m \in Node, parent[m] = n
  PROVE  Deep(m, e + 1)
<1>1. PICK c : Chain(c, e, n)
  BY DEF Deep
<1> DEFINE d == [i \in 0 .. e + 1 |-> IF i = e + 1 THEN m ELSE c[i]]
<1>2. c \in [0 .. e -> Node] /\ c[0] = Root /\ c[e] = n /\ \A i \in 0 .. e - 1 : parent[c[i + 1]] = c[i]
  BY <1>1 DEF Chain
<1>3. d \in [0 .. e + 1 -> Node]
  <2>1. \A i \in 0 .. e + 1 : i # e + 1 => i \in 0 .. e
    OBVIOUS
  <2> QED
    BY <1>2, <2>1
<1>4. d[0] = Root /\ d[e + 1] = m
  BY <1>2
<1>5. ASSUME NEW i \in 0 .. (e + 1) - 1 PROVE parent[d[i + 1]] = d[i]
  <2>1. d[i] = c[i]
    OBVIOUS
  <2>2. CASE i = e
    <3>1. d[i + 1] = m
      BY <2>2
    <3> QED
      BY <1>2, <2>1, <2>2, <3>1
  <2>3. CASE i # e
    <3>1. i \in 0 .. e - 1 /\ d[i + 1] = c[i + 1]
      BY <2>3
    <3> HIDE DEF d
    <3> QED
      BY <1>2, <2>1, <3>1
  <2> QED
    BY <2>2, <2>3
<1> HIDE DEF d
<1>6. Chain(d, e + 1, m)
  BY <1>3, <1>4, <1>5 DEF Chain
<1> QED
  BY <1>6 DEF Deep

(* With the frame of n on top and n called for the first time, Walk makes  *)
(* the calls of the nested order below n and is back at what lay below.    *)
Visits(W, most, N, h) ==
  \A n \in Node : \A rest \in Seq(FrameSet) : \A called \in Seq(Call) : \A i \in 0 .. most :
     /\ Deep(n, MaxNodes - h)
     /\ i + Len(N[h][n]) <= most
     /\ W[i] = [stack |-> Append(rest, Frame(n, FALSE)), called |-> called]
     => W[i + Len(N[h][n])] = [stack |-> rest, called |-> called \o N[h][n]]

(* Walk has come to these frames and these calls after i turns. *)
At(W, i, stack, called) == W[i] = [stack |-> stack, called |-> called]

(* The nested orders of several nodes. *)
AreOrders(seqs, x, ids) ==
  seqs \in Seq(Seq(Call)) /\ Len(seqs) = Len(ids) /\ \A k \in 1 .. Len(seqs) : seqs[k] = x[ids[k]]

(* The children of n, one after the other. *)
LEMMA VisitsChildren ==
  ASSUME ArenaAssumption, Document, NEW most \in Nat, NEW W, IsWalk(W, most), NEW N, IsNested(N),
         NEW h \in 0 .. MaxNodes - 1, Visits(W, most, N, h),
         NEW n \in Node, Deep(n, MaxNodes - (h + 1)),
         NEW seqs, AreOrders(seqs, N[h], Children(n)),
         NEW flat, IsFlat(flat, Call, seqs),
         NEW base \in Seq(FrameSet), NEW called \in Seq(Call), NEW i \in 0 .. most,
         i + Len(flat[Len(seqs)]) <= most,
         At(W, i, base \o Frames(Reverse(Children(n))), called)
  PROVE  At(W, i + Len(flat[Len(seqs)]), base, called \o flat[Len(seqs)])
<1> DEFINE s == Children(n)
           t == Reverse(s)
           below == Frames(t)
           m == Len(s)
           lower(k) == SubSeq(below, 1, m - k)
           Done == {k \in Nat : k <= m =>
                      W[i + Len(flat[k])] = [stack |-> base \o lower(k), called |-> called \o flat[k]]}
<1>1. s \in Seq(Node) /\ m \in Nat /\ \A k \in 1 .. m : s[k] \in Node /\ parent[s[k]] = n
  <2>1. s \in Seq(Node)
    BY DEF Document, ListsAreTyped
  <2>2. \A k \in 1 .. Len(s) : parent[s[k]] = n
    BY DEF Document
  <2> HIDE DEF s
  <2>3. Len(s) \in Nat /\ \A k \in 1 .. Len(s) : s[k] \in Node
    BY <2>1
  <2> QED
    BY <2>1, <2>2, <2>3
<1>2. t \in Seq(Node) /\ Len(t) = m /\ \A k \in 1 .. m : t[k] = s[(m - k) + 1]
  BY <1>1, ReverseIs
<1>3. below \in Seq(FrameSet) /\ Len(below) = m /\ \A k \in 1 .. m : below[k] = Frame(t[k], FALSE)
  BY <1>2, FramesIs
<1>4. MaxNodes - (h + 1) \in Nat /\ (MaxNodes - (h + 1)) + 1 = MaxNodes - h
  <2>1. MaxNodes \in Nat
    BY DEF ArenaAssumption
  <2> QED
    BY <2>1
<1> HIDE DEF s
<1>5. Len(seqs) = m /\ \A k \in 1 .. m : seqs[k] = N[h][s[k]] /\ seqs[k] \in Seq(Call)
  <2>1. /\ seqs \in Seq(Seq(Call)) /\ Len(seqs) = Len(Children(n))
        /\ \A k \in 1 .. Len(seqs) : seqs[k] = N[h][Children(n)[k]]
    BY DEF AreOrders
  <2> QED
    BY <2>1 DEF s
<1>6. /\ \A k \in 0 .. m : Len(flat[k]) <= Len(flat[m]) /\ flat[k] \in Seq(Call) /\ Len(flat[k]) \in Nat
      /\ \A k \in 0 .. m - 1 : Len(flat[k + 1]) = Len(flat[k]) + Len(seqs[k + 1])
      /\ \A k \in 0 .. m - 1 : flat[k + 1] = flat[k] \o seqs[k + 1]
      /\ flat[0] = <<>>
  <2>1. /\ \A k \in 0 .. Len(seqs) : Len(flat[k]) <= Len(flat[Len(seqs)])
        /\ \A k \in 0 .. Len(seqs) - 1 : Len(flat[k + 1]) = Len(flat[k]) + Len(seqs[k + 1])
    <3>1. seqs \in Seq(Seq(Call))
      BY DEF AreOrders
    <3> QED
      BY <3>1, FlatGrows
  <2>2. /\ flat \in [0 .. m -> Seq(Call)] /\ flat[0] = <<>>
        /\ \A k \in 0 .. m - 1 : flat[k + 1] = flat[k] \o seqs[k + 1]
    BY <1>5 DEF IsFlat
  <2> HIDE DEF m
  <2>3. \A k \in 0 .. m : flat[k] \in Seq(Call) /\ Len(flat[k]) \in Nat
    BY <2>2, LenProperties
  <2> QED
    BY <1>5, <2>1, <2>2, <2>3
<1> HIDE DEF t, below, m
<1>7. 0 \in Done
  <2>1. lower(0) = below
    <3>1. m - 0 = m
      BY <1>1
    <3>2. SubSeq(below, 1, Len(below)) = below
      BY <1>3, SubSeqFull
    <3> QED
      BY <1>3, <3>1, <3>2
  <2>2. called \o flat[0] = called
    BY <1>6, ConcatEmptySeq
  <2>3. i + Len(flat[0]) = i
    BY <1>6
  <2>4. W[i] = [stack |-> base \o below, called |-> called]
    BY DEF At, below, t, s
  <2> HIDE DEF lower
  <2> QED
    BY <2>1, <2>2, <2>3, <2>4
<1>8. ASSUME NEW k \in Nat, k \in Done PROVE k + 1 \in Done
  <2> SUFFICES ASSUME k + 1 <= m
               PROVE  W[i + Len(flat[k + 1])]
                        = [stack |-> base \o lower(k + 1), called |-> called \o flat[k + 1]]
    OBVIOUS
  <2> DEFINE j == i + Len(flat[k])
             child == s[k + 1]
             so == called \o flat[k]
             under == base \o lower(k + 1)
             order == N[h][child]
  <2>1. /\ k \in 0 .. m - 1 /\ k \in 0 .. m /\ k + 1 \in 0 .. m /\ k + 1 \in 1 .. m
        /\ m - k \in 1 .. m /\ (m - k) - 1 = m - (k + 1) /\ (m - (m - k)) + 1 = k + 1
    BY <1>1
  <2>2. child \in Node /\ parent[child] = n /\ below[m - k] = Frame(child, FALSE)
    <3> DEFINE x == m - k
    <3>1. x \in 1 .. m /\ (m - x) + 1 = k + 1
      BY <2>1
    <3> HIDE DEF x
    <3>2. t[x] = s[(m - x) + 1] /\ below[x] = Frame(t[x], FALSE)
      BY <1>2, <1>3, <3>1
    <3>3. below[x] = Frame(child, FALSE)
      BY <3>1, <3>2
    <3> QED
      BY <1>1, <2>1, <3>3 DEF x
  <2>3. lower(k) = Append(lower(k + 1), below[m - k]) /\ lower(k + 1) \in Seq(FrameSet)
    <3> DEFINE x == m - k
    <3>1. x \in 1 .. Len(below)
      BY <1>3, <2>1
    <3> HIDE DEF x
    <3>2. SubSeq(below, 1, x) = Append(SubSeq(below, 1, x - 1), below[x]) /\ SubSeq(below, 1, x - 1) \in Seq(FrameSet)
      BY <1>3, <3>1, SubSeqAppend
    <3> QED
      BY <2>1, <3>2 DEF x
  <2>4. order = seqs[k + 1] /\ order \in Seq(Call) /\ Len(order) \in Nat
    <3>1. order = seqs[k + 1] /\ seqs[k + 1] \in Seq(Call)
      BY <1>5, <2>1
    <3> HIDE DEF order
    <3>2. order \in Seq(Call)
      BY <3>1
    <3> QED
      BY <3>1, <3>2, LenProperties
  <2>5. W[j] = [stack |-> base \o lower(k), called |-> so]
    BY <1>8, <2>1
  <2>6. Frame(child, FALSE) \in FrameSet
    BY <2>2, FrameFacts
  <2> HIDE DEF lower, child, order
  <2>7. base \o lower(k) = Append(under, Frame(child, FALSE)) /\ under \in Seq(FrameSet)
    <3> DEFINE f == Frame(child, FALSE)
    <3>1. f \in FrameSet /\ lower(k) = Append(lower(k + 1), f)
      BY <2>2, <2>3, <2>6
    <3> HIDE DEF f
    <3>2. base \o Append(lower(k + 1), f) = Append(base \o lower(k + 1), f)
      BY <2>3, <3>1, AppendConcat
    <3>3. base \o lower(k + 1) \in Seq(FrameSet)
      BY <2>3, ConcatProperties
    <3> QED
      BY <3>1, <3>2, <3>3 DEF f
  <2>8. so \in Seq(Call)
    BY <1>6, <2>1, ConcatProperties
  <2>9. Deep(child, MaxNodes - h)
    BY <1>4, <2>2, DeepChild
  <2>10. j + Len(order) = i + Len(flat[k + 1])
    <3> DEFINE a == Len(flat[k])
               b == Len(order)
               c == Len(flat[k + 1])
    <3>1. a \in Nat /\ b \in Nat /\ c = a + b
      BY <1>6, <2>1, <2>4
    <3> HIDE DEF a, b, c
    <3>2. (i + a) + b = i + c
      BY <3>1
    <3> QED
      BY <3>2 DEF a, b, c
  <2>11. j \in 0 .. most /\ j + Len(order) <= most
    <3>1. Len(flat[k + 1]) <= Len(flat[m]) /\ Len(flat[k]) <= Len(flat[m]) /\ Len(flat[k]) \in Nat
          /\ Len(flat[k + 1]) \in Nat /\ Len(flat[m]) \in Nat /\ i + Len(flat[m]) <= most
      <4>1. m \in 0 .. m
        BY <1>1
      <4> QED
        BY <1>5, <1>6, <2>1, <4>1
    <3> DEFINE a == Len(flat[k])
               b == Len(flat[k + 1])
               c == Len(flat[m])
    <3>2. b <= c /\ a <= c /\ a \in Nat /\ b \in Nat /\ c \in Nat /\ i + c <= most
      BY <3>1
    <3> HIDE DEF a, b, c
    <3>3. i + a \in 0 .. most /\ i + b <= most
      BY <3>2
    <3> QED
      BY <2>10, <3>3 DEF a, b
  <2> HIDE DEF j, so, under
  <2>12. W[j] = [stack |-> Append(under, Frame(child, FALSE)), called |-> so]
    BY <2>5, <2>7
  <2>13. W[j + Len(order)] = [stack |-> under, called |-> so \o order]
    BY <2>2, <2>7, <2>8, <2>9, <2>11, <2>12 DEF Visits, order
  <2>14. so \o order = called \o flat[k + 1]
    <3>1. (called \o flat[k]) \o order = called \o (flat[k] \o order)
      <4> DEFINE fk == flat[k]
      <4>1. fk \in Seq(Call)
        BY <1>6, <2>1
      <4> HIDE DEF fk
      <4>2. called \in Seq(Call) /\ order \in Seq(Call)
        BY <2>4
      <4>3. (called \o fk) \o order = called \o (fk \o order)
        BY ONLY <4>1, <4>2, ConcatAssociative
      <4> QED
        BY <4>3 DEF fk
    <3> QED
      BY <1>6, <2>1, <2>4, <3>1 DEF so
  <2> QED
    BY <2>10, <2>13, <2>14 DEF under
<1>9. Nat \subseteq Done
  <2> HIDE DEF Done
  <2> QED
    BY <1>7, <1>8, SetInduction
<1>10. W[i + Len(flat[m])] = [stack |-> base \o lower(m), called |-> called \o flat[m]]
  <2>1. m \in Done
    <3> HIDE DEF Done
    <3> QED
      BY <1>1, <1>9
  <2>2. m <= m
    BY <1>1
  <2> HIDE DEF lower
  <2> QED
    BY <2>1, <2>2
<1>11. base \o lower(m) = base
  <2>1. m - m = 0 /\ 0 < 1
    BY <1>1
  <2>2. SubSeq(below, 1, 0) = <<>>
    BY SubSeqEmpty
  <2> QED
    BY <2>1, <2>2, ConcatEmptySeq
<1> QED
  BY <1>5, <1>10, <1>11 DEF At

(* The two turns of a node. *)
LEMMA EnterTurn ==
  ASSUME Document, NEW most \in Nat, NEW W, IsWalk(W, most), NEW i \in 0 .. most - 1,
         NEW n \in Node, NEW rest \in Seq(FrameSet), NEW called \in Seq(Call),
         At(W, i, Append(rest, Frame(n, FALSE)), called)
  PROVE  At(W, i + 1, Append(rest, Frame(n, TRUE)) \o Frames(Reverse(Children(n))),
            Append(called, <<n, TRUE>>))
<1> DEFINE top == Frame(n, FALSE)
           w == [stack |-> Append(rest, top), called |-> called]
<1>1. top \in FrameSet /\ top.id = n /\ top.exiting = FALSE
  BY FrameFacts
<1> HIDE DEF top
<1>2. /\ w.stack # <<>>
      /\ Turn(w) = [stack  |-> IF top.exiting THEN rest
                               ELSE Append(rest, Frame(top.id, TRUE)) \o Frames(Reverse(Children(top.id))),
                    called |-> Append(called, <<top.id, ~top.exiting>>)]
  BY <1>1, TurnIs
<1>3. W[i] = w
  BY DEF At, top
<1> HIDE DEF w
<1>4. W[i + 1] = Turn(w)
  BY <1>2, <1>3 DEF IsWalk
<1> QED
  BY <1>1, <1>2, <1>4 DEF At

(* The second one. *)
LEMMA LeaveTurn ==
  ASSUME Document, NEW most \in Nat, NEW W, IsWalk(W, most), NEW i \in 0 .. most - 1,
         NEW n \in Node, NEW rest \in Seq(FrameSet), NEW called \in Seq(Call),
         At(W, i, Append(rest, Frame(n, TRUE)), called)
  PROVE  At(W, i + 1, rest, Append(called, <<n, FALSE>>))
<1> DEFINE top == Frame(n, TRUE)
           w == [stack |-> Append(rest, top), called |-> called]
<1>1. top \in FrameSet /\ top.id = n /\ top.exiting = TRUE
  BY FrameFacts
<1> HIDE DEF top
<1>2. /\ w.stack # <<>>
      /\ Turn(w) = [stack  |-> IF top.exiting THEN rest
                               ELSE Append(rest, Frame(top.id, TRUE)) \o Frames(Reverse(Children(top.id))),
                    called |-> Append(called, <<top.id, ~top.exiting>>)]
  BY <1>1, TurnIs
<1>3. W[i] = w
  BY DEF At, top
<1> HIDE DEF w
<1>4. W[i + 1] = Turn(w)
  BY <1>2, <1>3 DEF IsWalk
<1> QED
  BY <1>1, <1>2, <1>4 DEF At

(* Entered, what is below, left. *)
LEMMA Enclosed ==
  ASSUME NEW S, NEW s \in Seq(S), NEW t \in Seq(S), NEW x \in S, NEW y \in S
  PROVE  /\ Append(Append(s, x) \o t, y) = s \o ((<<x>> \o t) \o <<y>>)
         /\ Len((<<x>> \o t) \o <<y>>) = Len(t) + 2
<1> DEFINE a == <<x>>
           b == <<y>>
           at == a \o t
           sa == s \o a
<1>1. a \in Seq(S) /\ b \in Seq(S) /\ Len(a) = 1 /\ Len(b) = 1
  OBVIOUS
<1>2. Append(s, x) = sa
  BY AppendIsConcat
<1> HIDE DEF a, b
<1>3. at \in Seq(S) /\ Len(at) = Len(a) + Len(t) /\ sa \in Seq(S)
  BY <1>1, ConcatProperties
<1>4. sa \o t = s \o at
  BY <1>1, ConcatAssociative
<1>5. sa \o t \in Seq(S)
  BY <1>3, ConcatProperties
<1> HIDE DEF at
<1>6. Append(sa \o t, y) = (sa \o t) \o b
  BY <1>5, AppendIsConcat DEF b
<1>7. (s \o at) \o b = s \o (at \o b)
  BY <1>1, <1>3, ConcatAssociative
<1>8. Len(at \o b) = Len(at) + Len(b)
  BY <1>1, <1>3, ConcatProperties
<1>9. Len(at \o b) = Len(t) + 2
  <2>1. Len(t) \in Nat
    OBVIOUS
  <2> QED
    BY <1>1, <1>3, <1>8, <2>1
<1> HIDE DEF sa
<1> QED
  BY <1>2, <1>4, <1>6, <1>7, <1>9 DEF at, a, b

(* If the nodes one deeper are visited in their order, n is. *)
LEMMA VisitsStep ==
  ASSUME ArenaAssumption, Document, NEW most \in Nat, NEW W, IsWalk(W, most), NEW N, IsNested(N),
         NEW h \in 0 .. MaxNodes - 1, Visits(W, most, N, h)
  PROVE  Visits(W, most, N, h + 1)
<1> SUFFICES ASSUME NEW n \in Node, NEW rest \in Seq(FrameSet), NEW called \in Seq(Call), NEW i \in 0 .. most,
                    Deep(n, MaxNodes - (h + 1)),
                    i + Len(N[h + 1][n]) <= most,
                    W[i] = [stack |-> Append(rest, Frame(n, FALSE)), called |-> called]
             PROVE  W[i + Len(N[h + 1][n])] = [stack |-> rest, called |-> called \o N[h + 1][n]]
  BY DEF Visits
<1> DEFINE enter == <<n, TRUE>>
           leave == <<n, FALSE>>
           seqs == [k \in 1 .. Len(Children(n)) |-> N[h][Children(n)[k]]]
           all == FlattenSeq(seqs)
           base == Append(rest, Frame(n, TRUE))
           so == Append(called, enter)
           j == (i + 1) + Len(all)
<1>0. h \in 0 .. MaxNodes /\ N \in [0 .. MaxNodes -> [Node -> Seq(Call)]]
  <2>1. MaxNodes \in Nat
    BY DEF ArenaAssumption
  <2> QED
    BY <2>1 DEF IsNested
<1>1. seqs \in Seq(Seq(Call)) /\ all \in Seq(Call)
  <2> DEFINE x == N[h]
  <2>1. x \in [Node -> Seq(Call)]
    BY <1>0
  <2> HIDE DEF x
  <2>2. ListsAreTyped
    BY DEF Document
  <2>3. /\ [k \in 1 .. Len(Children(n)) |-> x[Children(n)[k]]] \in Seq(Seq(Call))
        /\ FlattenSeq([k \in 1 .. Len(Children(n)) |-> x[Children(n)[k]]]) \in Seq(Call)
    BY <2>1, <2>2, OrderType
  <2> QED
    BY <2>3 DEF x
<1>2. Len(seqs) = Len(Children(n)) /\ \A k \in 1 .. Len(seqs) : seqs[k] = N[h][Children(n)[k]]
  <2>1. Len(Children(n)) \in Nat
    BY DEF Document, ListsAreTyped
  <2> QED
    BY <2>1
<1>3. N[h + 1][n] = (<<enter>> \o all) \o <<leave>>
  BY DEF IsNested, Order
<1>4. enter \in Call /\ leave \in Call /\ base \in Seq(FrameSet)
  <2> DEFINE f == Frame(n, TRUE)
  <2>1. f \in FrameSet /\ enter \in Call /\ leave \in Call
    BY FrameFacts
  <2> HIDE DEF f
  <2>2. Append(rest, f) \in Seq(FrameSet)
    BY <2>1, AppendProperties
  <2> QED
    BY <2>1, <2>2 DEF f
<1> HIDE DEF seqs
<1>5. PICK flat : IsFlat(flat, Call, seqs)
  BY <1>1, FlatExists
<1>6. all = flat[Len(seqs)]
  BY <1>5 DEF IsFlat
<1> HIDE DEF enter, leave, all
<1>7. so \in Seq(Call) /\ so \o all \in Seq(Call) /\ Len(all) \in Nat
  <2>1. so \in Seq(Call)
    BY <1>4, AppendProperties
  <2> HIDE DEF so
  <2> QED
    BY <1>1, <2>1, ConcatProperties, LenProperties
<1> DEFINE order == N[h + 1][n]
           below == Frames(Reverse(Children(n)))
           made == so \o all
<1>8. /\ Append(made, leave) = called \o order
      /\ Len(order) = Len(all) + 2
  <2>1. /\ Append(Append(called, enter) \o all, leave) = called \o ((<<enter>> \o all) \o <<leave>>)
        /\ Len((<<enter>> \o all) \o <<leave>>) = Len(all) + 2
    <3>1. called \in Seq(Call) /\ all \in Seq(Call) /\ enter \in Call /\ leave \in Call
      BY <1>1, <1>4
    <3> QED
      BY ONLY <3>1, Enclosed
  <2> QED
    BY <1>3, <2>1
<1>9. i \in 0 .. most - 1 /\ i + 1 \in 0 .. most /\ j <= most /\ j \in 0 .. most - 1
      /\ j + 1 = i + Len(order)
  <2>1. i + Len(order) <= most
    OBVIOUS
  <2> DEFINE l == Len(all)
             o == Len(order)
  <2>2. l \in Nat /\ o = l + 2 /\ i + o <= most
    BY <1>7, <1>8, <2>1
  <2> HIDE DEF l, o
  <2>3. i \in 0 .. most - 1 /\ i + 1 \in 0 .. most /\ (i + 1) + l <= most /\ (i + 1) + l \in 0 .. most - 1
        /\ ((i + 1) + l) + 1 = i + o
    BY <2>2
  <2> QED
    BY <2>3 DEF l, o
<1>10. W[i + 1] = [stack |-> base \o below, called |-> so]
  <2> HIDE DEF base, so, below, j, made, order
  <2>1. i \in 0 .. most - 1
    BY <1>9
  <2>2. At(W, i + 1, Append(rest, Frame(n, TRUE)) \o Frames(Reverse(Children(n))),
           Append(called, <<n, TRUE>>))
    <3>1. At(W, i, Append(rest, Frame(n, FALSE)), called)
      BY DEF At
    <3> QED
      BY <2>1, <3>1, EnterTurn
  <2> QED
    BY <2>2 DEF At, base, so, below, enter
<1> HIDE DEF base, so
<1>11. W[j] = [stack |-> base, called |-> made]
  <2> DEFINE k == i + 1
  <2>1. k \in 0 .. most /\ k + Len(flat[Len(seqs)]) <= most
        /\ At(W, k, base \o Frames(Reverse(Children(n))), so)
    BY <1>6, <1>9, <1>10 DEF At
  <2> HIDE DEF k, j, made, order, below
  <2>2. At(W, k + Len(flat[Len(seqs)]), base, so \o flat[Len(seqs)])
    <3>1. AreOrders(seqs, N[h], Children(n))
      BY <1>1, <1>2 DEF AreOrders
    <3> QED
      BY <1>4, <1>5, <1>7, <2>1, <3>1, VisitsChildren
  <2> QED
    BY <1>6, <2>2 DEF At, k, j, made
<1>12. made \in Seq(Call)
  BY <1>7
<1> HIDE DEF made, j, order, below
<1>13. W[j + 1] = [stack |-> rest, called |-> Append(made, leave)]
  <2>1. j \in 0 .. most - 1 /\ At(W, j, Append(rest, Frame(n, TRUE)), made)
    BY <1>9, <1>11 DEF At, base
  <2>2. At(W, j + 1, rest, Append(made, <<n, FALSE>>))
    BY <1>12, <2>1, LeaveTurn
  <2> QED
    BY <2>2 DEF At, leave
<1>14. W[i + Len(order)] = [stack |-> rest, called |-> called \o order]
  BY <1>8, <1>9, <1>13
<1> QED
  BY <1>14 DEF order

(* By induction from the deepest nodes, all are. *)
LEMMA VisitsAll ==
  ASSUME ArenaAssumption, Document, NEW most \in Nat, NEW W, IsWalk(W, most), NEW N, IsNested(N)
  PROVE  Visits(W, most, N, MaxNodes)
<1> DEFINE Seen == {h \in Nat : h <= MaxNodes => Visits(W, most, N, h)}
<1>0. MaxNodes \in Nat
  BY DEF ArenaAssumption
<1>1. 0 \in Seen
  <2>1. ASSUME NEW n \in Node, Deep(n, MaxNodes - 0) PROVE FALSE
    <3>1. PICK c : Chain(c, MaxNodes - 0, n)
      BY <2>1 DEF Deep
    <3>2. MaxNodes - 0 = MaxNodes
      BY <1>0
    <3>3. MaxNodes + 1 <= MaxNodes
      BY <1>0, <3>1, <3>2, ChainShort
    <3> QED
      BY <1>0, <3>3
  <2>2. Visits(W, most, N, 0)
    BY <2>1 DEF Visits
  <2> QED
    BY <2>2
<1>2. ASSUME NEW h \in Nat, h \in Seen PROVE h + 1 \in Seen
  <2> SUFFICES ASSUME h + 1 <= MaxNodes PROVE Visits(W, most, N, h + 1)
    OBVIOUS
  <2>1. h \in 0 .. MaxNodes - 1 /\ Visits(W, most, N, h)
    BY <1>0, <1>2
  <2> QED
    BY <2>1, VisitsStep
<1>3. Nat \subseteq Seen
  <2> HIDE DEF Seen
  <2> QED
    BY <1>1, <1>2, SetInduction
<1> QED
  BY <1>0, <1>3

(* "Walk traverses the tree in document order. The callback is invoked on  *)
(* entry and exit": Walk's stack, filled from the far end of each list of  *)
(* children, makes exactly the calls of the nested order and is empty      *)
(* within two turns of each node, however large the arena.                 *)
THEOREM WalkIsInOrder == Spec => []WalkIsNested
<1>1. ASSUME IInv PROVE WalkIsNested
  <2> SUFFICES ASSUME parent[Root] = NoNode
               PROVE  Walk(Root) = [stack |-> <<>>, called |-> Nested(Root)]
    BY DEF WalkIsNested
  <2>1. ArenaAssumption /\ MaxNodes \in Nat /\ MaxNodes - MaxNodes = 0 /\ MaxNodes \in 0 .. MaxNodes
    <3>1. MaxNodes \in Nat
      BY ArenaAssumption DEF ArenaAssumption
    <3> QED
      BY <3>1, ArenaAssumption
  <2>2. Document
    BY <1>1, <2>1, DocumentNow
  <2>3. Root \in Node /\ ListsAreTyped
    BY <2>2 DEF Document
  <2>4. PICK N : IsNested(N) /\ \A root \in Node : Nested(root) = N[MaxNodes][root]
    BY <2>1, <2>3, NestedIs
  <2> DEFINE order == N[MaxNodes][Root]
             steps == Len(order)
             most == 2 * MaxNodes + steps
  <2>5. order \in Seq(Call) /\ order = Nested(Root)
    BY <2>1, <2>3, <2>4 DEF IsNested
  <2> HIDE DEF order
  <2>6. steps \in Nat
    BY <2>5
  <2>7. most \in Nat /\ 2 * MaxNodes <= most /\ 2 * MaxNodes \in 0 .. most /\ steps \in 0 .. most
        /\ 0 \in 0 .. most /\ 0 + steps = steps /\ steps <= most
        /\ most \in (2 * MaxNodes) .. most /\ most \in steps .. most
    <3> HIDE DEF steps
    <3> QED
      BY <2>1, <2>6
  <2> HIDE DEF most
  <2>8. PICK W : IsWalk(W, most)
    BY <2>2, <2>7, WalkExists
  <2>9. Walk(Root) = W[2 * MaxNodes] /\ W[2 * MaxNodes].stack = <<>>
    BY <2>1, <2>2, <2>7, <2>8, WalkIs, WalkEnds
  <2>10. Visits(W, most, N, MaxNodes)
    BY <2>1, <2>2, <2>4, <2>7, <2>8, VisitsAll
  <2>11. W[0] = [stack |-> Append(<<>>, Frame(Root, FALSE)), called |-> <<>>]
    <3> DEFINE f == Frame(Root, FALSE)
    <3> HIDE DEF f
    <3>1. <<f>> = Append(<<>>, f)
      OBVIOUS
    <3>2. W[0] = [stack |-> <<f>>, called |-> <<>>]
      BY <2>8 DEF IsWalk, Begin, f
    <3> QED
      BY <3>1, <3>2 DEF f
  <2>12. Deep(Root, MaxNodes - MaxNodes)
    BY <2>1, <2>3, DeepRoot
  <2>13. W[0 + steps] = [stack |-> <<>>, called |-> <<>> \o order]
    <3>1. <<>> \in Seq(FrameSet) /\ <<>> \in Seq(Call)
      OBVIOUS
    <3>2. 0 + Len(N[MaxNodes][Root]) <= most
      BY <2>7 DEF order
    <3> QED
      BY <2>3, <2>7, <2>10, <2>11, <2>12, <3>1, <3>2 DEF Visits, order
  <2>14. <<>> \o order = order
    BY <2>5, ConcatEmptySeq
  <2>15. W[steps] = [stack |-> <<>>, called |-> order]
    BY <2>7, <2>13, <2>14
  <2>16. W[steps].stack = <<>>
    BY <2>15
  <2>17. W[most] = W[steps]
    BY <2>7, <2>8, <2>16, StaysEmpty
  <2>18. W[most] = W[2 * MaxNodes]
    BY <2>7, <2>8, <2>9, StaysEmpty
  <2> QED
    BY <2>5, <2>9, <2>15, <2>17, <2>18
<1>2. Init => IInv
  BY InitIInv, ArenaAssumption
<1>3. IInv /\ [Next]_vars => IInv'
  BY StepIInv, ArenaAssumption
<1> QED
  BY <1>1, <1>2, <1>3, PTL DEF Spec
=============================================================================
