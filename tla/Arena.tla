------------------------------- MODULE Arena -------------------------------
(***************************************************************************)
(* The syntax-tree arena of package ast: a Builder appends node records to *)
(* a slice and links them into a tree with five indices per record         *)
(* (parent, first, last, previous, next); NoNode is the zero index.        *)
(* ast/builder.go holds the operations, ast/document.go the records and    *)
(* Validate.  An operation whose precondition fails panics before it has   *)
(* written anything, so a failed call is a step that does not happen.      *)
(*                                                                         *)
(* The builder is driven by one goroutine; what makes it hard is the       *)
(* order of the pointer updates when a node that is already linked is      *)
(* moved, possibly inside the list it is appended to.                      *)
(***************************************************************************)
EXTENDS Naturals, Sequences

CONSTANTS MaxNodes,    \* capacity of the arena (math.MaxUint32 in the code)
          SourceLen,   \* length of the source the spans point into
          Kinds,       \* node kinds a caller may ask for
          Fields       \* payload fields: "text", "destination", "custom", ...

ASSUME ArenaAssumption == /\ MaxNodes \in Nat \ {0}
                          /\ SourceLen \in Nat
                          /\ "none" \notin Kinds

NoNode == 0
Root   == 1
Node   == 1 .. MaxNodes
Link   == Node \cup {NoNode}
Span   == {s \in (0 .. SourceLen) \X (0 .. SourceLen) : s[1] <= s[2]}

VARIABLES
  size,      \* allocated nodes: the records 1..size exist
  kind,      \* record kind, "none" beyond size
  span,      \* full source span of each record
  content,   \* content span of each record
  payload,   \* payload fields that have been set on each record
  parent, first, last, previous, next,   \* the links
  built      \* Build has succeeded

links == <<parent, first, last, previous, next>>
data  == <<kind, span, content, payload>>
vars  == <<size, data, links, built>>

Allocated == 1 .. size

-----------------------------------------------------------------------------
(* NewBuilder: the arena starts with the document root, node 1. *)
Init ==
  /\ size      = 1
  /\ kind      = [n \in Node |-> IF n = Root THEN "document" ELSE "none"]
  /\ span      = [n \in Node |-> IF n = Root THEN <<0, SourceLen>> ELSE <<0, 0>>]
  /\ content   = span
  /\ payload   = [n \in Node |-> {}]
  /\ parent    = [n \in Node |-> NoNode]
  /\ first     = [n \in Node |-> NoNode]
  /\ last      = [n \in Node |-> NoNode]
  /\ previous  = [n \in Node |-> NoNode]
  /\ next      = [n \in Node |-> NoNode]
  /\ built     = FALSE

(* Builder.Add: a fresh record, linked to nothing. *)
Record(k, s) ==
  /\ ~built
  /\ size < MaxNodes
  /\ size'    = size + 1
  /\ kind'    = [kind    EXCEPT ![size + 1] = k]
  /\ span'    = [span    EXCEPT ![size + 1] = s]
  /\ content' = [content EXCEPT ![size + 1] = s]
  /\ UNCHANGED <<payload, built>>

Add(k, s) == Record(k, s) /\ UNCHANGED links

(* The five links after Detach(id), as a record, so that AppendChild can    *)
(* continue from them exactly as the code does.                            *)
Current == [parent |-> parent, first |-> first, last |-> last,
            previous |-> previous, next |-> next]

(* Slip: the right neighbour still names the node that left. *)
DetachedOneSided(id) ==
  LET p == parent[id]
      a == previous[id]
      b == next[id]
  IN  IF p = NoNode THEN Current
      ELSE [parent   |-> [parent EXCEPT ![id] = NoNode],
            first    |-> IF a = NoNode THEN [first EXCEPT ![p] = b] ELSE first,
            last     |-> IF b = NoNode THEN [last EXCEPT ![p] = a] ELSE last,
            previous |-> [previous EXCEPT ![id] = NoNode],
            next     |-> IF a = NoNode THEN [next EXCEPT ![id] = NoNode]
                         ELSE [next EXCEPT ![a] = b, ![id] = NoNode]]

Detached(id) ==
  LET p == parent[id]
      a == previous[id]
      b == next[id]
  IN  IF p = NoNode THEN Current
      ELSE [parent   |-> [parent EXCEPT ![id] = NoNode],
            first    |-> IF a = NoNode THEN [first EXCEPT ![p] = b] ELSE first,
            last     |-> IF b = NoNode THEN [last EXCEPT ![p] = a] ELSE last,
            previous |-> IF b = NoNode THEN [previous EXCEPT ![id] = NoNode]
                         ELSE [previous EXCEPT ![b] = a, ![id] = NoNode],
            next     |-> IF a = NoNode THEN [next EXCEPT ![id] = NoNode]
                         ELSE [next EXCEPT ![a] = b, ![id] = NoNode]]

(* The links once child has been hung behind p's last child, in links d:    *)
(* p's last child is read after the child has been detached.               *)
Appended(d, p, child) ==
  LET tail == d.last[p]
  IN  [parent   |-> [d.parent EXCEPT ![child] = p],
       first    |-> IF tail = NoNode THEN [d.first EXCEPT ![p] = child] ELSE d.first,
       last     |-> [d.last EXCEPT ![p] = child],
       previous |-> [d.previous EXCEPT ![child] = tail],
       next     |-> IF tail = NoNode THEN d.next ELSE [d.next EXCEPT ![tail] = child]]

SetLinks(d) ==
  /\ parent' = d.parent
  /\ first' = d.first
  /\ last' = d.last
  /\ previous' = d.previous
  /\ next' = d.next

(* Builder.Detach *)
Detach(id) ==
  /\ ~built
  /\ id \in Allocated
  /\ SetLinks(Detached(id))
  /\ UNCHANGED <<size, data, built>>

(* Slips: a node is linked twice, or parent and child change places. *)
AppendAttached(p, child) ==
  /\ ~built
  /\ {p, child} \subseteq Allocated
  /\ p # child
  /\ SetLinks(Appended(Current, p, child))
  /\ UNCHANGED <<size, data, built>>

AppendSwapped(p, child) ==
  /\ ~built
  /\ {p, child} \subseteq Allocated
  /\ p # child
  /\ SetLinks(Appended(Detached(p), child, p))
  /\ UNCHANGED <<size, data, built>>

(* Builder.AppendChild: detaches the child from any prior parent first. *)
AppendChild(p, child) ==
  /\ ~built
  /\ p \in Allocated
  /\ child \in Allocated
  /\ p # child
  /\ SetLinks(Appended(Detached(child), p, child))
  /\ UNCHANGED <<size, data, built>>

(* Builder.SetContentSpan *)
SetContentSpan(id, s) ==
  /\ ~built
  /\ id \in Allocated
  /\ content' = [content EXCEPT ![id] = s]
  /\ UNCHANGED <<size, kind, span, payload, links, built>>

(* SetText, SetDestination, SetTitle, SetIntegers, SetFlags and SetCustom   *)
(* each set one field of the record; SetCustom panics unless the node is    *)
(* of kind Custom.                                                         *)
SetPayload(id, field) ==
  /\ ~built
  /\ id \in Allocated
  /\ field = "custom" => kind[id] = "custom"
  /\ payload' = [payload EXCEPT ![id] = @ \cup {field}]
  /\ UNCHANGED <<size, kind, span, content, links, built>>

(* Document.Validate: the loop visits the records in order and stops at    *)
(* the first defect; whether it finds one is all that matters.             *)
Validates ==
  /\ size >= Root /\ kind[Root] = "document"
  /\ \A n \in Allocated :
       /\ span[n][1] <= span[n][2] /\ span[n][2] <= SourceLen
       /\ parent[n] # NoNode => parent[n] \in Allocated
       /\ next[n] # NoNode => previous[next[n]] = n

(* Builder.Build: on a defect it returns the error and stays mutable. *)
Build ==
  /\ ~built
  /\ Validates
  /\ built' = TRUE
  /\ UNCHANGED <<size, data, links>>

Next ==
  \/ \E k \in Kinds, s \in Span : Add(k, s)
  \/ \E p, c \in Node : AppendChild(p, c)
  \/ \E n \in Node : Detach(n)
  \/ \E n \in Node, s \in Span : SetContentSpan(n, s)
  \/ \E n \in Node, f \in Fields : SetPayload(n, f)
  \/ Build

Spec == Init /\ [][Next]_vars

(* Slip: a node is added and not appended. *)
AddOnly(p, k, s) == p \in Allocated /\ Add(k, s)

(***************************************************************************)
(* The parser's own use of the builder is narrower: it never detaches, and *)
(* wherever it adds a node it appends it to the parent it was called with, *)
(* or to one it has just added, before it adds another.  This is a parse   *)
(* without extensions; those append what they like.                        *)
(***************************************************************************)
AddUnder(p, k, s) ==
  /\ p \in Allocated
  /\ Record(k, s)
  /\ SetLinks(Appended(Detached(size + 1), p, size + 1))

ParserNext ==
  \/ \E p \in Node, k \in Kinds, s \in Span : AddUnder(p, k, s)
  \/ \E n \in Node, s \in Span : SetContentSpan(n, s)
  \/ \E n \in Node, f \in Fields : SetPayload(n, f)
  \/ Build
-----------------------------------------------------------------------------
(* Types of the arena's records, and that a link never leaves the arena.   *)
TypeOK ==
  /\ size \in 1 .. MaxNodes
  /\ kind \in [Node -> Kinds \cup {"document", "none"}]
  /\ span \in [Node -> Span]
  /\ content \in [Node -> Span]
  /\ payload \in [Node -> SUBSET Fields]
  /\ parent \in [Node -> Link]
  /\ first \in [Node -> Link]
  /\ last \in [Node -> Link]
  /\ previous \in [Node -> Link]
  /\ next \in [Node -> Link]
  /\ built \in BOOLEAN

(* Only allocated records are linked, and only to allocated records. *)
LinksAllocated ==
  \A n \in Node :
    /\ parent[n] # NoNode => n <= size /\ parent[n] <= size
    /\ first[n] # NoNode => n <= size /\ first[n] <= size

(* Neighbours name each other and share a parent. *)
SiblingsAgree ==
  \A n \in Node :
    /\ next[n] # NoNode => previous[next[n]] = n /\ parent[next[n]] = parent[n]
    /\ previous[n] # NoNode => next[previous[n]] = n /\ parent[previous[n]] = parent[n]

(* A parent's two ends are its children without a neighbour on that side.  *)
EndsAgree ==
  \A n \in Node :
    /\ first[n] # NoNode => parent[first[n]] = n /\ previous[first[n]] = NoNode
    /\ last[n] # NoNode => parent[last[n]] = n /\ next[last[n]] = NoNode
    /\ parent[n] # NoNode /\ previous[n] = NoNode => first[parent[n]] = n
    /\ parent[n] # NoNode /\ next[n] = NoNode => last[parent[n]] = n

(* A node outside every child list has no neighbours, and a list with one  *)
(* end has both.                                                           *)
DetachedAlone ==
  \A n \in Node :
    /\ parent[n] = NoNode => next[n] = NoNode /\ previous[n] = NoNode
    /\ first[n] = NoNode <=> last[n] = NoNode
    /\ parent[n] # n

(* The links of any arena reachable through the builder's interface are    *)
(* those of a set of doubly linked child lists, whatever is moved where.   *)
LinkInv == LinksAllocated /\ SiblingsAgree /\ EndsAgree /\ DetachedAlone

(* Build never reports a defect: nothing the interface can do leads to an  *)
(* arena that Validate refuses.                                            *)
BuildNeverFails == Validates

(* What a parser builds: every node but the root has a parent older   *)
(* than itself and stands behind older siblings: whatever parent each call *)
(* of the parser names, no node is left out of the document, no chain of   *)
(* parents closes on itself, and children stand in the order they were     *)
(* added (every Add and AppendChild of parser/block.go and inline.go).     *)
RootedTree ==
  /\ parent[Root] = NoNode
  /\ \A n \in Allocated \ {Root} : parent[n] \in 1 .. n - 1
  /\ \A n \in Node : previous[n] < n
=============================================================================
