-------------------------------- MODULE Tree --------------------------------
(***************************************************************************)
(* What a Builder promises (ast/builder.go): a node owns an ordered list   *)
(* of children, a node is in at most one list, AppendChild moves a node to *)
(* the end of a list and Detach takes it out.  No links, no arena records. *)
(***************************************************************************)
EXTENDS Naturals, Sequences, SequencesExt

CONSTANT Node
VARIABLES nodes,     \* the nodes that exist
          children,  \* the ordered children of each node
          frozen     \* Build has succeeded

vars == <<nodes, children, frozen>>

Without(lists, n) == [p \in Node |-> RemoveFirst(lists[p], n)]

Init ==
  /\ nodes = {1}
  /\ children = [p \in Node |-> <<>>]
  /\ frozen = FALSE

Add == 
  /\ ~frozen
  /\ \E n \in Node \ nodes : nodes' = nodes \cup {n}
  /\ UNCHANGED <<children, frozen>>

(* A parser's way: a new node that is the last child of p at once. *)
AddUnder(p) ==
  /\ ~frozen
  /\ p \in nodes
  /\ \E n \in Node \ nodes :
       /\ nodes' = nodes \cup {n}
       /\ children' = [children EXCEPT ![p] = Append(@, n)]
  /\ UNCHANGED frozen

MoveToEnd(p, n) ==
  /\ ~frozen
  /\ {p, n} \subseteq nodes
  /\ p # n
  /\ children' = [Without(children, n) EXCEPT ![p] = Append(@, n)]
  /\ UNCHANGED <<nodes, frozen>>

Detach(n) ==
  /\ ~frozen
  /\ n \in nodes
  /\ children' = Without(children, n)
  /\ UNCHANGED <<nodes, frozen>>

Freeze ==
  /\ ~frozen
  /\ frozen' = TRUE
  /\ UNCHANGED <<nodes, children>>

Next ==
  \/ Add
  \/ \E p \in Node : AddUnder(p)
  \/ \E p, n \in Node : MoveToEnd(p, n)
  \/ \E n \in Node : Detach(n)
  \/ Freeze

Spec == Init /\ [][Next]_vars
=============================================================================
