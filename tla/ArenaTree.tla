----------------------------- MODULE ArenaTree -----------------------------
(***************************************************************************)
(* The arena of links read as a tree: the refinement of Tree by Arena, and *)
(* Document.Walk over what was built.                                      *)
(***************************************************************************)
EXTENDS Arena, SequencesExt

VARIABLE caller   \* who has the builder: "parser", or "extension" with its whole interface

BuilderInit == Init /\ caller \in {"parser", "extension"}

ParserCalls    == caller = "parser" /\ ParserNext /\ UNCHANGED caller
ExtensionCalls == caller = "extension" /\ Next /\ UNCHANGED caller
BuilderNext    == ParserCalls \/ ExtensionCalls

BuilderRuns == BuilderInit /\ [][BuilderNext]_<<vars, caller>>

(* The nodes met by following link f from n, at most as many as there are. *)
Follow(f, n) ==
  LET at[k \in 1 .. MaxNodes + 1] ==
        IF k = 1 THEN n ELSE IF at[k - 1] = NoNode THEN NoNode ELSE f[at[k - 1]]
  IN  [k \in 1 .. Cardinality({m \in 1 .. MaxNodes + 1 : at[m] # NoNode}) |-> at[k]]

Children(p) == Follow(next, first[p])

T == INSTANCE Tree WITH nodes    <- Allocated,
                        children <- [p \in Node |-> Children(p)],
                        frozen   <- built

(* The links implement ordered child lists: every builder step is a step   *)
(* of Tree on the lists read off the links.                                *)
ImplementsTree == T!Spec

(* One turn of Document.Walk's loop on its stack of frames, the next one   *)
(* last, and the calls of the callback so far: a frame entered leaves an   *)
(* exiting frame and, on top of it, its children from the last to the      *)
(* first.                                                                  *)
Frame(id, exiting) == [id |-> id, exiting |-> exiting]
Frames(ids) == [i \in 1 .. Len(ids) |-> Frame(ids[i], FALSE)]

(* Slip: the children go on the stack from the first to the last. *)
TurnForwards(walk) ==
  LET top  == Last(walk.stack)
      rest == Front(walk.stack)
  IN  [stack  |-> IF top.exiting THEN rest
                  ELSE Append(rest, Frame(top.id, TRUE)) \o Frames(Follow(next, first[top.id])),
       called |-> Append(walk.called, <<top.id, ~top.exiting>>)]

Turn(walk) ==
  LET top  == Last(walk.stack)
      rest == Front(walk.stack)
  IN  [stack  |-> IF top.exiting THEN rest
                  ELSE Append(rest, Frame(top.id, TRUE)) \o Frames(Follow(previous, last[top.id])),
       called |-> Append(walk.called, <<top.id, ~top.exiting>>)]

(* The calls Walk makes of its callback; each node takes two turns.        *)
Walk(root) ==
  LET walk[turn \in 0 .. 2 * MaxNodes] ==
        IF turn = 0 THEN [stack |-> <<Frame(root, FALSE)>>, called |-> <<>>]
        ELSE IF walk[turn - 1].stack = <<>> THEN walk[turn - 1]
        ELSE Turn(walk[turn - 1])
  IN  walk[2 * MaxNodes]

(* Document order: a node, all that is below it child by child, and out;   *)
(* no node is deeper than there are nodes.                                 *)
Nested(root) ==
  LET nested[depth \in 0 .. MaxNodes] ==
        [n \in Node |->
           IF depth = 0 THEN <<>>
           ELSE <<<<n, TRUE>>>>
                \o FlattenSeq([i \in 1 .. Len(Children(n)) |-> nested[depth - 1][Children(n)[i]]])
                \o <<<<n, FALSE>>>>]
  IN  nested[MaxNodes][root]

(* "Walk traverses the tree in document order. The callback is invoked on  *)
(* entry and exit" (ast/document.go:121): the stack, which is filled from  *)
(* the far end of each child list, yields exactly the nested order and is  *)
(* empty in the end, for every document whose root was not hung below      *)
(* another node.                                                           *)
WalkIsNested ==
  built /\ parent[Root] = NoNode => Walk(Root) = [stack |-> <<>>, called |-> Nested(Root)]

(* At every moment of a parse without extensions the document is one tree: *)
(* whatever parent each Add and AppendChild of parser/block.go and         *)
(* inline.go names, no node is left out and no chain of parents closes.    *)
ParsedIsRooted == caller = "parser" => RootedTree

(* Of a document the parser built Walk leaves nothing out: it enters every *)
(* node once and leaves it once, whatever hangs where.                     *)
WholeTreeIsWalked ==
  built /\ caller = "parser" =>
           LET called == Walk(Root).called
           IN  \A n \in Allocated, entering \in BOOLEAN :
                 Cardinality({i \in DOMAIN called : called[i] = <<n, entering>>}) = 1
=============================================================================
