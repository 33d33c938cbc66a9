----------------------------- MODULE MCDispatch -----------------------------
(***************************************************************************)
(* A registry with a few extensions that disagree about IDs, triggers and  *)
(* priorities, and parsers made from four of their hooks at work on short  *)
(* documents.  ID 11 is ID 1 with spaces around it, ID 10 is only spaces.  *)
(***************************************************************************)
EXTENDS ExtensionDispatch

CONSTANT Families   \* sets of documents

R(id, phase, priority, triggers, implements) ==
  [id |-> id, phase |-> phase, priority |-> priority, triggers |-> triggers, implements |-> implements]

Blocks0  == R(1, 1, 0, {":"}, {1})
Blocks1  == R(2, 1, 1, {}, {1})
Inlines0 == R(3, 2, 0, {"@"}, {2})
Inlines1 == R(4, 2, 1, {"@", "a"}, {2, 4})
AtWork   == {Blocks0, Blocks1, Inlines0, Inlines1}

MCRegistrations ==
  AtWork \cup
  { R(11, 2, 1, {"b"}, {2}), R(5, 2, 0, {"@", "b"}, {2}), R(5, 1, 0, {}, {1}),
    R(6, 4, 0, {}, {2}), R(10, 1, 2, {":"}, {1}), R(7, 5, 0, {"a"}, {1}) }

MCTrimmed == (1 :> 1) @@ (2 :> 2) @@ (3 :> 3) @@ (4 :> 4) @@ (5 :> 5) @@ (6 :> 6) @@ (7 :> 7)
               @@ (10 :> 0) @@ (11 :> 1)
MCBytes == {":", "@", "a", "b", "nl", " "}

MCFreezeCalls ==
  {<<>>} \cup
  {<<[registration |-> r, reports |-> b], [registration |-> q, reports |-> TRUE]>> :
     r, q \in MCRegistrations, b \in BOOLEAN}

(* Paragraphs of several lines, with either line ending and with blanks;   *)
(* quotes that end, that have gaps in their text, that hold or follow tabs. *)
Mixed ==
  { <<"a", "nl", "@", "a">>, <<"@", "cr", "nl", "@">>, <<" ", "@", " ", "nl", " ", "a">>,
    <<":", "nl", "nl", "a", "nl">>, <<">", " ", "@", "nl", ">", " ", "a">>,
    <<">", ":", "nl", ">", "nl", "nl", ":">>, <<">", ">", "tab", "tab", "@">>,
    <<">", "tab", "tab", "a">>, <<"tab", ">", "a">> }

Tabs == {<<">", ">", "tab", " ", " ", "a">>}

MixedFamily == {Mixed}
TabFamily == {Tabs}
MCSources == UNION Families

(* Parsers are made of what was registered in the order of the Set.        *)
Worth == stage = "new" /\ stage' # "new" => entries = set /\ Entry \subseteq AtWork

DispatchRuns ==
  DispatchInit /\ [][(BuildParser \/ StartParse \/ DispatchNext) /\ Worth]_dispatchVars
=============================================================================
