-------------------------------- MODULE MCTools --------------------------------
(***************************************************************************)
(* One convert that works in place or reads the first fixture, one explain *)
(* that reads a fixture, and specsync with two fixtures of two parts.      *)
(***************************************************************************)
EXTENDS Commands

TargetPaths == <<1, 2>>
TemporaryPaths == <<3, 4>>
Note == 5
Report == 6

SixPaths == 1 .. 6
SomeFiles == 1 .. 14
(* What is rendered is made of parts again, as RendersContents asks. *)
SourceParts == {"old1", "old2", "pinned1", "pinned2", "stale", "note", "report", "wrong"}
SomeParts == SourceParts \cup {"r-" \o part : part \in SourceParts}
PinnedParts == << <<"pinned1", "pinned1">>, <<"pinned2", "pinned2">> >>
WrongAnswers == {<<>>, <<"wrong", "wrong">>}
OldParts == << <<"old1", "old1">>, <<"old2", "old2">>, <<"stale", "stale", "stale">>, <<"stale">>,
               <<"note", "note">>, <<"report", "report", "report">> >>

(* Everything there, with and without what an interrupted run left; and a  *)
(* fresh clone without fixtures.                                           *)
ThreeStarts == {{1, 2, 5, 6}, {1, 2, 3, 4, 5, 6}, {5}}

InputPaths == [p \in {"convert", "explain"} |-> IF p = "convert" THEN {1, Note} ELSE {2}]
OutputPaths == [p \in {"convert", "explain"} |-> IF p = "convert" THEN Note ELSE Report]
Tagged(c) == [n \in DOMAIN c |-> IF c[n] \in SourceParts THEN "r-" \o c[n] ELSE c[n]]

Stopped == phase = "done" /\ (\A p \in Processes : pc[p] \in Ended) /\ UNCHANGED toolVars
ToolRuns == ToolsInit /\ [][ToolsNext \/ Stopped]_toolVars /\ WF_toolVars(SyncStep /\ UNCHANGED commandVars)
=============================================================================
