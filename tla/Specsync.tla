------------------------------- MODULE Specsync -------------------------------
(***************************************************************************)
(* internal/specsync: download each fixture in turn, compare it with its   *)
(* pinned digest, write it to a temporary file next to the target, rename  *)
(* it over the target; stop at the first error.  The process may be killed *)
(* between any two steps, and somebody runs it again when it did not end   *)
(* well.  One process runs at a time.                                      *)
(***************************************************************************)
EXTENDS Disk, FiniteSets

CONSTANTS Count,        \* how many fixtures the list of artifacts names
          Pinned,       \* the content with the pinned digest, of each fixture
          Answers,      \* what a server may send
          Target, Temporary,  \* the paths of each fixture
          MaxFaults     \* a bound on kills, errors and wrong answers

Fixtures == 1 .. Count

ASSUME SpecsyncAssumption ==
  /\ MaxFaults \in Nat
  /\ Count \in Nat \ {0}
  /\ Pinned \in [Fixtures -> Contents]
  /\ Answers \subseteq Contents
  /\ Target \in [Fixtures -> Paths] /\ Temporary \in [Fixtures -> Paths]
  /\ \A a, b \in Fixtures : Target[a] # Temporary[b]
  /\ \A a, b \in Fixtures : a # b => Target[a] # Target[b] /\ Temporary[a] # Temporary[b]

VARIABLES phase,    \* what the process does next
          at,       \* the fixture it is at
          payload,  \* what it has downloaded
          wrote,    \* how much of that is in the temporary file
          faults    \* what has gone wrong so far, in any program

syncVars == <<phase, at, payload, wrote>>

Phases == {"request", "verify", "open", "write", "rename", "done", "failed"}
Running == phase \notin {"done", "failed"}

SyncInit == phase = "request" /\ at = 1 /\ payload = <<>> /\ wrote = 0 /\ faults = 0

GoTo(next) == phase' = next /\ UNCHANGED <<at, payload, wrote>>
Fault == faults < MaxFaults /\ faults' = faults + 1

(* The request, its status and the body read up to the limit. *)
Receive ==
  /\ phase = "request"
  /\ phase' = "verify"
  /\ payload' = Pinned[at]
  /\ UNCHANGED <<at, wrote, faults, diskVars>>

ReceiveWrong ==
  /\ phase = "request"
  /\ Fault
  /\ phase' = "verify"
  /\ payload' \in Answers
  /\ UNCHANGED <<at, wrote, diskVars>>

(* Slip: an answer is taken when it is as long as what is pinned. *)
VerifyLength ==
  /\ phase = "verify"
  /\ GoTo(IF Len(payload) = Len(Pinned[at]) THEN "open" ELSE "failed")
  /\ UNCHANGED <<faults, diskVars>>

Verify ==
  /\ phase = "verify"
  /\ GoTo(IF payload = Pinned[at] THEN "open" ELSE "failed")
  /\ UNCHANGED <<faults, diskVars>>

(* Slip: a temporary file that is there already is an error. *)
OpenNewTemporary ==
  /\ phase = "open"
  /\ IF Exists(Temporary[at])
     THEN GoTo("failed") /\ UNCHANGED diskVars
     ELSE /\ Create(Temporary[at])
          /\ phase' = "write" /\ wrote' = 0 /\ UNCHANGED <<at, payload>>
  /\ UNCHANGED faults

(* os.WriteFile: open, write part by part, close. *)
OpenTemporary ==
  /\ phase = "open"
  /\ Create(Temporary[at])
  /\ phase' = "write"
  /\ wrote' = 0
  /\ UNCHANGED <<at, payload, faults>>

WriteTemporary ==
  /\ phase = "write"
  /\ wrote < Len(payload)
  /\ Write(names[Temporary[at]], <<payload[wrote + 1]>>)
  /\ wrote' = wrote + 1
  /\ UNCHANGED <<phase, at, payload, faults>>

CloseTemporary ==
  /\ phase = "write"
  /\ wrote = Len(payload)
  /\ GoTo("rename")
  /\ UNCHANGED <<faults, diskVars>>

Install ==
  /\ phase = "rename"
  /\ Rename(Temporary[at], Target[at])
  /\ phase' = IF at = Count THEN "done" ELSE "request"
  /\ at' = IF at = Count THEN at ELSE at + 1
  /\ payload' = <<>>
  /\ wrote' = 0
  /\ UNCHANGED faults

(* A call that returns an error ends the process; so does a kill. *)
StopSync ==
  /\ Running
  /\ Fault
  /\ phase' = "failed"
  /\ at' = 1 /\ payload' = <<>> /\ wrote' = 0
  /\ UNCHANGED diskVars

RunAgain ==
  /\ phase = "failed"
  /\ phase' = "request"
  /\ at' = 1 /\ payload' = <<>> /\ wrote' = 0
  /\ UNCHANGED <<faults, diskVars>>

SyncStep == Receive \/ Verify \/ OpenTemporary \/ WriteTemporary \/ CloseTemporary \/ Install \/ RunAgain
SyncNext == SyncStep \/ ReceiveWrong \/ StopSync
-----------------------------------------------------------------------------
Store == INSTANCE FixtureStore WITH copies <- [a \in Fixtures |-> Shown(Target[a])]

(* Nobody ever sees a fixture half replaced or replaced by anything that   *)
(* was not verified, whenever the process is stopped and whatever an       *)
(* earlier run left in the temporary file.                                 *)
FixturesReplacedWhole == Store!StoreSpec

(* However a run was interrupted, running the command until it succeeds    *)
(* leaves every fixture as pinned and no temporary file.                   *)
Synced == \A a \in Fixtures : Shown(Target[a]) = {Pinned[a]} /\ ~Exists(Temporary[a])
RetryHeals == <>[]Synced
=============================================================================
