------------------------------- MODULE Commands -------------------------------
(***************************************************************************)
(* cmd/markonward: convert and explain as processes that share a disk with *)
(* specsync.  Each reads the whole of its input, parses it and writes to a *)
(* file it creates.  The two differ in what they check before they create  *)
(* that file, and with it empty the one that was there.  What is written   *)
(* is the rendering of the input, part by part where the renderer or the   *)
(* trace sink writes as it goes.  Standard input and output and the        *)
(* wording of errors are not modelled.                                     *)
(***************************************************************************)
EXTENDS Specsync

CONSTANTS Converts, Explains,   \* the processes
          Input,                \* the paths each may be given to read
          Output,               \* the path each writes to
          Rendered(_)           \* the complete output for an input

Processes == Converts \cup Explains
SyncPaths == {Target[a] : a \in Fixtures} \cup {Temporary[a] : a \in Fixtures}

ASSUME CommandsAssumption ==
  /\ Converts \cap Explains = {}
  /\ Input \in [Processes -> SUBSET Paths]
  /\ Output \in [Processes -> Paths \ SyncPaths]
  /\ \A p, q \in Processes : p # q => Output[p] # Output[q]

VARIABLES pc,       \* what a process does next
          from,     \* the path it reads
          source,   \* the file it found there
          read,     \* what it has read
          out,      \* the file it has created
          code,     \* its exit code
          closed,   \* did the close succeed that nobody asks about?
          before    \* history: what each path showed at the start

commandVars == <<pc, from, source, read, out, code, closed, before>>
toolVars == <<diskVars, syncVars, faults, commandVars>>

Ended == {"exited", "killed"}

CommandInit ==
  /\ pc = [p \in Processes |-> "flags"]
  /\ from = [p \in Processes |-> Output[p]]
  /\ source = [p \in Processes |-> NoFile]
  /\ read = [p \in Processes |-> <<>>]
  /\ out = [p \in Processes |-> NoFile]
  /\ code = [p \in Processes |-> 0]
  /\ closed = [p \in Processes |-> TRUE]
  /\ before = [path \in Paths |-> Shown(path)]

To(p, step) == pc' = [pc EXCEPT ![p] = step]
Exit(p, c) == To(p, "exited") /\ code' = [code EXCEPT ![p] = c]
-----------------------------------------------------------------------------
(* Unknown flags and profiles: a usage error before anything is opened. *)
ParseFlags(p) ==
  /\ pc[p] = "flags"
  /\ \/ To(p, "open") /\ UNCHANGED code
     \/ Exit(p, 2)
  /\ UNCHANGED <<from, source, read, out, closed, before, diskVars, syncVars, faults>>

(* os.ReadFile *)
OpenInput(p) ==
  /\ pc[p] = "open"
  /\ \E path \in Input[p] :
       IF Exists(path)
       THEN /\ To(p, "read")
            /\ from' = [from EXCEPT ![p] = path]
            /\ source' = [source EXCEPT ![p] = names[path]]
            /\ UNCHANGED code
       ELSE Exit(p, 1) /\ UNCHANGED <<from, source>>
  /\ UNCHANGED <<read, out, closed, before, diskVars, syncVars, faults>>

ReadPart(p) ==
  /\ pc[p] = "read"
  /\ Len(read[p]) < Len(content[source[p]])
  /\ read' = [read EXCEPT ![p] = Append(@, content[source[p]][Len(@) + 1])]
  /\ UNCHANGED <<pc, from, source, out, code, closed, before, diskVars, syncVars, faults>>

(* Slip: convert, too, creates its output before it has looked at the rest. *)
AfterReadAtOnce(p) == "create"

(* convert parses and picks its renderer before it creates the output,     *)
(* explain after.                                                          *)
AfterRead(p) == IF p \in Converts THEN "parse" ELSE "create"

AfterCreate(p) == IF AfterRead(p) = "parse" THEN "write" ELSE "parse"

EndOfInput(p) ==
  /\ pc[p] = "read"
  /\ Len(read[p]) >= Len(content[source[p]])
  /\ To(p, AfterRead(p))
  /\ UNCHANGED <<from, source, read, out, code, closed, before, diskVars, syncVars, faults>>

(* Parse rejects the input (1), the format or locale is unknown (2), or    *)
(* the work goes on.                                                       *)
ParseAndChoose(p) ==
  /\ pc[p] = "parse"
  /\ \/ To(p, IF out[p] = NoFile THEN "create" ELSE "write") /\ UNCHANGED code
     \/ \E c \in {1, 2} : Exit(p, c)
  /\ UNCHANGED <<from, source, read, out, closed, before, diskVars, syncVars, faults>>

(* outputDestination *)
CreateOutput(p) ==
  /\ pc[p] = "create"
  /\ Create(Output[p])
  /\ out' = [out EXCEPT ![p] = Opened(Output[p])]
  /\ To(p, AfterCreate(p))
  /\ UNCHANGED <<from, source, read, code, closed, before, syncVars, faults>>

Remaining(p) == SubSeq(Rendered(read[p]), Len(content[out[p]]) + 1, Len(Rendered(read[p])))

(* A write takes some of what remains: the HTML renderer and the sinks     *)
(* write part by part, the others all at once.                             *)
WriteOutput(p) ==
  /\ pc[p] = "write"
  /\ Remaining(p) # <<>>
  /\ \E n \in {1, Len(Remaining(p))} : Write(out[p], SubSeq(Remaining(p), 1, n))
  /\ UNCHANGED <<commandVars, syncVars, faults>>

(* The deferred close drops its error: what it could not store is gone,    *)
(* and the exit code is 0 all the same.                                    *)
CloseOutput(p) ==
  /\ pc[p] = "write"
  /\ Remaining(p) = <<>>
  /\ Exit(p, 0)
  /\ UNCHANGED <<from, source, read, out, closed, before, diskVars, syncVars, faults>>

CloseFails(p) ==
  /\ pc[p] = "write"
  /\ Remaining(p) = <<>>
  /\ Fault
  /\ Exit(p, 0)
  /\ closed' = [closed EXCEPT ![p] = FALSE]
  /\ \E n \in 0 .. Len(content[out[p]]) : CutTo(out[p], n)
  /\ UNCHANGED <<from, source, read, out, before, syncVars>>

(* Slip: a failed write ends the process as a finished one does. *)
StepFailsQuietly(p) ==
  /\ pc[p] \in {"read", "create", "write"}
  /\ Fault
  /\ Exit(p, IF pc[p] = "write" THEN 0 ELSE 1)
  /\ UNCHANGED <<from, source, read, out, closed, before, diskVars, syncVars>>

(* Reading, creating or writing fails. *)
StepFails(p) ==
  /\ pc[p] \in {"read", "create", "write"}
  /\ Fault
  /\ Exit(p, 1)
  /\ UNCHANGED <<from, source, read, out, closed, before, diskVars, syncVars>>

Kill(p) ==
  /\ pc[p] \notin Ended
  /\ Fault
  /\ To(p, "killed")
  /\ UNCHANGED <<from, source, read, out, code, closed, before, diskVars, syncVars>>

CommandStep(p) ==
  \/ ParseFlags(p) \/ OpenInput(p) \/ ReadPart(p) \/ EndOfInput(p) \/ ParseAndChoose(p)
  \/ CreateOutput(p) \/ WriteOutput(p) \/ CloseOutput(p)
CommandFault(p) == CloseFails(p) \/ StepFails(p) \/ Kill(p)

Sync == SyncNext /\ UNCHANGED commandVars

ToolsInit == DiskInit /\ SyncInit /\ CommandInit
ToolsNext == Sync \/ \E p \in Processes : CommandStep(p) \/ CommandFault(p)
ToolsSpec == ToolsInit /\ [][ToolsNext]_toolVars

(* A process that runs gets on, and somebody runs specsync again after a   *)
(* run that has failed.  Nothing is assumed about the commands.            *)
FairTools == ToolsSpec /\ WF_toolVars(SyncStep /\ UNCHANGED commandVars)
-----------------------------------------------------------------------------
Prefix(c, d) == Len(c) <= Len(d) /\ \A n \in 1 .. Len(c) : c[n] = d[n]

(* A command that reads a fixture while specsync replaces it gets one      *)
(* version from beginning to end, the old one or the pinned one.           *)
ReadsAreWhole ==
  \A p \in Processes, a \in Fixtures :
    pc[p] \in {"parse", "create", "write"} /\ from[p] = Target[a]
      => read[p] \in before[Target[a]] \cup {Pinned[a]}

(* Whatever happens to a command, its output path shows what it showed     *)
(* before or the beginning of what belongs there: no mixture with older    *)
(* content, in place (input and output the same path) included.            *)
OutputOldOrBegun ==
  \A p \in Processes :
    IF out[p] = NoFile THEN Shown(Output[p]) = before[Output[p]]
    ELSE \E c \in Shown(Output[p]) : Prefix(c, Rendered(read[p]))

(* The exit code can be trusted: 0 means that the output is complete       *)
(* (unless closing failed, which is not asked about), and a convert that   *)
(* ends with a usage error has left the old output alone.                  *)
ExitCodeIsTrue ==
  \A p \in Processes : pc[p] = "exited" =>
    /\ code[p] = 0 /\ closed[p] => Shown(Output[p]) = {Rendered(read[p])}
    /\ code[p] = 2 /\ p \in Converts => Shown(Output[p]) = before[Output[p]]
=============================================================================
