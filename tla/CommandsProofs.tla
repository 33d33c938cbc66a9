---------------------------- MODULE CommandsProofs ----------------------------
(***************************************************************************)
(* Whatever is interrupted, wrongly answered, left over or run again, and  *)
(* whatever convert and explain do to the same disk meanwhile, each step   *)
(* of any program leaves the fixtures alone or replaces one of them by     *)
(* what is pinned for it.                                                  *)
(*                                                                         *)
(* So a command that has opened a fixture reads one version of it from     *)
(* beginning to end, however often specsync replaces it meanwhile: the     *)
(* file in its hands may lose its name, but nobody writes to it any more.  *)
(* What it writes, nobody else touches: an output is old or the beginning  *)
(* of what belongs there, and the exit code can be believed.               *)
(***************************************************************************)
EXTENDS Commands, SequenceTheorems, TLAPS

(* Paths name different files, and a file with a name has been made. *)
DiskInv ==
  /\ names \in [Paths -> Files \cup {NoFile}]
  /\ content = [file \in Files |-> content[file]]
  /\ made \subseteq Files
  /\ \A p, q \in Paths : Exists(p) /\ names[p] = names[q] => p = q
  /\ \A p \in Paths : Exists(p) => names[p] \in made

(* Behind verification the payload is what is pinned, and the temporary    *)
(* file holds as much of it as has been written.                           *)
SyncInv ==
  /\ at \in Fixtures
  /\ payload \in Contents
  /\ wrote \in 0 .. Len(payload)
  /\ phase \notin {"write", "rename"} => wrote = 0
  /\ phase \in {"open", "write", "rename"} => payload = Pinned[at]
  /\ phase \in {"write", "rename"} =>
       /\ Exists(Temporary[at])
       /\ content[names[Temporary[at]]] = SubSeq(payload, 1, wrote)
  /\ phase = "rename" => wrote = Len(payload)

(* No command has a file in its hands that specsync's paths name. *)
OutputsApart ==
  /\ out \in [Processes -> Files \cup {NoFile}]
  /\ \A p \in Processes : out[p] # NoFile =>
       out[p] \in made /\ \A path \in SyncPaths : names[path] # out[p]

ToolsInv == DiskInv /\ SyncInv /\ OutputsApart

Copies == [a \in Fixtures |-> Shown(Target[a])]

(* What opening a file for writing does to the disk. *)
LEMMA CreateOpens ==
  ASSUME DiskInv, NEW path \in Paths, Create(path)
  PROVE  /\ DiskInv'
         /\ Opened(path) \in Files
         /\ names'[path] = Opened(path) /\ content'[Opened(path)] = <<>>
         /\ made \subseteq made' /\ Opened(path) \in made'
         /\ \A q \in Paths \ {path} : names'[q] = names[q] /\ names[q] # Opened(path)
         /\ \A file \in made : file # names[path] => file # Opened(path)
         /\ \A file \in Files \ {Opened(path)} : content'[file] = content[file]
<1>1. CASE Exists(path)
  <2>1. Opened(path) = names[path] /\ names[path] \in made
    BY <1>1 DEF Opened, DiskInv
  <2> QED
    BY <1>1, <2>1, DiskAssumption DEF DiskInv, Create, Exists
<1>2. CASE ~Exists(path)
  <2>1. Opened(path) \in Files \ made
    BY <1>2 DEF Opened, Create, Room, Fresh
  <2> QED
    BY <1>2, <2>1, DiskAssumption DEF DiskInv, Create, Exists
<1> QED
  BY <1>1, <1>2

(* Writing to a file that a command has opened touches no fixture. *)
LEMMA OutputsTouchNoFixture ==
  ASSUME ToolsInv, NEW p \in Processes, NEW written,
         content' = [content EXCEPT ![out[p]] = written],
         UNCHANGED <<names, made, syncVars, out>>
  PROVE  ToolsInv' /\ Copies' = Copies
<1>1. \A path \in SyncPaths : Exists(path) => content'[names[path]] = content[names[path]]
  <2>1. SyncPaths \subseteq Paths
    BY SpecsyncAssumption DEF SyncPaths
  <2> QED
    BY <2>1 DEF ToolsInv, DiskInv, OutputsApart, Exists
<1>2. \A a \in Fixtures : Target[a] \in SyncPaths /\ Temporary[a] \in SyncPaths
  BY DEF SyncPaths
<1>3. DiskInv' /\ OutputsApart'
  BY DEF ToolsInv, DiskInv, OutputsApart, Exists
<1>4. SyncInv'
  BY <1>1, <1>2 DEF ToolsInv, SyncInv, syncVars, Exists
<1>5. Copies' = Copies
  BY <1>1, <1>2 DEF Copies, Shown, Exists
<1> QED
  BY <1>3, <1>4, <1>5 DEF ToolsInv

(* Taking the name of the temporary file, which is complete, replaces one  *)
(* fixture.                                                                *)
LEMMA InstallReplaces ==
  ASSUME ToolsInv, Install, UNCHANGED out
  PROVE  /\ ToolsInv'
         /\ Copies' = [Copies EXCEPT ![at] = {Pinned[at]}]
<1>1. /\ phase = "rename" /\ at \in Fixtures
      /\ Exists(Temporary[at]) /\ payload = Pinned[at] /\ payload \in Contents
      /\ content[names[Temporary[at]]] = payload
  <2>1. content[names[Temporary[at]]] = SubSeq(payload, 1, Len(payload)) /\ payload \in Seq(Parts)
    BY DEF ToolsInv, SyncInv, Install, Contents
  <2> QED
    BY <2>1 DEF ToolsInv, SyncInv, Install
<1>2. /\ Target[at] \in Paths /\ Temporary[at] \in Paths /\ Target[at] # Temporary[at]
      /\ Target[at] \in SyncPaths /\ Temporary[at] \in SyncPaths /\ SyncPaths \subseteq Paths
  BY <1>1, SpecsyncAssumption DEF SyncPaths
<1>3. /\ names' = [names EXCEPT ![Target[at]] = names[Temporary[at]], ![Temporary[at]] = NoFile]
      /\ UNCHANGED <<content, made>>
  BY DEF Install, Rename
<1>4. DiskInv'
  BY <1>1, <1>2, <1>3, DiskAssumption DEF ToolsInv, DiskInv, Exists
<1>5. OutputsApart'
  BY <1>1, <1>2, <1>3 DEF ToolsInv, DiskInv, OutputsApart, Exists
<1>6. SyncInv'
  <2>1. at' \in Fixtures
    BY <1>1, SpecsyncAssumption DEF Install, Fixtures
  <2>2. phase' \in {"request", "done"} /\ payload' = <<>> /\ wrote' = 0
    BY DEF Install
  <2>3. <<>> \in Contents /\ Len(<<>>) = 0
    BY DEF Contents
  <2> QED
    BY <2>1, <2>2, <2>3 DEF SyncInv
<1> PICK i \in Fixtures : i = at
  BY <1>1
<1>7. Shown(Target[i])' = {Pinned[i]}
  BY <1>1, <1>2, <1>3, DiskAssumption DEF ToolsInv, DiskInv, Shown, Exists
<1>8. ASSUME NEW a \in Fixtures, a # i PROVE Shown(Target[a])' = Shown(Target[a])
  <2>1. Target[a] \in Paths /\ Target[a] # Target[at] /\ Target[a] # Temporary[at]
    BY <1>1, <1>8, SpecsyncAssumption
  <2> QED
    BY <1>2, <1>3, <2>1 DEF ToolsInv, DiskInv, Shown, Exists
<1>9. Copies' = [Copies EXCEPT ![at] = {Pinned[at]}]
  BY <1>1, <1>7, <1>8 DEF Copies
<1> QED
  BY <1>4, <1>5, <1>6, <1>9 DEF ToolsInv

(* The other steps of specsync write, if anything, a temporary file.       *)
LEMMA SyncTouchesTemporaryOnly ==
  ASSUME ToolsInv, UNCHANGED out, SyncNext, ~Install
  PROVE  ToolsInv' /\ Copies' = Copies
<1>1. /\ \A a \in Fixtures : Target[a] \in SyncPaths /\ Temporary[a] \in SyncPaths
      /\ SyncPaths \subseteq Paths
      /\ at \in Fixtures /\ Pinned[at] \in Contents
      /\ \A a, b \in Fixtures : Target[a] # Temporary[b]
  BY SpecsyncAssumption DEF SyncPaths, ToolsInv, SyncInv
<1>2. <<>> \in Contents /\ Len(<<>>) = 0 /\ 1 \in Fixtures
  BY SpecsyncAssumption DEF Contents, Fixtures
<1> DEFINE temporary == Temporary[at]
<1>3. ASSUME UNCHANGED diskVars, SyncInv'
      PROVE  ToolsInv' /\ Copies' = Copies
  <2>1. DiskInv' /\ OutputsApart'
    BY <1>3 DEF diskVars, ToolsInv, DiskInv, OutputsApart, Exists
  <2>2. Copies' = Copies
    BY <1>3 DEF diskVars, Copies, Shown, Exists
  <2> QED
    BY <1>3, <2>1, <2>2 DEF ToolsInv
<1>4. CASE Receive \/ ReceiveWrong
  <2>1. payload' \in Contents /\ phase' = "verify" /\ phase = "request" /\ UNCHANGED <<at, wrote, diskVars>>
    BY <1>1, <1>4, SpecsyncAssumption DEF Receive, ReceiveWrong
  <2>2. SyncInv'
    BY <2>1 DEF ToolsInv, SyncInv, Contents
  <2> QED
    BY <1>3, <2>1, <2>2
<1>5. CASE Verify
  <2>1. SyncInv' /\ UNCHANGED diskVars
    BY <1>5 DEF Verify, GoTo, ToolsInv, SyncInv
  <2> QED
    BY <1>3, <2>1
<1>6. CASE StopSync \/ RunAgain
  <2>1. SyncInv' /\ UNCHANGED diskVars
    BY <1>1, <1>2, <1>6 DEF StopSync, RunAgain, SyncInv
  <2> QED
    BY <1>3, <2>1
<1>7. CASE CloseTemporary
  <2>1. SyncInv' /\ UNCHANGED diskVars
    BY <1>7 DEF CloseTemporary, GoTo, ToolsInv, SyncInv, diskVars, Exists
  <2> QED
    BY <1>3, <2>1
<1>8. CASE OpenTemporary
  <2>1. DiskInv /\ temporary \in Paths /\ Create(temporary)
    BY <1>1, <1>8 DEF OpenTemporary, ToolsInv
  <2>2. /\ DiskInv'
        /\ Opened(temporary) \in Files
        /\ names'[temporary] = Opened(temporary) /\ content'[Opened(temporary)] = <<>>
        /\ made \subseteq made' /\ Opened(temporary) \in made'
        /\ \A q \in Paths \ {temporary} : names'[q] = names[q] /\ names[q] # Opened(temporary)
        /\ \A file \in made : file # names[temporary] => file # Opened(temporary)
        /\ \A file \in Files \ {Opened(temporary)} : content'[file] = content[file]
    BY <2>1, CreateOpens
  <2>3. OutputsApart'
    BY <1>1, <2>2 DEF ToolsInv, OutputsApart, Exists
  <2>4. SyncInv'
    <3>1. SubSeq(payload, 1, 0) = <<>>
      BY DEF ToolsInv, SyncInv, Contents
    <3>2. phase = "open" /\ phase' = "write" /\ wrote' = 0 /\ UNCHANGED <<at, payload>>
      BY <1>8 DEF OpenTemporary
    <3> QED
      BY <2>2, <3>1, <3>2, DiskAssumption DEF ToolsInv, SyncInv, Contents, Exists
  <2>5. Copies' = Copies
    <3>1. ASSUME NEW a \in Fixtures PROVE Shown(Target[a])' = Shown(Target[a])
      <4>1. Target[a] \in Paths \ {temporary}
        BY <1>1
      <4>2. names'[Target[a]] = names[Target[a]] /\ names[Target[a]] # Opened(temporary)
        BY <2>2, <4>1
      <4>3. Exists(Target[a]) => names[Target[a]] \in Files
        BY <4>1 DEF ToolsInv, DiskInv, Exists
      <4> QED
        BY <2>2, <4>2, <4>3 DEF Shown, Exists
    <3> QED
      BY <3>1 DEF Copies
  <2> QED
    BY <2>2, <2>3, <2>4, <2>5 DEF ToolsInv
<1>9. CASE WriteTemporary
  <2>1. /\ phase = "write" /\ wrote < Len(payload) /\ wrote' = wrote + 1
        /\ content' = [content EXCEPT ![names[temporary]] = @ \o <<payload[wrote + 1]>>]
        /\ UNCHANGED <<phase, at, payload, names, made>>
    BY <1>9 DEF WriteTemporary, Write
  <2>2. /\ Exists(temporary) /\ names[temporary] \in Files
        /\ content[names[temporary]] = SubSeq(payload, 1, wrote)
        /\ payload \in Seq(Parts) /\ wrote \in 0 .. Len(payload) /\ payload = Pinned[at]
    BY <1>1, <2>1 DEF ToolsInv, SyncInv, DiskInv, Exists, Contents
  <2>3. DiskInv' /\ OutputsApart'
    BY <2>1 DEF ToolsInv, DiskInv, OutputsApart, Exists
  <2>4. content'[names[temporary]] = SubSeq(payload, 1, wrote + 1)
    <3>1. content'[names[temporary]] = SubSeq(payload, 1, wrote) \o <<payload[wrote + 1]>>
      BY <2>1, <2>2 DEF ToolsInv, DiskInv
    <3>2. SubSeq(payload, 1, wrote) \o <<payload[wrote + 1]>> = SubSeq(payload, 1, wrote + 1)
      BY <2>1, <2>2
    <3> QED
      BY <3>1, <3>2
  <2>5. SyncInv'
    BY <1>1, <2>1, <2>2, <2>4 DEF SyncInv, Exists, Contents
  <2>6. Copies' = Copies
    BY <1>1, <2>1, <2>2 DEF Copies, Shown, Exists, ToolsInv, DiskInv
  <2> QED
    BY <2>3, <2>5, <2>6 DEF ToolsInv
<1> QED
  BY <1>4, <1>5, <1>6, <1>7, <1>8, <1>9 DEF SyncNext, SyncStep

(* Creating an output empties no fixture and no temporary file.            *)
LEMMA OutputsAreCreatedApart ==
  ASSUME ToolsInv, NEW p \in Processes, CreateOutput(p)
  PROVE  ToolsInv' /\ Copies' = Copies
<1> DEFINE path == Output[p]
<1>1. /\ path \in Paths /\ path \notin SyncPaths
      /\ SyncPaths \subseteq Paths
      /\ \A a \in Fixtures : Target[a] \in SyncPaths /\ Temporary[a] \in SyncPaths
  BY SpecsyncAssumption, CommandsAssumption DEF SyncPaths
<1>2. /\ DiskInv'
      /\ Opened(path) \in Files
      /\ made \subseteq made' /\ Opened(path) \in made'
      /\ \A q \in Paths \ {path} : names'[q] = names[q] /\ names[q] # Opened(path)
      /\ \A file \in Files \ {Opened(path)} : content'[file] = content[file]
  BY <1>1, CreateOpens DEF CreateOutput, ToolsInv
<1>3. out' = [out EXCEPT ![p] = Opened(path)] /\ UNCHANGED syncVars
  BY DEF CreateOutput
<1>4. OutputsApart'
  <2>1. out' \in [Processes -> Files \cup {NoFile}]
    BY <1>2, <1>3 DEF ToolsInv, OutputsApart
  <2>2. \A q \in SyncPaths : names'[q] = names[q] /\ names[q] # Opened(path)
    BY <1>1, <1>2
  <2> QED
    BY <1>2, <1>3, <2>1, <2>2 DEF ToolsInv, OutputsApart
<1>5. \A q \in SyncPaths :
        names'[q] = names[q] /\ (Exists(q) => content'[names[q]] = content[names[q]])
  BY <1>1, <1>2 DEF ToolsInv, DiskInv, Exists
<1>6. SyncInv'
  BY <1>1, <1>3, <1>5 DEF ToolsInv, SyncInv, syncVars, Exists
<1>7. Copies' = Copies
  BY <1>1, <1>5 DEF Copies, Shown, Exists
<1> QED
  BY <1>2, <1>4, <1>6, <1>7 DEF ToolsInv

LEMMA InitialToolsInv == ToolsInit => ToolsInv
<1> SUFFICES ASSUME ToolsInit PROVE ToolsInv
  OBVIOUS
<1>1. DiskInv
  BY DiskAssumption DEF ToolsInit, DiskInit, DiskInv, Exists
<1>2. SyncInv
  BY SpecsyncAssumption DEF ToolsInit, SyncInit, SyncInv, Contents, Fixtures
<1>3. OutputsApart
  BY DEF ToolsInit, CommandInit, OutputsApart
<1> QED
  BY <1>1, <1>2, <1>3 DEF ToolsInv

ReplacesOne == \E a \in Fixtures : Copies' = [Copies EXCEPT ![a] = {Pinned[a]}]

LEMMA ToolsStep ==
  ASSUME ToolsInv, [ToolsNext]_toolVars
  PROVE  ToolsInv' /\ (Copies' = Copies \/ ReplacesOne)
<1>1. ASSUME UNCHANGED <<diskVars, syncVars, out>>
      PROVE  ToolsInv' /\ Copies' = Copies
  <2>1. DiskInv' /\ OutputsApart' /\ SyncInv'
    BY <1>1 DEF ToolsInv, DiskInv, OutputsApart, SyncInv, diskVars, syncVars, Exists
  <2>2. Copies' = Copies
    BY <1>1 DEF Copies, Shown, Exists, diskVars
  <2> QED
    BY <2>1, <2>2 DEF ToolsInv
<1>2. CASE UNCHANGED toolVars
  BY <1>1, <1>2 DEF toolVars, commandVars
<1>3. CASE Sync /\ Install
  <2>1. Copies' = [Copies EXCEPT ![at] = {Pinned[at]}] /\ ToolsInv'
    BY <1>3, InstallReplaces DEF Sync, commandVars
  <2>2. at \in Fixtures
    BY DEF ToolsInv, SyncInv
  <2> QED
    BY <2>1, <2>2 DEF ReplacesOne
<1>4. CASE Sync /\ ~Install
  BY <1>4, SyncTouchesTemporaryOnly DEF Sync, commandVars
<1>5. ASSUME NEW p \in Processes, CommandStep(p) \/ CommandFault(p)
      PROVE  ToolsInv' /\ Copies' = Copies
  <2>1. CASE CreateOutput(p)
    BY <2>1, OutputsAreCreatedApart
  <2>2. CASE WriteOutput(p)
    <3>1. PICK n : Write(out[p], SubSeq(Remaining(p), 1, n))
      BY <2>2 DEF WriteOutput
    <3>2. /\ content' = [content EXCEPT ![out[p]] = content[out[p]] \o SubSeq(Remaining(p), 1, n)]
          /\ UNCHANGED <<names, made, syncVars, out>>
      BY <2>2, <3>1 DEF WriteOutput, Write, commandVars
    <3> QED
      BY <3>2, OutputsTouchNoFixture
  <2>3. CASE CloseFails(p)
    <3>1. PICK n : CutTo(out[p], n)
      BY <2>3 DEF CloseFails
    <3>2. /\ content' = [content EXCEPT ![out[p]] = SubSeq(content[out[p]], 1, n)]
          /\ UNCHANGED <<names, made, syncVars, out>>
      BY <2>3, <3>1 DEF CloseFails, CutTo
    <3> QED
      BY <3>2, OutputsTouchNoFixture
  <2>4. CASE ParseFlags(p) \/ OpenInput(p) \/ ReadPart(p) \/ EndOfInput(p) \/ ParseAndChoose(p)
             \/ CloseOutput(p) \/ StepFails(p) \/ Kill(p)
    <3>1. UNCHANGED <<diskVars, syncVars, out>>
      BY <2>4 DEF ParseFlags, OpenInput, ReadPart, EndOfInput, ParseAndChoose, CloseOutput, StepFails, Kill
    <3> QED
      BY <1>1, <3>1
  <2> QED
    BY <1>5, <2>1, <2>2, <2>3, <2>4 DEF CommandStep, CommandFault
<1> QED
  BY <1>2, <1>3, <1>4, <1>5 DEF ToolsNext

THEOREM ToolsInvariant == ToolsSpec => []ToolsInv
<1>1. ToolsInv /\ [ToolsNext]_toolVars => ToolsInv'
  BY ToolsStep
<1> QED
  BY <1>1, InitialToolsInv, PTL DEF ToolsSpec

(* For any number of fixtures, processes and faults: specsync's promise    *)
(* holds of the disk all three programs share.                             *)
THEOREM FixturesAreReplacedWhole == ToolsSpec => FixturesReplacedWhole
<1>1. ToolsInit => Store!StoreInit
  BY DEF Store!StoreInit, Shown
<1>2. ToolsInv /\ [ToolsNext]_toolVars => [Store!StoreNext]_Copies
  <2> SUFFICES ASSUME ToolsInv, [ToolsNext]_toolVars
               PROVE  Copies' = Copies \/ Store!StoreNext
    OBVIOUS
  <2>1. ReplacesOne => Store!StoreNext
    BY DEF ReplacesOne, Store!StoreNext, Store!Replace, Copies
  <2> QED
    BY <2>1, ToolsStep
<1> QED
  BY <1>1, <1>2, ToolsInvariant, PTL DEF ToolsSpec, FixturesReplacedWhole, Store!StoreSpec, Copies
-----------------------------------------------------------------------------
Versions(a) == before[Target[a]] \cup {Pinned[a]}

(* A file that once had the name of a fixture, and that no name but this   *)
(* and no command's output leads to.                                       *)
WasFixture(file, a) ==
  /\ file \in made
  /\ \A path \in Paths : names[path] = file => path = Target[a]
  /\ \A q \in Processes : out[q] # file
  /\ content[file] \in Versions(a)

HasRead(p) ==
  LET whole == content[source[p]]
  IN  /\ read[p] \in Contents
      /\ Len(read[p]) <= Len(whole)
      /\ read[p] = SubSeq(whole, 1, Len(read[p]))
      /\ pc[p] \in {"parse", "create", "write"} => Len(read[p]) = Len(whole)

CommandsTyped ==
  /\ pc = [p \in Processes |-> pc[p]]
  /\ from \in [Processes -> Paths]
  /\ source = [p \in Processes |-> source[p]]
  /\ read = [p \in Processes |-> read[p]]
  /\ \A path \in Paths : before[path] \subseteq Contents

ReadersInv ==
  /\ CommandsTyped
  /\ \A a \in Fixtures : Shown(Target[a]) \subseteq Versions(a)
  /\ \A p \in Processes : pc[p] \in {"flags", "open"} => from[p] = Output[p] /\ read[p] = <<>>
  /\ \A p \in Processes, a \in Fixtures :
       from[p] = Target[a] => WasFixture(source[p], a) /\ HasRead(p)

(* What no step of any program does to such a file. *)
LeftAlone(file) ==
  /\ file \in made'
  /\ content'[file] = content[file]
  /\ \A path \in Paths : names'[path] = file => names[path] = file
  /\ \A q \in Processes : out'[q] = file => out[q] = file

LEMMA CreateLeavesAlone ==
  ASSUME ToolsInv, NEW a \in Fixtures, NEW file, WasFixture(file, a),
         NEW path \in Paths, path # Target[a], Create(path)
  PROVE  /\ file \in made'
         /\ content'[file] = content[file]
         /\ \A q \in Paths : names'[q] = file => names[q] = file
         /\ file # Opened(path)
<1>1. file \in made /\ file # names[path] /\ file \in Files
  BY DEF WasFixture, ToolsInv, DiskInv
<1>2. /\ names'[path] = Opened(path)
      /\ made \subseteq made'
      /\ \A q \in Paths \ {path} : names'[q] = names[q]
      /\ \A f \in made : f # names[path] => f # Opened(path)
      /\ \A f \in Files \ {Opened(path)} : content'[f] = content[f]
  BY CreateOpens DEF ToolsInv
<1> QED
  BY <1>1, <1>2

LEMMA FixturesAreLeftAlone ==
  ASSUME ToolsInv, ToolsNext, NEW a \in Fixtures, NEW file, WasFixture(file, a)
  PROVE  LeftAlone(file)
<1>1. /\ file \in made /\ file \in Files /\ file # NoFile
      /\ at \in Fixtures /\ Temporary[at] \in Paths /\ Target[at] \in Paths /\ Temporary[at] # Target[a]
      /\ names[Temporary[at]] # file
  BY SpecsyncAssumption, DiskAssumption DEF WasFixture, ToolsInv, DiskInv, SyncInv
<1>2. ASSUME UNCHANGED <<diskVars, out>> PROVE LeftAlone(file)
  BY <1>1, <1>2 DEF LeftAlone, diskVars
<1>3. CASE Sync
  <2>1. CASE OpenTemporary
    <3>1. Create(Temporary[at]) /\ UNCHANGED out
      BY <1>3, <2>1 DEF OpenTemporary, Sync, commandVars
    <3> QED
      BY <1>1, <3>1, CreateLeavesAlone DEF LeftAlone
  <2>2. CASE WriteTemporary
    <3>1. /\ content' = [content EXCEPT ![names[Temporary[at]]] = @ \o <<payload[wrote + 1]>>]
          /\ UNCHANGED <<names, made, out>>
      BY <1>3, <2>2 DEF WriteTemporary, Write, Sync, commandVars
    <3>2. content'[file] = content[file]
      BY <1>1, <3>1 DEF ToolsInv, DiskInv
    <3> QED
      BY <1>1, <3>1, <3>2 DEF LeftAlone
  <2>3. CASE Install
    <3>1. /\ names' = [names EXCEPT ![Target[at]] = names[Temporary[at]], ![Temporary[at]] = NoFile]
          /\ UNCHANGED <<content, made, out>>
      BY <1>3, <2>3 DEF Install, Rename, Sync, commandVars
    <3>2. \A path \in Paths : names'[path] = file => names[path] = file
      BY <1>1, <3>1 DEF ToolsInv, DiskInv
    <3> QED
      BY <1>1, <3>1, <3>2 DEF LeftAlone
  <2>4. CASE Receive \/ ReceiveWrong \/ Verify \/ CloseTemporary \/ StopSync \/ RunAgain
    BY <1>2, <1>3, <2>4
       DEF Receive, ReceiveWrong, Verify, CloseTemporary, GoTo, StopSync, RunAgain, Sync, commandVars
  <2> QED
    BY <1>3, <2>1, <2>2, <2>3, <2>4 DEF Sync, SyncNext, SyncStep
<1>4. ASSUME NEW p \in Processes, CommandStep(p) \/ CommandFault(p) PROVE LeftAlone(file)
  <2>1. CASE CreateOutput(p)
    <3>1. /\ Create(Output[p]) /\ out' = [out EXCEPT ![p] = Opened(Output[p])]
          /\ Output[p] \in Paths /\ Output[p] # Target[a]
      BY <2>1, CommandsAssumption DEF CreateOutput, SyncPaths
    <3>2. /\ file \in made' /\ content'[file] = content[file] /\ file # Opened(Output[p])
          /\ \A q \in Paths : names'[q] = file => names[q] = file
      BY <3>1, CreateLeavesAlone
    <3> QED
      BY <3>1, <3>2 DEF LeftAlone, ToolsInv, OutputsApart
  <2>2. CASE WriteOutput(p) \/ CloseFails(p)
    <3>1. (\E written : content' = [content EXCEPT ![out[p]] = written]) /\ UNCHANGED <<names, made, out>>
      BY <2>2 DEF WriteOutput, CloseFails, Write, CutTo, commandVars
    <3>2. out[p] # file
      BY DEF WasFixture
    <3>3. content'[file] = content[file]
      BY <1>1, <3>1, <3>2 DEF ToolsInv, DiskInv
    <3> QED
      BY <1>1, <3>1, <3>3 DEF LeftAlone
  <2>3. CASE ParseFlags(p) \/ OpenInput(p) \/ ReadPart(p) \/ EndOfInput(p) \/ ParseAndChoose(p)
             \/ CloseOutput(p) \/ StepFails(p) \/ Kill(p)
    BY <1>2, <2>3 DEF ParseFlags, OpenInput, ReadPart, EndOfInput, ParseAndChoose, CloseOutput, StepFails, Kill
  <2> QED
    BY <1>4, <2>1, <2>2, <2>3 DEF CommandStep, CommandFault
<1> QED
  BY <1>3, <1>4 DEF ToolsNext
-----------------------------------------------------------------------------
PastReading == {"parse", "create", "write"}

(* Whoever has a fixture in its hands and does not read on keeps it.       *)
LEMMA ReaderUndisturbed ==
  ASSUME ReadersInv, NEW p \in Processes, NEW a \in Fixtures, from[p] = Target[a], LeftAlone(source[p]),
         before' = before, source'[p] = source[p], read'[p] = read[p],
         pc'[p] \in PastReading => pc[p] \in PastReading
  PROVE  WasFixture(source[p], a)' /\ HasRead(p)'
<1>1. WasFixture(source[p], a) /\ HasRead(p)
  BY DEF ReadersInv
<1>2. WasFixture(source[p], a)'
  BY <1>1 DEF WasFixture, LeftAlone, Versions
<1>3. HasRead(p)'
  BY <1>1 DEF HasRead, LeftAlone, PastReading
<1> QED
  BY <1>2, <1>3

(* The fixture a command opens. *)
LEMMA OpensAFixture ==
  ASSUME ToolsInv, ReadersInv, NEW a \in Fixtures, Exists(Target[a])
  PROVE  WasFixture(names[Target[a]], a)
<1>1. Target[a] \in Paths /\ Target[a] \in SyncPaths
  BY SpecsyncAssumption DEF SyncPaths
<1>2. content[names[Target[a]]] \in Versions(a)
  BY DEF ReadersInv, Shown
<1>3. \A q \in Processes : out[q] # names[Target[a]]
  BY <1>1 DEF ToolsInv, OutputsApart, Exists
<1> QED
  BY <1>1, <1>2, <1>3 DEF WasFixture, ToolsInv, DiskInv, Exists

LEMMA VersionsAreContents ==
  ASSUME ReadersInv, NEW a \in Fixtures
  PROVE  Versions(a) \subseteq Contents
BY SpecsyncAssumption DEF ReadersInv, CommandsTyped, Versions

(* What a process does with the fixture it reads, if it reads one.         *)
Keeps(p) ==
  \A a \in Fixtures : from'[p] = Target[a] => WasFixture(source[p], a)' /\ HasRead(p)'

LEMMA WaitingKeeps ==
  ASSUME ToolsInv, ReadersInv, ToolsNext, before' = before, NEW p \in Processes,
         from'[p] = from[p], source'[p] = source[p], read'[p] = read[p],
         pc'[p] \in PastReading => pc[p] \in PastReading
  PROVE  Keeps(p)
<1> SUFFICES ASSUME NEW a \in Fixtures, from[p] = Target[a]
             PROVE  WasFixture(source[p], a)' /\ HasRead(p)'
  BY DEF Keeps
<1>1. LeftAlone(source[p])
  BY FixturesAreLeftAlone DEF ReadersInv
<1> QED
  BY <1>1, ReaderUndisturbed

LEMMA OpeningKeeps ==
  ASSUME ToolsInv, ReadersInv, NEW p \in Processes, OpenInput(p)
  PROVE  Keeps(p)
<1>0. UNCHANGED <<read, out, before, diskVars>> /\ pc[p] = "open" /\ ToolsNext
  BY DEF OpenInput, ToolsNext, CommandStep
<1>1. CASE UNCHANGED <<from, source>> /\ pc' = [pc EXCEPT ![p] = "exited"]
  <2>1. pc'[p] \notin PastReading
    BY <1>1 DEF ReadersInv, CommandsTyped, PastReading
  <2> QED
    BY <1>0, <1>1, <2>1, WaitingKeeps
<1>2. ASSUME NEW path \in Input[p], Exists(path), pc' = [pc EXCEPT ![p] = "read"],
             from' = [from EXCEPT ![p] = path], source' = [source EXCEPT ![p] = names[path]]
      PROVE  Keeps(p)
  <2>1. from'[p] = path /\ source'[p] = names[path] /\ pc'[p] = "read" /\ read'[p] = <<>>
    BY <1>0, <1>2 DEF ReadersInv, CommandsTyped
  <2> SUFFICES ASSUME NEW a \in Fixtures, path = Target[a]
               PROVE  WasFixture(source[p], a)' /\ HasRead(p)'
    BY <2>1 DEF Keeps
  <2>2. WasFixture(names[path], a)
    BY <1>2, OpensAFixture
  <2>3. WasFixture(source[p], a)'
    BY <1>0, <2>1, <2>2 DEF WasFixture, Versions, diskVars
  <2>4. content'[source'[p]] \in Seq(Parts)
    BY <2>3, VersionsAreContents, <1>0 DEF WasFixture, Versions, Contents
  <2>5. HasRead(p)'
    BY <2>1, <2>4 DEF HasRead, Contents
  <2> QED
    BY <2>3, <2>5
<1> QED
  BY <1>1, <1>2 DEF OpenInput, To, Exit

LEMMA ReadingKeeps ==
  ASSUME ToolsInv, ReadersInv, NEW p \in Processes, ReadPart(p) \/ EndOfInput(p)
  PROVE  Keeps(p)
<1>1. /\ UNCHANGED <<from, source, out, before, diskVars>> /\ pc[p] = "read"
      /\ \/ /\ UNCHANGED pc /\ Len(read[p]) < Len(content[source[p]])
            /\ read' = [read EXCEPT ![p] = Append(@, content[source[p]][Len(@) + 1])]
         \/ UNCHANGED read /\ Len(read[p]) >= Len(content[source[p]])
  BY DEF ReadPart, EndOfInput
<1> SUFFICES ASSUME NEW a \in Fixtures, from[p] = Target[a]
             PROVE  WasFixture(source[p], a)' /\ HasRead(p)'
  BY <1>1 DEF Keeps
<1> DEFINE version == content[source[p]]
<1>2. WasFixture(source[p], a) /\ HasRead(p) /\ version \in Seq(Parts) /\ read[p] \in Seq(Parts)
  BY VersionsAreContents DEF ReadersInv, WasFixture, HasRead, Contents
<1>3. WasFixture(source[p], a)'
  BY <1>1, <1>2 DEF WasFixture, Versions, diskVars
<1>4. content'[source'[p]] = version
  BY <1>1 DEF diskVars
<1>5. CASE UNCHANGED read /\ Len(read[p]) >= Len(version)
  <2>1. Len(read[p]) = Len(version) /\ read[p] = SubSeq(version, 1, Len(read[p]))
    BY <1>2, <1>5 DEF HasRead
  <2> QED
    BY <1>2, <1>3, <1>4, <1>5, <2>1 DEF HasRead, Contents
<1>6. CASE /\ UNCHANGED pc /\ Len(read[p]) < Len(version)
           /\ read' = [read EXCEPT ![p] = Append(@, version[Len(@) + 1])]
  <2>1. read'[p] = Append(read[p], version[Len(read[p]) + 1])
    BY <1>6 DEF ReadersInv, CommandsTyped
  <2>2. read[p] = SubSeq(version, 1, Len(read[p])) /\ Len(read[p]) + 1 \in 1 .. Len(version)
    BY <1>2, <1>6 DEF HasRead
  <2>3. Append(read[p], version[Len(read[p]) + 1]) = SubSeq(version, 1, Len(read[p]) + 1)
    BY <1>2, <2>2
  <2>4. read'[p] \in Seq(Parts) /\ Len(read'[p]) = Len(read[p]) + 1
    BY <1>2, <2>1, <2>2
  <2>5. HasRead(p)'
    <3>1. pc'[p] = "read" /\ Len(read'[p]) <= Len(version) /\ read'[p] = SubSeq(version, 1, Len(read'[p]))
      BY <1>1, <1>6, <2>1, <2>2, <2>3, <2>4
    <3> HIDE DEF version
    <3> QED
      BY <1>4, <2>4, <3>1 DEF HasRead, Contents
  <2> QED
    BY <1>3, <2>5
<1> QED
  BY <1>1, <1>3, <1>5, <1>6
-----------------------------------------------------------------------------
LEMMA EveryProcessKeeps ==
  ASSUME ToolsInv, ReadersInv, ToolsNext, NEW p \in Processes
  PROVE  Keeps(p)
<1>1. CASE Sync
  <2>1. UNCHANGED <<before, from, source, read, pc>>
    BY <1>1 DEF Sync, commandVars
  <2> QED
    BY <2>1, WaitingKeeps
<1>2. ASSUME NEW q \in Processes, CommandStep(q) \/ CommandFault(q) PROVE Keeps(p)
  <2>1. CASE p # q
    <3>1. /\ before' = before /\ from'[p] = from[p] /\ source'[p] = source[p]
          /\ read'[p] = read[p] /\ pc'[p] = pc[p]
      BY <1>2, <2>1 DEF CommandStep, CommandFault, ParseFlags, OpenInput, ReadPart, EndOfInput,
         ParseAndChoose, CreateOutput, WriteOutput, CloseOutput, CloseFails, StepFails, Kill, To, Exit,
         commandVars, ReadersInv, CommandsTyped
    <3> QED
      BY <3>1, WaitingKeeps
  <2>2. CASE p = q /\ OpenInput(p)
    BY <2>2, OpeningKeeps
  <2>3. CASE p = q /\ (ReadPart(p) \/ EndOfInput(p))
    BY <2>3, ReadingKeeps
  <2>4. CASE p = q /\ (ParseFlags(p) \/ ParseAndChoose(p) \/ CreateOutput(p) \/ WriteOutput(p)
                       \/ CloseOutput(p) \/ CloseFails(p) \/ StepFails(p) \/ Kill(p))
    <3>1. /\ UNCHANGED <<before, from, source, read>>
          /\ \/ UNCHANGED pc
             \/ (\E label : To(p, label)) /\ pc[p] \in PastReading
             \/ \E label \in {"open", "exited", "killed"} : To(p, label)
      BY <2>4 DEF ParseFlags, ParseAndChoose, CreateOutput, WriteOutput, CloseOutput, CloseFails,
         StepFails, Kill, Exit, commandVars, PastReading
    <3>2. pc'[p] \in PastReading => pc[p] \in PastReading
      BY <3>1 DEF To, ReadersInv, CommandsTyped, PastReading
    <3> QED
      BY <3>1, <3>2, WaitingKeeps
  <2> QED
    BY <1>2, <2>1, <2>2, <2>3, <2>4 DEF CommandStep, CommandFault
<1> QED
  BY <1>1, <1>2 DEF ToolsNext

LEMMA CommandsStayTyped ==
  ASSUME ToolsInv, ReadersInv, ToolsNext
  PROVE  /\ CommandsTyped' /\ before' = before
         /\ \A p \in Processes : pc'[p] \in {"flags", "open"} => from'[p] = Output[p] /\ read'[p] = <<>>
<1>1. CASE Sync
  BY <1>1 DEF Sync, commandVars, ReadersInv, CommandsTyped
<1>2. ASSUME NEW p \in Processes, CommandStep(p) \/ CommandFault(p)
      PROVE  /\ CommandsTyped' /\ before' = before
             /\ \A q \in Processes : pc'[q] \in {"flags", "open"} => from'[q] = Output[q] /\ read'[q] = <<>>
  <2>1. CASE ParseFlags(p)
    BY <2>1 DEF ParseFlags, To, Exit, ReadersInv, CommandsTyped
  <2>2. CASE OpenInput(p)
    <3>1. Input[p] \subseteq Paths
      BY CommandsAssumption
    <3> QED
      BY <2>2, <3>1 DEF OpenInput, To, Exit, ReadersInv, CommandsTyped
  <2>3. CASE ReadPart(p)
    BY <2>3 DEF ReadPart, ReadersInv, CommandsTyped
  <2>4. CASE EndOfInput(p)
    BY <2>4 DEF EndOfInput, To, AfterRead, ReadersInv, CommandsTyped
  <2>5. CASE ParseAndChoose(p)
    BY <2>5 DEF ParseAndChoose, To, Exit, ReadersInv, CommandsTyped
  <2>6. CASE CreateOutput(p)
    BY <2>6 DEF CreateOutput, AfterCreate, AfterRead, To, ReadersInv, CommandsTyped
  <2>7. CASE WriteOutput(p)
    BY <2>7 DEF WriteOutput, commandVars, ReadersInv, CommandsTyped
  <2>8. CASE CloseOutput(p) \/ CloseFails(p) \/ StepFails(p) \/ Kill(p)
    BY <2>8 DEF CloseOutput, CloseFails, StepFails, Kill, To, Exit, ReadersInv, CommandsTyped
  <2> QED
    BY <1>2, <2>1, <2>2, <2>3, <2>4, <2>5, <2>6, <2>7, <2>8 DEF CommandStep, CommandFault
<1> QED
  BY <1>1, <1>2 DEF ToolsNext

LEMMA FixturesShowVersions ==
  ASSUME ToolsInv, ReadersInv, ToolsNext, before' = before, NEW a \in Fixtures
  PROVE  Shown(Target[a])' \subseteq Versions(a)'
<1>1. Copies' = Copies \/ ReplacesOne
  BY ToolsStep
<1>2. Copies'[a] = Shown(Target[a])' /\ Copies[a] = Shown(Target[a])
  BY DEF Copies
<1>3. Copies'[a] = Copies[a] \/ Copies'[a] = {Pinned[a]}
  BY <1>1 DEF ReplacesOne, Copies
<1> QED
  BY <1>2, <1>3 DEF Versions, ReadersInv

LEMMA StepKeepsReadersInv == ToolsInv /\ ReadersInv /\ [ToolsNext]_toolVars => ReadersInv'
<1>1. ASSUME ToolsInv, ReadersInv, ToolsNext PROVE ReadersInv'
  <2>1. /\ CommandsTyped' /\ before' = before
        /\ \A p \in Processes : pc'[p] \in {"flags", "open"} => from'[p] = Output[p] /\ read'[p] = <<>>
    BY <1>1, CommandsStayTyped
  <2>2. \A a \in Fixtures : Shown(Target[a])' \subseteq Versions(a)'
    BY <1>1, <2>1, FixturesShowVersions
  <2>3. \A p \in Processes : Keeps(p)
    BY <1>1, EveryProcessKeeps
  <2> QED
    BY <2>1, <2>2, <2>3 DEF ReadersInv, Keeps
<1>2. ASSUME ReadersInv, UNCHANGED toolVars PROVE ReadersInv'
  BY <1>2 DEF toolVars, commandVars, diskVars, ReadersInv, CommandsTyped, Versions, WasFixture, HasRead,
     Shown, Exists
<1> QED
  BY <1>1, <1>2

LEMMA InitialReadersInv == ToolsInit => ReadersInv
<1> SUFFICES ASSUME ToolsInit PROVE ReadersInv
  OBVIOUS
<1>1. \A path \in Paths : before[path] = Shown(path) /\ Shown(path) \subseteq Contents
  <2>1. \A path \in Paths : names[path] \in {path, NoFile} /\ path \in Files
    BY DiskAssumption DEF ToolsInit, DiskInit
  <2>2. \A path \in Paths : content[path] = Old[path] /\ Old[path] \in Contents
    BY DiskAssumption DEF ToolsInit, DiskInit, Contents
  <2> QED
    BY <2>1, <2>2 DEF ToolsInit, CommandInit, Shown, Exists
<1>2. \A p \in Processes : Output[p] \in Paths /\ \A a \in Fixtures : Output[p] # Target[a]
  BY SpecsyncAssumption, CommandsAssumption DEF SyncPaths
<1>3. /\ pc = [p \in Processes |-> "flags"] /\ from = [p \in Processes |-> Output[p]]
      /\ source = [p \in Processes |-> NoFile] /\ read = [p \in Processes |-> <<>>]
  BY DEF ToolsInit, CommandInit
<1>4. from \in [Processes -> Paths]
  BY <1>2, <1>3
<1>5. \A path \in Paths : before[path] \subseteq Contents
  BY <1>1
<1>6. CommandsTyped
  BY <1>3, <1>4, <1>5 DEF CommandsTyped
<1>7. \A a \in Fixtures : Shown(Target[a]) \subseteq Versions(a)
  <2>1. \A a \in Fixtures : Target[a] \in Paths
    BY SpecsyncAssumption
  <2> QED
    BY <1>1, <2>1 DEF Versions
<1>8. \A p \in Processes : from[p] = Output[p] /\ read[p] = <<>>
  BY <1>3
<1> QED
  BY <1>2, <1>6, <1>7, <1>8 DEF ReadersInv

(* For any number of fixtures, commands, faults and restarts: a command    *)
(* that reads a fixture gets one version from beginning to end.            *)
THEOREM FixturesAreReadWhole == ToolsSpec => []ReadsAreWhole
<1>1. ReadersInv => ReadsAreWhole
  <2> SUFFICES ASSUME ReadersInv, NEW p \in Processes, NEW a \in Fixtures,
                      pc[p] \in {"parse", "create", "write"}, from[p] = Target[a]
               PROVE  read[p] \in Versions(a)
    BY DEF ReadsAreWhole, Versions
  <2> DEFINE version == content[source[p]]
  <2>1. version \in Versions(a) /\ version \in Seq(Parts)
    BY VersionsAreContents DEF ReadersInv, WasFixture, Contents
  <2>2. read[p] = SubSeq(version, 1, Len(version))
    BY DEF ReadersInv, HasRead
  <2>3. SubSeq(version, 1, Len(version)) = version
    <3> HIDE DEF version
    <3> QED
      BY <2>1
  <2> QED
    BY <2>1, <2>2, <2>3
<1> QED
  BY <1>1, ToolsInvariant, InitialReadersInv, StepKeepsReadersInv, PTL DEF ToolsSpec

-----------------------------------------------------------------------------
(* Rendering makes a content of a content. *)
RendersContents == \A c \in Contents : Rendered(c) \in Contents

OutputsTyped ==
  /\ DiskTypeOK
  /\ read \in [Processes -> Contents]
  /\ pc = [p \in Processes |-> pc[p]] /\ source = [p \in Processes |-> source[p]]
  /\ code = [p \in Processes |-> code[p]] /\ closed = [p \in Processes |-> closed[p]]

(* A process has its output in its hands from its creation on, under its   *)
(* name, and the file holds the beginning of what belongs there.           *)
Begun(p) ==
  /\ names[Output[p]] = out[p]
  /\ Prefix(content[out[p]], Rendered(read[p]))

CreatedInTime(p) ==
  /\ pc[p] \in {"flags", "open", "read", "create"} => out[p] = NoFile
  /\ pc[p] = "parse" /\ p \in Converts => out[p] = NoFile
  /\ pc[p] = "write" => out[p] # NoFile
  /\ pc[p] = "read" => source[p] \in Files

Accounted(p) ==
  pc[p] = "exited" =>
    /\ code[p] = 2 /\ p \in Converts => out[p] = NoFile
    /\ code[p] = 0 /\ closed[p] => out[p] # NoFile /\ content[out[p]] = Rendered(read[p])

OutputInv(p) ==
  /\ IF out[p] = NoFile THEN Shown(Output[p]) = before[Output[p]] ELSE Begun(p)
  /\ CreatedInTime(p)
  /\ Accounted(p)

OutputsInv == OutputsTyped /\ \A p \in Processes : OutputInv(p)

(* What a step of somebody else leaves of an output. *)
Undisturbed(p) ==
  /\ out'[p] = out[p] /\ names'[Output[p]] = names[Output[p]]
  /\ Exists(Output[p]) => content'[names[Output[p]]] = content[names[Output[p]]]

LEMMA UndisturbedKeeps ==
  ASSUME OutputsInv, NEW p \in Processes, Undisturbed(p), before' = before, read'[p] = read[p],
         pc'[p] = pc[p], source'[p] = source[p], code'[p] = code[p], closed'[p] = closed[p]
  PROVE  OutputInv(p)'
<1>1. OutputInv(p)
  BY DEF OutputsInv
<1>2. CreatedInTime(p)'
  BY <1>1 DEF OutputInv, CreatedInTime, Undisturbed
<1>3. CASE out[p] = NoFile
  <2>1. Shown(Output[p])' = Shown(Output[p])
    BY DEF Undisturbed, Shown, Exists
  <2> QED
    BY <1>1, <1>2, <1>3, <2>1 DEF OutputInv, Accounted, Undisturbed
<1>4. CASE out[p] # NoFile
  <2>1. names'[Output[p]] = out[p] /\ content'[out[p]] = content[out[p]] /\ out'[p] = out[p]
    BY <1>1, <1>4 DEF OutputInv, Begun, Undisturbed, Exists
  <2> QED
    BY <1>1, <1>2, <1>4, <2>1 DEF OutputInv, Begun, Prefix, Accounted
<1> QED
  BY <1>3, <1>4

(* Opening another path for writing. *)
LEMMA CreateElsewhere ==
  ASSUME ToolsInv, NEW p \in Processes, NEW path \in Paths, path # Output[p], Create(path)
  PROVE  /\ names'[Output[p]] = names[Output[p]]
         /\ Exists(Output[p]) => content'[names[Output[p]]] = content[names[Output[p]]]
<1>1. Output[p] \in Paths
  BY CommandsAssumption
<1>2. /\ \A q \in Paths \ {path} : names'[q] = names[q] /\ names[q] # Opened(path)
      /\ \A file \in Files \ {Opened(path)} : content'[file] = content[file]
  BY CreateOpens DEF ToolsInv
<1> QED
  BY <1>1, <1>2 DEF ToolsInv, DiskInv, Exists

(* specsync goes nowhere near an output. *)
LEMMA SyncKeepsOutputs ==
  ASSUME ToolsInv, Sync, NEW p \in Processes
  PROVE  Undisturbed(p)
<1>1. /\ at \in Fixtures /\ Temporary[at] \in Paths /\ Target[at] \in Paths
      /\ Output[p] \in Paths /\ Output[p] # Temporary[at] /\ Output[p] # Target[at]
  BY SpecsyncAssumption, CommandsAssumption DEF ToolsInv, SyncInv, SyncPaths
<1>2. out'[p] = out[p]
  BY DEF Sync, commandVars
<1>3. CASE OpenTemporary
  BY <1>1, <1>2, <1>3, CreateElsewhere DEF OpenTemporary, Undisturbed
<1>4. CASE WriteTemporary
  <2>1. /\ content' = [content EXCEPT ![names[Temporary[at]]] = @ \o <<payload[wrote + 1]>>]
        /\ UNCHANGED names
    BY <1>4 DEF WriteTemporary, Write
  <2>2. Exists(Output[p]) => names[Output[p]] # names[Temporary[at]] /\ names[Output[p]] \in Files
    BY <1>1 DEF ToolsInv, DiskInv, Exists
  <2> QED
    BY <1>2, <2>1, <2>2 DEF Undisturbed, ToolsInv, DiskInv
<1>5. CASE Install
  BY <1>1, <1>2, <1>5 DEF Install, Rename, Undisturbed, ToolsInv, DiskInv
<1>6. CASE Receive \/ ReceiveWrong \/ Verify \/ CloseTemporary \/ StopSync \/ RunAgain
  BY <1>2, <1>6 DEF Receive, ReceiveWrong, Verify, CloseTemporary, StopSync, RunAgain, diskVars, Undisturbed
<1> QED
  BY <1>3, <1>4, <1>5, <1>6 DEF Sync, SyncNext, SyncStep

(* Neither does another command. *)
LEMMA OthersKeepOutputs ==
  ASSUME ToolsInv, OutputsInv, NEW p \in Processes, NEW q \in Processes, p # q,
         CommandStep(q) \/ CommandFault(q)
  PROVE  Undisturbed(p)
<1>1. /\ Output[p] \in Paths /\ Output[q] \in Paths /\ Output[p] # Output[q]
      /\ out \in [Processes -> Files \cup {NoFile}]
  BY CommandsAssumption DEF ToolsInv, OutputsApart
<1>2. CASE CreateOutput(q)
  BY <1>1, <1>2, CreateElsewhere DEF CreateOutput, Undisturbed
<1>3. CASE WriteOutput(q) \/ CloseFails(q)
  <2>1. /\ \E written : content' = [content EXCEPT ![out[q]] = written]
        /\ UNCHANGED <<names, out>> /\ pc[q] = "write"
    BY <1>3 DEF WriteOutput, CloseFails, Write, CutTo, commandVars
  <2>2. out[q] # NoFile /\ names[Output[q]] = out[q]
    BY <2>1 DEF OutputsInv, OutputInv, Begun, CreatedInTime
  <2>3. Exists(Output[p]) => names[Output[p]] # out[q] /\ names[Output[p]] \in Files
    BY <1>1, <2>2 DEF ToolsInv, DiskInv, Exists
  <2> QED
    BY <2>1, <2>3 DEF Undisturbed, ToolsInv, DiskInv
<1>4. CASE ParseFlags(q) \/ OpenInput(q) \/ ReadPart(q) \/ EndOfInput(q) \/ ParseAndChoose(q)
           \/ CloseOutput(q) \/ StepFails(q) \/ Kill(q)
  BY <1>4 DEF ParseFlags, OpenInput, ReadPart, EndOfInput, ParseAndChoose, CloseOutput, StepFails, Kill,
     diskVars, Undisturbed
<1> QED
  BY <1>2, <1>3, <1>4 DEF CommandStep, CommandFault

LEMMA PrefixGrows ==
  ASSUME NEW S, NEW c \in Seq(S), NEW d \in Seq(S), Prefix(c, d),
         NEW rest, rest = SubSeq(d, Len(c) + 1, Len(d)), rest # <<>>, NEW n \in {1, Len(rest)}
  PROVE  Prefix(c \o SubSeq(rest, 1, n), d)
<1>1. /\ Len(c) \in Nat /\ Len(d) \in Nat /\ Len(c) <= Len(d)
      /\ \A i \in 1 .. Len(c) : c[i] = d[i]
  BY DEF Prefix
<1>2. Len(c) < Len(d)
  <2> SUFFICES ASSUME Len(c) = Len(d) PROVE FALSE
    BY <1>1
  <2>1. SubSeq(d, Len(c) + 1, Len(d)) = <<>>
    BY <1>1
  <2> QED
    BY <2>1
<1>3. rest \in Seq(S) /\ Len(rest) = Len(d) - Len(c) /\ \A i \in 1 .. Len(rest) : rest[i] = d[Len(c) + i]
  BY <1>1, <1>2
<1>4. n \in 1 .. Len(rest)
  BY <1>1, <1>2, <1>3
<1> DEFINE more == SubSeq(rest, 1, n)
<1>5. more \in Seq(S) /\ Len(more) = n /\ \A i \in 1 .. n : more[i] = d[Len(c) + i]
  BY <1>1, <1>3, <1>4
<1> HIDE DEF more
<1>6. /\ Len(c \o more) = Len(c) + n
      /\ \A i \in 1 .. Len(c) + n : (c \o more)[i] = IF i <= Len(c) THEN c[i] ELSE more[i - Len(c)]
  BY <1>5, ConcatProperties
<1>7. \A i \in 1 .. Len(c) + n : (c \o more)[i] = d[i]
  BY <1>1, <1>4, <1>5, <1>6
<1>8. Len(c) + n <= Len(d)
  BY <1>1, <1>3, <1>4
<1> QED
  BY <1>6, <1>7, <1>8 DEF Prefix, more

LEMMA PrefixEnds ==
  ASSUME NEW S, NEW c \in Seq(S), NEW d \in Seq(S), Prefix(c, d), SubSeq(d, Len(c) + 1, Len(d)) = <<>>
  PROVE  c = d
<1>1. /\ Len(c) \in Nat /\ Len(d) \in Nat /\ Len(c) <= Len(d)
      /\ \A i \in 1 .. Len(c) : c[i] = d[i]
  BY DEF Prefix
<1> DEFINE rest == SubSeq(d, Len(c) + 1, Len(d))
<1>2. Len(rest) = Len(d) - Len(c)
  BY <1>1
<1>3. Len(rest) = 0
  <2>1. rest = <<>>
    OBVIOUS
  <2> QED
    BY <2>1, EmptySeq
<1>4. Len(c) = Len(d)
  BY <1>1, <1>2, <1>3
<1> QED
  BY <1>1, <1>4, SeqEqual

LEMMA PrefixShrinks ==
  ASSUME NEW S, NEW c \in Seq(S), NEW d \in Seq(S), Prefix(c, d), NEW n \in 0 .. Len(c)
  PROVE  Prefix(SubSeq(c, 1, n), d)
<1>1. /\ Len(c) \in Nat /\ Len(d) \in Nat /\ Len(c) <= Len(d)
      /\ \A i \in 1 .. Len(c) : c[i] = d[i]
  BY DEF Prefix
<1>2. Len(SubSeq(c, 1, n)) = n /\ \A i \in 1 .. n : SubSeq(c, 1, n)[i] = c[i]
  BY <1>1
<1> QED
  BY <1>1, <1>2 DEF Prefix

(* A step that leaves the disk and the output alone, and does not read on  *)
(* with an output in hand.                                                 *)
LEMMA DiskKept ==
  ASSUME OutputsInv, NEW p \in Processes, UNCHANGED <<out, before, diskVars>>,
         UNCHANGED read \/ out[p] = NoFile
  PROVE  IF out'[p] = NoFile THEN Shown(Output[p])' = before'[Output[p]] ELSE Begun(p)'
BY DEF OutputsInv, OutputInv, Begun, Prefix, Shown, Exists, diskVars

LEMMA QuietStepKeeps ==
  ASSUME ToolsInv, OutputsInv, NEW p \in Processes,
         \/ ParseFlags(p) \/ OpenInput(p) \/ ReadPart(p) \/ EndOfInput(p) \/ ParseAndChoose(p)
         \/ StepFails(p) \/ Kill(p)
  PROVE  OutputInv(p)'
<1>1. UNCHANGED <<out, before, diskVars>> /\ (UNCHANGED read \/ out[p] = NoFile)
  BY DEF ParseFlags, OpenInput, ReadPart, EndOfInput, ParseAndChoose, StepFails, Kill,
     OutputsInv, OutputInv, CreatedInTime
<1>2. /\ CreatedInTime(p) /\ pc = [q \in Processes |-> pc[q]]
      /\ code = [q \in Processes |-> code[q]] /\ source = [q \in Processes |-> source[q]]
  BY DEF OutputsInv, OutputInv, OutputsTyped
<1>3. CreatedInTime(p)'
  <2>1. CASE OpenInput(p)
    <3>1. Input[p] \subseteq Paths
      BY CommandsAssumption
    <3>2. \A path \in Input[p] : Exists(path) => names[path] \in Files
      BY <3>1 DEF ToolsInv, DiskInv, Exists
    <3> QED
      BY <1>2, <2>1, <3>2 DEF OpenInput, To, Exit, CreatedInTime
  <2>2. CASE ReadPart(p)
    BY <1>2, <2>2 DEF ReadPart, CreatedInTime
  <2>3. CASE EndOfInput(p)
    BY <1>2, <2>3 DEF EndOfInput, AfterRead, To, CreatedInTime
  <2>4. CASE ParseAndChoose(p)
    BY <1>2, <2>4 DEF ParseAndChoose, To, Exit, CreatedInTime
  <2>5. CASE ParseFlags(p)
    BY <1>2, <2>5 DEF ParseFlags, To, Exit, CreatedInTime
  <2>6. CASE StepFails(p) \/ Kill(p)
    BY <1>2, <2>6 DEF StepFails, Kill, To, Exit, CreatedInTime
  <2> QED
    BY <2>1, <2>2, <2>3, <2>4, <2>5, <2>6
<1>4. Accounted(p)'
  <2>1. CASE ParseFlags(p) \/ OpenInput(p) \/ ParseAndChoose(p) \/ StepFails(p)
    <3>1. /\ UNCHANGED out
          /\ \/ \E label \in {"open", "read", "create", "write"} : To(p, label)
             \/ \E c \in {1, 2} : Exit(p, c) /\ (c = 2 => pc[p] \in {"flags", "parse"})
      BY <1>1, <2>1 DEF ParseFlags, OpenInput, ParseAndChoose, StepFails
    <3> QED
      BY <1>2, <3>1 DEF To, Exit, CreatedInTime, Accounted
  <2>2. CASE ReadPart(p)
    BY <1>1, <2>2 DEF ReadPart, Accounted
  <2>3. CASE EndOfInput(p)
    BY <1>2, <2>3 DEF EndOfInput, AfterRead, To, Accounted
  <2>4. CASE Kill(p)
    BY <1>2, <2>4 DEF Kill, To, Accounted
  <2> QED
    BY <2>1, <2>2, <2>3, <2>4
<1> QED
  BY <1>1, <1>3, <1>4, DiskKept DEF OutputInv

LEMMA CreateBegins ==
  ASSUME RendersContents, ToolsInv, OutputsInv, NEW p \in Processes, CreateOutput(p)
  PROVE  OutputInv(p)'
<1> DEFINE path == Output[p]
<1>1. path \in Paths /\ Rendered(read[p]) \in Seq(Parts)
  BY CommandsAssumption DEF RendersContents, OutputsInv, OutputsTyped, Contents
<1>2. Opened(path) \in Files /\ names'[path] = Opened(path) /\ content'[Opened(path)] = <<>>
  BY <1>1, CreateOpens DEF CreateOutput, ToolsInv
<1>3. out'[p] = Opened(path) /\ pc'[p] = AfterCreate(p) /\ UNCHANGED read
  BY DEF CreateOutput, To, OutputsInv, OutputsTyped, ToolsInv, OutputsApart
<1>4. Begun(p)'
  <2>1. Prefix(<<>>, Rendered(read[p]))
    BY <1>1 DEF Prefix
  <2> QED
    BY <1>2, <1>3, <2>1 DEF Begun, Prefix
<1>5. AfterCreate(p) \in {"write", "parse"} /\ (AfterCreate(p) = "parse" => p \notin Converts)
  BY DEF AfterCreate, AfterRead
<1> QED
  BY <1>2, <1>3, <1>4, <1>5, DiskAssumption DEF OutputInv, CreatedInTime, Accounted

LEMMA EndingKeeps ==
  ASSUME RendersContents, ToolsInv, OutputsInv, NEW p \in Processes,
         WriteOutput(p) \/ CloseOutput(p) \/ CloseFails(p)
  PROVE  OutputInv(p)'
<1> DEFINE file == out[p]
<1> DEFINE whole == Rendered(read[p])
<1>1. /\ pc[p] = "write" /\ file # NoFile /\ file \in Files /\ names[Output[p]] = file
      /\ content[file] \in Seq(Parts) /\ whole \in Seq(Parts) /\ Prefix(content[file], whole)
      /\ UNCHANGED <<out, read, names>>
  <2>1. pc[p] = "write" /\ UNCHANGED <<out, read, names>>
    BY DEF WriteOutput, CloseOutput, CloseFails, Write, CutTo, commandVars, diskVars
  <2>2. file # NoFile /\ file \in Files /\ Begun(p)
    BY <2>1 DEF OutputsInv, OutputInv, CreatedInTime, ToolsInv, OutputsApart
  <2> QED
    BY <2>1, <2>2 DEF Begun, RendersContents, OutputsInv, OutputsTyped, DiskTypeOK, Contents
<1>2. /\ content = [f \in Files |-> content[f]] /\ pc = [q \in Processes |-> pc[q]]
      /\ code = [q \in Processes |-> code[q]] /\ closed = [q \in Processes |-> closed[q]]
  BY DEF ToolsInv, DiskInv, OutputsInv, OutputsTyped
<1>3. Remaining(p) = SubSeq(whole, Len(content[file]) + 1, Len(whole))
  BY DEF Remaining
<1> HIDE DEF file, whole
<1>4. CASE WriteOutput(p)
  <2>1. PICK n \in {1, Len(Remaining(p))} : Write(file, SubSeq(Remaining(p), 1, n))
    BY <1>4 DEF WriteOutput, file
  <2>2. content'[file] = content[file] \o SubSeq(Remaining(p), 1, n)
    BY <1>1, <1>2, <2>1 DEF Write
  <2>3. Prefix(content[file] \o SubSeq(Remaining(p), 1, n), whole)
    BY <1>1, <1>3, <1>4, <2>1, PrefixGrows DEF WriteOutput
  <2>4. Begun(p)'
    BY <1>1, <2>2, <2>3 DEF Begun, file, whole
  <2>5. UNCHANGED <<pc, out>>
    BY <1>4 DEF WriteOutput, commandVars
  <2> QED
    BY <1>1, <2>4, <2>5 DEF OutputInv, CreatedInTime, Accounted, file
<1>5. CASE CloseOutput(p)
  <2>1. content[file] = whole /\ content' = content
    BY <1>1, <1>3, <1>5, PrefixEnds DEF CloseOutput, diskVars
  <2>2. pc'[p] = "exited" /\ code'[p] = 0
    BY <1>2, <1>5 DEF CloseOutput, Exit, To
  <2>3. Begun(p)'
    BY <1>1, <2>1 DEF Begun, file, whole
  <2> QED
    BY <1>1, <2>1, <2>2, <2>3 DEF OutputInv, CreatedInTime, Accounted, file, whole
<1>6. CASE CloseFails(p)
  <2>1. PICK n \in 0 .. Len(content[file]) : CutTo(file, n)
    BY <1>6 DEF CloseFails, file
  <2>2. content'[file] = SubSeq(content[file], 1, n)
    BY <1>1, <1>2, <2>1 DEF CutTo
  <2>3. Prefix(SubSeq(content[file], 1, n), whole)
    BY <1>1, PrefixShrinks
  <2>4. Begun(p)'
    BY <1>1, <2>2, <2>3 DEF Begun, file, whole
  <2>5. pc'[p] = "exited" /\ code'[p] = 0 /\ closed'[p] = FALSE
    BY <1>2, <1>6 DEF CloseFails, Exit, To
  <2> QED
    BY <1>1, <2>4, <2>5 DEF OutputInv, CreatedInTime, Accounted, file
<1> QED
  BY <1>4, <1>5, <1>6

LEMMA ContentsStayContents ==
  ASSUME RendersContents, ToolsInv, OutputsInv, ToolsNext
  PROVE  content' \in [Files -> Contents]
<1>1. content \in [Files -> Contents] /\ <<>> \in Contents
  BY DEF OutputsInv, OutputsTyped, DiskTypeOK, Contents
<1>2. ASSUME NEW path \in Paths, Create(path) PROVE content' \in [Files -> Contents]
  BY <1>1, <1>2 DEF Create
<1>3. ASSUME NEW file, NEW parts \in Seq(Parts), Write(file, parts) PROVE content' \in [Files -> Contents]
  <2>1. file \in Files => content[file] \o parts \in Contents
    BY <1>1, <1>3 DEF Contents
  <2> QED
    BY <1>1, <1>3, <2>1 DEF Write
<1>4. CASE Sync
  <2>1. /\ at \in Fixtures /\ Temporary[at] \in Paths
        /\ payload \in Seq(Parts) /\ wrote \in 0 .. Len(payload)
    BY SpecsyncAssumption DEF ToolsInv, SyncInv, Contents
  <2>2. CASE OpenTemporary
    BY <1>2, <2>1, <2>2 DEF OpenTemporary
  <2>3. CASE WriteTemporary
    <3>1. <<payload[wrote + 1]>> \in Seq(Parts)
      BY <2>1, <2>3 DEF WriteTemporary
    <3> QED
      BY <1>3, <2>3, <3>1 DEF WriteTemporary
  <2>4. CASE \/ Install \/ Receive \/ ReceiveWrong \/ Verify \/ CloseTemporary \/ StopSync \/ RunAgain
    BY <1>1, <2>4 DEF Install, Rename, Receive, ReceiveWrong, Verify, CloseTemporary, StopSync, RunAgain, diskVars
  <2> QED
    BY <1>4, <2>2, <2>3, <2>4 DEF Sync, SyncNext, SyncStep
<1>5. ASSUME NEW p \in Processes, CommandStep(p) \/ CommandFault(p) PROVE content' \in [Files -> Contents]
  <2>1. CASE CreateOutput(p)
    BY <1>2, <2>1, CommandsAssumption DEF CreateOutput
  <2>2. CASE WriteOutput(p)
    <3>1. PICK n \in {1, Len(Remaining(p))} : Write(out[p], SubSeq(Remaining(p), 1, n))
      BY <2>2 DEF WriteOutput
    <3>2. out[p] \in Files /\ content[out[p]] \in Seq(Parts) /\ Rendered(read[p]) \in Seq(Parts)
      BY <1>1, <2>2 DEF WriteOutput, ToolsInv, OutputsApart, OutputsInv, OutputsTyped, OutputInv, CreatedInTime,
         RendersContents, Contents
    <3>3. Remaining(p) \in Seq(Parts)
      BY <3>2 DEF Remaining
    <3>4. SubSeq(Remaining(p), 1, n) \in Seq(Parts)
      <4>1. Len(Remaining(p)) \in Nat \ {0}
        BY <2>2, <3>3, EmptySeq DEF WriteOutput
      <4> QED
        BY <3>1, <3>3, <4>1
    <3> QED
      BY <1>3, <3>1, <3>4
  <2>3. CASE CloseFails(p)
    <3>1. PICK n \in 0 .. Len(content[out[p]]) : CutTo(out[p], n)
      BY <2>3 DEF CloseFails
    <3>2. out[p] \in Files => SubSeq(content[out[p]], 1, n) \in Contents
      BY <1>1, <3>1 DEF Contents
    <3> QED
      BY <1>1, <3>1, <3>2 DEF CutTo
  <2>4. CASE ParseFlags(p) \/ OpenInput(p) \/ ReadPart(p) \/ EndOfInput(p) \/ ParseAndChoose(p)
             \/ CloseOutput(p) \/ StepFails(p) \/ Kill(p)
    BY <1>1, <2>4 DEF ParseFlags, OpenInput, ReadPart, EndOfInput, ParseAndChoose, CloseOutput, StepFails, Kill,
       diskVars
  <2> QED
    BY <1>5, <2>1, <2>2, <2>3, <2>4 DEF CommandStep, CommandFault
<1> QED
  BY <1>4, <1>5 DEF ToolsNext

LEMMA CommandsStayAccounted ==
  ASSUME RendersContents, ToolsInv, OutputsInv, ToolsNext
  PROVE  OutputsTyped' /\ before' = before
<1>1. DiskTypeOK'
  BY ToolsStep, ContentsStayContents DEF ToolsInv, DiskInv, DiskTypeOK
<1>2. CASE Sync
  BY <1>1, <1>2 DEF Sync, commandVars, OutputsInv, OutputsTyped
<1>3. ASSUME NEW p \in Processes, ReadPart(p) PROVE OutputsTyped' /\ before' = before
  <2>1. source[p] \in Files /\ Len(read[p]) < Len(content[source[p]])
    BY <1>3 DEF ReadPart, OutputsInv, OutputInv, CreatedInTime
  <2>2. content[source[p]] \in Seq(Parts) /\ read[p] \in Seq(Parts)
    BY <2>1 DEF OutputsInv, OutputsTyped, DiskTypeOK, Contents
  <2>3. Append(read[p], content[source[p]][Len(read[p]) + 1]) \in Contents
    BY <2>1, <2>2 DEF Contents
  <2> QED
    BY <1>1, <1>3, <2>3 DEF ReadPart, OutputsInv, OutputsTyped
<1>4. ASSUME NEW p \in Processes, CommandStep(p) \/ CommandFault(p), ~ReadPart(p)
      PROVE  OutputsTyped' /\ before' = before
  <2>1. /\ UNCHANGED <<read, before>>
        /\ UNCHANGED pc \/ \E label : To(p, label)
        /\ UNCHANGED code \/ \E c : code' = [code EXCEPT ![p] = c]
        /\ UNCHANGED source \/ \E file : source' = [source EXCEPT ![p] = file]
        /\ UNCHANGED closed \/ closed' = [closed EXCEPT ![p] = FALSE]
    BY <1>4 DEF CommandStep, CommandFault, ParseFlags, OpenInput, EndOfInput, ParseAndChoose, CreateOutput,
       WriteOutput, CloseOutput, CloseFails, StepFails, Kill, Exit, commandVars
  <2> QED
    BY <1>1, <2>1 DEF To, OutputsInv, OutputsTyped
<1> QED
  BY <1>2, <1>3, <1>4 DEF ToolsNext

LEMMA StepKeepsOutputsInv ==
  RendersContents /\ ToolsInv /\ OutputsInv /\ [ToolsNext]_toolVars => OutputsInv'
<1>1. ASSUME RendersContents, ToolsInv, OutputsInv, ToolsNext PROVE OutputsInv'
  <2>1. OutputsTyped' /\ before' = before
    BY <1>1, CommandsStayAccounted
  <2>2. ASSUME NEW p \in Processes, Sync PROVE OutputInv(p)'
    BY <1>1, <2>1, <2>2, SyncKeepsOutputs, UndisturbedKeeps DEF Sync, commandVars
  <2>3. ASSUME NEW p \in Processes, NEW q \in Processes, CommandStep(q) \/ CommandFault(q), p # q
        PROVE  OutputInv(p)'
    <3>1. /\ read'[p] = read[p] /\ pc'[p] = pc[p] /\ source'[p] = source[p]
          /\ code'[p] = code[p] /\ closed'[p] = closed[p]
      BY <1>1, <2>3 DEF CommandStep, CommandFault, ParseFlags, OpenInput, ReadPart, EndOfInput,
         ParseAndChoose, CreateOutput, WriteOutput, CloseOutput, CloseFails, StepFails, Kill, To, Exit,
         commandVars, OutputsInv, OutputsTyped
    <3> QED
      BY <1>1, <2>1, <2>3, <3>1, OthersKeepOutputs, UndisturbedKeeps
  <2>4. ASSUME NEW p \in Processes, CommandStep(p) \/ CommandFault(p) PROVE OutputInv(p)'
    BY <1>1, <2>4, QuietStepKeeps, CreateBegins, EndingKeeps DEF CommandStep, CommandFault
  <2> QED
    BY <1>1, <2>1, <2>2, <2>3, <2>4 DEF ToolsNext, OutputsInv
<1>2. ASSUME OutputsInv, UNCHANGED toolVars PROVE OutputsInv'
  BY <1>2 DEF toolVars, commandVars, diskVars, OutputsInv, OutputsTyped, DiskTypeOK, OutputInv, Begun, Prefix,
     CreatedInTime, Accounted, Shown, Exists
<1> QED
  BY <1>1, <1>2

LEMMA InitialOutputsInv == ToolsInit => OutputsInv
<1> SUFFICES ASSUME ToolsInit PROVE OutputsInv
  OBVIOUS
<1>1. \A p \in Processes : Output[p] \in Paths
  BY CommandsAssumption
<1>2. DiskTypeOK
  BY DiskAssumption DEF ToolsInit, DiskInit, DiskTypeOK, Contents
<1>3. <<>> \in Contents
  BY DEF Contents
<1> QED
  BY <1>1, <1>2, <1>3
     DEF ToolsInit, CommandInit, OutputsInv, OutputsTyped, OutputInv, CreatedInTime, Accounted

LEMMA OutputsInvariant == ASSUME RendersContents PROVE ToolsSpec => []OutputsInv
BY InitialOutputsInv, StepKeepsOutputsInv, ToolsInvariant, PTL DEF ToolsSpec

(* For any number of commands, faults and runs of specsync: an output      *)
(* shows what its path showed before, or the beginning of the rendering of *)
(* what was read, and never a mixture.                                     *)
THEOREM OutputsAreOldOrBegun == ASSUME RendersContents PROVE ToolsSpec => []OutputOldOrBegun
<1>1. ToolsInv /\ OutputsInv => OutputOldOrBegun
  <2> SUFFICES ASSUME ToolsInv, OutputsInv, NEW p \in Processes
               PROVE  IF out[p] = NoFile THEN Shown(Output[p]) = before[Output[p]]
                      ELSE \E c \in Shown(Output[p]) : Prefix(c, Rendered(read[p]))
    BY DEF OutputOldOrBegun
  <2> QED
    BY DEF OutputsInv, OutputInv, Begun, Shown, Exists
<1> QED
  BY <1>1, OutputsInvariant, ToolsInvariant, PTL

(* And the exit code tells the truth about it. *)
THEOREM ExitCodesAreTrue == ASSUME RendersContents PROVE ToolsSpec => []ExitCodeIsTrue
<1>1. ToolsInv /\ OutputsInv => ExitCodeIsTrue
  <2> SUFFICES ASSUME ToolsInv, OutputsInv, NEW p \in Processes, pc[p] = "exited"
               PROVE  /\ code[p] = 0 /\ closed[p] => Shown(Output[p]) = {Rendered(read[p])}
                      /\ code[p] = 2 /\ p \in Converts => Shown(Output[p]) = before[Output[p]]
    BY DEF ExitCodeIsTrue
  <2> QED
    BY DEF OutputsInv, OutputInv, Begun, Accounted, Shown, Exists
<1> QED
  BY <1>1, OutputsInvariant, ToolsInvariant, PTL
=============================================================================
