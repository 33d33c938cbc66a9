--------------------------------- MODULE Disk ---------------------------------
(***************************************************************************)
(* The file system below cmd/markonward and internal/specsync, as far as   *)
(* they use it: a path names a file or nothing, a file that has lost its   *)
(* name keeps its content for whoever has it open, and renaming moves one  *)
(* name onto another in a single step.  A content is a sequence of parts,  *)
(* as large as what one write or one read moves.                           *)
(***************************************************************************)
EXTENDS Integers, Sequences

CONSTANTS Paths,
          Files,    \* the files there may ever be, a bound on those made
          NoFile,
          Parts,
          Old,      \* what a path that names a file at the start shows
          Starts    \* the sets of paths that name one at the start

(* The file a path names at the start goes by the name of the path. *)
ASSUME DiskAssumption ==
  /\ NoFile \notin Files
  /\ Paths \subseteq Files
  /\ Old \in [Paths -> Seq(Parts)]
  /\ Starts \subseteq SUBSET Paths

VARIABLES names,    \* what each path names
          content,  \* what each file holds
          made      \* the files made so far

diskVars == <<names, content, made>>

Contents == Seq(Parts)

DiskTypeOK ==
  /\ names \in [Paths -> Files \cup {NoFile}]
  /\ content \in [Files -> Contents]
  /\ made \subseteq Files

DiskInit ==
  /\ \E present \in Starts : names = [path \in Paths |-> IF path \in present THEN path ELSE NoFile]
  /\ content = [file \in Files |-> IF file \in Paths THEN Old[file] ELSE <<>>]
  /\ made = Paths

Exists(path) == names[path] # NoFile
Room == Files \ made # {}
Fresh == CHOOSE f \in Files \ made : TRUE

(* What a path shows: at most one content, as a set. *)
Shown(path) == IF Exists(path) THEN {content[names[path]]} ELSE {}

(* The file a caller has in its hands when it has opened a path to write. *)
Opened(path) == IF Exists(path) THEN names[path] ELSE Fresh

(* Slip: an existing file is opened as it is. *)
CreateKeeping(path) ==
  /\ Exists(path) \/ Room
  /\ names' = [names EXCEPT ![path] = Opened(path)]
  /\ content' = content
  /\ made' = made \cup {Opened(path)}

(* os.Create, and how os.WriteFile begins: an existing file is emptied,    *)
(* not replaced.                                                           *)
Create(path) ==
  /\ Exists(path) \/ Room
  /\ names' = [names EXCEPT ![path] = Opened(path)]
  /\ content' = [content EXCEPT ![Opened(path)] = <<>>]
  /\ made' = made \cup {Opened(path)}

Write(file, parts) ==
  /\ content' = [content EXCEPT ![file] = @ \o parts]
  /\ UNCHANGED <<names, made>>

(* What a write that was accepted but never reached the disk leaves. *)
CutTo(file, length) ==
  /\ content' = [content EXCEPT ![file] = SubSeq(@, 1, length)]
  /\ UNCHANGED <<names, made>>

(* Slip: what one file holds is copied into the other. *)
RenameByCopying(from, to) ==
  LET into == Opened(to)
  IN /\ names' = [names EXCEPT ![to] = into, ![from] = NoFile]
     /\ content' = [content EXCEPT ![into] = content[names[from]]]
     /\ made' = made \cup {into}

Rename(from, to) ==
  /\ names' = [names EXCEPT ![to] = names[from], ![from] = NoFile]
  /\ UNCHANGED <<content, made>>
=============================================================================
