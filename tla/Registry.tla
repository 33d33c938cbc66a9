------------------------------ MODULE Registry ------------------------------
(***************************************************************************)
(* The extension registry (extension/extension.go): registrations are      *)
(* accepted one by one, by direct calls of Register or by the extensions a *)
(* call of Freeze runs, until a Freeze that meets no error seals them into *)
(* an ordered Set.  parser.New and renderer.CompileExtensions each freeze  *)
(* a registry of their own and take the Set's entries phase by phase.      *)
(***************************************************************************)
EXTENDS Integers, Sequences, FiniteSets

CONSTANTS
  Registrations,  \* what extensions may try to register
  Bytes,          \* the bytes that may trigger a hook
  Trimmed,        \* strings.TrimSpace on their IDs: 0 is the empty string,
                  \* larger numbers are strings in their order
  FreezeCalls     \* argument lists of Freeze, as sequences of Attempts

Phases == 1 .. 4   \* block, inline, transform, render

(* implements: the phases whose handler interface the Handler satisfies,   *)
(* none for a nil handler.                                                 *)
Registration ==
  [id : Nat, phase : Nat, priority : Int, triggers : SUBSET Bytes, implements : SUBSET Phases]

(* An attempt of an extension to register something, and whether it gives  *)
(* back the error when that is refused.  A nil extension fails like one    *)
(* that reports the refusal of a registration without a handler.           *)
Attempts == [registration : Registrations, reports : BOOLEAN]

ASSUME RegistryAssumption ==
  /\ Registrations \subseteq Registration
  /\ Trimmed \in [{r.id : r \in Registrations} -> Nat]
  /\ \A call \in FreezeCalls : call \in Seq(Attempts)

VARIABLES
  entries,   \* Registry.entries
  frozen,    \* Registry.frozen
  freezing,  \* a call of Freeze is running
  queue,     \* what its extensions have still to do
  set        \* the entries of the Set it returned

registryVars == <<entries, frozen, freezing, queue, set>>

Entry == {entries[i] : i \in 1 .. Len(entries)}

(* Slip: an entry without triggers overlaps with nothing. *)
OverlapListed(s, t) == s \cap t # {}

(* triggersOverlap: no triggers means every byte. *)
Overlap(s, t) == s = {} \/ t = {} \/ s \cap t # {}

Conflict(r, e) ==
  e.phase = r.phase /\ e.priority = r.priority /\ Overlap(e.triggers, r.triggers)

(* Registry.Register: the registration as it is stored, and the refusals.  *)
Stored(r) == [r EXCEPT !.id = Trimmed[r.id]]

Acceptable(r) ==
  /\ ~frozen
  /\ r.id # 0
  /\ r.phase \in Phases
  /\ r.phase \in r.implements
  /\ \A e \in Entry : e.id # r.id /\ ~Conflict(r, e)

RegistryInit ==
  /\ entries = <<>>
  /\ frozen = FALSE
  /\ freezing = FALSE
  /\ queue = <<>>
  /\ set = <<>>

Register(r) ==
  /\ ~freezing
  /\ Acceptable(Stored(r))
  /\ entries' = Append(entries, Stored(r))
  /\ UNCHANGED <<frozen, freezing, queue, set>>

Freeze(call) ==
  /\ ~freezing
  /\ ~frozen
  /\ freezing' = TRUE
  /\ queue' = call
  /\ UNCHANGED <<entries, frozen, set>>

Trying == freezing /\ queue # <<>>

ExtensionRegisters ==
  /\ Trying
  /\ Acceptable(Stored(Head(queue).registration))
  /\ entries' = Append(entries, Stored(Head(queue).registration))
  /\ queue' = Tail(queue)
  /\ UNCHANGED <<frozen, freezing, set>>

(* The extension shrugs the refusal off. *)
ExtensionIgnoresRefusal ==
  /\ Trying
  /\ ~Acceptable(Stored(Head(queue).registration))
  /\ ~Head(queue).reports
  /\ queue' = Tail(queue)
  /\ UNCHANGED <<entries, frozen, freezing, set>>

(* Freeze gives up; what earlier extensions registered stays.              *)
FreezeFails ==
  /\ Trying
  /\ ~Acceptable(Stored(Head(queue).registration))
  /\ Head(queue).reports
  /\ freezing' = FALSE
  /\ queue' = <<>>
  /\ UNCHANGED <<entries, frozen, set>>

(* Slip: the priority takes no part in the order. *)
PrecedesById(r, e) == r.phase < e.phase \/ (r.phase = e.phase /\ r.id < e.id)

(* sort.SliceStable by phase, priority and ID. *)
Precedes(r, e) ==
  \/ r.phase < e.phase
  \/ r.phase = e.phase /\ r.priority < e.priority
  \/ r.phase = e.phase /\ r.priority = e.priority /\ r.id < e.id

Rank(r) == Cardinality({e \in Entry : Precedes(e, r)})

Sorted(s) == [k \in 1 .. Len(s) |-> CHOOSE r \in Entry : Rank(r) = k - 1]

FreezeReturns ==
  /\ freezing
  /\ queue = <<>>
  /\ frozen' = TRUE
  /\ freezing' = FALSE
  /\ set' = Sorted(entries)
  /\ UNCHANGED <<entries, queue>>

RegistryNext ==
  \/ \E r \in Registrations : Register(r)
  \/ \E call \in FreezeCalls : Freeze(call)
  \/ ExtensionRegisters \/ ExtensionIgnoresRefusal \/ FreezeFails \/ FreezeReturns

RegistrySpec == RegistryInit /\ [][RegistryNext]_registryVars

(* Set.Registrations *)
HooksOf(phase) == SelectSeq(set, LAMBDA r : r.phase = phase)

TriggeredBy(r, byte) == r.triggers = {} \/ byte \in r.triggers

(* The hooks a byte triggers, in the order they are asked.                 *)
Triggered(hooks, byte) == SelectSeq(hooks, LAMBDA r : TriggeredBy(r, byte))
-----------------------------------------------------------------------------

(* Two entries with IDs of their own, which no byte triggers both in one   *)
(* phase and at one priority.                                              *)
Apart(r, e) ==
  /\ r.id # e.id
  /\ r.phase = e.phase /\ r.priority = e.priority =>
       \A byte \in Bytes : ~(TriggeredBy(r, byte) /\ TriggeredBy(e, byte))

(* Whatever is registered in whatever order, no ID is used twice and no    *)
(* byte triggers two entries of one phase and priority.                    *)
NoConflicts ==
  \A i, j \in 1 .. Len(entries) : i # j => Apart(entries[i], entries[j])

(* The hooks a byte triggers in a phase are asked in one order only, that  *)
(* of their priorities, which all differ; a Set holds what was accepted.   *)
DispatchIsDetermined ==
  frozen =>
    /\ \A i, j \in 1 .. Len(set) : i < j /\ set[i].phase = set[j].phase =>
         \A byte \in Bytes : TriggeredBy(set[i], byte) /\ TriggeredBy(set[j], byte) =>
           set[i].priority < set[j].priority
    /\ {set[k] : k \in 1 .. Len(set)} = Entry
    /\ Len(set) = Len(entries)
=============================================================================
