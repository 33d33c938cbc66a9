---------------------------- MODULE ParsingProofs ----------------------------
(***************************************************************************)
(* For any number of calls and readers, any limit and any kind of sink:    *)
(* the mutex of the sink excludes and comes free, no call parses a cut     *)
(* input, a cancelled call records no more than what its turn left to      *)
(* record, no event is lost on its way to the sink, no line is written     *)
(* behind a torn one by an encoder, and the sink is one log (TraceLog).    *)
(***************************************************************************)
EXTENDS Parsing, TLAPS

PcTyped == pc = [x \in Calls \cup Readers |-> pc[x]]

-----------------------------------------------------------------------------
(* The mutex.  Its owner is somebody or nobody: with LockHasAnOwner, no    *)
(* two are inside the sink.                                                *)
LockInv ==
  /\ PcTyped
  /\ lock \in Calls \cup Readers \cup {NoOne}
  /\ LockHasAnOwner

(* A step of somebody outside the sink that stays outside. *)
LEMMA StaysOutside ==
  ASSUME LockInv, NEW x \in Calls \cup Readers, NEW label, label \notin InSink,
         pc[x] \notin InSink, To(x, label), UNCHANGED lock
  PROVE  LockInv'
BY DEF LockInv, PcTyped, LockHasAnOwner, To

(* A step inside the sink. *)
LEMMA StaysInside ==
  ASSUME LockInv, NEW x \in Calls \cup Readers, NEW label \in InSink,
         pc[x] \in InSink, To(x, label), UNCHANGED lock
  PROVE  LockInv'
BY DEF LockInv, PcTyped, LockHasAnOwner, To

LEMMA Enters ==
  ASSUME LockInv, NEW x \in Calls \cup Readers, NEW label \in InSink,
         lock = NoOne, lock' = x, To(x, label)
  PROVE  LockInv'
BY ParsingAssumption DEF LockInv, PcTyped, LockHasAnOwner, To

LEMMA Leaves ==
  ASSUME LockInv, NEW x \in Calls \cup Readers, NEW label, label \notin InSink,
         pc[x] \in InSink, lock' = NoOne, To(x, label)
  PROVE  LockInv'
BY ParsingAssumption DEF LockInv, PcTyped, LockHasAnOwner, To

LEMMA CallKeepsLockInv ==
  ASSUME LockInv, NEW c \in Calls, CallStep(c)
  PROVE  LockInv'
<1>1. CASE ParseSlice(c) \/ ParseReader(c)
  <2>1. \E label \in {"blocks", "failed"} : To(c, label) /\ pc[c] = "ready" /\ UNCHANGED lock
    BY <1>1 DEF ParseSlice, ParseReader, Parse, sinkVars
  <2> QED
    BY <2>1, StaysOutside DEF InSink
<1>2. CASE ReadFails(c) \/ Abandon(c) \/ InlineTurnFails(c) \/ InlinesDone(c) \/ Finish(c) \/ BlocksDone(c) \/ Emit(c)
  <2>1. /\ \E label \in {"failed", "transforms", "returned", "inlines", "sending"} : To(c, label)
        /\ pc[c] \in {"ready", "blocks", "inlines", "transforms"} /\ UNCHANGED lock
    BY <1>2 DEF ReadFails, Abandon, InlineTurnFails, InlinesDone, Finish, BlocksDone, Emit, Ended, sinkVars
  <2> QED
    BY <2>1, StaysOutside DEF InSink
<1>3. CASE BlockTurn(c) \/ InlineTurn(c)
  <2>1. (UNCHANGED pc \/ To(c, "failed")) /\ pc[c] \in {"blocks", "inlines"} /\ UNCHANGED lock
    BY <1>3 DEF BlockTurn, InlineTurn, sinkVars
  <2>2. CASE UNCHANGED pc
    BY <2>1, <2>2 DEF LockInv, PcTyped, LockHasAnOwner
  <2> QED
    BY <2>1, <2>2, StaysOutside DEF InSink
<1>4. CASE Lock(c)
  BY <1>4, Enters DEF Lock, InSink
<1>5. CASE Load(c) \/ Store(c)
  BY <1>5, StaysInside DEF Load, Store, InSink
<1>6. CASE Unlock(c) \/ WriteFails(c)
  BY <1>6, Leaves DEF Unlock, WriteFails, InSink
<1> QED
  BY <1>1, <1>2, <1>3, <1>4, <1>5, <1>6 DEF CallStep

LEMMA StepKeepsLockInv == LockInv /\ [ParsingNext]_vars => LockInv'
<1> SUFFICES ASSUME LockInv, [ParsingNext]_vars PROVE LockInv'
  OBVIOUS
<1>1. CASE \E c \in Calls : CallStep(c)
  BY <1>1, CallKeepsLockInv
<1>2. CASE \E r \in Readers : ReaderLocks(r) \/ ReaderCopies(r)
  <2>1. PICK r \in Readers : ReaderLocks(r) \/ ReaderCopies(r)
    BY <1>2
  <2>2. CASE ReaderLocks(r)
    BY <2>2, Enters DEF ReaderLocks, InSink
  <2>3. CASE ReaderCopies(r)
    BY <2>3, Leaves DEF ReaderCopies, InSink
  <2> QED
    BY <2>1, <2>2, <2>3
<1>3. CASE (\E c \in Calls : Cancel(c)) \/ UNCHANGED vars
  <2>1. UNCHANGED <<pc, lock>>
    BY <1>3 DEF Cancel, vars, callVars, sinkVars
  <2> QED
    BY <2>1 DEF LockInv, PcTyped, LockHasAnOwner
<1> QED
  BY <1>1, <1>2, <1>3 DEF ParsingNext, AllEnded

(* The sink's mutex excludes, and an aborted Record releases it. *)
THEOREM MutexHasAnOwner == ParsingSpec => []LockHasAnOwner
<1>1. ParsingInit => LockInv
  BY ParsingAssumption DEF ParsingInit, LockInv, PcTyped, LockHasAnOwner, InSink
<1>2. LockInv => LockHasAnOwner
  BY DEF LockInv
<1> QED
  BY <1>1, <1>2, StepKeepsLockInv, PTL DEF ParsingSpec
-----------------------------------------------------------------------------
(* Only a working encoder lets anybody reach the point where an event is   *)
(* stored, and one that works has left no line behind.                     *)
TornInv ==
  /\ LockInv
  /\ sink = "json" =>
       /\ torn \subseteq {Len(stored)}
       /\ torn # {} => broken
       /\ \A c \in Calls : pc[c] \in {"loaded", "stored"} => ~broken

LEMMA CallKeepsTornInv ==
  ASSUME TornInv, LockInv', NEW c \in Calls, CallStep(c)
  PROVE  TornInv'
<1> SUFFICES ASSUME sink' = "json"
             PROVE  /\ torn' \subseteq {Len(stored')}
                    /\ torn' # {} => broken'
                    /\ \A d \in Calls : pc'[d] \in {"loaded", "stored"} => ~broken'
  BY DEF TornInv
<1>1. CASE Load(c)
  BY <1>1 DEF Load, To, TornInv, LockInv, PcTyped
<1>2. CASE Store(c)
  <2>1. sink = "json" /\ ~broken /\ torn = {}
    BY <1>2 DEF Store, TornInv
  <2> QED
    BY <1>2, <2>1 DEF Store, To, TornInv, LockInv, PcTyped
<1>3. CASE WriteFails(c)
  <2>1. sink = "json" /\ pc[c] = "locked" /\ pc' = [pc EXCEPT ![c] = "failed"]
        /\ broken' = TRUE /\ stored' = stored /\ torn' \in LeftByFailure
    BY <1>3 DEF WriteFails, To
  <2>2. torn' \subseteq {Len(stored)}
    BY <2>1 DEF LeftByFailure, TornInv
  <2>3. ASSUME NEW d \in Calls, pc'[d] \in {"loaded", "stored"} PROVE FALSE
    <3>1. pc[d] \in InSink /\ pc[c] \in InSink /\ d # c
      BY <2>1, <2>3 DEF TornInv, LockInv, PcTyped, InSink
    <3> QED
      BY <3>1 DEF TornInv, LockInv, LockHasAnOwner
  <2> QED
    BY <2>1, <2>2, <2>3
<1>4. CASE ~(Load(c) \/ Store(c) \/ WriteFails(c))
  <2>1. /\ UNCHANGED <<sink, broken, stored, torn>>
        /\ \/ UNCHANGED pc
           \/ \E label \in {"blocks", "failed", "inlines", "sending", "locked", "transforms", "returned"} : To(c, label)
    BY <1>4 DEF CallStep, ParseSlice, ParseReader, Parse, ReadFails, Abandon, InlineTurnFails, BlockTurn,
                BlocksDone, InlineTurn, Emit, Lock, Unlock, InlinesDone, Finish, Ended, sinkVars
  <2> QED
    BY <2>1 DEF TornInv, LockInv, PcTyped, To
<1> QED
  BY <1>1, <1>2, <1>3, <1>4

LEMMA StepKeepsTornInv == TornInv /\ [ParsingNext]_vars => TornInv'
<1> SUFFICES ASSUME TornInv, [ParsingNext]_vars PROVE TornInv'
  OBVIOUS
<1>1. LockInv'
  BY StepKeepsLockInv DEF TornInv
<1>2. CASE \E c \in Calls : CallStep(c)
  BY <1>1, <1>2, CallKeepsTornInv
<1>3. ASSUME NEW r \in Readers, ReaderLocks(r) \/ ReaderCopies(r) PROVE TornInv'
  <2>1. UNCHANGED <<sink, broken, stored, torn>> /\ \E label : To(r, label)
    BY <1>3 DEF ReaderLocks, ReaderCopies
  <2>2. r \notin Calls
    BY ParsingAssumption
  <2> QED
    BY <1>1, <2>1, <2>2 DEF TornInv, To, LockInv, PcTyped
<1>4. CASE (\E c \in Calls : Cancel(c)) \/ UNCHANGED vars
  <2>1. UNCHANGED <<pc, sink, broken, stored, torn>>
    BY <1>4 DEF Cancel, vars, callVars, sinkVars
  <2> QED
    BY <1>1, <2>1 DEF TornInv
<1> QED
  BY <1>2, <1>3, <1>4 DEF ParsingNext, AllEnded

(* However many parses share a JSONLines sink, an event is never written   *)
(* behind the beginning of another: only the last line may be torn.        *)
THEOREM TornLineIsTheLast == ParsingSpec => []JSONLinesStayWhole
<1>1. ParsingInit => TornInv
  BY ParsingAssumption DEF ParsingInit, TornInv, LockInv, PcTyped, LockHasAnOwner, InSink
<1>2. TornInv => JSONLinesStayWhole
  BY DEF TornInv, JSONLinesStayWhole
<1> QED
  BY <1>1, <1>2, StepKeepsTornInv, PTL DEF ParsingSpec
-----------------------------------------------------------------------------
(* What a call parses is what it was given.                                *)
InputInv ==
  /\ PcTyped
  /\ given = [c \in Calls |-> given[c]] /\ held = [c \in Calls |-> held[c]]
  /\ InputIsWhole

(* A limit below the largest integer leaves room for the one byte more by  *)
(* which an input that is too large gives itself away.                     *)
LEMMA OversizeIsSeen ==
  ASSUME MaxInput < MaxInt, NEW size \in Sizes, BytesRead(size) <= MaxInput
  PROVE  BytesRead(size) = size
<1>1. size \in Nat /\ MaxInput \in Nat /\ MaxInput >= 1
  BY ParsingAssumption
<1>2. ReadLimit = MaxInput + 1
  BY DEF ReadLimit
<1> QED
  BY <1>1, <1>2 DEF BytesRead

LEMMA AdmittedWhole ==
  ASSUME InputInv, NEW c \in Calls, NEW size, NEW bytes, NEW valid,
         bytes <= MaxInput => bytes = size, pc[c] = "ready", Parse(c, size, bytes, valid)
  PROVE  InputInv'
<1>1. /\ given' = [given EXCEPT ![c] = size] /\ held' = [held EXCEPT ![c] = bytes]
      /\ (To(c, "blocks") /\ bytes <= MaxInput) \/ To(c, "failed")
  BY DEF Parse
<1> QED
  BY <1>1 DEF InputInv, InputIsWhole, PcTyped, To, Working, InSink

(* A step that reads no input, of a call that has read its own or fails.   *)
LEMMA InputStays ==
  ASSUME InputInv, NEW x \in Calls \cup Readers, NEW label,
         x \in Calls => pc[x] \in Working \/ label = "failed",
         To(x, label), UNCHANGED <<given, held>>
  PROVE  InputInv'
BY ParsingAssumption DEF InputInv, InputIsWhole, PcTyped, To, Working, InSink

LEMMA StepKeepsInputInv ==
  ASSUME MaxInput < MaxInt, InputInv, [ParsingNext]_vars
  PROVE  InputInv'
<1>1. ASSUME NEW c \in Calls, CallStep(c) PROVE InputInv'
  <2>1. CASE ParseSlice(c)
    <3>1. PICK size \in Sizes, valid \in BOOLEAN : pc[c] = "ready" /\ Parse(c, size, size, valid)
      BY <2>1 DEF ParseSlice
    <3> QED
      BY <3>1, AdmittedWhole
  <2>2. CASE ParseReader(c)
    <3>1. PICK size \in Sizes, valid \in BOOLEAN :
            pc[c] = "ready" /\ Parse(c, size, BytesRead(size), valid)
      BY <2>2 DEF ParseReader
    <3> QED
      BY <3>1, OversizeIsSeen, AdmittedWhole
  <2>3. CASE ReadFails(c) \/ Abandon(c) \/ InlineTurnFails(c) \/ WriteFails(c)
    BY <2>3, InputStays DEF ReadFails, Abandon, InlineTurnFails, WriteFails
  <2>4. CASE BlockTurn(c) \/ InlineTurn(c)
    <3>1. (UNCHANGED pc \/ To(c, "failed")) /\ UNCHANGED <<given, held>>
      BY <2>4 DEF BlockTurn, InlineTurn
    <3>2. CASE UNCHANGED pc
      BY <3>1, <3>2 DEF InputInv, InputIsWhole, PcTyped
    <3> QED
      BY <3>1, <3>2, InputStays
  <2>5. CASE \/ BlocksDone(c) \/ Emit(c) \/ Lock(c) \/ Load(c) \/ Store(c) \/ Unlock(c)
             \/ InlinesDone(c) \/ Finish(c)
    <3>1. (\E label : To(c, label)) /\ pc[c] \in Working /\ UNCHANGED <<given, held>>
      BY <2>5 DEF BlocksDone, Emit, Lock, Load, Store, Unlock, InlinesDone, Finish, Working, InSink
    <3> QED
      BY <3>1, InputStays
  <2> QED
    BY <1>1, <2>1, <2>2, <2>3, <2>4, <2>5 DEF CallStep
<1>2. ASSUME NEW r \in Readers, ReaderLocks(r) \/ ReaderCopies(r) PROVE InputInv'
  <2>1. (\E label : To(r, label)) /\ UNCHANGED <<given, held>> /\ r \notin Calls
    BY <1>2, ParsingAssumption DEF ReaderLocks, ReaderCopies
  <2> QED
    BY <2>1, InputStays
<1>3. CASE (\E c \in Calls : Cancel(c)) \/ UNCHANGED vars
  <2>1. UNCHANGED <<pc, given, held>>
    BY <1>3 DEF Cancel, vars, callVars
  <2> QED
    BY <2>1 DEF InputInv, InputIsWhole, PcTyped
<1> QED
  BY <1>1, <1>2, <1>3 DEF ParsingNext, AllEnded

(* With any limit below the largest integer, no call parses a cut input.   *)
THEOREM NoInputIsCut ==
  ASSUME MaxInput < MaxInt
  PROVE  ParsingSpec => []InputIsWhole
<1>1. ParsingInit => InputInv
  BY DEF ParsingInit, InputInv, InputIsWhole, PcTyped, Working, InSink
<1>2. InputInv /\ [ParsingNext]_vars => InputInv'
  BY StepKeepsInputInv
<1>3. InputInv => InputIsWhole
  BY DEF InputInv
<1> QED
  BY <1>1, <1>2, <1>3, PTL DEF ParsingSpec

-----------------------------------------------------------------------------
(* What a call may still record: the rest of its turn, and the event it    *)
(* has in its hands.  Once it is cancelled nothing is added to that.       *)
InHand(c) == IF pc[c] \in {"sending", "locked", "loaded"} THEN 1 ELSE 0
Recordable(c) == Len(todo[c]) + InHand(c)

CancelInv ==
  /\ PcTyped
  /\ todo \in [Calls -> Seq(Levels)]
  /\ late \in [Calls -> Nat]
  /\ \A c \in Calls :
       /\ ~cancelled[c] => late[c] = 0
       /\ late[c] + Recordable(c) <= MaxEvents

CancelVars == <<todo, late, cancelled>>

(* A step that adds nothing to what may still be recorded, or moves it     *)
(* into the log.                                                           *)
LEMMA NoMoreToRecord ==
  ASSUME CancelInv, PcTyped', todo' \in [Calls -> Seq(Levels)], late' \in [Calls -> Nat],
         \A c \in Calls :
           /\ ~cancelled'[c] => late'[c] = 0
           /\ \/ late'[c] + Len(todo'[c]) + InHand(c)' <= MaxEvents
              \/ late'[c] = late[c] /\ Len(todo'[c]) + InHand(c)' <= Len(todo[c]) + InHand(c)
  PROVE  CancelInv'
<1> SUFFICES ASSUME NEW c \in Calls
             PROVE  late'[c] + (Len(todo'[c]) + InHand(c)') <= MaxEvents
  BY DEF CancelInv, Recordable
<1>1. /\ Len(todo[c]) \in Nat /\ Len(todo'[c]) \in Nat /\ late[c] \in Nat /\ late'[c] \in Nat
      /\ InHand(c) \in Nat /\ InHand(c)' \in Nat /\ MaxEvents \in Nat
  BY ParsingAssumption DEF CancelInv, InHand
<1>2. late[c] + (Len(todo[c]) + InHand(c)) <= MaxEvents
  BY DEF CancelInv, Recordable
<1> QED
  BY <1>1, <1>2

(* A step of somebody who has nothing in hand before and after.            *)
LEMMA NothingInHand ==
  ASSUME CancelInv, NEW x \in Calls \cup Readers, NEW label,
         x \in Calls => label \notin {"sending", "locked", "loaded"},
         To(x, label), UNCHANGED CancelVars
  PROVE  CancelInv'
<1>1. ASSUME NEW c \in Calls PROVE Len(todo'[c]) + InHand(c)' <= Len(todo[c]) + InHand(c)
  BY ParsingAssumption DEF CancelInv, PcTyped, To, InHand, CancelVars
<1> QED
  BY <1>1, NoMoreToRecord DEF CancelInv, PcTyped, To, CancelVars

LEMMA CallKeepsCancelInv ==
  ASSUME CancelInv, NEW c \in Calls, CallStep(c)
  PROVE  CancelInv'
<1> USE ParsingAssumption
<1>1. CASE \/ ParseSlice(c) \/ ParseReader(c) \/ ReadFails(c) \/ Abandon(c) \/ InlineTurnFails(c) \/ BlocksDone(c)
           \/ Unlock(c) \/ WriteFails(c) \/ InlinesDone(c) \/ Finish(c)
  <2>1. /\ \E label \in {"blocks", "inlines", "failed", "transforms", "returned"} : To(c, label)
        /\ UNCHANGED CancelVars
    BY <1>1 DEF ParseSlice, ParseReader, Parse, ReadFails, Abandon, InlineTurnFails, BlocksDone, Unlock, WriteFails,
                InlinesDone, Finish, Ended, CancelVars
  <2> QED
    BY <2>1, NothingInHand
<1>2. CASE BlockTurn(c)
  <2>1. (UNCHANGED pc \/ To(c, "failed")) /\ UNCHANGED CancelVars
    BY <1>2 DEF BlockTurn, CancelVars
  <2>2. CASE UNCHANGED pc
    BY <2>1, <2>2 DEF CancelInv, PcTyped, CancelVars, Recordable, InHand
  <2> QED
    BY <2>1, <2>2, NothingInHand
<1>3. CASE InlineTurn(c)
  <2>1. /\ ~cancelled[c] /\ pc[c] = "inlines" /\ UNCHANGED <<pc, cancelled, late>>
        /\ \E n \in 0 .. MaxEvents : \E events \in [1 .. n -> Levels] : todo' = [todo EXCEPT ![c] = events]
    BY <1>3 DEF InlineTurn
  <2>n. PICK n \in 0 .. MaxEvents : \E events \in [1 .. n -> Levels] : todo' = [todo EXCEPT ![c] = events]
    BY <2>1
  <2>2. PICK events \in [1 .. n -> Levels] : todo' = [todo EXCEPT ![c] = events]
    BY <2>n
  <2>3. events \in Seq(Levels) /\ Len(events) = n
    BY <2>2
  <2>4. todo' \in [Calls -> Seq(Levels)]
    BY <2>2, <2>3 DEF CancelInv
  <2>5. ASSUME NEW d \in Calls
        PROVE  \/ late'[d] + Len(todo'[d]) + InHand(d)' <= MaxEvents
               \/ late'[d] = late[d] /\ Len(todo'[d]) + InHand(d)' <= Len(todo[d]) + InHand(d)
    <3>1. CASE d = c
      BY <2>1, <2>2, <2>3, <3>1 DEF CancelInv, InHand
    <3>2. CASE d # c
      BY <2>1, <2>2, <3>2 DEF CancelInv, InHand
    <3> QED
      BY <3>1, <3>2
  <2>6. PcTyped' /\ late' \in [Calls -> Nat] /\ \A d \in Calls : ~cancelled'[d] => late'[d] = 0
    BY <2>1 DEF CancelInv, PcTyped
  <2> QED
    BY <2>4, <2>5, <2>6, NoMoreToRecord
<1>4. CASE Emit(c)
  <2>1. /\ pc[c] = "inlines" /\ todo[c] # <<>> /\ UNCHANGED <<cancelled, late>>
        /\ \E label \in {"sending", "inlines"} : To(c, label)
        /\ todo' = [todo EXCEPT ![c] = Tail(@)]
    BY <1>4 DEF Emit
  <2>2. /\ Tail(todo[c]) \in Seq(Levels) /\ Len(Tail(todo[c])) = Len(todo[c]) - 1
        /\ Len(todo[c]) \in Nat
    BY <2>1 DEF CancelInv
  <2>3. ASSUME NEW d \in Calls PROVE Len(todo'[d]) + InHand(d)' <= Len(todo[d]) + InHand(d)
    <3>1. CASE d = c
      BY <2>1, <2>2, <3>1 DEF CancelInv, PcTyped, To, InHand
    <3>2. CASE d # c
      BY <2>1, <3>2 DEF CancelInv, PcTyped, To, InHand
    <3> QED
      BY <3>1, <3>2
  <2>4. todo' \in [Calls -> Seq(Levels)] /\ PcTyped'
    BY <2>1, <2>2 DEF CancelInv, PcTyped, To
  <2> QED
    BY <2>1, <2>3, <2>4, NoMoreToRecord DEF CancelInv
<1>5. CASE Lock(c) \/ Load(c)
  <2>1. /\ pc[c] \in {"sending", "locked"} /\ UNCHANGED CancelVars
        /\ \E label \in {"locked", "loaded"} : To(c, label)
    BY <1>5 DEF Lock, Load, CancelVars
  <2>2. \A d \in Calls : Recordable(d)' = Recordable(d)
    BY <2>1 DEF CancelInv, PcTyped, To, Recordable, InHand, CancelVars
  <2> QED
    BY <2>1, <2>2 DEF CancelInv, PcTyped, To, CancelVars
<1>6. CASE Store(c)
  <2>1. /\ pc[c] = "loaded" /\ UNCHANGED <<todo, cancelled>> /\ To(c, "stored")
        /\ late' = [late EXCEPT ![c] = IF cancelled[c] THEN @ + 1 ELSE @]
    BY <1>6 DEF Store
  <2>2. ASSUME NEW d \in Calls
        PROVE  \/ late'[d] + Len(todo'[d]) + InHand(d)' <= MaxEvents
               \/ late'[d] = late[d] /\ Len(todo'[d]) + InHand(d)' <= Len(todo[d]) + InHand(d)
    <3>1. CASE d = c
      <4>1. late[c] \in Nat /\ Len(todo[c]) \in Nat /\ late[c] + (Len(todo[c]) + 1) <= MaxEvents
        BY <2>1 DEF CancelInv, Recordable, InHand
      <4> QED
        BY <2>1, <3>1, <4>1 DEF CancelInv, PcTyped, To, InHand
    <3>2. CASE d # c
      BY <2>1, <3>2 DEF CancelInv, PcTyped, To, InHand
    <3> QED
      BY <3>1, <3>2
  <2>3. PcTyped' /\ todo' \in [Calls -> Seq(Levels)]
    BY <2>1 DEF CancelInv, PcTyped, To
  <2>4. late' \in [Calls -> Nat]
    BY <2>1 DEF CancelInv
  <2>5. \A d \in Calls : ~cancelled'[d] => late'[d] = 0
    BY <2>1 DEF CancelInv
  <2> QED
    BY <2>2, <2>3, <2>4, <2>5, NoMoreToRecord
<1> QED
  BY <1>1, <1>2, <1>3, <1>4, <1>5, <1>6 DEF CallStep

LEMMA StepKeepsCancelInv == CancelInv /\ [ParsingNext]_vars => CancelInv'
<1> SUFFICES ASSUME CancelInv, [ParsingNext]_vars PROVE CancelInv'
  OBVIOUS
<1>1. CASE \E c \in Calls : CallStep(c)
  BY <1>1, CallKeepsCancelInv
<1>2. ASSUME NEW r \in Readers, ReaderLocks(r) \/ ReaderCopies(r) PROVE CancelInv'
  <2>1. (\E label : To(r, label)) /\ UNCHANGED CancelVars /\ r \notin Calls
    BY <1>2, ParsingAssumption DEF ReaderLocks, ReaderCopies, CancelVars
  <2> QED
    BY <2>1, NothingInHand
<1>3. ASSUME NEW c \in Calls, Cancel(c) PROVE CancelInv'
  <2>1. UNCHANGED <<pc, todo, late>> /\ cancelled' = [cancelled EXCEPT ![c] = TRUE]
    BY <1>3 DEF Cancel
  <2>2. \A d \in Calls : ~cancelled'[d] => ~cancelled[d]
    BY <2>1
  <2> QED
    BY <2>1, <2>2 DEF CancelInv, PcTyped, Recordable, InHand
<1>4. CASE UNCHANGED vars
  BY <1>4 DEF vars, callVars, CancelInv, PcTyped, Recordable, InHand
<1> QED
  BY <1>1, <1>2, <1>3, <1>4 DEF ParsingNext, AllEnded

(* A cancelled call records at most the events of the turn it was in.      *)
THEOREM CancellationEndsTracing == ParsingSpec => []CancelEndsTracing
<1>1. ParsingInit => CancelInv
  BY ParsingAssumption DEF ParsingInit, CancelInv, PcTyped, Recordable, InHand
<1>2. CancelInv => CancelEndsTracing
  <2> SUFFICES ASSUME CancelInv, NEW c \in Calls PROVE late[c] <= MaxEvents
    BY DEF CancelEndsTracing
  <2>1. Recordable(c) \in Nat /\ late[c] \in Nat /\ MaxEvents \in Nat
    BY ParsingAssumption DEF CancelInv, Recordable, InHand
  <2> QED
    BY <2>1 DEF CancelInv
<1> QED
  BY <1>1, <1>2, StepKeepsCancelInv, PTL DEF ParsingSpec

-----------------------------------------------------------------------------
(* The events in the sink.  Between emission and Store a call's latest     *)
(* number is in its hands; everything before it is in the sink.            *)
Holding(c) == pc[c] \in {"sending", "locked", "loaded"}
Numbered(c) == IF Holding(c) THEN sequence[c] - 1 ELSE sequence[c]

LogTyped ==
  /\ LockInv
  /\ sequence \in [Calls -> Nat] /\ todo \in [Calls -> Seq(Levels)]
  /\ stored \in Seq(Calls \X Nat)
  /\ seen = [c \in Calls |-> seen[c]]
  /\ snapshot = [r \in Readers |-> snapshot[r]]

HasLatest(c) == \E n \in NumbersOf(c) \cup {0} : \A m \in NumbersOf(c) : m <= n

(* Nothing reaches the sink between a Load and its Store, numbers come in  *)
(* order, and none that the filter lets through is left out.               *)
EventsInv(c) ==
  /\ pc[c] = "loaded" => seen[c] = stored
  /\ Holding(c) => sequence[c] > 0
  /\ NumbersOf(c) \subseteq 1 .. Numbered(c)
  /\ InOrder(c) /\ HasLatest(c)
  /\ FilterLevel[c] >= TraceLevel[c] /\ pc[c] # "failed" => 1 .. Numbered(c) \subseteq NumbersOf(c)

LogInv == LogTyped /\ \A c \in Calls : EventsInv(c)

(* A call nothing happens to in the sink, or that fails. *)
LEMMA EventsStay ==
  ASSUME NEW c \in Calls, LogInv, UNCHANGED <<stored, sequence>>,
         pc'[c] = "loaded" => seen'[c] = stored,
         Holding(c)' = Holding(c) \/ pc'[c] = "failed", pc[c] = "failed" => pc'[c] = "failed"
  PROVE  EventsInv(c)'
<1>0. PlacesOf(c)' = PlacesOf(c) /\ NumbersOf(c)' = NumbersOf(c)
  BY DEF NumbersOf, PlacesOf
<1>2. sequence[c] \in Nat /\ EventsInv(c)
  BY DEF LogInv, LogTyped
<1>1. NumbersOf(c)' = NumbersOf(c) /\ InOrder(c)' /\ HasLatest(c)'
  BY <1>0, <1>2 DEF EventsInv, InOrder, HasLatest
<1>3. CASE Holding(c)' = Holding(c)
  <2>1. Numbered(c)' = Numbered(c)
    BY <1>3 DEF Numbered
  <2> QED
    BY <1>1, <1>2, <1>3, <2>1 DEF EventsInv
<1>4. CASE pc'[c] = "failed"
  <2>1. ~Holding(c)' /\ Numbered(c)' = sequence[c] /\ Numbered(c) \in Int /\ Numbered(c) <= sequence[c]
    BY <1>2, <1>4 DEF Holding, Numbered
  <2>2. 1 .. Numbered(c) \subseteq 1 .. Numbered(c)'
    BY <1>2, <2>1
  <2> QED
    BY <1>1, <1>2, <1>4, <2>1, <2>2 DEF EventsInv
<1> QED
  BY <1>3, <1>4

(* An event more, of call c. *)
LEMMA EventAdded ==
  ASSUME NEW c \in Calls, NEW n \in Nat, stored \in Seq(Calls \X Nat),
         stored' = Append(stored, <<c, n>>)
  PROVE  /\ stored' \in Seq(Calls \X Nat)
         /\ PlacesOf(c)' = PlacesOf(c) \cup {Len(stored) + 1}
         /\ NumbersOf(c)' = NumbersOf(c) \cup {n}
         /\ \A d \in Calls \ {c} : PlacesOf(d)' = PlacesOf(d) /\ NumbersOf(d)' = NumbersOf(d)
         /\ \A i \in 1 .. Len(stored) : stored'[i] = stored[i]
         /\ stored'[Len(stored) + 1] = <<c, n>>
<1>1. /\ Len(stored) \in Nat /\ Len(stored') = Len(stored) + 1
      /\ \A i \in 1 .. Len(stored) : stored'[i] = stored[i]
      /\ stored'[Len(stored) + 1] = <<c, n>>
      /\ stored' \in Seq(Calls \X Nat)
  OBVIOUS
<1>2. \A d \in Calls : PlacesOf(d)' = PlacesOf(d) \cup (IF d = c THEN {Len(stored) + 1} ELSE {})
  BY <1>1 DEF PlacesOf
<1>3. NumbersOf(c)' = NumbersOf(c) \cup {n}
  BY <1>1, <1>2 DEF NumbersOf, PlacesOf
<1>4. \A d \in Calls \ {c} : NumbersOf(d)' = NumbersOf(d)
  BY <1>1, <1>2 DEF NumbersOf, PlacesOf
<1> QED
  BY <1>1, <1>2, <1>3, <1>4

(* Store puts the number in the call's hands behind all the others.        *)
LEMMA StoreAdds ==
  ASSUME LogInv, NEW c \in Calls, Store(c)
  PROVE  /\ sequence[c] \in Nat /\ stored' = Append(stored, <<c, sequence[c]>>)
         /\ \A m \in NumbersOf(c) : m < sequence[c]
<1>1. pc[c] = "loaded" /\ EventsInv(c) /\ sequence[c] \in Nat
  BY DEF Store, LogInv, LogTyped
<1>2. seen[c] = stored /\ NumbersOf(c) \subseteq 1 .. sequence[c] - 1
  BY <1>1 DEF EventsInv, Numbered, Holding
<1> QED
  BY <1>1, <1>2 DEF Store

LEMMA StoreKeepsEvents ==
  ASSUME LogInv, NEW c \in Calls, Store(c), NEW d \in Calls
  PROVE  EventsInv(d)'
<1>1. /\ sequence[c] \in Nat /\ stored' = Append(stored, <<c, sequence[c]>>)
      /\ \A m \in NumbersOf(c) : m < sequence[c]
      /\ stored \in Seq(Calls \X Nat) /\ Len(stored) \in Nat
  BY StoreAdds DEF LogInv, LogTyped
<1>2. /\ PlacesOf(c)' = PlacesOf(c) \cup {Len(stored) + 1}
      /\ NumbersOf(c)' = NumbersOf(c) \cup {sequence[c]}
      /\ \A e \in Calls \ {c} : PlacesOf(e)' = PlacesOf(e) /\ NumbersOf(e)' = NumbersOf(e)
      /\ \A i \in 1 .. Len(stored) : stored'[i] = stored[i]
      /\ stored'[Len(stored) + 1] = <<c, sequence[c]>>
  BY <1>1, EventAdded
<1>3. /\ pc' = [pc EXCEPT ![c] = "stored"] /\ pc[c] = "loaded" /\ UNCHANGED sequence
      /\ pc = [x \in Calls \cup Readers |-> pc[x]]
      /\ seen' = [seen EXCEPT ![c] = <<>>]
  BY DEF Store, To, LogInv, LogTyped, LockInv, PcTyped
<1>4. \A e \in Calls : PlacesOf(e) \subseteq 1 .. Len(stored)
  BY DEF PlacesOf
<1>5. CASE d = c
  <2>1. EventsInv(c) /\ Numbered(c) = sequence[c] - 1 /\ Numbered(c)' = sequence[c] /\ sequence[c] > 0
    BY <1>3 DEF LogInv, EventsInv, Numbered, Holding
  <2>2. InOrder(c)'
    <3> SUFFICES ASSUME NEW i \in PlacesOf(c)', NEW j \in PlacesOf(c)', i < j
                 PROVE  stored'[i][2] < stored'[j][2]
      BY DEF InOrder
    <3>1. i \in PlacesOf(c) /\ i \in 1 .. Len(stored)
      BY <1>1, <1>2, <1>4
    <3>2. CASE j \in PlacesOf(c)
      BY <1>2, <1>4, <2>1, <3>1, <3>2 DEF EventsInv, InOrder
    <3>3. CASE j = Len(stored) + 1
      <4>1. stored[i][2] < sequence[c]
        BY <1>1, <3>1 DEF NumbersOf
      <4> QED
        BY <1>2, <3>1, <3>3, <4>1
    <3> QED
      BY <1>2, <3>2, <3>3
  <2>3. HasLatest(c)'
    <3>1. \A m \in NumbersOf(c)' : m <= sequence[c]
      BY <1>1, <1>2, <2>1 DEF EventsInv
    <3> QED
      BY <1>2, <3>1 DEF HasLatest
  <2>4. NumbersOf(c)' \subseteq 1 .. sequence[c]
    BY <1>1, <1>2, <2>1 DEF EventsInv
  <2>5. FilterLevel[c] >= TraceLevel[c] => 1 .. sequence[c] \subseteq NumbersOf(c)'
    BY <1>1, <1>2, <1>3, <2>1 DEF EventsInv
  <2> QED
    BY <1>3, <1>5, <2>1, <2>2, <2>3, <2>4, <2>5 DEF EventsInv, Holding
<1>6. CASE d # c
  <2>1. pc'[d] = pc[d] /\ pc[d] # "loaded"
    BY <1>3, <1>6, ParsingAssumption DEF LogInv, LogTyped, LockInv, LockHasAnOwner, InSink
  <2>2. EventsInv(d) /\ Numbered(d)' = Numbered(d) /\ Holding(d)' = Holding(d)
    BY <1>3, <2>1 DEF LogInv, Numbered, Holding
  <2>3. NumbersOf(d)' = NumbersOf(d) /\ InOrder(d)'
    BY <1>2, <1>4, <1>6, <2>2 DEF EventsInv, InOrder
  <2>4. HasLatest(d)'
    BY <2>2, <2>3 DEF EventsInv, HasLatest
  <2>5. Holding(d)' => sequence'[d] > 0
    BY <1>3, <2>2 DEF EventsInv
  <2> QED
    BY <2>1, <2>2, <2>3, <2>4, <2>5 DEF EventsInv
<1> QED
  BY <1>5, <1>6

(* An event that is traced takes the next number; only one above the       *)
(* filter's level is then dropped.                                         *)
LEMMA EmitKeepsEvents ==
  ASSUME LogInv, NEW c \in Calls, Emit(c), NEW d \in Calls
  PROVE  EventsInv(d)'
<1> DEFINE traced == Head(todo[c]) <= TraceLevel[c]
<1>1. /\ pc[c] = "inlines" /\ todo[c] # <<>> /\ UNCHANGED <<stored, seen>>
      /\ sequence' = [sequence EXCEPT ![c] = IF traced THEN @ + 1 ELSE @]
      /\ pc' = [pc EXCEPT ![c] = IF traced /\ Forwarded(c, Head(todo[c])) THEN "sending" ELSE "inlines"]
      /\ pc = [x \in Calls \cup Readers |-> pc[x]]
      /\ sequence \in [Calls -> Nat] /\ todo \in [Calls -> Seq(Levels)]
  BY DEF Emit, To, sinkVars, LogInv, LogTyped, LockInv, PcTyped
<1>2. NumbersOf(d)' = NumbersOf(d) /\ (InOrder(d) => InOrder(d)') /\ (HasLatest(d) => HasLatest(d)')
  BY <1>1 DEF NumbersOf, PlacesOf, InOrder, HasLatest
<1>3. CASE d = c
  <2>1. /\ EventsInv(c) /\ Numbered(c) = sequence[c] /\ sequence[c] \in Nat
        /\ pc'[c] \in {"sending", "inlines"}
    BY <1>1 DEF LogInv, Numbered, Holding
  <2>2. Head(todo[c]) \in Levels /\ TraceLevel[c] \in Levels /\ FilterLevel[c] \in Levels
    <3>1. todo[c] \in Seq(Levels) /\ todo[c] # <<>>
      BY <1>1
    <3> QED
      BY <3>1, ParsingAssumption
  <2>3. /\ sequence[c] <= Numbered(c)' /\ Numbered(c)' \in Nat
        /\ Holding(c)' => sequence'[c] > 0
        /\ FilterLevel[c] >= TraceLevel[c] => Numbered(c)' = sequence[c]
    BY <1>1, <2>1, <2>2 DEF Numbered, Holding, Forwarded, Levels, Decisions, Verbose
  <2>4. 1 .. Numbered(c) \subseteq 1 .. Numbered(c)'
    BY <2>1, <2>3
  <2>5. NumbersOf(c)' \subseteq 1 .. Numbered(c)' /\ InOrder(c)' /\ HasLatest(c)'
    BY <1>2, <1>3, <2>1, <2>4 DEF EventsInv
  <2>6. FilterLevel[c] >= TraceLevel[c] => 1 .. Numbered(c)' \subseteq NumbersOf(c)'
    BY <1>1, <1>2, <1>3, <2>1, <2>3 DEF EventsInv
  <2> QED
    BY <1>3, <2>1, <2>3, <2>5, <2>6 DEF EventsInv
<1>4. CASE d # c
  <2>1. pc'[d] = pc[d] /\ sequence'[d] = sequence[d] /\ seen'[d] = seen[d] /\ stored' = stored
    BY <1>1, <1>4
  <2>2. EventsInv(d) /\ Numbered(d)' = Numbered(d) /\ Holding(d)' = Holding(d)
    BY <2>1 DEF LogInv, Numbered, Holding
  <2> QED
    BY <1>2, <2>1, <2>2 DEF EventsInv
<1> QED
  BY <1>3, <1>4

LEMMA CallKeepsEvents ==
  ASSUME LogInv, NEW c \in Calls, CallStep(c), NEW d \in Calls
  PROVE  EventsInv(d)'
<1>0. /\ pc = [x \in Calls \cup Readers |-> pc[x]] /\ seen = [x \in Calls |-> seen[x]]
      /\ pc[d] = "loaded" => seen[d] = stored
  BY DEF LogInv, LogTyped, LockInv, PcTyped, EventsInv
<1>1. CASE \/ ParseSlice(c) \/ ParseReader(c) \/ ReadFails(c) \/ Abandon(c) \/ InlineTurnFails(c) \/ BlockTurn(c)
           \/ BlocksDone(c) \/ InlineTurn(c) \/ Unlock(c) \/ WriteFails(c) \/ InlinesDone(c) \/ Finish(c)
  <2>1. /\ UNCHANGED <<stored, sequence, seen>>
        /\ \E label \in {"blocks", "inlines", "failed", "transforms", "returned"} : To(c, label)
        /\ pc[c] \in {"ready", "blocks", "inlines", "stored", "transforms"} \/ To(c, "failed")
        /\ pc[c] # "failed"
    BY <1>0, <1>1 DEF ParseSlice, ParseReader, Parse, ReadFails, Abandon, InlineTurnFails, BlockTurn, BlocksDone,
         InlineTurn, Unlock, WriteFails, InlinesDone, Finish, Ended, sinkVars, To
  <2> QED
    BY <1>0, <2>1, EventsStay DEF To, Holding
<1>2. CASE Lock(c) \/ Load(c)
  <2>1. /\ UNCHANGED <<stored, sequence>> /\ pc[c] \in {"sending", "locked"}
        /\ \/ To(c, "locked") /\ UNCHANGED seen
           \/ To(c, "loaded") /\ seen' = [seen EXCEPT ![c] = stored]
    BY <1>2 DEF Lock, Load
  <2> QED
    BY <1>0, <2>1, EventsStay DEF To, Holding
<1>3. CASE Emit(c)
  BY <1>3, EmitKeepsEvents
<1>4. CASE Store(c)
  BY <1>4, StoreKeepsEvents
<1> QED
  BY <1>1, <1>2, <1>3, <1>4 DEF CallStep

LEMMA CallKeepsLogTyped ==
  ASSUME LogInv, NEW c \in Calls, CallStep(c), LockInv'
  PROVE  LogTyped'
<1>0. LogTyped
  BY DEF LogInv
<1>1. CASE \/ ParseSlice(c) \/ ParseReader(c) \/ ReadFails(c) \/ Abandon(c) \/ InlineTurnFails(c) \/ BlockTurn(c)
           \/ BlocksDone(c) \/ Lock(c) \/ Unlock(c) \/ WriteFails(c) \/ InlinesDone(c) \/ Finish(c)
  <2>1. UNCHANGED <<sequence, todo, stored, seen, snapshot>>
    BY <1>1 DEF ParseSlice, ParseReader, Parse, ReadFails, Abandon, InlineTurnFails, BlockTurn, BlocksDone, Lock,
         Unlock, WriteFails, InlinesDone, Finish, sinkVars
  <2> QED
    BY <1>0, <2>1 DEF LogTyped
<1>2. CASE InlineTurn(c)
  <2>1. UNCHANGED <<sequence, stored, seen, snapshot>>
    BY <1>2 DEF InlineTurn, sinkVars
  <2>2. PICK n \in 0 .. MaxEvents : \E events \in [1 .. n -> Levels] : todo' = [todo EXCEPT ![c] = events]
    BY <1>2 DEF InlineTurn
  <2>3. PICK events \in [1 .. n -> Levels] : todo' = [todo EXCEPT ![c] = events]
    BY <2>2
  <2>4. events \in Seq(Levels)
    BY <2>3, ParsingAssumption
  <2> QED
    BY <1>0, <2>1, <2>3, <2>4 DEF LogTyped
<1>3. CASE Emit(c)
  <2>1. /\ todo[c] \in Seq(Levels) /\ todo[c] # <<>> /\ todo' = [todo EXCEPT ![c] = Tail(@)]
        /\ UNCHANGED <<stored, seen, snapshot>>
        /\ sequence' = [sequence EXCEPT ![c] = @ + 1] \/ UNCHANGED sequence
    BY <1>0, <1>3 DEF Emit, sinkVars, LogTyped
  <2>2. todo' \in [Calls -> Seq(Levels)]
    <3>1. todo \in [Calls -> Seq(Levels)] /\ Tail(todo[c]) \in Seq(Levels)
      BY <1>0, <2>1 DEF LogTyped
    <3> QED
      BY <2>1, <3>1
  <2>3. sequence' \in [Calls -> Nat]
    <3>1. sequence \in [Calls -> Nat] /\ sequence[c] + 1 \in Nat
      BY <1>0 DEF LogTyped
    <3> QED
      BY <2>1, <3>1
  <2> QED
    BY <1>0, <2>1, <2>2, <2>3 DEF LogTyped
<1>4. CASE Load(c)
  BY <1>0, <1>4 DEF LogTyped, Load
<1>5. CASE Store(c)
  <2>1. stored' \in Seq(Calls \X Nat)
    BY <1>0, <1>5, StoreAdds, EventAdded DEF LogTyped
  <2> QED
    BY <1>0, <1>5, <2>1 DEF LogTyped, Store
<1> QED
  BY <1>1, <1>2, <1>3, <1>4, <1>5 DEF CallStep

LEMMA StepKeepsLogInv == LogInv /\ [ParsingNext]_vars => LogInv'
<1> SUFFICES ASSUME LogInv, [ParsingNext]_vars PROVE LogInv'
  OBVIOUS
<1>0. /\ LockInv' /\ LogTyped
      /\ pc = [x \in Calls \cup Readers |-> pc[x]]
      /\ \A d \in Calls : pc[d] = "loaded" => seen[d] = stored
  BY StepKeepsLockInv DEF LogInv, LogTyped, LockInv, PcTyped, EventsInv
<1>1. CASE \E c \in Calls : CallStep(c)
  BY <1>0, <1>1, CallKeepsEvents, CallKeepsLogTyped DEF LogInv
<1>2. CASE \E r \in Readers : ReaderLocks(r) \/ ReaderCopies(r)
  <2>1. PICK r \in Readers : ReaderLocks(r) \/ ReaderCopies(r)
    BY <1>2
  <2>2. /\ UNCHANGED <<sequence, todo, stored, seen>>
        /\ UNCHANGED snapshot \/ snapshot' = [snapshot EXCEPT ![r] = stored]
        /\ \E label : To(r, label)
    BY <2>1 DEF ReaderLocks, ReaderCopies
  <2>3. \A d \in Calls : pc'[d] = pc[d]
    BY <1>0, <2>2, ParsingAssumption DEF To
  <2>4. LogTyped'
    BY <1>0, <2>2 DEF LogTyped
  <2>5. \A d \in Calls : Holding(d)' = Holding(d)
    BY <2>3 DEF Holding
  <2> QED
    BY <1>0, <2>2, <2>3, <2>4, <2>5, EventsStay DEF LogInv
<1>3. CASE (\E c \in Calls : Cancel(c)) \/ UNCHANGED vars
  <2>1. UNCHANGED <<pc, sequence, todo, stored, seen, snapshot>>
    BY <1>3 DEF Cancel, vars, callVars, sinkVars
  <2>2. \A d \in Calls : Holding(d)' = Holding(d)
    BY <2>1 DEF Holding
  <2> QED
    BY <1>0, <2>1, <2>2, EventsStay DEF LogInv, LogTyped
<1> QED
  BY <1>1, <1>2, <1>3 DEF ParsingNext, AllEnded

LEMMA InitialLogInv == ParsingInit => LogInv
<1> SUFFICES ASSUME ParsingInit PROVE LogInv
  OBVIOUS
<1>1. LogTyped
  BY ParsingAssumption DEF ParsingInit, LogTyped, LockInv, PcTyped, LockHasAnOwner, InSink
<1>2. ASSUME NEW c \in Calls PROVE EventsInv(c)
  <2>1. PlacesOf(c) = {} /\ NumbersOf(c) = {} /\ pc[c] = "ready" /\ sequence[c] = 0
    BY DEF ParsingInit, PlacesOf, NumbersOf
  <2> QED
    BY <2>1 DEF EventsInv, Holding, Numbered, InOrder, HasLatest
<1> QED
  BY <1>1, <1>2 DEF LogInv

(* With no level filtered out before the sink, nothing a parse records is  *)
(* missing, doubled or out of order, however many parses share the sink.   *)
THEOREM SinksLoseNothing == ParsingSpec => []NoEventIsLost
<1>1. LogInv => NoEventIsLost
  <2> SUFFICES ASSUME LogInv, NEW c \in Calls, FilterLevel[c] >= TraceLevel[c],
                      pc[c] \in {"inlines", "transforms", "returned"}
               PROVE  NumbersOf(c) = 1 .. sequence[c] /\ InOrder(c)
    BY DEF NoEventIsLost
  <2>1. EventsInv(c) /\ Numbered(c) = sequence[c] /\ pc[c] # "failed"
    BY DEF LogInv, Numbered, Holding
  <2> QED
    BY <2>1 DEF EventsInv
<1> QED
  BY <1>1, InitialLogInv, StepKeepsLogInv, PTL DEF ParsingSpec

(* The number of a call's latest event is the largest in the sink.         *)
LEMMA LatestIsLargest ==
  ASSUME LogInv, NEW c \in Calls
  PROVE  /\ LatestOf(c) \in NumbersOf(c) \cup {0}
         /\ \A m \in NumbersOf(c) : m <= LatestOf(c)
BY DEF LogInv, EventsInv, HasLatest, LatestOf

(* Every step of the calls and readers is a step of the log, or none.      *)
LEMMA StepOfTheLog ==
  LogInv /\ LogInv' /\ [ParsingNext]_vars
    => [Log!LogSteps]_<<stored, [c \in Calls |-> LatestOf(c)], snapshot>>
<1> SUFFICES ASSUME LogInv, LogInv', [ParsingNext]_vars
             PROVE  [Log!LogSteps]_<<stored, [c \in Calls |-> LatestOf(c)], snapshot>>
  OBVIOUS
<1>1. ASSUME UNCHANGED stored PROVE [c \in Calls |-> LatestOf(c)]' = [c \in Calls |-> LatestOf(c)]
  <2>1. \A c \in Calls : PlacesOf(c)' = PlacesOf(c) /\ NumbersOf(c)' = NumbersOf(c)
    BY <1>1 DEF PlacesOf, NumbersOf
  <2>2. \A c \in Calls : LatestOf(c)' = LatestOf(c)
    BY <2>1 DEF LatestOf
  <2> QED
    BY <2>2
<1>2. ASSUME NEW c \in Calls, Store(c) PROVE Log!LogSteps
  <2>1. /\ sequence[c] \in Nat /\ stored' = Append(stored, <<c, sequence[c]>>)
        /\ \A m \in NumbersOf(c) : m < sequence[c]
        /\ stored \in Seq(Calls \X Nat) /\ UNCHANGED snapshot /\ sequence[c] > 0
    BY <1>2, StoreAdds DEF LogInv, LogTyped, Store, EventsInv, Holding
  <2>2. /\ NumbersOf(c)' = NumbersOf(c) \cup {sequence[c]}
        /\ \A d \in Calls \ {c} : NumbersOf(d)' = NumbersOf(d)
    BY <2>1, EventAdded
  <2>3. sequence[c] > LatestOf(c)
    BY <2>1, LatestIsLargest
  <2>4. LatestOf(c)' = sequence[c]
    <3>1. LatestOf(c)' \in NumbersOf(c)' \cup {0} /\ \A m \in NumbersOf(c)' : m <= LatestOf(c)'
      BY LatestIsLargest DEF LogInv, EventsInv, HasLatest, LatestOf
    <3>2. NumbersOf(c) \subseteq Int
      BY DEF LogInv, EventsInv
    <3> QED
      BY <2>1, <2>2, <3>1, <3>2
  <2>5. \A d \in Calls \ {c} : LatestOf(d)' = LatestOf(d)
    BY <2>2 DEF LatestOf
  <2>6. [d \in Calls |-> LatestOf(d)]' = [[d \in Calls |-> LatestOf(d)] EXCEPT ![c] = sequence[c]]
    BY <2>4, <2>5
  <2>7. stored' # <<>> /\ stored'[Len(stored')] = <<c, sequence[c]>>
    BY <2>1
  <2>8. stored'[Len(stored')][2] = sequence[c]
    BY <2>7
  <2>9. Log!Record(c, sequence[c])
    BY <2>1, <2>3, <2>6 DEF Log!Record
  <2> QED
    BY <2>7, <2>8, <2>9 DEF Log!LogSteps
<1>3. ASSUME NEW r \in Readers, ReaderCopies(r) PROVE Log!LogSteps
  <2>1. snapshot' = [snapshot EXCEPT ![r] = stored] /\ UNCHANGED stored
    BY <1>3 DEF ReaderCopies
  <2> QED
    BY <1>1, <2>1 DEF Log!LogSteps, Log!Copy
<1>4. CASE /\ \A c \in Calls : ~Store(c)
           /\ \A r \in Readers : ~ReaderCopies(r)
  <2>1. UNCHANGED <<stored, snapshot>>
    BY <1>4 DEF ParsingNext, CallStep, ParseSlice, ParseReader, Parse, ReadFails, Abandon, InlineTurnFails, BlockTurn,
         BlocksDone, InlineTurn, Emit, Lock, Load, Unlock, WriteFails, InlinesDone, Finish, Cancel,
         ReaderLocks, AllEnded, vars, sinkVars
  <2> QED
    BY <1>1, <2>1
<1> QED
  BY <1>2, <1>3, <1>4

(* However many parses and readers share it and whatever fails, the sink   *)
(* is one log: the calls, step by step, implement TraceLog.                *)
THEOREM SinkIsALog == ParsingSpec => SharedSinkIsALog
<1>1. ParsingInit => Log!LogInit
  <2> SUFFICES ASSUME ParsingInit PROVE Log!LogInit
    OBVIOUS
  <2>1. \A c \in Calls : NumbersOf(c) = {}
    BY DEF ParsingInit, PlacesOf, NumbersOf
  <2>2. \A c \in Calls : LatestOf(c) = 0
    BY <2>1 DEF LatestOf
  <2> QED
    BY <2>2 DEF ParsingInit, Log!LogInit
<1> QED
  BY <1>1, InitialLogInv, StepKeepsLogInv, StepOfTheLog, PTL
     DEF ParsingSpec, SharedSinkIsALog, Log!LogSpec
=============================================================================
