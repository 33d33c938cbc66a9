------------------------------ MODULE Parsing ------------------------------
(***************************************************************************)
(* Calls of one Parser that run at the same time and record their trace    *)
(* events in one sink (parser/parser.go, parser/state.go, trace/event.go,  *)
(* trace/json.go): the checks a call passes before it works, the turns of  *)
(* its block and inline loops, each of which starts by asking whether the  *)
(* caller cancelled, and the events a turn emits, each taken under the     *)
(* sink's mutex.  What a turn builds is the business of Blocks and         *)
(* InlineRange; here a turn is a short sequence of event levels.           *)
(***************************************************************************)
EXTENDS Integers, Sequences, FiniteSets

CONSTANTS Calls, Readers, NoOne,  \* the parses, the callers of Collector.Events, nobody
          MaxInput, MaxInt,       \* Parser.maxInputSize and the largest int64
          Sizes,                  \* the sizes of the inputs handed to the parser
          MaxEvents,              \* a bound on the events of one turn
          TraceLevel,             \* Parser.traceLevel of each call's parser
          FilterLevel,            \* trace.Filter.MaxLevel of its filter in front of the sink
          SinkKinds               \* the sinks that may be configured

(* A Collector cannot fail and can be read; the writers may fail, and the   *)
(* encoder of JSONLines repeats its first error for ever, Text does not.    *)
Sinks == {"collector", "json", "text"}

Decisions == 1
Verbose == 2
Levels == {Decisions, Verbose}

ASSUME ParsingAssumption ==
  /\ MaxInt \in Nat /\ MaxInput \in 1..MaxInt /\ Sizes \subseteq 0..MaxInt
  /\ MaxEvents \in Nat /\ TraceLevel \in [Calls -> Levels] /\ FilterLevel \in [Calls -> Levels]
  /\ SinkKinds \subseteq Sinks
  /\ NoOne \notin Calls \cup Readers /\ Calls \cap Readers = {}

VARIABLES
  pc,         \* how far a call, or a reader, has come
  given,      \* the size of the call's input
  held,       \* the bytes of it the call parses
  work,       \* the turns its current loop may still make
  todo,       \* the levels of the events its current turn has still to emit
  sequence,   \* parseState.sequence
  cancelled,  \* is the call's context done?
  sink,       \* the kind of the sink
  lock,       \* who holds the sink's mutex
  broken,     \* has the encoder's error stuck?
  stored,     \* Collector.events, or the lines written: <<call, sequence number>>
  torn,       \* how many lines stand before each line that was begun and not ended
  seen,       \* the events a call's append has read and is about to extend
  snapshot,   \* what each reader's last Events call returned
  late        \* history: what each call stored after it was cancelled

callVars == <<pc, given, held, work, todo, sequence, cancelled>>
sinkVars == <<sink, lock, broken, stored, torn, seen>>
vars == <<callVars, sinkVars, snapshot, late>>

Ended == {"returned", "failed"}
InSink == {"locked", "loaded", "stored"}
Working == {"blocks", "inlines", "sending", "transforms"} \cup InSink

To(c, label) == pc' = [pc EXCEPT ![c] = label]

ParsingInit ==
  /\ pc = [c \in Calls \cup Readers |-> "ready"]
  /\ given = [c \in Calls |-> 0] /\ held = [c \in Calls |-> 0]
  /\ work = [c \in Calls |-> 0] /\ todo = [c \in Calls |-> <<>>]
  /\ sequence = [c \in Calls |-> 0] /\ cancelled = [c \in Calls |-> FALSE]
  /\ sink \in SinkKinds /\ lock = NoOne /\ broken = FALSE /\ stored = <<>> /\ torn = {}
  /\ seen = [c \in Calls |-> <<>>]
  /\ snapshot = [r \in Readers |-> <<>>] /\ late = [c \in Calls |-> 0]

-----------------------------------------------------------------------------
(* parse: a call that passes the checks starts its block loop.  valid says  *)
(* whether the input is UTF-8.                                              *)
Parse(c, size, bytes, valid) ==
  LET admitted == ~cancelled[c] /\ bytes <= MaxInput /\ valid IN
  /\ To(c, IF admitted THEN "blocks" ELSE "failed")
  /\ given' = [given EXCEPT ![c] = size] /\ held' = [held EXCEPT ![c] = bytes]
  /\ \E turns \in 0..(IF admitted THEN bytes ELSE 0) : work' = [work EXCEPT ![c] = turns]
  /\ UNCHANGED <<todo, sequence, cancelled, sinkVars, snapshot, late>>

ParseSlice(c) ==
  /\ pc[c] = "ready"
  /\ \E size \in Sizes, valid \in BOOLEAN : Parse(c, size, size, valid)

(* io.LimitReader hands out at most p.maxInputSize+1 bytes, a sum of int64s *)
(* that wraps; a limit of zero or less reads as the end of the input.       *)
(* The slip reads no byte more than it lets through. *)
ReadLimitTight == MaxInput

ReadLimit == IF MaxInput < MaxInt THEN MaxInput + 1 ELSE -(MaxInt + 1)

BytesRead(size) == IF ReadLimit <= 0 THEN 0 ELSE IF size < ReadLimit THEN size ELSE ReadLimit

(* A cancelled context is seen before the reader is touched, and again in   *)
(* parse; reading itself may fail.                                          *)
ParseReader(c) ==
  /\ pc[c] = "ready"
  /\ \E size \in Sizes, valid \in BOOLEAN : Parse(c, size, BytesRead(size), valid)

ReadFails(c) ==
  /\ pc[c] = "ready"
  /\ To(c, "failed")
  /\ UNCHANGED <<given, held, work, todo, sequence, cancelled, sinkVars, snapshot, late>>

-----------------------------------------------------------------------------
(* Both loops ask checkContext before each turn. *)
Abandon(c) ==
  /\ pc[c] \in {"blocks", "inlines"} /\ work[c] > 0 /\ todo[c] = <<>>
  /\ cancelled[c]
  /\ To(c, "failed")
  /\ UNCHANGED <<given, held, work, todo, sequence, cancelled, sinkVars, snapshot, late>>

(* A turn of a block loop builds nodes and records nothing; an extension's  *)
(* handler may fail it.                                                     *)
BlockTurn(c) ==
  /\ pc[c] = "blocks" /\ work[c] > 0 /\ ~cancelled[c]
  /\ \/ pc' = pc /\ work' = [work EXCEPT ![c] = @ - 1]
     \/ To(c, "failed") /\ UNCHANGED work
  /\ UNCHANGED <<given, held, todo, sequence, cancelled, sinkVars, snapshot, late>>

BlocksDone(c) ==
  /\ pc[c] = "blocks" /\ work[c] = 0
  /\ To(c, "inlines")
  /\ \E turns \in 0..held[c] : work' = [work EXCEPT ![c] = turns]
  /\ UNCHANGED <<given, held, todo, sequence, cancelled, sinkVars, snapshot, late>>

(* Slip: the inline loop does not ask checkContext. *)
InlineTurnUnasked(c) ==
  /\ pc[c] = "inlines" /\ todo[c] = <<>> /\ work[c] > 0
  /\ work' = [work EXCEPT ![c] = @ - 1]
  /\ \E n \in 0..MaxEvents : \E events \in [1..n -> Levels] : todo' = [todo EXCEPT ![c] = events]
  /\ UNCHANGED <<pc, given, held, sequence, cancelled, sinkVars, snapshot, late>>

InlineTurn(c) ==
  /\ pc[c] = "inlines" /\ todo[c] = <<>> /\ work[c] > 0 /\ ~cancelled[c]
  /\ work' = [work EXCEPT ![c] = @ - 1]
  /\ \E n \in 0..MaxEvents : \E events \in [1..n -> Levels] : todo' = [todo EXCEPT ![c] = events]
  /\ UNCHANGED <<pc, given, held, sequence, cancelled, sinkVars, snapshot, late>>

(* An extension's handler or an error policy fails the turn instead of its  *)
(* next event.                                                              *)
InlineTurnFails(c) ==
  /\ pc[c] = "inlines" /\ todo[c] # <<>>
  /\ To(c, "failed")
  /\ UNCHANGED <<given, held, work, todo, sequence, cancelled, sinkVars, snapshot, late>>

(* Slips: an event takes its number before its level is looked at, or takes *)
(* none.                                                                    *)
EmitNumberedFirst(c) ==
  /\ pc[c] = "inlines" /\ todo[c] # <<>>
  /\ sequence' = [sequence EXCEPT ![c] = @ + 1]
  /\ To(c, IF Head(todo[c]) <= TraceLevel[c] /\ Head(todo[c]) <= FilterLevel[c] THEN "sending" ELSE "inlines")
  /\ todo' = [todo EXCEPT ![c] = Tail(@)]
  /\ UNCHANGED <<given, held, work, cancelled, sinkVars, snapshot, late>>

EmitUnnumbered(c) ==
  /\ pc[c] = "inlines" /\ todo[c] # <<>>
  /\ To(c, IF Head(todo[c]) <= TraceLevel[c] /\ Head(todo[c]) <= FilterLevel[c] THEN "sending" ELSE "inlines")
  /\ todo' = [todo EXCEPT ![c] = Tail(@)]
  /\ UNCHANGED <<given, held, work, sequence, cancelled, sinkVars, snapshot, late>>

(* Filter.Record *)
Forwarded(c, level) == level <= FilterLevel[c]

(* emit: an event above the parser's level costs no number, one above the   *)
(* filter's level is numbered and dropped.                                  *)
Emit(c) ==
  /\ pc[c] = "inlines" /\ todo[c] # <<>>
  /\ LET traced == Head(todo[c]) <= TraceLevel[c] IN
     /\ sequence' = [sequence EXCEPT ![c] = IF traced THEN @ + 1 ELSE @]
     /\ To(c, IF traced /\ Forwarded(c, Head(todo[c])) THEN "sending" ELSE "inlines")
  /\ todo' = [todo EXCEPT ![c] = Tail(@)]
  /\ UNCHANGED <<given, held, work, cancelled, sinkVars, snapshot, late>>

Lock(c) ==
  /\ pc[c] = "sending" /\ lock = NoOne
  /\ lock' = c /\ To(c, "locked")
  /\ UNCHANGED <<given, held, work, todo, sequence, cancelled, sink, broken, stored, torn, seen, snapshot, late>>

(* Record appends: the events are read, extended and written back. *)
Load(c) ==
  /\ pc[c] = "locked" /\ ~broken
  /\ seen' = [seen EXCEPT ![c] = stored]
  /\ To(c, "loaded")
  /\ UNCHANGED <<given, held, work, todo, sequence, cancelled, sink, lock, broken, stored, torn, snapshot, late>>

Store(c) ==
  /\ pc[c] = "loaded"
  /\ stored' = Append(seen[c], <<c, sequence[c]>>)
  /\ seen' = [seen EXCEPT ![c] = <<>>]
  /\ late' = [late EXCEPT ![c] = IF cancelled[c] THEN @ + 1 ELSE @]
  /\ To(c, "stored")
  /\ UNCHANGED <<given, held, work, todo, sequence, cancelled, sink, lock, broken, torn, snapshot>>

Unlock(c) ==
  /\ pc[c] = "stored"
  /\ lock' = NoOne /\ To(c, "inlines")
  /\ UNCHANGED <<given, held, work, todo, sequence, cancelled, sink, broken, stored, torn, seen, snapshot, late>>

(* What a failing write leaves: nothing, or the beginning of a line.  An    *)
(* encoder that has failed before writes nothing.                           *)
LeftByFailure == {torn} \cup (IF broken THEN {} ELSE {torn \cup {Len(stored)}})

(* Slips: the error leaves Record before the mutex is released; the error   *)
(* does not stick.                                                          *)
WriteFailsLocked(c) ==
  /\ pc[c] = "locked" /\ sink # "collector"
  /\ torn' \in LeftByFailure /\ broken' = (sink = "json") /\ To(c, "failed")
  /\ UNCHANGED <<given, held, work, todo, sequence, cancelled, sink, lock, stored, seen, snapshot, late>>

WriteFailsOnce(c) ==
  /\ pc[c] = "locked" /\ sink # "collector"
  /\ torn' \in LeftByFailure /\ lock' = NoOne /\ To(c, "failed")
  /\ UNCHANGED <<given, held, work, todo, sequence, cancelled, sink, broken, stored, seen, snapshot, late>>

(* A write that fails, or the encoder's old error again, unlocks the sink   *)
(* and aborts the parse.                                                    *)
WriteFails(c) ==
  /\ pc[c] = "locked" /\ sink # "collector"
  /\ torn' \in LeftByFailure /\ broken' = (sink = "json") /\ lock' = NoOne /\ To(c, "failed")
  /\ UNCHANGED <<given, held, work, todo, sequence, cancelled, sink, stored, seen, snapshot, late>>

InlinesDone(c) ==
  /\ pc[c] = "inlines" /\ todo[c] = <<>> /\ work[c] = 0
  /\ To(c, "transforms")
  /\ UNCHANGED <<given, held, work, todo, sequence, cancelled, sinkVars, snapshot, late>>

(* The transforms and Build ask for no context; either may return an error. *)
Finish(c) ==
  /\ pc[c] = "transforms"
  /\ \E outcome \in Ended : To(c, outcome)
  /\ UNCHANGED <<given, held, work, todo, sequence, cancelled, sinkVars, snapshot, late>>

-----------------------------------------------------------------------------
Cancel(c) ==
  /\ ~cancelled[c] /\ pc[c] \notin Ended
  /\ cancelled' = [cancelled EXCEPT ![c] = TRUE]
  /\ UNCHANGED <<pc, given, held, work, todo, sequence, sinkVars, snapshot, late>>

(* Collector.Events copies the events under the same mutex. *)
ReaderLocks(r) ==
  /\ sink = "collector" /\ pc[r] = "ready" /\ lock = NoOne
  /\ lock' = r /\ To(r, "locked")
  /\ UNCHANGED <<given, held, work, todo, sequence, cancelled, sink, broken, stored, torn, seen, snapshot, late>>

ReaderCopies(r) ==
  /\ pc[r] = "locked"
  /\ snapshot' = [snapshot EXCEPT ![r] = stored]
  /\ lock' = NoOne /\ To(r, "ready")
  /\ UNCHANGED <<given, held, work, todo, sequence, cancelled, sink, broken, stored, torn, seen, late>>

CallStep(c) ==
  \/ ParseSlice(c) \/ ParseReader(c) \/ ReadFails(c) \/ Abandon(c) \/ BlockTurn(c) \/ BlocksDone(c)
  \/ InlineTurn(c) \/ InlineTurnFails(c) \/ Emit(c) \/ Lock(c) \/ Load(c) \/ Store(c) \/ Unlock(c)
  \/ WriteFails(c) \/ InlinesDone(c) \/ Finish(c)

(* All calls over: the system may rest. *)
AllEnded == (\A c \in Calls : pc[c] \in Ended) /\ UNCHANGED vars

ParsingNext ==
  \/ \E c \in Calls : CallStep(c) \/ Cancel(c)
  \/ \E r \in Readers : ReaderLocks(r) \/ ReaderCopies(r)
  \/ AllEnded

ParsingSpec == ParsingInit /\ [][ParsingNext]_vars

(* A goroutine that can run is run; a Go mutex hands itself to a waiter     *)
(* that has waited long enough, so a call that can lock again and again     *)
(* does.  Nobody has to start a call, or to cancel one.                     *)
FairCalls ==
  ParsingSpec
  /\ \A c \in Calls : WF_vars(pc[c] # "ready" /\ CallStep(c)) /\ SF_vars(Lock(c))
  /\ \A r \in Readers : WF_vars(ReaderCopies(r))

-----------------------------------------------------------------------------
(* Where the sink holds the events of a call, and the numbers they carry.  *)
PlacesOf(c)  == {i \in 1 .. Len(stored) : stored[i][1] = c}
NumbersOf(c) == {stored[i][2] : i \in PlacesOf(c)}
LatestOf(c)  == CHOOSE n \in NumbersOf(c) \cup {0} : \A m \in NumbersOf(c) : m <= n

(* The sink everybody shares refines one log to which each event of each    *)
(* parse is added once, in the order of its numbers, never removed or moved *)
(* (docs/trace.md "one-based order within a parse", "safe for concurrent    *)
(* calls"), and what Events returns is the whole log of that moment.        *)
Log == INSTANCE TraceLog WITH
         Parses <- Calls, Copiers <- Readers, log <- stored,
         latest <- [c \in Calls |-> LatestOf(c)], copies <- snapshot

SharedSinkIsALog == Log!LogSpec

(* With no level filtered out before the sink, no event of a parse that is  *)
(* not failing is missing: at every moment outside Record the numbers the   *)
(* sink holds for a call are exactly 1 to its sequence, each once and in    *)
(* this order.                                                              *)
InOrder(c) == \A i, j \in PlacesOf(c) : i < j => stored[i][2] < stored[j][2]

NoEventIsLost ==
  \A c \in Calls :
    FilterLevel[c] >= TraceLevel[c] /\ pc[c] \in {"inlines", "transforms", "returned"} =>
      NumbersOf(c) = 1 .. sequence[c] /\ InOrder(c)

(* The mutex is held by exactly the call or the reader that is inside the   *)
(* sink, so an aborted Record leaves nobody locked out.                     *)
LockHasAnOwner ==
  \A x \in Calls \cup Readers : lock = x <=> pc[x] \in InSink

(* trace/json.go:10 "JSONLines writes one stable Event JSON object per     *)
(* line", also where writes fail: because the encoder's first error stays, *)
(* no parse writes its event to the line another one began and left.  (A   *)
(* Text sink goes on, and its next line is glued to the torn one.)         *)
JSONLinesStayWhole == sink = "json" => torn \subseteq {Len(stored)}

(* Cancellation is checked during block and inline work (docs/security.md): *)
(* after it a call records no more than the events of the turn it was in.   *)
CancelEndsTracing == \A c \in Calls : late[c] <= MaxEvents

(* Every size guard stands before the parser, so a call that gets past it   *)
(* parses the whole of its input: with a limit below the largest int64,     *)
(* ParseReader never hands on a cut one.  (At the largest, which            *)
(* WithMaxInputBytes admits, its read limit wraps and it reads nothing.)    *)
InputIsWhole == \A c \in Calls : pc[c] \in Working \cup {"returned"} => held[c] = given[c]

(* A call that got past its checks returns, whatever the others do, the     *)
(* sink's errors and the readers of the collector included.                 *)
CallsReturn == \A c \in Calls : pc[c] \in Working ~> pc[c] \in Ended
=============================================================================
