------------------------------ MODULE TraceLog ------------------------------
(***************************************************************************)
(* What a trace sink shared by several parses promises: one log, to which  *)
(* each event is added whole and once, the events of a parse in the order  *)
(* of their sequence numbers (docs/trace.md "one-based order within a      *)
(* parse"), and copies of the whole log for whoever asks.                  *)
(***************************************************************************)
EXTENDS Integers, Sequences

CONSTANTS Parses, Copiers

VARIABLES log,
          latest,   \* the number of each parse's latest event in the log
          copies    \* what each copier was last given

LogInit ==
  /\ log = <<>>
  /\ latest = [p \in Parses |-> 0]
  /\ copies = [c \in Copiers |-> <<>>]

Record(p, number) ==
  /\ number > latest[p]
  /\ log' = Append(log, <<p, number>>)
  /\ latest' = [latest EXCEPT ![p] = number]
  /\ UNCHANGED copies

Copy(c) ==
  /\ copies' = [copies EXCEPT ![c] = log]
  /\ UNCHANGED <<log, latest>>

LogSteps ==
  \/ \E p \in Parses : log' # <<>> /\ Record(p, log'[Len(log')][2])
  \/ \E c \in Copiers : Copy(c)

LogSpec == LogInit /\ [][LogSteps]_<<log, latest, copies>>
=============================================================================
