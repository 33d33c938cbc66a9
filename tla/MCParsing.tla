----------------------------- MODULE MCParsing -----------------------------
(* Two calls and a reader of the collector.  The first parser traces the    *)
(* decisions only, and its filter would let more through; the second traces *)
(* everything, and its filter drops what is verbose.                        *)
EXTENDS Parsing, TLC

CONSTANTS c1, c2, r1

MCCalls == {c1, c2}
MCReaders == {r1}
MCTraceLevel  == c1 :> Decisions @@ c2 :> Verbose
MCFilterLevel == c1 :> Verbose @@ c2 :> Decisions
AroundTheLimit == {0, 1, 2, 3}
=============================================================================
