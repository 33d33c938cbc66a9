------------------------------ MODULE Emphasis ------------------------------
(***************************************************************************)
(* The emphasis planner (parser/emphasis.go planEmphasis): delimiter runs  *)
(* are paired, closers from left to right, each with the nearest opener on *)
(* its left; a pair takes one or two characters off the end of the opening *)
(* run and off the start of the closing run, and what is left unmatched    *)
(* between the two is struck out.  One step is one round of the inner loop *)
(* of the code.  The plan is afterwards looked up by byte position         *)
(* (openerAt, module EmphasisLookup).                                      *)
(***************************************************************************)
EXTENDS Integers, Sequences

CONSTANT Inputs     \* the sequences of delimiter runs to plan for

Delimiter == [start : Nat, marker : {"*", "_"}, length : Nat \ {0},
              canOpen : BOOLEAN, canClose : BOOLEAN]

(* Runs are collected from left to right and do not overlap. *)
ASSUME EmphasisAssumption ==
  \A input \in Inputs :
    /\ input \in Seq(Delimiter)
    /\ \A i, j \in 1 .. Len(input) : i < j => input[i].start + input[i].length <= input[j].start

VARIABLES
  runs,       \* the delimiter runs of the range being planned
  remaining,  \* characters of each run not yet used (emphasisDelimiter)
  closed,     \* characters of each run used as a closing delimiter
  closer,     \* closerIndex: the run whose openers are being sought
  pairs       \* the plan, in the order the pairs were made

vars == <<runs, remaining, closed, closer, pairs>>

Run == 1 .. Len(runs)

(* emphasisOddMatch: the rule of three, on the characters still unused. *)
OddMatch(i, j) ==
  /\ runs[j].canOpen \/ runs[i].canClose
  /\ (remaining[i] + remaining[j]) % 3 = 0
  /\ remaining[i] % 3 # 0 \/ remaining[j] % 3 # 0

CanPair(i, j) ==
  /\ runs[i].marker = runs[j].marker
  /\ runs[i].canOpen
  /\ remaining[i] > 0
  /\ ~OddMatch(i, j)

(* i is the opener the scan from j - 1 downwards stops at. *)
IsOpener(i, j) ==
  /\ i \in 1 .. j - 1
  /\ CanPair(i, j)
  /\ \A k \in i + 1 .. j - 1 : ~CanPair(k, j)

HasOpener(j) == \E i \in Run : IsOpener(i, j)

Use(i, j) == IF remaining[i] >= 2 /\ remaining[j] >= 2 THEN 2 ELSE 1

(* Slip: the opener gives its first characters, not its last. *)
NewPairFromFront(i, j) ==
  [open |-> i, close |-> j, openStart |-> runs[i].start,
   closeStart |-> runs[j].start + closed[j], length |-> Use(i, j)]

(* The pair made of opener i and closer j; open and close name the runs    *)
(* and are not part of the code's record.                                  *)
NewPair(i, j) ==
  [open |-> i, close |-> j,
   openStart  |-> runs[i].start + remaining[i] - Use(i, j),
   closeStart |-> runs[j].start + closed[j],
   length |-> Use(i, j)]

Planned == closer > Len(runs)

Init ==
  /\ runs \in Inputs
  /\ remaining = [k \in Run |-> runs[k].length]
  /\ closed = [k \in Run |-> 0]
  /\ closer = 1
  /\ pairs = <<>>

(* Slips of a round: what lies between stays open, the closer is left after *)
(* its first pair.                                                          *)
PairUpOverOpen(i) ==
  /\ ~Planned /\ runs[closer].canClose /\ remaining[closer] > 0 /\ IsOpener(i, closer)
  /\ remaining' = [remaining EXCEPT ![i] = @ - Use(i, closer), ![closer] = @ - Use(i, closer)]
  /\ closed' = [closed EXCEPT ![closer] = @ + Use(i, closer)]
  /\ pairs' = Append(pairs, NewPair(i, closer))
  /\ UNCHANGED <<runs, closer>>

PairUpOnce(i) ==
  /\ ~Planned /\ runs[closer].canClose /\ remaining[closer] > 0 /\ IsOpener(i, closer)
  /\ remaining' = [k \in Run |->
       CASE k \in {i, closer} -> remaining[k] - Use(i, closer)
         [] i < k /\ k < closer -> 0
         [] OTHER -> remaining[k]]
  /\ closed' = [closed EXCEPT ![closer] = @ + Use(i, closer)]
  /\ pairs' = Append(pairs, NewPair(i, closer))
  /\ closer' = closer + 1
  /\ UNCHANGED runs

PairUp(i) ==
  /\ ~Planned
  /\ runs[closer].canClose
  /\ remaining[closer] > 0
  /\ IsOpener(i, closer)
  /\ LET use == Use(i, closer)
     IN  /\ remaining' = [k \in Run |->
              CASE k = i -> remaining[k] - use
                [] k = closer -> remaining[k] - use
                [] i < k /\ k < closer -> 0
                [] OTHER -> remaining[k]]
         /\ closed' = [closed EXCEPT ![closer] = @ + use]
  /\ pairs' = Append(pairs, NewPair(i, closer))
  /\ UNCHANGED <<runs, closer>>

(* Slip: a run that cannot close is looked at again and again. *)
NextCloserStuck ==
  /\ ~Planned
  /\ runs[closer].canClose /\ (remaining[closer] = 0 \/ ~HasOpener(closer))
  /\ closer' = closer + 1
  /\ UNCHANGED <<runs, remaining, closed, pairs>>

(* The closer cannot close, is used up, or has no opener: on to the next. *)
NextCloser ==
  /\ ~Planned
  /\ \/ ~runs[closer].canClose
     \/ remaining[closer] = 0
     \/ ~HasOpener(closer)
  /\ closer' = closer + 1
  /\ UNCHANGED <<runs, remaining, closed, pairs>>

Next == (\E i \in Run : PairUp(i)) \/ NextCloser

Spec == Init /\ [][Next]_vars /\ WF_vars(Next)
-----------------------------------------------------------------------------
TypeOK ==
  /\ runs \in Seq(Delimiter)
  /\ remaining \in [Run -> Nat]
  /\ closed \in [Run -> Nat]
  /\ closer \in 1 .. Len(runs) + 1
  /\ pairs \in Seq([open : Run, close : Run, openStart : Int, closeStart : Nat,
                    length : {1, 2}])

Pairs == {pairs[k] : k \in 1 .. Len(pairs)}

(* No run gives away more characters than it has, as an opener and as a    *)
(* closer together: the counters are bounded by what was in the text.      *)
UsedAsOpener(k) ==
  LET used[m \in 0 .. Len(pairs)] ==
        IF m = 0 THEN 0
        ELSE used[m - 1] + IF pairs[m].open = k THEN pairs[m].length ELSE 0
  IN  used[Len(pairs)]

CharactersConserved ==
  \A k \in Run : UsedAsOpener(k) + closed[k] + remaining[k] <= runs[k].length

(* Two pairs never cross, run for run: striking out the runs between an    *)
(* opener and its closer is what makes a later closer unable to reach in.  *)
PairsDoNotCross ==
  \A p, q \in Pairs : ~(p.open < q.open /\ q.open < p.close /\ p.close < q.close)

(* What remains open between the two runs of a pair is struck out for good.*)
NothingLeftInside ==
  \A p \in Pairs : \A k \in Run : p.open < k /\ k < p.close => remaining[k] = 0

(* Bytes of the pairs' four delimiters. *)
OpenBytes(p)  == p.openStart .. p.openStart + p.length - 1
CloseBytes(p) == p.closeStart .. p.closeStart + p.length - 1
Inside(p)     == p.openStart + p.length .. p.closeStart - 1
Extent(p)     == p.openStart .. p.closeStart + p.length - 1

(* Byte for byte, emphasis spans are nested or disjoint.                   *)
SpansNestOrDisjoint(S) ==
  \A p, q \in S : p # q =>
    \/ Extent(p) \cap Extent(q) = {}
    \/ Extent(p) \subseteq Inside(q)
    \/ Extent(q) \subseteq Inside(p)

(* testdata/spec/gfm-0.29.0.gfm.0.txt:6552 on overlapping spans: "the      *)
(* first ends, the first takes precedence".                                *)
SpansNest == SpansNestOrDisjoint(Pairs)

(* The only plans whose byte spans overlap are those in which a run opens  *)
(* emphasis after it has closed some: every other pair nests.              *)
ReopenedRun(p) == \E q \in Pairs : q.close = p.open
SpansNestUnlessReopened == SpansNestOrDisjoint({p \in Pairs : ~ReopenedRun(p)})

(* When planning ends, no closer that has not since opened emphasis itself *)
(* is left with an opener before it that it could still be paired with:    *)
(* the one pass from left to right misses nothing.                         *)
NothingLeftToPair ==
  Planned => \A j \in Run :
    runs[j].canClose /\ remaining[j] > 0 /\ UsedAsOpener(j) = 0 => ~HasOpener(j)
=============================================================================
