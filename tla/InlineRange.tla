----------------------------- MODULE InlineRange -----------------------------
(***************************************************************************)
(* The inline parser over one paragraph (parser/inline.go): parseRange     *)
(* plans the emphasis of a range (module Emphasis, whose steps are steps   *)
(* here) and then walks it, adding nodes, descending into planned pairs,   *)
(* link labels, delimiters matched by a search of their own and            *)
(* delimiters recovered at the end of the range.  The call stack of the    *)
(* recursion is the sequence frames; one step is one turn of the loop.     *)
(*                                                                         *)
(* Text is a sequence of character classes (module Delimiters).  Entities, *)
(* angle spans, extended autolinks, inline link targets in parentheses and *)
(* inline extensions are not part of this module.                          *)
(***************************************************************************)
EXTENDS EmphasisLookup, Delimiters, SequencesExt

CONSTANTS Paragraphs,   \* the texts to parse
          Configs       \* parser configurations: see Config

ASSUME InlineAssumption == Paragraphs \subseteq Seq(Characters)

(* profile.Feature bits and the recovery policy per kind (parser/options). *)
Policies == {"literal", "recover", "error"}
Config == [paired : BOOLEAN, strike : BOOLEAN, range : BOOLEAN, refs : BOOLEAN,
           emphasis : Policies, strong : Policies, strikethrough : Policies,
           code : Policies, link : Policies \ {"recover"}, image : Policies \ {"recover"}]

VARIABLES
  text, config,
  phase,     \* "plan", "walk", "done" or "failed"
  frames,    \* active ranges, innermost last
  nodes,     \* nodes added so far, in the order of Builder.Add
  events,    \* trace events at the Decisions level
  notes,     \* diagnostics: the nodes recovered
  unclosed   \* constructs found to have no end, by kind

inlineVars == <<text, config, phase, frames, nodes, events, notes, unclosed>>
allVars    == <<vars, inlineVars>>

End == Len(text)
Top == frames[Len(frames)]

(* A node: inside is the range its children come from, empty for a leaf.   *)
NodeRec(kind, parent, from, to, inFrom, inTo, recovered) ==
  [kind |-> kind, parent |-> parent, from |-> from, to |-> to,
   inFrom |-> inFrom, inTo |-> inTo, recovered |-> recovered]
Leaf(kind, from, to) == NodeRec(kind, Top.node, from, to, to, to, FALSE)

Frame(node, position, end, plan) ==
  [node |-> node, position |-> position, end |-> end, plan |-> plan]

(* parseRange: collect the delimiters of [from, to) and start planning. *)
StartPlanning(from, to) ==
  \E found \in {Collect(text, from, to, config.refs)} :
    /\ runs' = found
    /\ remaining' = [k \in 1 .. Len(found) |-> found[k].length]
    /\ closed' = [k \in 1 .. Len(found) |-> 0]
    /\ closer' = 1
    /\ pairs' = <<>>

(* parseInlines takes the paragraph's node, 0 here, and its whole text. *)
InlineInit ==
  /\ text \in Paragraphs
  /\ config \in Configs
  /\ runs = Collect(text, 0, Len(text), config.refs)
  /\ remaining = [k \in Run |-> runs[k].length]
  /\ closed = [k \in Run |-> 0]
  /\ closer = 1
  /\ pairs = <<>>
  /\ phase = "plan"
  /\ frames = <<Frame(0, 0, Len(text), <<>>)>>
  /\ nodes = <<>>
  /\ events = <<>>
  /\ notes = <<>>
  /\ unclosed = <<>>

PlanStep ==
  /\ phase = "plan"
  /\ Next
  /\ UNCHANGED inlineVars

PlanDone ==
  /\ phase = "plan"
  /\ Planned
  /\ frames' = [frames EXCEPT ![Len(frames)].plan = pairs]
  /\ phase' = "walk"
  /\ UNCHANGED <<vars, text, config, nodes, events, notes, unclosed>>
-----------------------------------------------------------------------------
(* The turn of the loop at the top frame's position. *)
Pos  == Top.position
Char == At(text, Pos)
MarkerRun == ByteRun(text, Pos, Top.end, Char)
Peek(c) == Pos + 1 < Top.end /\ At(text, Pos + 1) = c

Walking == phase = "walk" /\ frames # <<>> /\ Pos < Top.end

PlannedHere == {p \in OpenerAt(Top.plan, Pos) : p.closeStart < Top.end}

(* Move on to position, adding leaves. *)
Advance(position, leaves) ==
  /\ frames' = [frames EXCEPT ![Len(frames)].position = position]
  /\ nodes' = nodes \o leaves
  /\ UNCHANGED <<text, config, phase, notes>>

(* Slip: the caller stays where it is, to be moved on by the return.       *)
DescendWithoutMoving(n, next, plan) ==
  /\ nodes' = Append(nodes, n)
  /\ frames' = Append(frames, Frame(Len(nodes) + 1, n.inFrom, n.inTo, plan))
  /\ UNCHANGED <<text, config, notes>>

(* Add node n, descend into its inside, and resume behind it at next. *)
Descend(n, next, plan) ==
  /\ nodes' = Append(nodes, n)
  /\ frames' = Append([frames EXCEPT ![Len(frames)].position = next],
                      Frame(Len(nodes) + 1, n.inFrom, n.inTo, plan))
  /\ UNCHANGED <<text, config, notes>>

DescendAndPlan(n, next) ==
  /\ Descend(n, next, <<>>)
  /\ phase' = "plan"
  /\ StartPlanning(n.inFrom, n.inTo)

Fail ==
  /\ phase' = "failed"
  /\ UNCHANGED <<text, config, frames, nodes, notes>>

(* Slip: the closing delimiter of a planned pair is met again. *)
WalkPlannedPairShort ==
  /\ Walking
  /\ \E p \in PlannedHere :
       Descend(NodeRec("strong", Top.node, p.openStart, p.closeStart + p.length,
                       p.openStart + p.length, p.closeStart, FALSE),
               p.closeStart, Top.plan)
  /\ UNCHANGED <<vars, phase, events, unclosed>>

(* A pair the plan opens here: its inside is walked with the same plan. *)
WalkPlannedPair ==
  /\ Walking
  /\ \E p \in PlannedHere :
       LET inFrom == p.openStart + p.length
           kind   == IF p.length = 2 THEN "strong" ELSE "emphasis"
           n == NodeRec(kind, Top.node, p.openStart, p.closeStart + p.length,
                        inFrom, p.closeStart, FALSE)
       IN  Descend(n, p.closeStart + p.length, Top.plan)
  /\ UNCHANGED <<vars, phase, events, unclosed>>

Facing(c) == Walking /\ PlannedHere = {} /\ Char \in c

Special == {"nl", "esc", "tick", "!", "[", "*", "_"}
             \cup (IF config.strike THEN {"~"} ELSE {})

(* appendSource on text without a line ending. *)
Source(from, to) == IF from < to THEN <<Leaf("text", from, to)>> ELSE <<>>

WalkBreak ==
  /\ Facing({"nl"})
  /\ Advance(Pos + 1, <<Leaf("soft", Pos, Pos + 1)>>)
  /\ UNCHANGED <<vars, events, unclosed>>

EscapesPunctuation == Pos + 1 < Top.end /\ At(text, Pos + 1) \in Punctuation

WalkEscape ==
  /\ Facing({"esc"})
  /\ \/ EscapesPunctuation /\ Advance(Pos + 2, <<Leaf("text", Pos, Pos + 2)>>)
     \/ Peek("nl") /\ Advance(Pos + 2, <<Leaf("hard", Pos, Pos + 1)>>)
  /\ UNCHANGED <<vars, events, unclosed>>

(* appendPlainRun: up to the next special character, without the spaces    *)
(* before a line ending, two of which make the break a hard one.           *)
PlainStart == \/ Char \notin Special
              \/ Char = "esc" /\ ~EscapesPunctuation /\ ~Peek("nl")
              \/ Char = "!" /\ ~Peek("[")

WalkPlain ==
  /\ Walking /\ PlannedHere = {}
  /\ PlainStart
  /\ LET stops == {i \in Pos + 1 .. Top.end : i = Top.end \/ At(text, i) \in Special}
         stop  == CHOOSE i \in stops : \A j \in stops : i <= j
         atBreak == stop < Top.end /\ At(text, stop) = "nl"
         tail  == {k \in 0 .. stop - Pos : \A i \in stop - k .. stop - 1 : At(text, i) = " "}
         spaces == CHOOSE k \in tail : \A j \in tail : j <= k
     IN  IF atBreak /\ spaces >= 1
         THEN Advance(stop + 1, Source(Pos, stop - spaces) \o
                <<Leaf(IF spaces >= 2 THEN "hard" ELSE "soft", stop, stop + 1)>>)
         ELSE Advance(stop, Source(Pos, stop))
  /\ UNCHANGED <<vars, events, unclosed>>
-----------------------------------------------------------------------------
(* The recovery policy asked for; the slip asks for one kind's always. *)
PolicyOfStrong(kind) == config["strong"]

PolicyOf(kind) == config[kind]

(* recoverUnclosed, tried for kind with a marker of length open at Pos and *)
(* falling back to literal bytes up to the position behind.                *)
Unclosed(kind, open, behind) ==
  /\ unclosed' = Append(unclosed, [kind |-> kind, at |-> Pos])
  /\ LET policy == PolicyOf(kind)
         leafKind == kind = "code"
     IN  CASE policy = "error" -> Fail /\ UNCHANGED vars
           [] policy = "recover" /\ Pos + open < Top.end /\ ~leafKind ->
                DescendAndPlan(NodeRec(kind, Top.node, Pos, Top.end, Pos + open, Top.end, TRUE),
                               Top.end)
           [] policy = "recover" /\ Pos + open < Top.end /\ leafKind ->
                /\ nodes' = Append(nodes, [Leaf(kind, Pos, Top.end) EXCEPT !.recovered = TRUE])
                /\ frames' = [frames EXCEPT ![Len(frames)].position = Top.end]
                /\ notes' = Append(notes, Len(nodes) + 1)
                /\ UNCHANGED <<vars, text, config, phase>>
           [] OTHER -> Advance(behind, Source(Pos, behind)) /\ UNCHANGED vars
  /\ events' = IF PolicyOf(kind) = "recover" /\ Pos + open < Top.end /\ kind = "code"
               THEN events \o <<<<"recovered", Len(nodes) + 1>>, <<"created", Len(nodes) + 1>>>>
               ELSE events

(* parseCodeSpan *)
WalkCodeSpan ==
  /\ Facing({"tick"})
  /\ LET codeEnd == CodeSpanEnd(text, Pos + MarkerRun, Top.end, MarkerRun)
     IN  IF codeEnd >= 0
         THEN /\ Advance(codeEnd, <<Leaf("code", Pos, codeEnd)>>)
              /\ events' = Append(events, <<"created", Len(nodes) + 1>>)
              /\ UNCHANGED <<vars, unclosed>>
         ELSE Unclosed("code", MarkerRun, Pos + MarkerRun)

(* findClosing: the first run of the marker that may close a run of        *)
(* opening characters at start, [found |-> FALSE] when there is none.      *)
OpenLength(marker, run) ==
  IF marker = "~" THEN run ELSE IF run % 2 = 0 THEN 2 ELSE 1

FindClosing(from, end) ==
  LET open == OpenLength(Char, MarkerRun)
      mine == Flanking(text, Pos, MarkerRun, Char, 0, end)
      closing[p \in 0 .. end + 1] ==
        LET run    == ByteRun(text, p, end, Char)
            ticks  == ByteRun(text, p, end, "tick")
            theirs == Flanking(text, p, run, Char, Pos, end)
            odd    == /\ Char # "~"
                      /\ mine.canClose \/ theirs.canOpen
                      /\ (MarkerRun + run) % 3 = 0
                      /\ MarkerRun % 3 # 0 \/ run % 3 # 0
        IN  IF p >= end THEN [found |-> FALSE]
            ELSE IF run = 0 THEN closing[Past(text, p, end, IF ticks > 0 THEN p + ticks ELSE p + 1)]
            ELSE IF run < open \/ ~theirs.canClose \/ odd THEN closing[p + run]
            ELSE IF MarkerRun > 2 /\ MarkerRun = run
                 THEN [found |-> TRUE, contentEnd |-> p + run - open, next |-> p + run]
            ELSE [found |-> TRUE, contentEnd |-> p, next |-> p + open]
  IN  closing[from]

(* The search starts behind the whole run. *)
SearchFrom == Pos + MarkerRun

(* pairedPunctuation: "." is here a mark that closes itself, a quote. *)
PairedPunctuation(from, to) ==
  /\ to - from >= 2
  /\ <<At(text, from), At(text, to - 1)>> \in {<<".", ".">>, <<"[", "]">>}

(* isRangeSeparator: a letter or digit on either side. *)
RangeSeparator ==
  /\ Pos > 0 /\ At(text, Pos - 1) = "a"
  /\ Pos + 1 < Top.end /\ At(text, Pos + 1) = "a"

KindOf(marker, length) ==
  IF marker = "~" THEN "strikethrough" ELSE IF length = 2 THEN "strong" ELSE "emphasis"

(* parseDelimiter, literal bytes up to behind when it matches nothing. *)
ParseDelimiter(behind) ==
  LET open    == OpenLength(Char, MarkerRun)
      match   == FindClosing(SearchFrom, Top.end)
      canOpen == Flanking(text, Pos, MarkerRun, Char, 0, Top.end).canOpen
      range   == Char = "~" /\ MarkerRun = 1 /\ config.range /\ RangeSeparator
      enhanced == /\ ~canOpen /\ match.found /\ Char # "~" /\ config.paired
                  /\ PairedPunctuation(Pos + open, match.contentEnd)
      literal == Advance(behind, Source(Pos, behind)) /\ UNCHANGED <<vars, unclosed>>
  IN  CASE Char = "~" /\ MarkerRun > 2 -> literal /\ UNCHANGED events
        [] range -> literal /\ events' = Append(events, <<"range", Pos>>)
        [] ~range /\ ~(Char = "~" /\ MarkerRun > 2) /\ ~canOpen /\ ~enhanced ->
             literal /\ UNCHANGED events
        [] OTHER ->
             IF ~match.found THEN Unclosed(KindOf(Char, open), open, behind)
             ELSE /\ DescendAndPlan(NodeRec(KindOf(Char, open), Top.node, Pos, match.next,
                                            Pos + open, match.contentEnd, FALSE), match.next)
                  /\ events' = IF enhanced THEN Append(events, <<"paired", Pos>>) ELSE events
                  /\ UNCHANGED unclosed

(* literalDelimiterRun: the run up to where the plan opens a pair in it. *)
LiteralRun ==
  LET cut == {k \in 1 .. MarkerRun : k = MarkerRun \/ OpenerAt(Top.plan, Pos + k) # {}}
  IN  CHOOSE k \in cut : \A j \in cut : k <= j

WalkDelimiter ==
  /\ Facing({"*", "_"})
  /\ IF config.paired \/ config[KindOf(Char, IF LiteralRun < 2 THEN LiteralRun ELSE 2)] # "literal"
     THEN ParseDelimiter(Pos + LiteralRun)
     ELSE /\ Advance(Pos + LiteralRun, Source(Pos, Pos + LiteralRun))
          /\ UNCHANGED <<vars, events, unclosed>>

WalkTilde ==
  /\ Facing({"~"})
  /\ config.strike
  /\ ParseDelimiter(Pos + MarkerRun)

(* unclosedStructural: the policy parseLink asks about an unclosed label   *)
(* is the image's, whatever the construct.                                 *)
UnclosedIsRefused == config.image = "error"

(* parseLink; an image mark stands before the bracket. *)
WalkLink ==
  /\ Facing({"[", "!"})
  /\ Char = "!" => Peek("[")
  /\ LET image  == Char = "!"
         open   == IF image THEN Pos + 1 ELSE Pos
         close  == ClosingBracket(text, open + 1, Top.end)
         target == LinkEnd(text, open, Top.end, config.refs)
         kind   == IF image THEN "image" ELSE "link"
         literal == Advance(Pos + 1, Source(Pos, Pos + 1)) /\ UNCHANGED vars
     IN  /\ UNCHANGED events
         /\ IF close < 0
            THEN /\ unclosed' = Append(unclosed, [kind |-> kind, at |-> Pos])
                 /\ IF UnclosedIsRefused THEN Fail /\ UNCHANGED vars ELSE literal
            ELSE /\ UNCHANGED unclosed
                 /\ IF target < 0 \/ (~image /\ NestedLink(text, open + 1, close, config.refs))
                    THEN literal
                    ELSE DescendAndPlan(NodeRec(kind, Top.node, Pos, target, open + 1, close, FALSE),
                                        target)

(* Slip of the return: the diagnostics are kept the newest first. *)
ReturnNewestFirst ==
  /\ phase = "walk" /\ frames # <<>> /\ Pos >= Top.end
  /\ frames' = SubSeq(frames, 1, Len(frames) - 1)
  /\ phase' = IF Len(frames) = 1 THEN "done" ELSE phase
  /\ notes' = IF Len(frames) > 1 /\ nodes[Top.node].recovered THEN <<Top.node>> \o notes ELSE notes
  /\ events' = IF Len(frames) = 1 THEN events ELSE Append(events, <<"created", Top.node>>)
  /\ UNCHANGED <<vars, text, config, nodes, unclosed>>

(* The range is finished: the caller records the recovery, if it was one,  *)
(* then the node, and goes on.                                             *)
Return ==
  /\ phase = "walk"
  /\ frames # <<>>
  /\ Pos >= Top.end
  /\ frames' = SubSeq(frames, 1, Len(frames) - 1)
  /\ IF Len(frames) = 1
     THEN phase' = "done" /\ UNCHANGED <<events, notes>>
     ELSE /\ UNCHANGED phase
          /\ IF nodes[Top.node].recovered
             THEN /\ notes' = Append(notes, Top.node)
                  /\ events' = events \o <<<<"recovered", Top.node>>, <<"created", Top.node>>>>
             ELSE /\ UNCHANGED notes
                  /\ events' = Append(events, <<"created", Top.node>>)
  /\ UNCHANGED <<vars, text, config, nodes, unclosed>>

InlineNext ==
  \/ PlanStep \/ PlanDone \/ WalkPlannedPair \/ WalkBreak \/ WalkEscape \/ WalkPlain
  \/ WalkCodeSpan \/ WalkDelimiter \/ WalkTilde \/ WalkLink \/ Return

InlineSpec == InlineInit /\ [][InlineNext]_allVars
-----------------------------------------------------------------------------
NodeIds == 1 .. Len(nodes)
Leaves  == {"text", "soft", "hard", "code"}

(* The bytes a node stands for itself, its children's left out. *)
Own(n) == (nodes[n].from .. nodes[n].to - 1) \ (nodes[n].inFrom .. nodes[n].inTo - 1)

(* Bytes that parsing drops on purpose: spaces before a line ending, and   *)
(* the line ending behind the backslash of a hard break.                   *)
Droppable(i) ==
  \/ \E j \in i + 1 .. End - 1 :
       At(text, j) = "nl" /\ \A k \in i .. j - 1 : At(text, k) = " "
  \/ i > 0 /\ At(text, i) = "nl" /\ At(text, i - 1) = "esc"

(* Every byte of a paragraph ends up in exactly one node, as text or as    *)
(* part of a delimiter: planned pairs, searched closers, recovery and      *)
(* links between them lose nothing and show nothing twice.                 *)
EveryByteOnce ==
  \A i \in 0 .. End - 1 :
    LET owners == {n \in NodeIds : i \in Own(n)}
    IN  /\ Cardinality(owners) <= 1
        /\ phase = "done" => owners # {} \/ Droppable(i)

(* Children lie inside their parent's content and follow each other in the *)
(* order of the source.                                                    *)
ChildrenInSourceOrder ==
  /\ \A n \in NodeIds : nodes[n].parent # 0 =>
       /\ nodes[nodes[n].parent].inFrom <= nodes[n].from
       /\ nodes[n].to <= nodes[nodes[n].parent].inTo
  /\ \A m, n \in NodeIds :
       m < n /\ nodes[m].parent = nodes[n].parent => nodes[m].to <= nodes[n].from

Created(n) == <<"created", n>>

(* What the trace and the diagnostics leave out. *)
Silent(n) == nodes[n].kind \in {"text", "soft", "hard"}

(* The trace tells of a node once, after all that is inside it, and in the *)
(* end of every formatting node.                                           *)
NodesTracedInsideOut ==
  \A n \in NodeIds :
    /\ \A i, j \in 1 .. Len(events) : events[i] = Created(n) /\ events[j] = Created(n) => i = j
    /\ \A j \in 1 .. Len(events) : events[j] = Created(nodes[n].parent) /\ ~Silent(n) =>
         \E i \in 1 .. j - 1 : events[i] = Created(n)
    /\ phase = "done" /\ ~Silent(n) => \E i \in 1 .. Len(events) : events[i] = Created(n)

(* docs/enhancemark.md:63 "Nested unmatched markers therefore close from   *)
(* the inside out": the diagnostics of recovered nodes come in the order   *)
(* of the trace, one for each.                                             *)
RecoveriesInsideOut ==
  /\ \A i, j \in 1 .. Len(notes) : i < j =>
       \E k, l \in 1 .. Len(events) :
         k < l /\ events[k] = Created(notes[i]) /\ events[l] = Created(notes[j])
  /\ phase = "done" =>
       {n \in NodeIds : nodes[n].recovered} = {notes[i] : i \in 1 .. Len(notes)}

(* Both accounts of a recursive parse, the trace of what it made and the   *)
(* diagnostics of what it repaired, are complete and run from the inside   *)
(* out, through plans, searched closers, recoveries and links.             *)
ToldInsideOut == NodesTracedInsideOut /\ RecoveriesInsideOut

(* A parse that ends well met no unclosed construct whose policy says to   *)
(* abort; one that fails has just met one.                                 *)
HonoursPolicy(kinds) ==
  LET Aborts(u) == config[u.kind] = "error"
  IN  \A k \in 1 .. Len(unclosed) :
        unclosed[k].kind \in kinds =>
          /\ phase = "done" => ~Aborts(unclosed[k])
          /\ phase = "failed" => (Aborts(unclosed[k]) <=> k = Len(unclosed))

DelimitersHonourPolicy ==
  HonoursPolicy({"emphasis", "strong", "strikethrough", "code", "image"})

(* What parsing has still to do: the bytes the active ranges have not      *)
(* walked, the ranges to return from, and what is left to plan, which for  *)
(* a range is less than twice its bytes.                                   *)
BytesLeft    == FoldFunction(+, 0, [k \in 1 .. Len(frames) |-> frames[k].end - frames[k].position])
PlanningLeft == Len(runs) + 2 - closer + FoldFunction(+, 0, remaining)
InlineWork ==
  IF phase = "failed" THEN 0
  ELSE (2 * End + 4) * BytesLeft + Len(frames) + (IF phase = "plan" THEN PlanningLeft ELSE 0)

(* Every paragraph is parsed to its end or refused: whatever a turn of the *)
(* loop does, descending and recovering included, less is left to do.      *)
InlineMakesProgress == [][InlineWork' \in 0 .. InlineWork - 1]_allVars
=============================================================================
