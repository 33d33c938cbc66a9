-------------------------- MODULE ExtensionDispatch --------------------------
(***************************************************************************)
(* Syntax extensions at work (parser/extension.go): a parser made from a   *)
(* frozen Registry asks its block hooks at the head of each turn of the    *)
(* block loop and its inline hooks at each turn of the inline loop, checks *)
(* what a hook says it has consumed and attaches the node it hands back.   *)
(*                                                                         *)
(* The documents are quotes, in any depth, paragraphs and indented code.   *)
(* What else a line may begin is the business of Blocks, and what inline   *)
(* text holds that of InlineRange: here text is broken only by line        *)
(* endings and by the bytes that trigger hooks.  A handler is any code: it *)
(* may decline, fail, or hand back any node with any length and offset.    *)
(***************************************************************************)
EXTENDS Registry, SourceLines

CONSTANT Sources   \* the documents to parse

(* A line without a quote mark right behind a line that has one would be a *)
(* lazy one: there are none in these documents, nor in quotes in them.     *)
Unquoted(line, depth) ==
  LET inside[d \in 0 .. depth] ==
        IF d = 0 THEN line
        ELSE IF Marked(inside[d - 1]) THEN StripBlockQuote(inside[d - 1]) ELSE inside[d - 1]
  IN  inside[depth]

LazyFree(source) ==
  LET lines == ScanLines(source)
  IN  \A n \in 2 .. Len(lines), depth \in 0 .. Len(source) :
        LET before == Unquoted(lines[n - 1], depth)
            line   == Unquoted(lines[n], depth)
        IN  Marked(before) => Marked(line) \/ IsBlank(line.logical)

ASSUME DispatchAssumption ==
  /\ Sources \subseteq Seq(STRING)
  /\ \A source \in Sources : LazyFree(source)

BlockPhase  == 1
InlinePhase == 2
RootNode    == 1

VARIABLES
  stage,      \* "new" until a parser exists, then "blocks", "inlines", "done" or "failed"
  source,
  stack,      \* active calls of parseBlocks, innermost last
  parents,    \* the parent of each node, 0 for none
  inlines,    \* parseState.inlines: nodes with the spans of their text
  position,   \* in the text of the first of them
  asked,      \* the hooks that have declined at this place
  matches     \* history: what the hooks have consumed

parseVars == <<stage, source, stack, parents, inlines, position, asked, matches>>
dispatchVars == <<registryVars, parseVars>>

Frame(lines, parent) == [lines |-> lines, at |-> 1, parent |-> parent]

DispatchInit ==
  /\ RegistryInit
  /\ stage = "new" /\ source = <<>> /\ stack = <<>> /\ parents = <<0>>
  /\ inlines = <<>> /\ position = 0 /\ asked = 0 /\ matches = <<>>

(* New has frozen the registry; parse starts with the lines of the source. *)
StartParse ==
  /\ stage = "new" /\ frozen
  /\ source' \in Sources
  /\ stack' = <<Frame(ScanLines(source'), RootNode)>>
  /\ stage' = "blocks"
  /\ UNCHANGED <<registryVars, parents, inlines, position, asked, matches>>

Top     == stack[Len(stack)]
Rest    == Top.lines
Here    == Rest[Top.at]
AtLine  == stage = "blocks" /\ Top.at <= Len(Rest)
AtText  == stage = "inlines" /\ inlines # <<>> /\ position < Len(InlineInput(source, inlines[1].spans).data)
Text    == InlineInput(source, inlines[1].spans)

(* The hooks asked at this place, in the order of the Set. *)
BlockHooks  == Triggered(HooksOf(BlockPhase), Here.logical[1])
InlineHooks == Triggered(HooksOf(InlinePhase), ByteAt(Text.data, position))
AtBlockHook  == AtLine /\ ~IsBlank(Here.logical) /\ asked < Len(BlockHooks)
AtInlineHook == AtText /\ asked < Len(InlineHooks)

HookDeclines ==
  /\ AtBlockHook \/ AtInlineHook
  /\ asked' = asked + 1
  /\ UNCHANGED <<registryVars, stage, source, stack, parents, inlines, position, matches>>

(* An error of the handler, or a match that is refused. *)
Refuse ==
  /\ stage' = "failed"
  /\ UNCHANGED <<registryVars, source, stack, parents, inlines, position, asked, matches>>

HookFails == (AtBlockHook \/ AtInlineHook) /\ Refuse

-----------------------------------------------------------------------------
(* What a handler may hand back: a length, the offset it has set, and no   *)
(* node, a node of the arena, one it has just added, or none of the arena's. *)
Lengths == 0 .. Len(source) + 1
NewNode == Len(parents) + 1
Offered == 0 .. NewNode + 1

(* validateExtensionMatch: the length consumed, 0 for a refusal. *)
Consumed(start, length, offset, node, available) ==
  LET consumed == IF length = 0 /\ offset > start THEN offset - start ELSE length
  IN  IF offset \in {start, start + consumed} /\ consumed <= available /\ node # 0
      THEN consumed ELSE 0

(* attachExtensionNode; AppendChild panics when a node would become its    *)
(* own child.                                                              *)
ParentsWith(node) == IF node = NewNode THEN Append(parents, 0) ELSE parents
Attachable(node, parent) ==
  node <= NewNode /\ node # parent /\ ParentsWith(node)[node] \in {0, parent}
Attach(node, parent) == parents' = [ParentsWith(node) EXCEPT ![node] = parent]

Matched(phase, id, from, to, spans) ==
  matches' = Append(matches, [phase |-> phase, id |-> id, from |-> from, to |-> to, spans |-> spans])

(* The match ends with line n, before or behind its line ending, and with  *)
(* no line before it.                                                      *)
EndsLine(n, end) ==
  /\ end \in {Rest[n].end, Rest[n].newlineEnd}
  /\ \A k \in Top.at .. n - 1 : end > Rest[k].newlineEnd

(* parseExtensionBlock *)
BlockHookMatches ==
  /\ AtBlockHook
  /\ \E length, offset \in Lengths, node \in Offered :
       LET start    == LineSourceOffset(Here, 0)
           consumed == Consumed(start, length, offset, node, Len(source) - start)
           last     == {n \in Top.at .. Len(Rest) : EndsLine(n, start + consumed)}
       IN  IF consumed > 0 /\ last # {} /\ Attachable(node, Top.parent)
           THEN /\ Attach(node, Top.parent)
                /\ stack' = [stack EXCEPT ![Len(stack)].at = Max(last) + 1]
                /\ asked' = 0
                /\ Matched(BlockPhase, BlockHooks[asked + 1].id, start, start + consumed, <<>>)
                /\ UNCHANGED <<registryVars, stage, source, inlines, position>>
           ELSE Refuse

(* Slip: only the two ends of what was consumed are compared. *)
ContiguousAtEnds(from, consumed, start) ==
  from + consumed <= Len(Text.data) /\ start + consumed <= Len(source)

(* validateInlineExtensionConsumption *)
Contiguous(from, consumed, start) ==
  /\ from + consumed <= Len(Text.data) /\ start + consumed <= Len(source)
  /\ \A k \in 0 .. consumed - 1 :
       /\ InputOffset(Text, from + k) = start + k
       /\ ByteAt(Text.data, from + k) = ByteAt(source, start + k)

(* parseExtensionInline *)
InlineHookMatches ==
  /\ AtInlineHook
  /\ \E length, offset \in Lengths, node \in Offered :
       LET start    == InputOffset(Text, position)
           consumed == Consumed(start, length, offset, node, Len(Text.data) - position)
           parent   == inlines[1].node
       IN  IF consumed > 0 /\ Contiguous(position, consumed, start) /\ Attachable(node, parent)
           THEN /\ Attach(node, parent)
                /\ position' = position + consumed
                /\ asked' = 0
                /\ Matched(InlinePhase, InlineHooks[asked + 1].id, start, start + consumed,
                           inlines[1].spans)
                /\ UNCHANGED <<registryVars, stage, source, stack, inlines>>
           ELSE Refuse
-----------------------------------------------------------------------------
(* All hooks have declined: the line is parsed as if there were none.      *)
Declined == AtLine /\ ~IsBlank(Here.logical) /\ asked = Len(BlockHooks)
Later    == Top.at + 1 .. Len(Rest)
First(S) == Min(S \cup {Len(Rest) + 1})
GoOn(at) == stack' = [stack EXCEPT ![Len(stack)].at = at]

SkipBlankLine ==
  /\ AtLine /\ IsBlank(Here.logical)
  /\ GoOn(Top.at + 1)
  /\ UNCHANGED <<registryVars, stage, source, parents, inlines, position, asked, matches>>

OpenQuote ==
  /\ Declined /\ Marked(Here)
  /\ LET at == First({n \in Later : ~Marked(Rest[n])})
         quoted == [n \in 1 .. at - Top.at |-> StripBlockQuote(Rest[Top.at + n - 1])]
     IN  stack' = Append([stack EXCEPT ![Len(stack)].at = at], Frame(quoted, NewNode))
  /\ parents' = Append(parents, Top.parent)
  /\ asked' = 0
  /\ UNCHANGED <<registryVars, stage, source, inlines, position, matches>>

Code(line) == ~Marked(line) /\ IndentWidth(line.logical) >= 4

ParseCode ==
  /\ Declined /\ Code(Here)
  /\ GoOn(First({n \in Later : ~IsBlank(Rest[n].logical) /\ IndentWidth(Rest[n].logical) < 4}))
  /\ parents' = Append(parents, Top.parent)
  /\ asked' = 0
  /\ UNCHANGED <<registryVars, stage, source, inlines, position, matches>>

(* A quote mark ends a paragraph however far it is indented. *)
EndsParagraph(line) ==
  \/ IsBlank(line.logical)
  \/ ByteAt(line.logical, BlanksFrom(line.logical, 0)) = ">"

ParseText ==
  /\ Declined /\ ~Marked(Here) /\ ~Code(Here)
  /\ LET at    == First({n \in Later : EndsParagraph(Rest[n])})
         spans == [n \in 1 .. at - Top.at |->
                     LET span == TextSpan(Rest[Top.at + n - 1])
                     IN  IF Top.at + n = at THEN TrimSpan(source, span) ELSE span]
     IN  /\ inlines' = Append(inlines, [node |-> NewNode, spans |-> spans])
         /\ GoOn(at)
  /\ parents' = Append(parents, Top.parent)
  /\ asked' = 0
  /\ UNCHANGED <<registryVars, stage, source, position, matches>>

EndFrame ==
  /\ stage = "blocks" /\ Top.at > Len(Rest)
  /\ stack' = SubSeq(stack, 1, Len(stack) - 1)
  /\ stage' = IF Len(stack) = 1 THEN "inlines" ELSE stage
  /\ UNCHANGED <<registryVars, source, parents, inlines, position, asked, matches>>

(* appendPlainRun stops before a line ending or a byte that triggers a     *)
(* hook, and takes a line ending with the blanks before it.                *)
WalkText ==
  /\ AtText /\ asked = Len(InlineHooks)
  /\ LET data  == Text.data
         stops == {p \in position + 1 .. Len(data) :
                     \/ p = Len(data) \/ ByteAt(data, p) = "nl"
                     \/ Triggered(HooksOf(InlinePhase), ByteAt(data, p)) # <<>>}
         stop  == Min(stops)
         break == stop < Len(data) /\ ByteAt(data, stop) = "nl" /\ ByteAt(data, stop - 1) = " "
     IN  position' = IF ByteAt(data, position) # "nl" /\ break THEN stop + 1
                     ELSE IF ByteAt(data, position) = "nl" THEN position + 1 ELSE stop
  /\ asked' = 0
  /\ UNCHANGED <<registryVars, stage, source, stack, parents, inlines, matches>>

EndText ==
  /\ stage = "inlines" /\ ~AtText
  /\ IF inlines = <<>> THEN stage' = "done" /\ UNCHANGED inlines
     ELSE inlines' = Tail(inlines) /\ UNCHANGED stage
  /\ position' = 0
  /\ UNCHANGED <<registryVars, source, stack, parents, asked, matches>>

DispatchNext ==
  \/ HookDeclines \/ HookFails \/ BlockHookMatches \/ InlineHookMatches
  \/ SkipBlankLine \/ OpenQuote \/ ParseCode \/ ParseText \/ EndFrame
  \/ WalkText \/ EndText

BuildParser == stage = "new" /\ RegistryNext /\ UNCHANGED parseVars

DispatchSpec == DispatchInit /\ [][BuildParser \/ StartParse \/ DispatchNext]_dispatchVars
-----------------------------------------------------------------------------
Lines == ScanLines(source)
ActiveLines == UNION {{stack[k].lines[n] : n \in 1 .. Len(stack[k].lines)} : k \in 1 .. Len(stack)}

(* A quote mark behind a tab, which byteOffsetForIndent takes for one: the *)
(* tab's columns are left over as blanks that no byte stands for.          *)
TabbedMark(line) ==
  LET whole == LineFrom(source, line.start)
  IN  Marked(whole) /\ \E i \in 1 .. QuoteMark(whole) : whole.logical[i] = "tab"

(* However deep its containers, a line's bytes stand at the offsets they   *)
(* have in the source, in order and up to the end of the line, and the     *)
(* columns left over from a tab lie where the tab is, except behind a      *)
(* tabbed mark: what the parser tells extensions, spans and diagnostics    *)
(* about places is true.                                                   *)
OffsetsFollowTheSource ==
  \A line \in ActiveLines :
    /\ Len(line.offsets) = Len(line.logical) + 1
    /\ line.offsets[Len(line.offsets)] = line.end
    /\ \A k \in 1 .. Len(line.logical) :
         /\ line.offsets[k] \in line.start .. line.offsets[k + 1]
         /\ \/ line.logical[k] = " " /\ TabbedMark(line)
            \/ /\ line.offsets[k] < line.end
               /\ \/ ByteAt(source, line.offsets[k]) = line.logical[k]
                  \/ line.logical[k] = " " /\ ByteAt(source, line.offsets[k]) \in Blanks
         /\ line.logical[k] \notin Blanks => line.offsets[k] < line.offsets[k + 1]

(* The number of the line a byte is in is the same for Position, which     *)
(* searches an index of line endings, as for the parser's scanner.         *)
PositionsAgreeWithLines ==
  \A n \in 1 .. Len(Lines) : \A offset \in Lines[n].start .. Lines[n].newlineEnd - 1 :
    LET place == Position(source, offset)
    IN  place.line = n /\ place.column = offset - Lines[n].start + 1

(* docs/architecture.md:71 "block handlers must consume complete source    *)
(* lines": what a block hook takes ends with a line, and neither another   *)
(* hook nor the text of a paragraph has any byte of it.                    *)
Taken(m) == m.from .. m.to - 1
TextBytes(block) == UNION {block.spans[n].start .. block.spans[n].end - 1 : n \in 1 .. Len(block.spans)}
BlockMatches == {k \in 1 .. Len(matches) : matches[k].phase = BlockPhase}

BlockHooksTakeWholeLines ==
  /\ \A k \in BlockMatches :
       /\ \E n \in 1 .. Len(Lines) : matches[k].to \in {Lines[n].end, Lines[n].newlineEnd}
       /\ \A i \in 1 .. Len(inlines) : Taken(matches[k]) \cap TextBytes(inlines[i]) = {}
  /\ \A i, k \in 1 .. Len(matches) : i < k =>
       /\ Taken(matches[i]) \cap Taken(matches[k]) = {}
       /\ matches[i].phase = matches[k].phase => matches[i].to <= matches[k].from

(* docs/architecture.md:73 inline handlers "cannot consume across source   *)
(* gaps created by stripping container markers": all that one takes is     *)
(* text of its own block or the line ending between two lines of it.       *)
InlineHooksStayInTheirText ==
  \A k \in 1 .. Len(matches) : matches[k].phase = InlinePhase =>
    \A byte \in Taken(matches[k]) \ TextBytes(matches[k]) :
      /\ ByteAt(source, byte) = "nl"
      /\ \E n \in 1 .. Len(matches[k].spans) - 1 : matches[k].spans[n].end = byte

(* Hooks of both phases, in any order and nested in containers, take only  *)
(* what is theirs, and no byte is taken twice.                             *)
HooksTakeTheirShare == BlockHooksTakeWholeLines /\ InlineHooksStayInTheirText

(* testdata/spec/gfm-0.29.0.gfm.0.txt:359 says "in contexts where          *)
(* whitespace helps to define block structure, tabs behave as if they were *)
(* replaced by spaces with a tab stop of 4 characters".  So a quoted line  *)
(* is indented by the columns of the page between its quote mark, with one *)
(* blank if there is one, and its first byte.                              *)
PageColumn(line, offset) == Columns(SubSeq(source, line.start + 1, offset))
MarkBefore(line) == Max({i \in line.start .. line.end - 1 : ByteAt(source, i) = ">"})
IndentIsVisual ==
  \A k \in 2 .. Len(stack) : \A n \in 1 .. Len(stack[k].lines) :
    LET line    == stack[k].lines[n]
        text    == BlanksFrom(line.logical, 0)
        inside  == MarkBefore(line) + 1
        blank   == ByteAt(source, inside) \in Blanks
        content == PageColumn(line, inside) + (IF blank THEN 1 ELSE 0)
    IN  text < Len(line.logical) /\ line.logical[text + 1] # ">" /\ k = Len(stack) =>
          IndentWidth(line.logical) = PageColumn(line, line.offsets[text + 1]) - content
=============================================================================
