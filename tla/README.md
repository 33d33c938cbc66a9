# Markonward in TLA+

Markonward is a Markdown parser library and command in Go. A source is read,
split into lines, parsed into blocks, the text of the blocks is parsed into
inline nodes, extensions may transform the tree, and renderers walk it. This
directory holds TLA+ models of the parts whose correctness depends on state
and order, the TLC configurations that check them on small instances, and
proofs, checked by TLAPS, of what holds for every instance. The definitions are
translated from the Go source, not from its documentation. A disagreement
between the two is a run of its own that TLC must find violated.

## 1. The system

| Part | Where | State it keeps | Operations | How it interacts |
|---|---|---|---|---|
| Arena and builder | `ast/builder.go`, `ast/document.go` | a slice of node records with five links each, the source, `built` | `Add`, `AppendChild`, `Detach`, setters, `Build`, `Validate`, `Walk` | written by the parser, block and inline extensions, and transforms; read by renderers |
| Line index | `ast/document.go` | offsets of line starts behind a `sync.Once` | `Position` | read by any number of goroutines |
| Extension registry | `extension/extension.go`, `renderer/extensions.go` | entries, `frozen` | `Register`, `Freeze`, `Registrations`, `CompileExtensions` | `parser.New` and the renderers freeze one each |
| Extension dispatch | `parser/extension.go` | none of its own | block and inline hooks, checks of what they consumed, attachment | called at the head of every turn of both loops |
| Block parser | `parser/block.go`, `reference.go`, `html.go` | call stack, lines of each container, queue of nodes with text, reference map | `parseBlocks`, `parseList`, `parseParagraph`, `parseFence`, `parseTable`, ... | fills the arena; leaves `inlines` and `references` for the inline parser |
| Inline parser | `parser/inline.go` | call stack, position, diagnostics | `parseRange` and one handler per construct | asks the planner, fills the arena, emits trace events |
| Emphasis planner | `parser/emphasis.go` | delimiter runs, what is left of each, the plan | `planEmphasis`, `collectEmphasisDelimiters`, `openerAt` | called for each range that does not inherit a plan |
| Pipeline | `parser/parser.go`, `state.go`, `options.go` | size limit, context, event numbers | `Parse`, `ParseReader`, `emit`, `checkContext` | runs the phases; many calls may share one Parser |
| Trace sinks | `trace/*.go` | a mutex, the events or a writer | `Record`, `Events` | shared by concurrent parses |
| Diagnostics, profiles | `diagnostic/`, `profile/` | immutable values | | options of the parser |
| Renderers | `renderer/html`, `plaintext`, `markdown` | the call stack of a recursive writer, what is written so far | `Render` | read a built document; what the Markdown renderer writes is parsed again |
| Command line | `cmd/markonward` | input, output file, exit code | `convert`, `explain` | one parse and one render, or one trace, between two files |
| specsync | `internal/specsync` | the download, a temporary file per fixture | download, verify, write, rename | replaces the pinned specifications that tests and commands read |
| benchgate, scripts | `internal/benchgate`, `scripts/`, `benchmarks/`, `tools/` | files | | maintenance of the repository |

What is hard here, and what a test would hardly reach:

- *Links.* Five indices per node are rewritten in an order that must also be
  right when a node is moved inside the list it is already in.
- *Recursion over rewritten input.* The block parser calls itself on copied
  lines with their markers removed; whether a line belongs to a container is
  guessed before the container is parsed.
- *Two algorithms over one text.* The inline parser follows a plan made in
  advance for CommonMark emphasis and searches closers directly for everything
  else; with recovery it parses the rest of a range again.
- *Termination.* Both parsers are nests of loops whose bounds are moved by the
  loops inside.
- *Sharing.* One sink is written by several parses, read by others, and may fail.
- *Order of registration.* Extensions register in any order; what they register
  must be dispatched in one order.
- *Round trips.* What the Markdown renderer writes is read by the same parser; a
  marker, blank line, indentation or fence chosen badly is read as something else.
- *Files.* Commands create their output before or after they know that they will
  succeed; specsync replaces files others may be reading, and may be killed anywhere.

`PROJECT.json` lists these hazards line by line with the properties that cover
each of them.

## 2. Modules

| Module | Models | State and actions |
|---|---|---|
| `Arena` | `ast/builder.go`, records and `Validate` of `ast/document.go` | one variable per field; one action per Builder method. `Detached` and `Appended` are the two link rewritings, in the order `AppendChild` runs them |
| `Tree` | what the Builder promises | ordered child lists without links: the abstract specification of `Arena` |
| `ArenaTree` | the refinement, and `Document.Walk` with its explicit stack | reads child lists off the links |
| `Emphasis` | `planEmphasis` | one step is one round of the inner loop: a pair is made, or the closer is left |
| `EmphasisLookup` | `emphasisPlan.add`, `prepareLookup`, `openerAt` | a pure function of the finished plan: array and slice as `add` leaves them after each pair, the array emptied when the slice is made; search of the array, or bisection of the sorted slice |
| `Delimiters` | scanning: flanking, code spans, brackets, `collectEmphasisDelimiters` | recursive operators over character classes |
| `InlineRange` | `parseRange` and its handlers | the recursion is the sequence `frames`; a step is a turn of the loop. It extends `Emphasis`, whose steps are steps of `PlanStep` |
| `Lines` | line predicates of `block.go` and `html.go` | pure operators over columns |
| `Blocks` | `parseBlocks`, `parseList`, `parseParagraph`, ..., reference definitions | `frames` is the call stack of the two mutually recursive loops; a step is a turn of either |
| `Registry` | `extension/extension.go` | registrations by direct calls and inside a call of `Freeze`, which may fail half way |
| `SourceLines` | `scanLines`, `stripLineContainer`, `lineSourceOffset` of `block.go`, `inlineInput` of `inline.go`, `Position` of `ast/document.go` | pure operators: which byte of the source each logical byte of a line or an inline text comes from |
| `ExtensionDispatch` | `parser/extension.go`, with the heads of both loops | extends `Registry`: a parser made from the frozen `Set` asks its hooks; a handler may decline, fail, or hand back any node with any length and offset |
| `TraceLog` | what a shared sink promises | one log, numbers of each parse ascending, copies of the whole log: the abstract specification of the sink in `Parsing` |
| `Parsing` | `parser.go`, `state.go`, the sinks | several calls and readers, step by step through checks, loops, `emit`, the mutex, append |
| `DocumentTree` | what renderers read: text, breaks and code the block parser leaves (`parseFence`, `atxHeading`, `appendSource`) | operators on the finished tree of `Blocks` |
| `MarkdownRenderer` | the block level of `renderer/markdown/markdown.go` | recursive operators; the output is a source of `Blocks` |
| `PlainTextRenderer`, `HtmlRenderer` | `renderer/plaintext/plaintext.go`, the blocks of `renderer/html/html.go` | recursive operators; the output is a sequence of tags and characters |
| `Normalization` | parse, render as Markdown, parse again | extends `Blocks` by one action, which makes the output the source and keeps what the first parse rendered to |
| `Disk` | files, names and renaming, as the tools use them | names and contents are apart, so a file that lost its name is still read by whoever opened it |
| `FixtureStore` | what specsync promises of its fixtures | copies replaced as a whole by what is pinned: the abstract specification of `Specsync` |
| `Specsync` | `internal/specsync/main.go` | one step per request, comparison, opening, write, close and rename; a step that fails or a kill ends the process, and it is run again |
| `Commands` | `cmd/markonward/main.go` | `convert` and `explain` as processes beside `Specsync`, one step per call that touches a file or decides the exit code |
| `ArenaProofs` | | theorems and proofs about `Arena`, and about `ArenaTree`: the refinement and `Walk` |
| `InlineProofs` | | the same about `Emphasis`, `EmphasisLookup` and `InlineRange`, which takes up their plans |
| `BlocksProofs`, `ParsingProofs`, `CommandsProofs` | | theorems and proofs about the module of that name |
| `DispatchProofs` | | the same about `Registry`, and about `ExtensionDispatch` with `SourceLines` |
| `MaximalProofs` | | theorems about `Blocks` on top of `BlocksProofs`: how far paragraphs and lists go, and that parsing ends |
| `Counting` | | lemmas the proofs share: strong induction over a set of numbers, a largest number, totals of a sequence, ranks in a total order |
| `MC*` | | the instances of the runs |

`Emphasis` is composed into `InlineRange` (the inline parser runs the planner
for each range and keeps the plan in its frame). `ParserNext` of `Arena` is what
`Blocks` and `InlineRange` do with the builder: a node is added and appended in one go
(`AddUnder`), below any node there is by then. That the parent is therefore older is
what `RootedTree` and its theorem conclude, not a guard. `BuilderRuns` of `ArenaTree` has a
`caller`, which is the parser or an extension with the whole interface.

`ExtensionDispatch` is composed of `Registry` (its variables and actions are part of
the state machine; `FreezeReturns` seals the `Set` whose entries are the hooks) and
`SourceLines`. Its documents hold only quotes, paragraphs and indented code, since
what else a line may begin is the business of `Blocks`; what a hook may see and
take depends on lines, offsets and order, and these are complete.

`Normalization` is composed of `Blocks` and the three renderers: the parser runs, the
tree is rendered three ways, the Markdown is parsed by the same actions, and both
parses are compared. `Commands` is composed of `Specsync` and `Disk`: all programs
step on one disk in any order.

Some definitions are followed or preceded by one marked *slip*: the same
definition with one plausible mistake in it. No specification uses them; they
show that a property depends on the line in question.

### How data is abstracted

- A character is its class. A line of the block model has one character per
  column, a whole reference definition or HTML tag counts as one. `Blocks` has no
  tabs; `SourceLines` has them, with the line endings, as bytes of a source.
- Inline text distinguishes `*`, `_`, `~`, backtick, backslash, brackets, `!`,
  space, line ending, other punctuation and letters. Entities, angle spans,
  autolinks and parenthesised link targets are left out; links are reference
  links, and a constant says whether the labels are defined.
- Registrations carry numbers for IDs and phases; bytes are a constant set;
  `strings.TrimSpace` is a constant function, so that two IDs may fall together.
- The renderers see inline text as lines of characters of which only those keep a
  meaning that mean something at the head of a line (space, `=`, tags); what is
  escaped is one plain character. Inline formatting is left out, and with it the
  choice of delimiters that makes up most of the Markdown renderer. Numbers of an
  ordered list after the first are one number.
- A content of `Disk` is a sequence of parts, as large as one read or write.
- Inputs of `Parsing` are sizes. A turn of a loop is the list of the levels of
  the events it emits.

## 3. Runs

| Run | Question | Bounds, and why they are enough |
|---|---|---|
| `ArenaLinks` | Do the links stay doubly linked child lists under the whole builder interface, do they implement `Tree`, does `Walk` give document order? Is what the parser builds one tree, all of which `Walk` enters and leaves? | 4 nodes, which makes a first, a middle, a last and an only child, and moves within a list and between lists; every tree of up to 4 nodes the parser can build: 27 600 states |
| `Emphasis` | Is the plan sound and complete, does planning end, and which pairs does the lookup find? | every text of `*`, a letter and punctuation up to 9 characters; of `*`, `_`, letter, space up to 7; 3 to 8 emphases side by side or in one another; the array holds 2 pairs instead of 8, so plans overflow, fill the emptied array again and go on to the slice |
| `EmphasisLost` | *violated*: is every pair of the plan found? | ten emphasized words, the array of 8 the code has |
| `EmphasisOverlap` | *violated*: do planned spans never overlap? | `*` and a letter up to 8 |
| `Inline` | Is no byte lost or doubled, are nodes inside one another as in the source, are traces and recoveries ordered, policies honoured, is there progress? | four alphabets of 3 to 5 characters, texts up to 5 or 8, each with the profiles and policies that change what it does: 877 000 states |
| `Blocks` | Does each line go to one place, are blocks as large as they should be, is looseness found, is there progress? Is the normalized document its own normal form, and does it say what the first one said, as plain text and as HTML? | five families of lines (quotes and what follows them, lists, items that begin empty with text or another marker behind a blank line, leaves of every kind with tables on and off, shapes that are rewritten), 3 to 5 lines; documents of up to three lines (`MostLines`) are normalized and parsed again, which nests two containers around a leaf or sets two lists side by side: 687 000 states |
| `BlockItemCut` | *violated*: does an item take every line that is indented as its content is? | 4 lines |
| `NormalizedTwice` | *violated*: is every normalized document its own normal form? | 2 lines |
| `Dispatch` | Do accepted registrations never conflict, is dispatch determined, are offsets true, do hooks get and take only what is theirs? | 10 registrations, of which each exercises another reason of acceptance or refusal, in every order, with `Freeze` calls that fail or go on; parsers of any of 4 hooks over 9 documents with both line endings, blanks, tabs and nested quotes, and without lazy lines at any depth (`LazyFree`): 115 000 states |
| `TabStops` | *violated*: is indentation measured in the columns a reader sees? | one document, `>>`, a tab, two spaces, a letter |
| `Parsing` | Is the shared sink one log, is nothing lost, are copies whole, does nothing follow a torn JSON line, is the mutex released, is cancellation obeyed, does every call return? | two calls with different trace and filter levels, one reader, each kind of sink, inputs of 0 to 3 bytes around a limit of 2, one event per turn; any write may fail and leave nothing or the beginning of a line, any turn of either loop may fail: 254 000 states |
| `Tools` | Are fixtures replaced as a whole, do readers get one version, do outputs and exit codes tell the truth, does running specsync again heal everything? | two fixtures of two parts, one `convert` that reads a fixture or works in place, one `explain` that reads the other fixture; three states of the disk at the start (complete, with leftovers, a fresh clone); two faults (`MaxFaults`) in any program, enough for a failed run whose repetition fails as well: 698 000 states |

Deadlock checking is on for `Inline`, `Blocks`, `Parsing`, `Tools` and their violation
runs where it can be: the specification of the run adds a `Stopped` step that is
allowed only when everything is done, so that stopping anywhere else is a
deadlock. It is off for the arena, the planner and the extensions, which rest
when nobody calls them, when planning is over or when a parse has ended.

### Termination and fairness

That both parsers end is shown without fairness. `InlineMakesProgress` and
`EveryTurnMakesProgress` say that every step decreases a natural number computed
from the state (bytes not walked, frames, what is left to plan; or characters
and line endings not handed on), and deadlock checking says that nothing stops
before the end. For `Emphasis` the property is `<>Planned` under weak fairness of
its only process, a sequential loop.

`Parsing` and `Commands` are the concurrent parts. `FairCalls` assumes that a goroutine that
can run does (weak fairness of each call that has started, and of a reader in
the sink) and strong fairness of acquiring the mutex: a Go mutex hands itself
over to a waiter that has waited for a millisecond. Nothing is assumed about
starting a call or cancelling one. `FairTools` assumes that specsync gets on when it
runs and that somebody runs it again after a run that failed; faults are bounded, so
one run finally meets none. Nothing is assumed about the commands: `RetryHeals` holds
whether they end or not.

## 4. What TLC found

Each of these is a run that is expected to violate its property.

1. `TabStops`: the GFM specification (`testdata/spec/gfm-0.29.0.gfm.0.txt:359`) measures
   tabs in columns of the line. `parser/block.go:565` starts counting at what the outer
   container left of it. Behind two quote marks a tab, two spaces and a letter
   become indented code where they are a paragraph.
2. `EmphasisOverlap`: a run that has closed emphasis and then opens some takes
   its opening characters from the place they would have had if nothing had
   been closed: `parser/emphasis.go:88` does not add `opener.closed`. Spans
   overlap. `SpansNestUnlessReopened` shows that this is the only way they do.
3. `EmphasisLost`: `add` sets the count of the array back to 0 when the ninth pair moves the
   plan to the slice (`parser/emphasis.go:115`), so the tenth to the seventeenth pair go
   into the array again, where `openerAt` no longer looks. The tenth emphasized word of a
   paragraph keeps its stars. `LookupLosesOnlyTheRefilled` shows that no other pair is lost.
4. `BlockItemCut`: `parseList` never resets `itemInitiallyEmpty` (`parser/block.go:385`). Of `-`, `  a`, a
   blank line and `  a`, the second paragraph is not in the item.
5. `NormalizedTwice`: `parser/fuzz_test.go:237` demands that normalization does not
   change on the second pass. A line of text followed by four spaces and an equals sign
   is one paragraph; `escapeText` (`renderer/markdown/markdown.go:2569`) does not escape
   `=`, the indentation is gone, and the second pass reads a heading.

Known limits and deviations from the GFM specification that are modelled as the
code has them and have no run:

- *Cycles.* `Validate` follows no chain of parents: two detached nodes appended to
  each other are accepted, and so is a root that an extension hands back and
  `attachExtensionNode` hangs below the node it was parsing
  (`parser/extension.go:143`, which appends any node without a parent). A parse
  without extensions cannot do it (`RootedTree`, `ParserBuildsTrees`), because each of its
  nodes is appended in the same go it is added.
- *What inline hooks can take.* `validateInlineExtensionConsumption` demands bytes
  that are contiguous in the source, so no inline hook can take a CRLF line
  ending or a line break before indentation that was trimmed.
- *Rule of three* (`parser/emphasis.go:158`): the sum is taken of what is left of two
  runs, not of their lengths. In `****a*b**c` the run of four has three left
  when `**` asks, 3 + 2 is accepted, while 4 + 2 would be refused.
- *Quote marks behind a tab* (`parser/block.go:759`): a quote mark may have up to three
  spaces before it (`testdata/spec/gfm-0.29.0.gfm.0.txt:3540`), but a line that begins with a tab
  and a mark is stripped like a quote instead of being indented code. The columns of the
  tab that are left become blanks no byte of the source stands for;
  `OffsetsFollowTheSource` excepts these lines (`TabbedMark`).
- *Lazy lines* (`parser/block.go:96`): an unmarked line may join a quote though its
  last line is a setext underline, and an item takes unindented lines behind a
  heading or an empty first line; the line then begins a paragraph there
  instead of continuing one. For this reason there is no property that a lazy
  line always continues a paragraph.
- *Looseness* (`parser/block.go:371` to `:397`): a blank line inside a nested list
  makes the outer list loose as well, so a property gives looseness only its
  lower bound, `LooseIsNeverMissed`. It excepts one case by name (`Forgotten`): the blank line in front of a
  marker that is indented as far as an empty item's content (`-`, blank line, `  - a`) is
  dropped by the check of finding 4, `parser/block.go:385`, and the list is found tight where
  the specification (`testdata/spec/gfm-0.29.0.gfm.0.txt:5166`) calls it loose.
- *What interrupts a paragraph* (`parser/block.go:840`): `ParagraphsAreMaximal` tells it by kind, by the
  condition HTML begins by and by the number of a list. The code lets two more things through. A
  `>` behind four or more columns (`:853`) ends the paragraph and becomes indented code, which
  `testdata/spec/gfm-0.29.0.gfm.0.txt:1523` forbids; the property excepts it by the block's first
  character. A bullet with more than four spaces and nothing else behind it is
  taken for an item that is not empty (`:851`, against line 4568 of the specification), since its content
  is then taken to start one space behind the marker; whether an item was empty does
  not show on the list, so the property does not ask.
- *Unclosed link labels* (`parser/inline.go:606`): `parseLink` asks for the policy of images whether it
  parses an image or a link, so a link label is not refused when `Link` is `Error` (`docs/enhancemark.md:51`).
  `DelimitersHonourPolicy` is about all other kinds.
- *Torn lines* (`trace/text.go:62`): when a write fails after some bytes, a Text sink writes its next
  event behind them. A JSON sink writes no more, since its encoder keeps its first error
  (`JSONLinesStayWhole`), so every later `Record` fails even if the writer has recovered.
- *The largest limit* (`parser/parser.go:102`): `ParseReader` reads up to `limit + 1` bytes.
  With the largest 64-bit limit the sum wraps, `io.LimitReader` reads nothing, and an
  empty document is parsed. `WithMaxInputBytes` admits that limit. `NoInputIsCut` assumes a
  smaller one and the run `Parsing` takes one, so `InputIsWhole` says nothing about it.
- *Normal forms.* `NormalizedOnce` excepts the documents `Misread` names, which change again
  when they are normalized a second time. Besides finding 5 these are: a
  continuation line behind four columns, or a block tag in text, written raw; a heading
  whose only break is a hard one, which is written over two lines
  (`renderer/markdown/markdown.go:136`); blank lines in the code of an item, which
  keep their indentation (`parser/block.go:379`); raw HTML with leading spaces
  right behind a list marker.
- *What normalization may change.* `MeaningSurvives` allows for what the renderer drops or
  adds by design or by omission: an empty fence gains a line, HTML blocks lose
  spaces, reference definitions go, looseness may change either way. An ordered
  list starting at 999999999 is numbered into ten digits
  (`renderer/markdown/markdown.go:2414`), which `parser/block.go:788` no longer reads as a
  marker; numbers are abstracted, so no run shows it.
- *One temporary name* (`internal/specsync/main.go:79`): two specsync processes at the same time
  write to one `.tmp` file. `Specsync` is one process that may be killed and run again.
- *A dropped error* (`cmd/markonward/main.go:205`): the error of closing the output is
  ignored, so the command may exit with 0 over an incomplete file. `ExitCodeIsTrue`
  excepts exactly this, by `closed`, and so does not cover it.

## 5. Proofs

TLAPS checks these for all values of the constants, from the named assumptions
of the modules only, which TLC evaluates on the runs. In short:

| Theorem | Property | For all |
|---|---|---|
| `ArenaLinked`, `BuildAlwaysValid` | `LinkInv`, `BuildNeverFails` | arenas and builder calls |
| `BuilderIsATree` | `ImplementsTree`, a refinement of `Tree` | the same |
| `WalkIsInOrder` | `WalkIsNested` | documents a builder may build |
| `ParserBuildsTrees` | `ParsedIsRooted` | parses without extensions |
| `PlanDoesNotCross`, `NothingIsSpentTwice`, `OnePassIsEnough`, `SpansNestByteForByte` | `PairsDoNotCross`, `CharactersConserved`, `NothingLeftToPair`, `SpansNestUnlessReopened` | sequences of delimiter runs |
| `LookupIsKnown` | `LookupLosesOnlyTheRefilled` | plans and capacities of the array |
| `InlineIsToldInsideOut`, `PoliciesAreHonoured` | `ToldInsideOut`, `DelimitersHonourPolicy` | paragraphs and policies |
| `ChildrenFollowTheSource`, `BytesAreKept`, `InlineParsingEnds` | `ChildrenInSourceOrder`, `EveryByteOnce`, `InlineMakesProgress` | the same |
| `BlocksInvariant`, `LinesAreUsedOnce`, `BlocksStayInOrder`, `FirstIsTheReference` | `BlocksInv`, `EveryLineOnce`, `BlocksInSourceOrder`, `FirstDefinitionWins` | documents, however deep |
| `MaximalInvariant`, `ParagraphsGoOn`, `ListsGoOn`, `EveryTurnShrinks` | `MaximalInv`, `ParagraphsAreMaximal`, `ListsAreMaximal`, `EveryTurnMakesProgress` | the same |
| `RegistryNeverConflicts`, `DispatchHasOneOrder` | `NoConflicts`, `DispatchIsDetermined` | registrations and their orders |
| `PositionsAgree`, `OffsetsFollow`, `HooksShare` | `PositionsAgreeWithLines`, `OffsetsFollowTheSource`, `HooksTakeTheirShare` | sources, however deep their quotes, and hooks |
| `MutexHasAnOwner`, `NoInputIsCut`, `CancellationEndsTracing`, `SinksLoseNothing`, `TornLineIsTheLast` | `LockHasAnOwner`, `InputIsWhole`, `CancelEndsTracing`, `NoEventIsLost`, `JSONLinesStayWhole` | numbers of parses and readers |
| `SinkIsALog` | `SharedSinkIsALog`, a refinement of `TraceLog` | the same |
| `ToolsInvariant`, `FixturesAreReplacedWhole`, `FixturesAreReadWhole` | `FixturesReplacedWhole` (a refinement of `FixtureStore`), `ReadsAreWhole` | numbers of fixtures, commands, faults, restarts |
| `OutputsAreOldOrBegun`, `ExitCodesAreTrue` | `OutputOldOrBegun`, `ExitCodeIsTrue` | the same |

**Arena** (`ArenaProofs`, from `ArenaAssumption`: at least one node, a source length, a name
for unallocated records that is no kind). `LinkInv` is inductive only together with
`TypeOK` and with the root's kind; `IInv` adds `SiblingsFinite`, a numbering of the nodes
that grows along every child list, from which a list cannot run into itself.
`DetachLinked` and `AppendLinked` show that the two rewritings keep the links of
arbitrary link records; `AppendChild` is one behind the other. For `ParserBuildsTrees`, `AddedUnder` shows that `AddUnder` is `Add` and then `Appended`, each of which
keeps `IInv`, and what it does to the new node's parent and left sibling; `RootedTree` is then
inductive beside `IInv`: the parent was there before the node, and so was the last child of it.

For `BuilderIsATree` the child lists are read off the links by a recursive function.
Under `IInv` it has one value: a list that starts at the first child and follows the siblings is
ranked by `SiblingsFinite`, so it ends, repeats nothing, and two such lists are the same. Then
each rewriting of links is a step of `Tree` on the lists read off: taking a child out is taking it out of its
list, appending is appending. `WalkIsInOrder` unrolls `Walk` into turns of its
stack. `Fresh` says of a state of `Walk` that what waits on the stack and what
has been entered do not overlap, so at most two turns fall to each node and the bound `2 * MaxNodes` of
the model is never what stops it. That what `Walk` tells of a node is nested is an
induction from the deepest nodes up: children are told one behind the other between
the node's own two calls (`Nested`).

**Emphasis** (`InlineProofs`, from `EmphasisAssumption`: inputs are sequences of runs, each
behind the one before). `PairsDoNotCross` alone is not inductive, since a later closer
might take an opener between an older pair; `NothingLeftInside` excludes that (what is
struck out has nothing left), and `Ordered` says that no pair closes behind the current
closer. `PlanInv` adds what the other theorems need: characters are conserved,
closers left behind found no opener (`Settled`), and each pair lies where its
two runs had characters left (`Placed`, `Sequenced`). What a run gave away as an opener is
a sum over the pairs; `IsTotal` characterizes it by its partial sums, so that
no recursive operator is needed. `LookupIsKnown` says exactly
what the lookup finds, the pairs it loses included (finding 3). `KeptKeeps` shows by induction over the plan which
pairs `add` leaves in the array and which in the slice, `SortingSorts` that ranks by the order of the
pairs sort the slice, `LowerBoundCuts` that bisection finds the one place where a sorted slice is cut.

**Inline loop** (`InlineProofs`, from `InlineAssumption` as well: paragraphs are sequences
of the classes of characters). The loop asks the plan through `OpenerAt`, so the theorems hold with the
pairs that lookup loses: what it does find is a pair of the plan (`FoundIsPlanned`), and a
delimiter whose pair is lost is searched or falls to its policy like any other. Three invariants, one on top of the other.

- `TellInv`: the nodes the trace has not told of are exactly those of the active ranges, each range but
  the last being the parent's. What a return tells is therefore told behind all its
  inside, once; diagnostics follow the same order. `PoliciesAreHonoured` needs
  only what each way of meeting an unclosed construct does next.
- `Bytes`: the parts of the active ranges not yet walked lie one behind the other, each node
  holds bytes that no other node and no such part has, and what neither
  has is a byte that may be dropped (`Laid`, `Held`). A turn adds leaves that tile what it walked
  (`Tiles`), or a node whose inside becomes a range. A plan fits its range (`Fits`): its pairs
  are distinct, lie inside the range and nest; this follows from `PlanInv` when planning is done, and
  is handed down to the ranges inside a pair. The scans of `Delimiters` and `FindClosing` call themselves;
  `IsFixed` unrolls such a scan once, and what it returns is bounded by induction on a set
  of positions.
- Progress: a turn walks a byte at least, and a byte weighs `2 * End + 4`: more than the range a
  turn may open, with its return and its plan. What there is to plan in a range is less than
  twice its bytes (`RunsAreFew`); a round of planning shortens a run or leaves a closer behind
  (`PlanningShrinks`), and a return drops a range.

**Blocks** (`BlocksProofs`, from `DocumentsAssumption`: documents are sequences of lines of
characters). The two mutually recursive loops copy lines, strip them and hand them to
calls of their own, and yet one number, `NextLine`, says which line is the first that
nobody has taken: the frame on top of the stack determines it, and opening or closing
a container leaves it where it is. `BlocksInv` consists of five parts. `FramesFit`: the
lines of a frame are numbered without a gap, and each frame stands where its caller goes
on. `TreeFits`: each block lies inside its parent and behind the blocks before it, and
the nodes of the frames are where they are. `LinesDivided`: the lines before `NextLine` are
divided among leaves, definitions and blank lines, and none behind it is taken.
`FirstIsKept`: a label that is defined refers to its first definition. `QueueInOrder`: text waits for
the inline parser in the order of the source. Each of the fifteen actions is shown to be a turn that makes a
leaf (`TakesLeaf`), one that takes a line without one, one that hands lines over (`HandsOver`), or one that
opens or ends a loop, and for each of these turns one lemma shows that `BlocksInv` stays. `AncestorsOf` is a recursive function;
`ChainExists` shows by induction over a set that it has the value its
equation gives it. `BlocksInv` was checked by TLC on the run `Blocks` before it was proved.

That paragraphs and lists go on as far as they can (`MaximalProofs`) is not inductive in terms of
the blocks: whether the last block of a call was ended too early depends on the line the call is at, with
the markers of all containers off. `MaximalInv` says so for every call on the stack. No paragraph a call has
made can take its line (`TextEnded`), nor can the list it has made last, unless a definition has come
behind it (`ListEnded`); the caller of a list under way is excused until the list returns, and the list
itself stands at an item of its kind, or behind an item at a line that is not blank (`ListOpen`): the scan of
`parseList` runs over blank lines, which `ItemEndsAtText` proves of the recursive function `ItemAfter`.
Then a new block fits behind the one before it (`Fits`, `MaximalGrows`). `Deeper` (each call works
on a younger block than its caller) is what keeps calls from disturbing each other's blocks (`LowerKept`).
The kinds of characters do matter here, in two places: what may interrupt a paragraph begins a block of its own, and each way a block
begins tells which block it may be, `MayInterrupt`
(`InterruptersBegin`), and a list marker is not a blank line (`MarkerIsNotBlank`). `MaximalInv`, too, was
checked by TLC on the instance of the run `Blocks` first.

`EveryTurnShrinks` is about sums over the lines of all calls. A call has four to do for each character and each
line ending it has not handed on and one for its return; a call whose list is under way has only the return, for
its lines are the list's until that returns. Of the lines handed to a container none is longer than it was and
the first is shorter by its marker, which makes up for the call that takes them.

**Registry** (`DispatchProofs`, from `RegistryAssumption`). The property speaks of the bytes
that trigger an entry, the guard of `Register` of overlapping lists; the lemma
`AppendKeepsNoConflicts` relates the two. `DispatchInv` adds that the frozen set is the sorted entries
(`SetIsSorted`); since IDs differ, the order of dispatch is total, and a sequence sorted
by a total order is unique.

**Lines and offsets** (`DispatchProofs`, from `DispatchAssumption` as well: sources are sequences of strings, one
for each byte). What `PositionsAgree` has to relate are two enumerations of almost the same set, the starts of the
lines and the places behind line endings: the second has one place more, the end of a source that ends with a
line ending. Rising sequences that hold the same numbers up to an offset agree as far (`RisingAgree`). The
bisection, a recursive function of its two bounds, is shown by induction on their distance to return the first place
behind the offset (`SearchFinds`), so both find the line with the last start that is not behind the offset.

For `OffsetsFollow` the property itself is not inductive, since it does not say which byte comes next. `LineFollows`
does: a line is a head of blanks, left over from tabs, and behind it the rest of the source's line byte for byte,
its map rising by one. `StrippedLineFollows` shows that taking off a quote mark keeps this form, whatever columns are left over: what
is put in front is blank, and what is copied is a suffix. `StackInv` says so of the lines of all frames; a hook
takes lines of the innermost frame or none, and changes no line.

`HooksShare` stands on `StackInv` as well. While blocks are parsed, all that hooks and paragraphs have taken lies before every line that is
left in any frame (`Ahead`), since what is left of a frame lies behind the lines of the frames inside it
(`Behind`); so whatever is taken next lies behind it. While text is parsed the same is said of the rest of the text: an inline
hook's bytes lie before the offset of every byte not yet walked (`Unread`). For this the offsets of a text have to rise with
its bytes, across the pieces it was joined from as well (`JoinedIs`, `InputIs`), and the spans of a paragraph have to lie apart, which
follows from `StackInv` (`ParagraphIs`). A byte a hook takes agrees with the source by the check of its consumption; if the
byte is not in a span it is then one of the line endings the text was joined with.

**Pipeline and sinks** (`ParsingProofs`, from `ParsingAssumption`). The theorems speak of
different state, and each has an inductive invariant of its own: `LockInv`; `InputInv`;
`TornInv`, by which a JSON sink that has left a torn line is broken, and nobody stores in
a broken one; `CancelInv`, which counts for every place of the program what may still be recorded from
there; `LogInv`, which says for every place whether the latest number is in the sink or
still in a call's hands, and that what was read of the sink inside the mutex is still what it holds. From
`LogInv` every step of the pipeline is a step of `TraceLog` or leaves it alone.
`NoInputIsCut` assumes a limit below the largest integer (see section 4).

**Tools** (`CommandsProofs`, from the assumptions of `Disk`, `Specsync` and
`Commands`). Every step of any program, a failing, killed or repeated specsync included, is a
step or a stutter of `FixtureStore`. `ToolsInv` has three parts: names lead to
different files (`DiskInv`); behind verification the payload is what is pinned, and the
temporary file holds as much of it as was written (`SyncInv`); no command has a file open for
writing that one of specsync's names leads to (`OutputsApart`), without which a command could
write into what is about to be renamed. `ReadersInv`, inductive only beside `ToolsInv`, says of a
fixture that was opened: its file may keep the fixture's name or lose it to a rename, but no
other name and no command's output leads to it (`WasFixture`), so nobody writes to it
again. `OutputsInv` says of every command whether its output is what it was, or the file it
has in its hands holds a prefix of what it renders (`Begun`), and what an exit code of it
stands for (`Accounted`). The two theorems over it have one hypothesis, `RendersContents`: what a
command renders from a content is a content; the instance of `MCTools` is chosen so that it holds.

The type invariants of `Arena` and of the emphasis planner are parts of these
inductive invariants and have no run of their own. Nor have `BuildNeverFails`, `CharactersConserved`
and `PositionsAgreeWithLines`, which follow for all values from what is proved of them.

Only model-checked:

- liveness under fairness (`PlanningEnds`, `CallsReturn`, `RetryHeals`), which the prover
  does not reach; that planning and both loops of parsing make progress with each step is proved;
- `NormalizedOnce` and `MeaningSurvives`: the renderers are recursive operators, in whose
  modules the prover has no arithmetic, and what they compute for every tree is induction over data;
- `LooseIsNeverMissed` of `Blocks`: looseness is found by comparing lines before the item is parsed with
  blocks that exist only behind it, and an invariant that relates the two is not worked out;
- `WholeTreeIsWalked`: `WalkIsInOrder` proves the order for every document, that each node is met exactly once
  is checked over every tree of four nodes.

## 6. Not modelled

- Text: the wording of diagnostics and trace lines, entity names, URL
  normalisation, table cells, task markers, attributes. They are functions of
  their input without interaction, and the repository's conformance tests reach
  them.
- Of the renderers, inline formatting: which delimiters the Markdown renderer writes
  around nested emphasis, what it escapes between words, links, images and code
  spans, tables' cells. The choice depends on neighbouring characters of any depth,
  and a model of it would repeat the code. Also left out are nodes of extensions
  (a map from IDs to what `Registry` returns; that IDs are unique is `NoConflicts`) and
  writers that fail: the renderers return the first error and write no more.
- Of the command line, standard input and output in place of files, the order of
  arguments, and what is printed on the error stream.
- `sync.Once` around the line index is taken for what it promises.
- `benchgate`, scripts, benchmarks, workflows: outside the program, each a single pass over
  files.
- Concurrency inside one parse: there is none. A call cancelled in its last phase,
  which asks the context no more, may return either way in the model.

## 7. Plan

Order of the work, most important first; the first eleven are done.

1. `Arena`, `Tree`, `ArenaTree`, proofs of the links.
2. `Emphasis`, `EmphasisLookup`, proof that pairs do not cross.
3. `Delimiters`, `InlineRange`.
4. `Lines`, `Blocks`.
5. `Registry`, proof that entries do not conflict.
6. `Parsing`, `TraceLog`.
7. `SourceLines`: source offsets of stripped lines and joined texts, and `Position`
   against a reference definition.
8. `ExtensionDispatch`: the hooks at the head of both loops, the checks of what
   they consumed, attachment and its refusals, composed with `Registry`.
9. `Commands`: `explain` truncates its output file before it looks at the format,
   `convert` does not; opening, parsing, writing and closing in order.
10. `Specsync`, `Disk`, `FixtureStore`: download, verification, temporary file and rename, with
    crashes and repetitions, beside commands that read the fixtures.
11. `MarkdownRenderer`, `PlainTextRenderer`, `HtmlRenderer`, `Normalization`: the block level of
    the round trip.
12. Writers that fail: balance of tags in what the HTML renderer has written.
13. The inline level of the Markdown renderer: delimiters beside each other.

All theorems planned are proved; of the safety properties of the runs, those named at the end of section 5 have none.
