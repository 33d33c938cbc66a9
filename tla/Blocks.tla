-------------------------------- MODULE Blocks --------------------------------
(***************************************************************************)
(* The block parser (parser/block.go): parseBlocks walks the lines of a    *)
(* container, makes a node of what begins at each line and parses what a   *)
(* quote or a list item holds by calling itself on the lines with their    *)
(* markers taken off.  parseList is a loop of its own around such calls.   *)
(* The call stack is the sequence frames; one step is one turn of either   *)
(* loop.                                                                   *)
(*                                                                         *)
(* A node keeps the lines its span runs over, by number, the lines it is   *)
(* made of itself (own) and what its container leaves of those (text).     *)
(* Extension blocks, task markers and definitions longer than a line are   *)
(* not modelled here.                                                      *)
(***************************************************************************)
EXTENDS Lines, Functions

CONSTANTS Documents,   \* the documents to parse: sequences of line contents
          Profiles     \* whether the profile has tables

ASSUME DocumentsAssumption == Documents \subseteq Seq(Seq(Characters))

VARIABLES
  source, tables,
  frames,      \* active calls of parseBlocks and parseList, innermost last
  nodes,       \* blocks in the order of Builder.Add
  inlines,     \* parseState.inlines: the nodes that wait for inline parsing
  references,  \* parseState.references: line of the definition, 0 for none
  defined,     \* the lines taken as reference definitions, with their container
  skipped      \* lines passed over as blank

blockVars == <<source, tables, frames, nodes, inlines, references, defined, skipped>>

Line(number, content, lazy) == [number |-> number, content |-> content, lazy |-> lazy]
Scanned(document) == [n \in 1 .. Len(document) |-> Line(n, document[n], FALSE)]

BlocksFrame(node, lines) ==
  [loop |-> "blocks", node |-> node, lines |-> lines, at |-> 1,
   first |-> NoMarker, loose |-> FALSE, item |-> 0]

BlockInit ==
  /\ source \in Documents
  /\ tables \in Profiles
  /\ frames = <<BlocksFrame(0, Scanned(source))>>
  /\ nodes = <<>>
  /\ inlines = <<>>
  /\ references = 0
  /\ defined = {}
  /\ skipped = {}

Top     == frames[Len(frames)]
Rest    == Top.lines
Lookup(n) == Rest[n].content
Here    == Lookup(Top.at)
Parsing == frames # <<>> /\ Top.loop = "blocks" /\ Top.at <= Len(Rest)
NewNode == Len(nodes) + 1

(* A block over the lines from .. to of the frame, with the lines it owns. *)
(* edges: its span begins or ends at the content of its one line rather    *)
(* than at the ends of the line.                                           *)
BlockOver(kind, from, to, own) ==
  [kind |-> kind, parent |-> Top.node, from |-> Rest[from].number, to |-> Rest[to].number,
   own |-> {Rest[n].number : n \in own},
   text |-> [n \in 1 .. Cardinality(own) |-> Lookup(from + n - 1)],
   inset |-> Len(source[Rest[from].number]) - Len(Lookup(from)),
   marker |-> NoMarker.delimiter, start |-> NoMarker.number, tight |-> FALSE]

MoveTo(at) == frames' = [frames EXCEPT ![Len(frames)].at = at]

(* A leaf over the lines from Top.at up to and without at. *)
Leaf(kind, at, queued) ==
  /\ nodes' = Append(nodes, BlockOver(kind, Top.at, at - 1, Top.at .. at - 1))
  /\ inlines' = IF queued THEN Append(inlines, NewNode) ELSE inlines
  /\ MoveTo(at)
  /\ UNCHANGED <<source, tables, references, defined, skipped>>

(* The lines from n on; the first of some lines, or the one behind the last. *)
From(n)  == n .. Len(Rest)
First(S) == Min(S \cup {Len(Rest) + 1})
-----------------------------------------------------------------------------
(* What begins at the current line: the first that fits, in the order      *)
(* parseBlocks asks.                                                       *)
Beginning ==
  IF Blank(Here) THEN "blank"
  ELSE IF Fence(Here) > 0 THEN "fence"
  ELSE IF Heading(Here) THEN "heading"
  ELSE IF ThematicBreak(Here) THEN "break"
  ELSE IF Quoted(Here) THEN "quote"
  ELSE IF IsMarker(ListMarker(Here)) THEN "list"
  ELSE IF ~Flush(Here) THEN "code"
  ELSE IF Html(Here, FALSE) # "none" THEN "html"
  ELSE IF Definition(Here) THEN "definition"
  ELSE "paragraph"

At(kind) == Parsing /\ Beginning = kind

SkipBlank ==
  /\ At("blank")
  /\ skipped' = skipped \cup {Rest[Top.at].number}
  /\ MoveTo(Top.at + 1)
  /\ UNCHANGED <<source, tables, nodes, inlines, references, defined>>

(* parseFence: up to the closing fence, or to the end of the container. *)
ParseFence ==
  /\ At("fence")
  /\ LET closing == First({n \in From(Top.at + 1) : ClosesFence(Lookup(n), Fence(Here))})
     IN  Leaf("fence", IF closing > Len(Rest) THEN closing ELSE closing + 1, FALSE)

ParseHeading == At("heading") /\ Leaf("heading", Top.at + 1, TRUE)

ParseBreak == At("break") /\ Leaf("break", Top.at + 1, FALSE)

(* Slip: the line that ends the code is passed over. *)
ParseIndentedCodeTooFar ==
  /\ At("code")
  /\ LET at == First({n \in From(Top.at) : ~Blank(Lookup(n)) /\ Flush(Lookup(n))})
     IN  /\ nodes' = Append(nodes, BlockOver("code", Top.at, at - 1, Top.at .. at - 1))
         /\ MoveTo(at + 1)
  /\ UNCHANGED <<source, tables, inlines, references, defined, skipped>>

(* Blank lines at its end are inside the span but not in the code, unless  *)
(* something is left of them when four columns are taken off.              *)
ParseIndentedCode ==
  /\ At("code")
  /\ LET at   == First({n \in From(Top.at) : ~Blank(Lookup(n)) /\ Flush(Lookup(n))})
         last == Max({n \in Top.at .. at - 1 : ~Blank(Lookup(n)) \/ Len(Lookup(n)) > 4})
     IN  /\ nodes' = Append(nodes, BlockOver("code", Top.at, at - 1, Top.at .. last))
         /\ skipped' = skipped \cup {Rest[n].number : n \in last + 1 .. at - 1}
         /\ MoveTo(at)
  /\ UNCHANGED <<source, tables, inlines, references, defined>>

ParseHtml ==
  /\ At("html")
  /\ LET rule   == Html(Here, FALSE)
         blank  == First({n \in From(Top.at + 1) : Blank(Lookup(n))})
         closer == First({n \in From(Top.at) : EndsHtml(Lookup(n), rule)})
     IN  Leaf("html", IF rule = "blank" THEN blank
                      ELSE IF closer > Len(Rest) THEN closer ELSE closer + 1, FALSE)

(* Slip: a later definition of a label replaces the first. *)
ParseDefinitionAgain ==
  /\ At("definition")
  /\ references' = Rest[Top.at].number
  /\ defined' = defined \cup {[line |-> Rest[Top.at].number, parent |-> Top.node]}
  /\ MoveTo(Top.at + 1)
  /\ UNCHANGED <<source, tables, nodes, inlines, skipped>>

(* The first definition of a label wins; the model has one label. *)
ParseDefinition ==
  /\ At("definition")
  /\ references' = IF references = 0 THEN Rest[Top.at].number ELSE references
  /\ defined' = defined \cup {[line |-> Rest[Top.at].number, parent |-> Top.node]}
  /\ MoveTo(Top.at + 1)
  /\ UNCHANGED <<source, tables, nodes, inlines, skipped>>

(* Slip: a lazy line ends the paragraph it continues.                      *)
ParagraphStopsLazily(n) ==
  Blank(Lookup(n)) \/ Rest[n].lazy \/ Underline(Lookup(n)) \/ StartsBlock(Lookup(n))

(* parseParagraph: where the text that starts here ends. *)
ParagraphStops(n) ==
  \/ Blank(Lookup(n))
  \/ /\ ~Rest[n].lazy
     /\ \/ Underline(Lookup(n))
        \/ tables /\ n = Top.at + 1 /\ TableStart(Here, Lookup(n))
        \/ StartsBlock(Lookup(n))
ParagraphEnd == First({n \in From(Top.at + 1) : ParagraphStops(n)})

Underlined == ParagraphEnd <= Len(Rest) /\ Underline(Lookup(ParagraphEnd))
HeadsTable ==
  /\ tables /\ ~Underlined
  /\ ParagraphEnd = Top.at + 1 /\ ParagraphEnd <= Len(Rest)
  /\ TableStart(Here, Lookup(ParagraphEnd))

ParseParagraph ==
  At("paragraph") /\ ~Underlined /\ ~HeadsTable /\ Leaf("paragraph", ParagraphEnd, TRUE)

ParseSetext == At("paragraph") /\ Underlined /\ Leaf("setext", ParagraphEnd + 1, TRUE)

(* parseTable: rows follow up to a blank line or a line that may begin a   *)
(* block.  Its rows and cells are one node here.                           *)
ParseTable ==
  /\ At("paragraph")
  /\ HeadsTable
  /\ Leaf("table", First({n \in From(Top.at + 2) : Blank(Lookup(n)) \/ StartsBlock(Lookup(n))}), TRUE)
-----------------------------------------------------------------------------
(* The lines of a quote: marked ones, and unmarked ones while the text so  *)
(* far lets them continue it.                                              *)
TakenByQuote(n) ==
  IF Quoted(Lookup(n)) THEN [Rest[n] EXCEPT !.content = StripQuote(Lookup(n))]
  ELSE [Rest[n] EXCEPT !.lazy = TRUE]

QuoteStops(n) ==
  LET contents == [k \in 1 .. n - Top.at |-> TakenByQuote(Top.at + k - 1).content]
  IN  /\ ~Quoted(Lookup(n))
      /\ Blank(Lookup(n)) \/ StartsBlock(Lookup(n)) \/ ~AllowsLazy(contents)

QuoteEnd   == First({n \in From(Top.at + 1) : QuoteStops(n)})
QuoteLines == [k \in 1 .. QuoteEnd - Top.at |-> TakenByQuote(Top.at + k - 1)]

(* Slip: the caller goes on at the quote's last line. *)
ParseQuoteAgain ==
  /\ At("quote")
  /\ nodes' = Append(nodes, BlockOver("quote", Top.at, QuoteEnd - 1, {}))
  /\ frames' = Append([frames EXCEPT ![Len(frames)].at = QuoteEnd - 1], BlocksFrame(NewNode, QuoteLines))
  /\ UNCHANGED <<source, tables, inlines, references, defined, skipped>>

ParseQuote ==
  /\ At("quote")
  /\ nodes' = Append(nodes, BlockOver("quote", Top.at, QuoteEnd - 1, {}))
  /\ frames' = Append([frames EXCEPT ![Len(frames)].at = QuoteEnd], BlocksFrame(NewNode, QuoteLines))
  /\ UNCHANGED <<source, tables, inlines, references, defined, skipped>>

(* The list node's span is its first line, and stays so. *)
OpenList ==
  /\ At("list")
  /\ nodes' = Append(nodes, [BlockOver("list", Top.at, Top.at, {})
                               EXCEPT !.marker = ListMarker(Here).delimiter,
                                      !.start = ListMarker(Here).number])
  /\ frames' = Append(frames,
       [loop |-> "list", node |-> NewNode, lines |-> Rest, at |-> Top.at,
        first |-> ListMarker(Here), loose |-> FALSE, item |-> 0])
  /\ UNCHANGED <<source, tables, inlines, references, defined, skipped>>

(* parseList's inner loop at a line behind an item's first: s says whether *)
(* the item goes on, whether a blank line waits, which fence is open and   *)
(* whether the list has been found loose.                                  *)
Inner(n, m) ==
  StripContainer(Lookup(n), 0, IF Indent(Lookup(n)) < m.width THEN Indent(Lookup(n)) ELSE m.width)

ItemTurn(n, m, empty, s) ==
  LET c      == Lookup(n)
      next   == ListMarker(c)
      indent == Indent(c)
  IN  IF IsMarker(next) /\ next.indent < m.width
      THEN [s EXCEPT !.more = FALSE, !.loose = @ \/ (SameList(next, Top.first) /\ s.pending)]
      ELSE IF Blank(c)
      THEN [s EXCEPT !.pending = @ \/ s.fence = 0]
      ELSE IF \/ s.pending /\ empty
              \/ indent < m.width /\ (s.pending \/ StartsBlock(c))
      THEN [s EXCEPT !.more = FALSE]
      ELSE [more |-> TRUE, pending |-> FALSE,
            loose |-> s.loose \/ (s.pending /\ indent <= m.width),
            fence |-> IF s.fence = 0 THEN Fence(Inner(n, m))
                      ELSE IF ClosesFence(Inner(n, m), s.fence) THEN 0 ELSE s.fence]

(* How far the item at the current line has got behind line n. *)
ItemMarker  == ListMarker(Here)
ItemContent == StripContainer(Here, ItemMarker.end, ItemMarker.width)
ItemAfter(line) ==
  LET after[n \in Top.at .. Len(Rest)] ==
        IF n = Top.at
        THEN [more |-> TRUE, pending |-> FALSE, loose |-> Top.loose, fence |-> Fence(ItemContent)]
        ELSE LET before == after[n - 1]
             IN  IF before.more THEN ItemTurn(n, ItemMarker, ItemContent = <<>>, before) ELSE before
  IN  after[line]

ItemEnd == First({n \in From(Top.at + 1) : ~ItemAfter(n).more})

TakenByItem(n) ==
  CASE n = Top.at -> [Rest[n] EXCEPT !.content = ItemContent]
    [] n > Top.at /\ Blank(Lookup(n)) -> Rest[n]
    [] OTHER -> [Rest[n] EXCEPT !.content = Inner(n, ItemMarker),
                                !.lazy = @ \/ Indent(Lookup(n)) < ItemMarker.width]

ItemLines == [k \in 1 .. ItemEnd - Top.at |-> TakenByItem(Top.at + k - 1)]

InList == frames # <<>> /\ Top.loop = "list"

(* Slip: a blank line ends the list. *)
ContinuesUntilBlank ==
  /\ Top.at <= Len(Rest)
  /\ IsMarker(ListMarker(Here)) /\ SameList(ListMarker(Here), Top.first)
  /\ Top.item = 0 \/ ~ThematicBreak(Here)
  /\ ~(Top.item # 0 /\ Blank(Lookup(Top.at - 1)))

(* A further item follows at the list's line. *)
Continues ==
  /\ Top.at <= Len(Rest)
  /\ Top.item = 0 \/ ~ThematicBreak(Here)
  /\ IsMarker(ListMarker(Here))
  /\ SameList(ListMarker(Here), Top.first)

ParseItem ==
  /\ InList
  /\ Continues
  /\ nodes' = Append(nodes, BlockOver("item", Top.at, ItemEnd - 1, {}))
  /\ frames' = Append([frames EXCEPT ![Len(frames)] =
                         [@ EXCEPT !.at = ItemEnd, !.item = NewNode,
                                   !.loose = ItemAfter(Len(Rest)).loose]],
                      BlocksFrame(NewNode, ItemLines))
  /\ UNCHANGED <<source, tables, inlines, references, defined, skipped>>

(* Slip: the caller of parseList goes on where the list began. *)
EndListAgain ==
  /\ InList
  /\ ~Continues
  /\ nodes' = [nodes EXCEPT ![Top.node].tight = ~Top.loose]
  /\ frames' = SubSeq(frames, 1, Len(frames) - 1)
  /\ UNCHANGED <<source, tables, inlines, references, defined, skipped>>

EndList ==
  /\ InList
  /\ ~Continues
  /\ nodes' = [nodes EXCEPT ![Top.node].tight = ~Top.loose]
  /\ frames' = [SubSeq(frames, 1, Len(frames) - 1) EXCEPT ![Len(frames) - 1].at = Top.at]
  /\ UNCHANGED <<source, tables, inlines, references, defined, skipped>>
-----------------------------------------------------------------------------
(* listItemIsLoose: between the spans of two neighbouring children lies    *)
(* nothing but space, with a line ending in it.  The spans of headings and *)
(* thematic breaks end before their line ending and begin behind the       *)
(* markers of their line; all other spans are of whole lines.              *)
AtContent(n) == nodes[n].kind \in {"heading", "break"}

BlankGap(l, r) ==
  LET between == nodes[l].to + 1 .. nodes[r].from - 1
      prefix  == SubSeq(source[nodes[r].from], 1, nodes[r].inset)
  IN  /\ AtContent(l) \/ between # {}
      /\ \A n \in between : Blank(source[n])
      /\ AtContent(r) => Blank(prefix)

ChildrenOf(id) == {n \in 1 .. Len(nodes) : nodes[n].parent = id}
Adjacent(l, r) ==
  l < r /\ nodes[l].parent = nodes[r].parent /\ ~\E n \in l + 1 .. r - 1 : nodes[n].parent = nodes[l].parent
ItemIsLoose(item) == \E l, r \in ChildrenOf(item) : Adjacent(l, r) /\ BlankGap(l, r)

(* Slip: only the last item says whether the list is loose. *)
EndBlocksForgets ==
  /\ frames # <<>>
  /\ Top.loop = "blocks"
  /\ Top.at > Len(Rest)
  /\ LET below == SubSeq(frames, 1, Len(frames) - 1)
     IN  frames' = IF below # <<>> /\ below[Len(below)].loop = "list"
                   THEN [below EXCEPT ![Len(below)].loose = ItemIsLoose(Top.node)]
                   ELSE below
  /\ UNCHANGED <<source, tables, nodes, inlines, references, defined, skipped>>

(* parseBlocks returns; parseList then looks at the item it has filled. *)
EndBlocks ==
  /\ frames # <<>>
  /\ Top.loop = "blocks"
  /\ Top.at > Len(Rest)
  /\ LET below == SubSeq(frames, 1, Len(frames) - 1)
         caller == below[Len(below)]
     IN  frames' = IF below # <<>> /\ caller.loop = "list"
                   THEN [below EXCEPT ![Len(below)].loose = @ \/ ItemIsLoose(Top.node)]
                   ELSE below
  /\ UNCHANGED <<source, tables, nodes, inlines, references, defined, skipped>>

BlockNext ==
  \/ SkipBlank \/ ParseFence \/ ParseHeading \/ ParseBreak \/ ParseIndentedCode
  \/ ParseHtml \/ ParseDefinition \/ ParseParagraph \/ ParseSetext \/ ParseTable
  \/ ParseQuote \/ OpenList \/ ParseItem \/ EndList \/ EndBlocks

BlockSpec == BlockInit /\ [][BlockNext]_blockVars
-----------------------------------------------------------------------------
Blocks  == 1 .. Len(nodes)
Parsed  == frames = <<>>
LineNumbers == 1 .. Len(source)
DefinitionLines == {d.line : d \in defined}
Containers == {"quote", "list", "item"}

(* Every line goes to one place: one leaf, a reference definition or the   *)
(* blank lines.  Gathering the lines of quotes and items and parsing them  *)
(* again loses none and uses none twice.                                   *)
EveryLineOnce ==
  \A l \in LineNumbers :
    LET leaves == {n \in Blocks : l \in nodes[n].own}
    IN  /\ Cardinality(leaves) <= 1
        /\ leaves # {} => l \notin DefinitionLines \cup skipped
        /\ l \notin DefinitionLines \cap skipped
        /\ Parsed => leaves # {} \/ l \in DefinitionLines \cup skipped

AncestorsOf(block) ==
  LET above[n \in 0 .. Len(nodes)] == IF n = 0 THEN {} ELSE {n} \cup above[nodes[n].parent]
  IN  above[block]
Inside(n)   == {m \in Blocks : n \in AncestorsOf(m)}

(* Blocks come in the order of their lines, each inside the span of the    *)
(* quotes and items around it, and wait for inline parsing in that order.  *)
BlocksInSourceOrder ==
  /\ \A m, n \in Blocks : m < n => \A i \in nodes[m].own, j \in nodes[n].own : i < j
  /\ Parsed => \A n \in Blocks : \A m \in Inside(n) :
       nodes[n].kind # "list" => nodes[m].own \subseteq nodes[n].from .. nodes[n].to
  /\ \A i, j \in 1 .. Len(inlines) : i < j => inlines[i] < inlines[j]

(* A label means its first definition, wherever containers put it.         *)
FirstDefinitionWins ==
  references = IF defined = {} THEN 0 ELSE Min(DefinitionLines)

NextSibling(m, n) == nodes[n].from = nodes[m].to + 1 /\ Adjacent(m, n)

(* What may stand right behind a paragraph, as the block itself shows: HTML *)
(* that does not begin with a mere tag, a list that begins with a bullet or *)
(* with 1, and, which no specification allows but startsBlock does, code    *)
(* that begins with a quote mark.  That the list's first item is not empty  *)
(* does not show on the list.                                               *)
MayInterrupt(b) ==
  \/ b.kind \in {"fence", "heading", "break", "quote"}
  \/ b.kind = "html" /\ Begins(b.text[1], {"c", "x"})
  \/ b.kind = "list" /\ b.start \in {"0", "1"}
  \/ b.kind = "code" /\ Begins(b.text[1], {">"})

(* A paragraph goes on until a blank line, the end of its container or a   *)
(* block that may interrupt it: no second paragraph, no mere tag, no list  *)
(* from another number than 1 and no definition begins right behind one.   *)
ParagraphsAreMaximal ==
  Parsed => \A m \in Blocks : nodes[m].kind = "paragraph" =>
    /\ \A n \in Blocks : NextSibling(m, n) => MayInterrupt(nodes[n])
    /\ \A d \in defined : d.parent = nodes[m].parent => d.line # nodes[m].to + 1

(* Items of one kind that follow each other are in one list, unless a      *)
(* definition of the container they are in stands between the lists.       *)
ListsAreMaximal ==
  Parsed => \A m, n \in {b \in Blocks : nodes[b].kind = "list"} :
    Adjacent(m, n) /\ nodes[m].marker = nodes[n].marker
    => \E d \in defined : /\ d.parent = nodes[m].parent
                          /\ nodes[m].from < d.line /\ d.line < nodes[n].from

(* The line a block begins at, as its container sees it.                   *)
Opening(n) == Drop(source[nodes[n].from], nodes[n].inset)

Lists       == {n \in Blocks : nodes[n].kind = "list"}
MarkerOf(item) == ListMarker(Opening(item))

(* testdata/spec/gfm-0.29.0.gfm.0.txt:4451 "then the result of prepending  *)
(* *M* to the first line of *Ls*, and indenting subsequent lines of *Ls* by *)
(* *W + 1* spaces, is a list item with *Bs* as its contents": a line that  *)
(* is indented as far as the item's content and comes right behind the     *)
(* item, which has content, is a part of it.                               *)
ItemsTakeWhatIsIndented ==
  \A item \in Blocks :
    LET next == nodes[item].to + 1
    IN  /\ nodes[item].kind = "item" /\ nodes[nodes[item].parent].parent = 0
        /\ Parsed /\ ChildrenOf(item) # {} /\ next \in LineNumbers
        => Indent(source[next]) < MarkerOf(item).width

(* The last line of a block's extent; whether a blank line is between two  *)
(* neighbouring blocks below the same parent.                              *)
LastOf(n) ==
  Max(UNION {nodes[m].own \cup {nodes[m].from} : m \in Inside(n)}
        \cup {d.line : d \in {e \in defined : e.parent \in Inside(n)}})
BlankBetween(m, n) == Adjacent(m, n) /\ \E l \in skipped : LastOf(m) < l /\ l < nodes[n].from

(* The item begins empty, and the marker behind it is indented as far as   *)
(* its content would be: parseList leaves the item at that line as one it  *)
(* cannot take, and forgets the blank line before it.                      *)
Forgotten(item, next) ==
  /\ StripContainer(Opening(item), MarkerOf(item).end, MarkerOf(item).width) = <<>>
  /\ MarkerOf(next).indent >= MarkerOf(item).width

LooseInside(list) == \E item \in ChildrenOf(list) : \E m, n \in ChildrenOf(item) : BlankBetween(m, n)

(* testdata/spec/gfm-0.29.0.gfm.0.txt:5166 "A list is loose if any of its  *)
(* constituent list items are separated by blank lines, or if any of its   *)
(* constituent list items directly contain two block-level elements with a *)
(* blank line between them": every list that is loose by this definition is *)
(* found to be, unless only forgotten blank lines make it loose.           *)
LooseIsNeverMissed ==
  Parsed => \A list \in Lists :
    (\E m, n \in ChildrenOf(list) : BlankBetween(m, n) /\ ~Forgotten(m, n)) \/ LooseInside(list)
    => ~nodes[list].tight

(* What a call still has to do: the characters and line endings of the     *)
(* lines it has not handed on, and its own return.                         *)
Waiting(k) == k < Len(frames) /\ frames[k + 1].loop = "list"
LinesLeft(f) == FoldFunction(+, 0, [n \in f.at .. Len(f.lines) |-> Len(f.lines[n].content) + 1])
CallWork(k) ==
  LET f == frames[k]
  IN  (IF Waiting(k) THEN 0 ELSE 4 * LinesLeft(f))
        + (IF f.loop = "list" /\ f.item = 0 THEN -1 ELSE 1)
Work == FoldFunction(+, 0, [k \in 1 .. Len(frames) |-> CallWork(k)])

(* Parsing ends: every turn of every loop, at every depth, takes a line,   *)
(* takes a marker off one or returns, so the work left, a natural number,  *)
(* shrinks.                                                                *)
EveryTurnMakesProgress == [][~Parsed => Work' \in 0 .. Work - 1]_blockVars
=============================================================================
