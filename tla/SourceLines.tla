----------------------------- MODULE SourceLines -----------------------------
(***************************************************************************)
(* How lines and inline texts keep the offsets of the bytes they come from *)
(* (parser/block.go scanLines, stripLineContainer, lineSourceOffset;       *)
(* parser/inline.go inlineInput; ast/document.go Position).  A source is a *)
(* sequence of bytes by class: "nl" and "cr" of line endings, "tab", " ",  *)
(* ">" and any others.  Offsets are 0-based as in the code.                *)
(*                                                                         *)
(* A line of the code without logical bytes of its own stands for the      *)
(* source between two offsets; here every line carries its bytes and one   *)
(* offset for each of them and for its end.                                *)
(***************************************************************************)
EXTENDS Integers, Sequences, SequencesExt, FiniteSetsExt

ByteAt(bytes, offset) == bytes[offset + 1]
Blanks == {" ", "tab"}

(* A set of numbers in their order, each at the place of its rank.         *)
Ascending(S) ==
  [k \in 1 .. Cardinality(S) |-> CHOOSE x \in S : Cardinality({y \in S : y < x}) = k - 1]

LineEndings(source) == {i \in 0 .. Len(source) - 1 : ByteAt(source, i) = "nl"}

(* scanLines *)
LineFrom(source, start) ==
  LET ahead   == {i \in LineEndings(source) : i >= start}
      newline == IF ahead = {} THEN Len(source) ELSE Min(ahead)
      end     == IF newline > start /\ ByteAt(source, newline - 1) = "cr" THEN newline - 1 ELSE newline
  IN  [start |-> start, end |-> end, newlineEnd |-> IF ahead = {} THEN newline ELSE newline + 1,
       logical |-> SubSeq(source, start + 1, end),
       offsets |-> [k \in 1 .. end - start + 1 |-> start + k - 1]]

ScanLines(source) ==
  LET starts == ({0} \cup {i + 1 : i \in LineEndings(source)}) \ {Len(source)}
  IN  [n \in 1 .. Cardinality(starts) |-> LineFrom(source, Ascending(starts)[n])]

(* The column behind the bytes of a line, tabs reaching to the next       *)
(* multiple of four.                                                      *)
Columns(bytes) ==
  FoldLeft(LAMBDA column, byte : IF byte = "tab" THEN column + 4 - (column % 4) ELSE column + 1, 0, bytes)
ColumnAt(bytes, n) == Columns(SubSeq(bytes, 1, n))

BlanksFrom(bytes, n) == Max({k \in 0 .. Len(bytes) - n : \A i \in n + 1 .. n + k : bytes[i] \in Blanks})
IndentWidth(bytes) == ColumnAt(bytes, BlanksFrom(bytes, 0))
IsBlank(bytes) == \A i \in 1 .. Len(bytes) : bytes[i] \in Blanks \cup {"cr"}

(* byteOffsetForIndent *)
OffsetForIndent(bytes, wanted) ==
  Min({i \in 0 .. Len(bytes) : i = Len(bytes) \/ bytes[i + 1] \notin Blanks \/ ColumnAt(bytes, i) >= wanted})

(* The columns of the prefix that reach past the container. *)
LeftOver(bytes, prefixEnd, width) == Max({0, ColumnAt(bytes, prefixEnd) - width})

(* Slip: every materialised column is mapped behind the marker. *)
IndentOffsetFlat(from, to, k, remaining) == IF k = 0 THEN to ELSE from

(* Where the k-th of the materialised columns lies between two offsets.    *)
IndentOffset(from, to, k, remaining) ==
  IF remaining = 0 THEN to ELSE from + ((to - from) * k) \div remaining

(* stripLineContainer: what is left of the prefix behind column width      *)
(* becomes spaces, which share the offsets of the prefix between them.     *)
StripLineContainer(line, markerEnd, width) ==
  LET prefixEnd == markerEnd + BlanksFrom(line.logical, markerEnd)
      remaining == LeftOver(line.logical, prefixEnd, width)
      logical   == [k \in 1 .. remaining |-> " "] \o SubSeq(line.logical, prefixEnd + 1, Len(line.logical))
      indent(k) == IndentOffset(line.offsets[markerEnd + 1], line.offsets[prefixEnd + 1], k, remaining)
  IN  [line EXCEPT !.logical = logical,
                   !.offsets = [k \in 1 .. Len(logical) + 1 |->
                     IF k <= remaining + 1 THEN indent(k - 1) ELSE @[prefixEnd + k - remaining]]]

(* stripBlockQuote: Marked lines lose their quote mark. *)
QuoteMark(line) == OffsetForIndent(line.logical, 3)
Marked(line) == QuoteMark(line) < Len(line.logical) /\ ByteAt(line.logical, QuoteMark(line)) = ">"
StripBlockQuote(line) ==
  LET end == QuoteMark(line) + 1
      blank == end < Len(line.logical) /\ ByteAt(line.logical, end) \in Blanks
  IN  StripLineContainer(line, end, IF blank THEN end + 1 ELSE end)

(* lineSourceOffset *)
LineSourceOffset(line, logical) == line.offsets[Min({logical + 1, Len(line.offsets)})]

(* The span of a paragraph's line; the last line also loses the blanks at  *)
(* its end (parseParagraph).                                               *)
TextSpan(line) ==
  [start |-> LineSourceOffset(line, BlanksFrom(line.logical, 0)),
   end   |-> LineSourceOffset(line, Len(line.logical))]
TrimSpan(source, span) ==
  [span EXCEPT !.end = Max({e \in span.start .. span.end :
                              e = span.start \/ ByteAt(source, e - 1) \notin Blanks})]
-----------------------------------------------------------------------------
(* spansAreLFContiguous *)
LFContiguous(source, spans) ==
  /\ Len(spans) >= 2
  /\ \A n \in 2 .. Len(spans) :
       LET before == spans[n - 1].end
       IN  before < Len(source) /\ ByteAt(source, before) = "nl" /\ spans[n].start = before + 1

(* newInlineInput: one piece of the source, or the spans joined by line    *)
(* endings with an offset for each byte.                                   *)
InlineInput(source, spans) ==
  LET terminal == spans[Len(spans)].end
      bytes(n) == [k \in 1 .. spans[n].end - spans[n].start |-> spans[n].start + k - 1]
      joined   == FlattenSeq([n \in 1 .. Len(spans) |->
                    (IF n > 1 THEN <<spans[n - 1].end>> ELSE <<>>) \o bytes(n)])
      endings  == {spans[n].end : n \in 1 .. Len(spans) - 1}
  IN  IF Len(spans) = 1 \/ LFContiguous(source, spans)
      THEN [data |-> SubSeq(source, spans[1].start + 1, terminal), offsets |-> <<>>,
            terminal |-> terminal]
      ELSE [data |-> [k \in 1 .. Len(joined) |->
                        IF joined[k] \in endings THEN "nl" ELSE ByteAt(source, joined[k])],
            offsets |-> joined, terminal |-> terminal]

(* inlineInput.offset *)
InputOffset(input, index) ==
  IF index >= Len(input.data) THEN input.terminal
  ELSE IF input.offsets = <<>> THEN input.terminal - Len(input.data) + index
  ELSE input.offsets[index + 1]
-----------------------------------------------------------------------------
(* indexLines, in the order of the source. *)
LineStarts(source) == <<0>> \o Ascending({i + 1 : i \in LineEndings(source)})

StartsBehind(start, offset) == start > offset

(* sort.Search for the first line that starts behind offset, 0-based. *)
SearchStart(starts, offset) ==
  LET search[range \in (0 .. Len(starts)) \X (0 .. Len(starts))] ==
        LET middle == (range[1] + range[2]) \div 2
        IN  IF range[1] >= range[2] THEN range[1]
            ELSE IF StartsBehind(starts[middle + 1], offset)
                 THEN search[<<range[1], middle>>] ELSE search[<<middle + 1, range[2]>>]
  IN  search[<<0, Len(starts)>>]

(* Document.Position; each byte here is a character. *)
Position(source, wanted) ==
  LET offset == Max({0, Min({wanted, Len(source)})})
      index  == Max({0, SearchStart(LineStarts(source), offset) - 1})
  IN  [offset |-> offset, line |-> index + 1, column |-> offset - LineStarts(source)[index + 1] + 1]
=============================================================================
