---------------------------- MODULE Normalization ----------------------------
(***************************************************************************)
(* Parsing, normalizing and parsing again (cmd convert --format markdown   *)
(* on its own output, parser/fuzz_test.go): when a document is parsed, the *)
(* Markdown renderer's output takes its place as the source, and the block *)
(* parser starts anew.  What the other two renderers make of the first     *)
(* parse is kept for comparison.                                           *)
(***************************************************************************)
EXTENDS MarkdownRenderer, PlainTextRenderer, HtmlRenderer

CONSTANT MostLines   \* documents of more lines are parsed only once

VARIABLES pass,      \* 1 for the document, 2 for its normalized form
          first      \* what the first parse rendered to

normVars == <<blockVars, pass, first>>

Looseness == [n \in Blocks |-> nodes[n].tight]
HasRawHtml == \E n \in Blocks : Kind(n) = "html"
HasEmptyFence == \E n \in Blocks : Kind(n) = "fence" /\ CodeText(n) = <<>>

InItem(n) == \E m \in AncestorsOf(n) : Kind(m) = "item"

(* The leaves the renderer writes as something else:                       *)
(* - text with a line, after its first, that alone would begin a block or  *)
(*   underline a heading (escapeText leaves "=" alone, tags are written as *)
(*   they are);                                                            *)
(* - a heading broken by a hard break, written as one line with "#";       *)
(* - code in an item with a line of spaces: the parser does not take the   *)
(*   item's indentation off blank lines, so they grow;                     *)
(* - raw HTML that begins with spaces, right behind a list marker.         *)
TextBegins(c) == Underline(c) \/ StartsBlock(c)
Misread(n) ==
  CASE Kind(n) = "paragraph" -> \E l \in 2 .. Len(Inlines(n)) : TextBegins(Inlines(n)[l])
    [] Kind(n) \in {"heading", "setext"} ->
         \/ \E l \in 2 .. Len(Inlines(n)) : TextBegins(Inlines(n)[l])
         \/ Len(Inlines(n)) > 1 /\ ~HasSoftBreak(n)
    [] Kind(n) \in {"fence", "code"} ->
         InItem(n) /\ \E l \in 1 .. Len(CodeText(n)) : Blank(CodeText(n)[l]) /\ CodeText(n)[l] # <<>>
    [] Kind(n) = "html" -> InItem(n) /\ Indent(nodes[n].text[1]) > 0
    [] OTHER -> FALSE

NormInit == BlockInit /\ pass = 1 /\ first = <<>>

ParseTurn == BlockNext /\ UNCHANGED <<pass, first>>

NormalizeDocument ==
  /\ Parsed
  /\ pass = 1
  /\ Len(source) <= MostLines
  /\ pass' = 2
  /\ first' = [plain |-> PlainTextOutput, html |-> HtmlOutput, tight |-> Looseness,
               emptyFence |-> HasEmptyFence, raw |-> HasRawHtml,
               misread |-> \E n \in Blocks : Misread(n)]
  /\ source' = MarkdownOutput
  /\ frames' = <<BlocksFrame(0, Scanned(MarkdownOutput))>>
  /\ nodes' = <<>>
  /\ inlines' = <<>>
  /\ references' = 0
  /\ defined' = {}
  /\ skipped' = {}
  /\ UNCHANGED tables

NormNext == ParseTurn \/ NormalizeDocument
NormSpec == NormInit /\ [][NormNext]_normVars
-----------------------------------------------------------------------------
ParsedAgain == pass = 2 /\ Parsed

(* parser/fuzz_test.go:237 "normalization changed on second pass": the     *)
(* normalized form of normalized Markdown is itself.                       *)
NormalizedTwice == ParsedAgain => MarkdownOutput = source

(* The same of every document without one of the four leaves above: no     *)
(* marker, fence, blank line or indentation the renderer chooses is read   *)
(* as anything else, however blocks are nested and follow each other.      *)
NormalizedOnce == ParsedAgain /\ ~first.misread => MarkdownOutput = source

Without(omitted, output) == SelectSeq(output, LAMBDA t : t \notin omitted)

(* Normalizing changes no text: the plain text of the two parses is the    *)
(* same, up to the line an empty fence gains.                              *)
PlainTextSurvives ==
  ParsedAgain /\ ~first.misread =>
    LET omitted == IF first.emptyFence THEN {"\n"} ELSE {}
    IN  Without(omitted, PlainTextOutput) = Without(omitted, first.plain)

(* Normalizing changes no element: the HTML of the two parses is the same  *)
(* where lists keep their looseness; where the blank lines between blocks  *)
(* or the missing ones between items change it, it differs in paragraphs   *)
(* and line endings only.  Raw HTML may lose spaces around it.             *)
HtmlSurvives ==
  ParsedAgain /\ ~first.misread =>
    LET loose   == IF first.tight = Looseness THEN {} ELSE {"<p>", "</p>", "<li>", "<li>\n", "\n"}
        fence   == IF first.emptyFence THEN {"\n"} ELSE {}
        raw     == IF first.raw THEN {" ", "\n"} ELSE {}
        omitted == loose \cup fence \cup raw
    IN  Without(omitted, HtmlOutput) = Without(omitted, first.html)

(* What a reader sees of the document survives normalization.              *)
MeaningSurvives == PlainTextSurvives /\ HtmlSurvives
=============================================================================
