----------------------------- MODULE HtmlRenderer -----------------------------
(***************************************************************************)
(* renderer/html/html.go on the blocks of the parsed document: the         *)
(* sequence of tags, characters and line endings it writes.  The line      *)
(* endings written with a tag are part of it.  Inline formatting, task     *)
(* markers, table cells and custom nodes are not modelled.                 *)
(***************************************************************************)
EXTENDS DocumentTree

Container(open, content, close) == Append(<<open>> \o content, close)

HtmlBreak(break) ==
  CASE break = "soft" -> <<"\n">> [] break = "hard" -> <<"<br>">> [] OTHER -> <<>>
HtmlInlines(leaf) ==
  FoldLeft(LAMBDA o, line : o \o line.text \o HtmlBreak(line.break), <<>>, InlineText(leaf))

HtmlLines(lines) == FlattenSeq([n \in 1 .. Len(lines) |-> Append(lines[n], "\n")])

HasNextSibling(id) == \E m \in ChildrenOf(nodes[id].parent) : m > id

(* An item whose first child is not the bare text of a tight list begins a *)
(* line.                                                                   *)
ItemTag(item, tight) ==
  IF Kids(item) # <<>> /\ ~(tight /\ Kind(Head(Kids(item))) = "paragraph") THEN "<li>\n" ELSE "<li>"

ListTags(list) == IF Ordered(list) THEN <<"<ol", nodes[list].start, ">">> ELSE <<"<ul>">>

(* node and children; tight is renderContext: set by a list, handed down to *)
(* the blocks of its items, reset by a quote.                              *)
RECURSIVE HtmlNode(_, _)
HtmlKids(id, tight) == FoldLeft(LAMBDA o, kid : o \o HtmlNode(kid, tight), <<>>, Kids(id))
HtmlNode(id, tight) ==
  CASE Kind(id) = "paragraph" ->
         IF tight THEN HtmlInlines(id) \o (IF HasNextSibling(id) THEN <<"\n">> ELSE <<>>)
         ELSE Container("<p>", HtmlInlines(id), "</p>")
    [] Kind(id) \in {"heading", "setext"} ->
         <<"<h", ToString(HeadingLevel(id))>> \o Append(HtmlInlines(id), "</h>")
    [] Kind(id) = "quote" -> Container("<blockquote>", HtmlKids(id, FALSE), "</blockquote>")
    [] Kind(id) = "list"  -> ListTags(id) \o Append(HtmlKids(id, nodes[id].tight), "</list>")
    [] Kind(id) = "item"  -> Container(ItemTag(id, tight), HtmlKids(id, tight), "</li>")
    [] Kind(id) = "break" -> <<"<hr>">>
    [] Kind(id) \in {"fence", "code"} ->
         Container("<pre>", <<"class">> \o FenceInfo(id) \o <<">">> \o HtmlLines(CodeText(id)), "</pre>")
    [] Kind(id) = "html"  -> HtmlLines(nodes[id].text)
    [] OTHER -> Container("<table>", [n \in 1 .. Len(nodes[id].text) |-> "<tr>"], "</table>")

HtmlOutput == HtmlKids(0, FALSE)
=============================================================================
