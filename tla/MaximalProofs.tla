---------------------------- MODULE MaximalProofs ----------------------------
(***************************************************************************)
(* Why paragraphs and lists go on as long as they can in Blocks.  The      *)
(* blocks a call has made do not say on their own whether the last of them *)
(* was ended too early: what says so is the line the call is at, with its  *)
(* markers off.  So MaximalInv speaks of every call on the stack: the      *)
(* paragraphs behind it cannot go on at its line, the list it has made     *)
(* last cannot either, and a list under way stands at an item or at a line *)
(* that is not blank.  A new block then fits behind the one before it.     *)
(* The last part shows why parsing ends: each turn of either loop leaves   *)
(* less to do, summed over all calls.                                      *)
(***************************************************************************)
EXTENDS BlocksProofs

(* Why paragraphs and lists go on as long as they can: what a call has     *)
(* made last cannot go on at the line it is at.                            *)

(* n is the last block so far below its parent. *)
LastChild(ns, n) == \A m \in n + 1 .. Len(ns) : ns[m].parent # ns[n].parent

ChildOf(ns, n, p, kind) == ns[n].parent = p /\ ns[n].kind = kind

(* The line a call is at. *)
Goes(f)    == f.at <= Len(f.lines)
Content(f) == f.lines[f.at].content

(* What goes on with a list: a blank line might, and an item of its kind.  *)
GoesOn(c, marker) ==
  Blank(c) \/ (IsMarker(ListMarker(c)) /\ ListMarker(c).delimiter = marker /\ ~ThematicBreak(c))

(* The call has got behind the paragraphs it has made, and where it stands *)
(* right behind one, a line comes that the paragraph does not take.        *)
TextEnded(ns, f) ==
  \A n \in 1 .. Len(ns) : ChildOf(ns, n, f.node, "paragraph") =>
    /\ ns[n].to < Base(f) + f.at
    /\ ns[n].to + 1 = Base(f) + f.at /\ Goes(f) => Blank(Content(f)) \/ StartsBlock(Content(f))

(* The same for the list a call has made last; a definition the call takes *)
(* behind the list ends it as well.                                        *)
ListEnded(ns, ds, f) ==
  \A n \in 1 .. Len(ns) : ChildOf(ns, n, f.node, "list") /\ LastChild(ns, n) =>
    /\ ns[n].from < Base(f) + f.at
    /\ Goes(f) => \/ ~GoesOn(Content(f), ns[n].marker)
                  \/ \E d \in ds : d.parent = f.node /\ ns[n].from < d.line

(* An item of the list begins at its line.                                 *)
Continued(g) == IsMarker(ListMarker(Content(g))) /\ ListMarker(Content(g)).delimiter = g.first.delimiter

(* A list under way: before its first item it stands at the item's line,   *)
(* and behind an item it stands at a line that is not blank, or at the end.*)
ListOpen(ns, g) ==
  /\ ns[g.node].marker = g.first.delimiter
  /\ LastChild(ns, g.node)
  /\ ns[g.node].from <= Base(g) + g.at
  /\ IF g.item = 0 THEN Goes(g) /\ Continued(g) ELSE ns[g.node].from < Base(g) + g.at
  /\ Goes(g) => ~Blank(Content(g))

(* The call waits for the list it has called.                              *)
Calling(fs, k) == k < Len(fs) /\ fs[k + 1].loop = "list"

Ended(ns, ds, fs, k) ==
  IF fs[k].loop = "list" THEN ListOpen(ns, fs[k])
  ELSE TextEnded(ns, fs[k]) /\ (Calling(fs, k) \/ ListEnded(ns, ds, fs[k]))

(* Each call works on a younger block than the calls below it.             *)
Deeper(fs) == \A j, k \in 1 .. Len(fs) : j < k => fs[j].node < fs[k].node

LinesOfText(lines) == \A n \in 1 .. Len(lines) : lines[n].content \in Seq(Characters)

(* n is the next block behind m below the same parent.                     *)
Siblings(ns, m, n) ==
  m < n /\ ns[m].parent = ns[n].parent /\ \A k \in m + 1 .. n - 1 : ns[k].parent # ns[m].parent

(* What the two theorems at the end say of the blocks.                     *)
TextIsMaximal(ns, ds) ==
  \A m \in 1 .. Len(ns) : ns[m].kind = "paragraph" =>
    /\ \A n \in 1 .. Len(ns) : Siblings(ns, m, n) /\ ns[n].from = ns[m].to + 1 => MayInterrupt(ns[n])
    /\ \A d \in ds : d.parent = ns[m].parent => d.line # ns[m].to + 1

ListsAreWhole(ns, ds) ==
  \A m, n \in 1 .. Len(ns) :
    ns[m].kind = "list" /\ ns[n].kind = "list" /\ Siblings(ns, m, n) /\ ns[m].marker = ns[n].marker
    => \E d \in ds : d.parent = ns[m].parent /\ ns[m].from < d.line /\ d.line < ns[n].from

ItemsInLists(ns) ==
  \A n \in 1 .. Len(ns) : ns[n].parent # 0 /\ ns[ns[n].parent].kind = "list" => ns[n].kind = "item"

Maximal(ns, ds) == TextIsMaximal(ns, ds) /\ ListsAreWhole(ns, ds) /\ ItemsInLists(ns)

MaximalInv ==
  /\ Deeper(frames)
  /\ \A k \in 1 .. Len(frames) : LinesOfText(frames[k].lines)
  /\ \A k \in 1 .. Len(frames) : Ended(nodes, defined, frames, k)
  /\ Maximal(nodes, defined)

-----------------------------------------------------------------------------
(* Lines stay texts when something is taken off them. *)
LEMMA RunIsNat ==
  ASSUME NEW c, Len(c) \in Nat, NEW s
  PROVE  RunOf(c, s) \in Nat
<1> DEFINE run == {n \in 1 .. Len(c) : \A i \in 1 .. n : c[i] \in s}
<1>1. IsFiniteSet(1 .. Len(c)) /\ run \subseteq 1 .. Len(c)
  BY FS_Interval
<1>2. IsFiniteSet(run)
  BY <1>1, FS_Subset
<1>3. Cardinality(run) \in Nat
  BY <1>2, FS_CardinalityType
<1> QED
  BY <1>3 DEF RunOf

LEMMA DropIsText ==
  ASSUME NEW c \in Seq(Characters), NEW n \in Nat
  PROVE  Drop(c, n) \in Seq(Characters)
<1>1. Len(c) \in Nat
  OBVIOUS
<1>2. \A i \in n + 1 .. Len(c) : c[i] \in Characters
  BY <1>1, ElementOfSeq
<1> QED
  BY <1>1, <1>2, SubSeqProperties DEF Drop

LEMMA StrippedIsText ==
  ASSUME NEW c \in Seq(Characters), NEW end \in Nat, NEW width \in Nat
  PROVE  StripContainer(c, end, width) \in Seq(Characters)
<1>1. Drop(c, end) \in Seq(Characters)
  BY DropIsText
<1>2. Indent(Drop(c, end)) \in Nat
  <2>1. Len(Drop(c, end)) \in Nat
    BY <1>1
  <2> QED
    BY <2>1, RunIsNat DEF Indent
<1> DEFINE prefix == end + Indent(Drop(c, end))
           cut == IF width < prefix THEN width ELSE prefix
<1>3. cut \in Nat
  BY <1>2
<1>4. StripContainer(c, end, width) = Drop(c, cut)
  BY DEF StripContainer
<1> HIDE DEF cut
<1> QED
  BY <1>3, <1>4, DropIsText

LEMMA IndentIsNat == ASSUME NEW c \in Seq(Characters) PROVE Indent(c) \in Nat
<1>1. Len(c) \in Nat
  OBVIOUS
<1> QED
  BY <1>1, RunIsNat DEF Indent

LEMMA MarkerColumns ==
  ASSUME NEW c \in Seq(Characters)
  PROVE  ListMarker(c).width \in Nat /\ ListMarker(c).end \in Nat
<1> DEFINE end == Indent(c) + (IF Begins(c, {"-", "+", "*"}) THEN 1 ELSE 2)
           spaces == Indent(Drop(c, end))
           padding == IF spaces \in 1 .. 4 THEN spaces ELSE 1
<1>1. Indent(c) \in Nat
  BY IndentIsNat
<1>2. end \in Nat
  BY <1>1
<1>3. Drop(c, end) \in Seq(Characters)
  <2> HIDE DEF end
  <2> QED
    BY <1>2, DropIsText
<1>4. spaces \in Nat
  <2> HIDE DEF end
  <2> QED
    BY <1>3, IndentIsNat
<1> HIDE DEF spaces
<1>5. padding \in Nat
  BY <1>4
<1>6. \/ ListMarker(c) = NoMarker
      \/ ListMarker(c).width = end + padding /\ ListMarker(c).end = end
  <2> HIDE DEF padding, end
  <2> QED
    BY DEF ListMarker, padding, end, spaces
<1> HIDE DEF padding, end
<1> QED
  BY <1>2, <1>5, <1>6 DEF NoMarker

LEMMA MarkerIsNotBlank ==
  ASSUME NEW c \in Seq(Characters), IsMarker(ListMarker(c))
  PROVE  ~Blank(c)
<1>1. Indent(c) \in Nat /\ Len(c) \in Nat
  BY IndentIsNat
<1>2. Begins(c, {"-", "+", "*"}) \/ Begins(c, {"1", "2"})
  BY DEF ListMarker, IsMarker, NoMarker
<1> DEFINE at == Indent(c) + 1
<1>3. Indent(c) < Len(c) /\ c[at] \in {"-", "+", "*", "1", "2"}
  BY <1>2 DEF Begins
<1>4. at \in 1 .. Len(c)
  BY <1>1, <1>3
<1>5. c[at] # " "
  <2> HIDE DEF at
  <2> QED
    BY <1>3
<1> HIDE DEF at
<1> QED
  BY <1>4, <1>5 DEF Blank

(* What may interrupt a paragraph begins nothing that may not: tags that   *)
(* begin a block only elsewhere and lists that begin with another number   *)
(* are kept out, and indented code gets in as a quote mark.                *)
LEMMA InterruptersBegin ==
  ASSUME StartsBlock(Here), ~Blank(Here)
  PROVE  /\ Beginning \in {"fence", "heading", "break", "quote", "list", "html", "code"}
         /\ Beginning = "html" => Begins(Here, {"c", "x"})
         /\ Beginning = "list" => ListMarker(Here).number \in {"0", "1"}
         /\ Beginning = "code" => Begins(Here, {">"})
<1>1. CASE Html(Here, TRUE) # "none"
  <2>1. Flush(Here) /\ (Begins(Here, {"c"}) \/ Begins(Here, {"x"}))
    BY <1>1 DEF Html
  <2>2. Html(Here, FALSE) # "none"
    BY <2>1 DEF Html
  <2>3. Begins(Here, {"c", "x"})
    BY <2>1 DEF Begins
  <2>4. ~IsMarker(ListMarker(Here))
    BY <2>1 DEF ListMarker, IsMarker, NoMarker, Begins
  <2> QED
    BY <2>1, <2>2, <2>3, <2>4 DEF Beginning
<1>2. CASE Heading(Here) \/ Fence(Here) > 0 \/ ThematicBreak(Here)
  BY <1>2 DEF Beginning
<1>3. CASE IsMarker(ListMarker(Here)) /\ ListMarker(Here).number \in {"0", "1"}
  BY <1>3 DEF Beginning
<1>4. CASE ~IsMarker(ListMarker(Here)) /\ Begins(Here, {">"})
  BY <1>4 DEF Beginning, Quoted
<1> QED
  BY <1>1, <1>2, <1>3, <1>4 DEF StartsBlock

(* Behind a paragraph is the end of the container, a blank line or a line  *)
(* that may interrupt it.                                                  *)
LEMMA ParagraphEndsAt ==
  ASSUME BlocksInv, Parsing, ~Underlined, ~HeadsTable, ParagraphEnd <= Len(Rest)
  PROVE  Blank(Lookup(ParagraphEnd)) \/ StartsBlock(Lookup(ParagraphEnd))
<1> DEFINE S == {n \in From(Top.at + 1) : ParagraphStops(n)}
           at == ParagraphEnd
<1>1. S \in SUBSET From(Top.at + 1) /\ at = First(S)
  BY DEF ParagraphEnd
<1>2. at \in S
  <2> HIDE DEF S, at
  <2>1. at \in S \/ at = Len(Rest) + 1
    BY <1>1, TurnAt, FirstOf
  <2>2. Len(Rest) \in Nat
    BY TurnAt
  <2> QED
    BY <2>1, <2>2 DEF at
<1>3. ParagraphStops(at)
  BY <1>2
<1> HIDE DEF S
<1>4. ~Underline(Lookup(at)) /\ ~(tables /\ at = Top.at + 1 /\ TableStart(Here, Lookup(at)))
  BY DEF Underlined, HeadsTable
<1> QED
  BY <1>3, <1>4 DEF ParagraphStops

(* The scan of an item's lines: f maps a line to what is known behind it. *)
ScanStart == [more |-> TRUE, pending |-> FALSE, loose |-> Top.loose, fence |-> Fence(ItemContent)]
ScanStep(n, before) ==
  IF before.more THEN ItemTurn(n, ItemMarker, ItemContent = <<>>, before) ELSE before
Scan(f, last) ==
  f = [n \in Top.at .. last |-> IF n = Top.at THEN ScanStart ELSE ScanStep(n, f[n - 1])]

LEMMA ScanExists ==
  ASSUME Top.at \in Nat, NEW last \in Nat, Top.at <= last
  PROVE  \E f : Scan(f, last)
<1> DEFINE lo == Top.at
           Reached == {k \in Nat : \E f : Scan(f, lo + k)}
<1>1. 0 \in Reached
  <2> DEFINE g == [n \in lo .. lo + 0 |-> ScanStart]
  <2>1. g = [n \in lo .. lo + 0 |-> IF n = lo THEN ScanStart ELSE ScanStep(n, g[n - 1])]
    OBVIOUS
  <2>2. Scan(g, lo + 0)
    <3> HIDE DEF g
    <3> QED
      BY <2>1 DEF Scan
  <2> QED
    BY <2>2
<1>2. ASSUME NEW k \in Nat, k \in Reached PROVE k + 1 \in Reached
  <2>1. PICK f : Scan(f, lo + k)
    BY <1>2
  <2> DEFINE top == lo + (k + 1)
             g == [n \in lo .. top |-> IF n = top THEN ScanStep(top, f[top - 1]) ELSE f[n]]
  <2>2. lo \in Nat /\ top \in Nat /\ top > lo /\ top - 1 = lo + k
    OBVIOUS
  <2>3. f = [n \in lo .. lo + k |-> IF n = lo THEN ScanStart ELSE ScanStep(n, f[n - 1])]
    BY <2>1 DEF Scan
  <2> HIDE DEF lo, top
  <2>4. ASSUME NEW n \in lo .. top
        PROVE  g[n] = IF n = lo THEN ScanStart ELSE ScanStep(n, g[n - 1])
    <3>1. CASE n = top
      <4>1. n - 1 \in lo .. top /\ n - 1 # top /\ n # lo
        BY <2>2, <3>1
      <4>2. g[n - 1] = f[n - 1]
        BY <4>1
      <4> QED
        BY <3>1, <4>1, <4>2
    <3>2. CASE n # top
      <4>1. n \in lo .. lo + k /\ g[n] = f[n]
        BY <2>2, <3>2
      <4>2. CASE n = lo
        BY <2>3, <4>1, <4>2
      <4>3. CASE n # lo
        <5>1. n - 1 \in lo .. top /\ n - 1 # top
          BY <2>2, <3>2, <4>3
        <5>2. g[n - 1] = f[n - 1]
          BY <5>1
        <5> QED
          BY <2>3, <4>1, <4>3, <5>2
      <4> QED
        BY <4>2, <4>3
    <3> QED
      BY <3>1, <3>2
  <2>5. g = [n \in lo .. top |-> g[n]]
    OBVIOUS
  <2> HIDE DEF g
  <2>6. g = [n \in lo .. top |-> IF n = lo THEN ScanStart ELSE ScanStep(n, g[n - 1])]
    BY <2>4, <2>5
  <2>7. Scan(g, lo + (k + 1))
    BY <2>6 DEF Scan, lo, top
  <2> QED
    BY <2>7
<1>3. Nat \subseteq Reached
  <2> HIDE DEF Reached
  <2> QED
    BY <1>1, <1>2, SetInduction
<1>4. last - lo \in Nat /\ lo + (last - lo) = last
  OBVIOUS
<1> QED
  BY <1>3, <1>4

LEMMA ItemAfterScans ==
  ASSUME Top.at \in Nat, Len(Rest) \in Nat, Top.at <= Len(Rest)
  PROVE  /\ ItemAfter(Top.at) = ScanStart
         /\ \A n \in Top.at + 1 .. Len(Rest) : ItemAfter(n) = ScanStep(n, ItemAfter(n - 1))
<1> DEFINE after[n \in Top.at .. Len(Rest)] ==
             IF n = Top.at
             THEN [more |-> TRUE, pending |-> FALSE, loose |-> Top.loose, fence |-> Fence(ItemContent)]
             ELSE LET before == after[n - 1]
                  IN  IF before.more THEN ItemTurn(n, ItemMarker, ItemContent = <<>>, before) ELSE before
<1>1. \E f : Scan(f, Len(Rest))
  BY ScanExists
<1>2. after = CHOOSE f : Scan(f, Len(Rest))
  BY DEF Scan, ScanStart, ScanStep
<1>3. \A n : ItemAfter(n) = after[n]
  BY DEF ItemAfter
<1> HIDE DEF after
<1>4. Scan(after, Len(Rest))
  BY <1>1, <1>2
<1>5. \A n \in Top.at .. Len(Rest) :
        after[n] = IF n = Top.at THEN ScanStart ELSE ScanStep(n, after[n - 1])
  BY <1>4 DEF Scan
<1>6. Top.at \in Top.at .. Len(Rest)
  OBVIOUS
<1>7. \A n \in Top.at + 1 .. Len(Rest) : n \in Top.at .. Len(Rest) /\ n # Top.at
  OBVIOUS
<1> QED
  BY <1>3, <1>5, <1>6, <1>7

IsScanState(s) == s = [more |-> s.more, pending |-> s.pending, loose |-> s.loose, fence |-> s.fence]

LEMMA TurnsAreStates ==
  ASSUME NEW n, NEW m, NEW empty, NEW s, IsScanState(s)
  PROVE  /\ IsScanState(ItemTurn(n, m, empty, s))
         /\ ~IsMarker(ListMarker(Lookup(n))) /\ Blank(Lookup(n)) => ItemTurn(n, m, empty, s).more = s.more
<1> DEFINE t == ItemTurn(n, m, empty, s)
<1>1. \E more, pending, loose, fence :
        /\ t = [more |-> more, pending |-> pending, loose |-> loose, fence |-> fence]
        /\ ~IsMarker(ListMarker(Lookup(n))) /\ Blank(Lookup(n)) => more = s.more
  <2> DEFINE c == Lookup(n)
             next == ListMarker(c)
             indent == Indent(c)
  <2>1. CASE IsMarker(next) /\ next.indent < m.width
    <3> DEFINE loose == s.loose \/ (SameList(next, Top.first) /\ s.pending)
    <3>1. t = [s EXCEPT !.more = FALSE, !.loose = loose]
      BY <2>1 DEF ItemTurn
    <3> HIDE DEF t, loose
    <3>2. t = [more |-> FALSE, pending |-> s.pending, loose |-> loose, fence |-> s.fence]
      BY <3>1 DEF IsScanState
    <3> QED
      BY <2>1, <3>2
  <2>2. CASE ~(IsMarker(next) /\ next.indent < m.width) /\ Blank(c)
    <3> DEFINE pending == s.pending \/ s.fence = 0
    <3>1. t = [s EXCEPT !.pending = pending]
      BY <2>2 DEF ItemTurn
    <3> HIDE DEF t, pending
    <3>2. t = [more |-> s.more, pending |-> pending, loose |-> s.loose, fence |-> s.fence]
      BY <3>1 DEF IsScanState
    <3> QED
      BY <3>2
  <2>3. CASE ~(IsMarker(next) /\ next.indent < m.width) /\ ~Blank(c)
    <3>1. \/ t = [s EXCEPT !.more = FALSE]
          \/ \E loose, fence : t = [more |-> TRUE, pending |-> FALSE, loose |-> loose, fence |-> fence]
      BY <2>3 DEF ItemTurn
    <3> HIDE DEF t
    <3>2. \/ t = [more |-> FALSE, pending |-> s.pending, loose |-> s.loose, fence |-> s.fence]
          \/ \E loose, fence : t = [more |-> TRUE, pending |-> FALSE, loose |-> loose, fence |-> fence]
      BY <3>1 DEF IsScanState
    <3> QED
      BY <2>3, <3>2
  <2> QED
    BY <2>1, <2>2, <2>3
<1> HIDE DEF t
<1> QED
  BY <1>1 DEF IsScanState, t

(* An item ends at a line that is not blank. *)
LEMMA ItemEndsAtText ==
  ASSUME BlocksInv, frames # <<>>, Top.at <= Len(Rest), LinesOfText(Rest), ItemEnd <= Len(Rest)
  PROVE  ~Blank(Lookup(ItemEnd))
<1> DEFINE S == {n \in From(Top.at + 1) : ~ItemAfter(n).more}
           at == ItemEnd
<1>1. Top.at \in Nat /\ Top.at > 0 /\ Len(Rest) \in Nat /\ Top.at + 1 \in Nat /\ Top.at + 1 <= Len(Rest) + 1
  <2>1. Top.at \in Nat /\ Top.at > 0 /\ Len(Rest) \in Nat
    BY AtTop DEF BlocksInv
  <2> QED
    BY <2>1
<1>2. S \in SUBSET (Top.at + 1 .. Len(Rest)) /\ at = Min(S \cup {Len(Rest) + 1})
  BY DEF ItemEnd, From, First
<1>3. at \in S /\ \A n \in S : at <= n
  <2> DEFINE lo == Top.at + 1
             hi == Len(Rest)
  <2>1. lo \in Int /\ hi \in Int /\ lo <= hi + 1 /\ S \in SUBSET (lo .. hi)
    BY <1>1, <1>2
  <2>2. at = Min(S \cup {hi + 1})
    BY <1>2
  <2>4. at # hi + 1
    BY <1>1
  <2> HIDE DEF S, at, lo, hi
  <2>3. at \in S \cup {hi + 1} /\ \A n \in S : at <= n
    BY <2>1, <2>2, LeastOf
  <2> QED
    BY <2>3, <2>4
<1>4. at \in Top.at + 1 .. Len(Rest) /\ ~ItemAfter(at).more
  BY <1>3 DEF From
<1> HIDE DEF at
<1>5. ASSUME NEW k \in Nat PROVE Top.at + k <= Len(Rest) => IsScanState(ItemAfter(Top.at + k))
  <2> DEFINE States == {j \in Nat : Top.at + j <= Len(Rest) => IsScanState(ItemAfter(Top.at + j))}
  <2>1. 0 \in States
    BY <1>1, ItemAfterScans DEF ScanStart, IsScanState
  <2>2. ASSUME NEW j \in Nat, j \in States PROVE j + 1 \in States
    <3> SUFFICES ASSUME Top.at + (j + 1) <= Len(Rest)
                 PROVE  IsScanState(ItemAfter(Top.at + (j + 1)))
      OBVIOUS
    <3> DEFINE n == Top.at + (j + 1)
    <3>1. n \in Top.at + 1 .. Len(Rest) /\ n - 1 = Top.at + j /\ Top.at + j <= Len(Rest)
      BY <1>1
    <3> HIDE DEF n
    <3>2. ItemAfter(n) = ScanStep(n, ItemAfter(n - 1)) /\ IsScanState(ItemAfter(n - 1))
      BY <1>1, <2>2, <3>1, ItemAfterScans
    <3>3. IsScanState(ItemAfter(n))
      BY <3>2, TurnsAreStates DEF ScanStep
    <3> QED
      BY <3>3 DEF n
  <2>3. Nat \subseteq States
    <3> HIDE DEF States
    <3> QED
      BY <2>1, <2>2, SetInduction
  <2> QED
    BY <2>3
<1>6. at - 1 \in Nat /\ at - 1 = Top.at + (at - 1 - Top.at) /\ at - 1 - Top.at \in Nat /\ at - 1 <= Len(Rest)
  BY <1>1, <1>4
<1>7. IsScanState(ItemAfter(at - 1))
  BY <1>5, <1>6
<1>8. ItemAfter(at - 1).more
  <2>1. CASE at - 1 = Top.at
    BY <1>1, <2>1, ItemAfterScans DEF ScanStart
  <2>2. CASE at - 1 # Top.at
    <3>1. at - 1 \in From(Top.at + 1) /\ ~(at <= at - 1)
      BY <1>1, <1>4, <1>6, <2>2 DEF From
    <3>2. at - 1 \notin S
      BY <1>3, <3>1
    <3> QED
      BY <3>1, <3>2
  <2> QED
    BY <2>1, <2>2
<1>9. ItemAfter(at) = ItemTurn(at, ItemMarker, ItemContent = <<>>, ItemAfter(at - 1))
  BY <1>1, <1>4, <1>8, ItemAfterScans DEF ScanStep
<1>10. Lookup(at) \in Seq(Characters)
  BY <1>1, <1>4 DEF LinesOfText, Lookup
<1> SUFFICES ASSUME Blank(Lookup(at)) PROVE FALSE
  BY DEF at
<1>11. ~IsMarker(ListMarker(Lookup(at)))
  BY <1>10, MarkerIsNotBlank
<1>12. ItemAfter(at).more = ItemAfter(at - 1).more
  BY <1>7, <1>9, <1>11, TurnsAreStates
<1> QED
  BY <1>4, <1>8, <1>12

-----------------------------------------------------------------------------
(* What a new block changes for the blocks there are. *)
Grows(ns, b, ms) == IsSeq(ns) /\ ms = Append(ns, b)

LEMMA GrowthFacts ==
  ASSUME NEW ns, NEW b, NEW ms, Grows(ns, b, ms)
  PROVE  /\ Len(ns) \in Nat /\ Len(ms) = Len(ns) + 1 /\ ms[Len(ns) + 1] = b
         /\ \A n \in 1 .. Len(ns) : ms[n] = ns[n]
BY Appended DEF Grows, IsSeq

LEMMA LastChildGrows ==
  ASSUME NEW ns, NEW b, NEW ms, Grows(ns, b, ms), NEW n \in 1 .. Len(ns)
  PROVE  LastChild(ms, n) <=> LastChild(ns, n) /\ b.parent # ns[n].parent
<1> DEFINE c == Len(ns)
<1>1. c \in Nat /\ Len(ms) = c + 1 /\ ms[c + 1] = b /\ \A k \in 1 .. c : ms[k] = ns[k]
  BY GrowthFacts
<1>2. \A k \in n + 1 .. c + 1 : k \in n + 1 .. c \/ k = c + 1
  BY <1>1
<1>3. \A k \in n + 1 .. c : k \in 1 .. c /\ k \in n + 1 .. c + 1
  BY <1>1
<1>4. c + 1 \in n + 1 .. c + 1
  BY <1>1
<1> HIDE DEF c
<1>5. LastChild(ms, n) <=> \A k \in n + 1 .. c + 1 : ms[k].parent # ns[n].parent
  BY <1>1 DEF LastChild, c
<1>6. LastChild(ns, n) <=> \A k \in n + 1 .. c : ns[k].parent # ns[n].parent
  BY DEF LastChild, c
<1> QED
  BY <1>1, <1>2, <1>3, <1>4, <1>5, <1>6

LEMMA SiblingsGrow ==
  ASSUME NEW ns, NEW b, NEW ms, Grows(ns, b, ms), NEW m \in 1 .. Len(ns) + 1, NEW n \in 1 .. Len(ns) + 1,
         Siblings(ms, m, n)
  PROVE  /\ m \in 1 .. Len(ns) /\ ms[m] = ns[m]
         /\ \/ n \in 1 .. Len(ns) /\ ms[n] = ns[n] /\ Siblings(ns, m, n)
            \/ n = Len(ns) + 1 /\ ms[n] = b /\ ns[m].parent = b.parent /\ LastChild(ns, m)
<1> DEFINE c == Len(ns)
<1>1. c \in Nat /\ Len(ms) = c + 1 /\ ms[c + 1] = b /\ \A k \in 1 .. c : ms[k] = ns[k]
  BY GrowthFacts
<1>2. m < n /\ ms[m].parent = ms[n].parent /\ \A k \in m + 1 .. n - 1 : ms[k].parent # ms[m].parent
  BY DEF Siblings
<1>3. m \in 1 .. c /\ ms[m] = ns[m]
  BY <1>1, <1>2
<1>4. \A k \in m + 1 .. n - 1 : k \in 1 .. c /\ ms[k] = ns[k]
  BY <1>1, <1>2, <1>3
<1>5. CASE n = c + 1
  <2>1. n - 1 = c
    BY <1>1, <1>5
  <2> QED
    BY <1>1, <1>2, <1>3, <1>4, <1>5, <2>1 DEF LastChild
<1>6. CASE n # c + 1
  <2>1. n \in 1 .. c
    BY <1>1, <1>6
  <2> QED
    BY <1>1, <1>2, <1>3, <1>4, <2>1 DEF Siblings
<1> QED
  BY <1>3, <1>5, <1>6

LEMMA ElsewhereKept ==
  ASSUME NEW ns, NEW b, NEW ms, Grows(ns, b, ms), NEW f, NEW ds, NEW es, ds \subseteq es, b.parent # f.node
  PROVE  /\ TextEnded(ns, f) => TextEnded(ms, f)
         /\ ListEnded(ns, ds, f) => ListEnded(ms, es, f)
<1> DEFINE c == Len(ns)
<1>1. c \in Nat /\ Len(ms) = c + 1 /\ ms[c + 1] = b /\ \A k \in 1 .. c : ms[k] = ns[k]
  BY GrowthFacts
<1>2. \A n \in 1 .. c + 1 : ms[n].parent = f.node => n \in 1 .. c /\ ms[n] = ns[n]
  BY <1>1
<1>3. TextEnded(ns, f) => TextEnded(ms, f)
  BY <1>1, <1>2 DEF TextEnded, ChildOf
<1>4. ASSUME ListEnded(ns, ds, f) PROVE ListEnded(ms, es, f)
  <2> SUFFICES ASSUME NEW n \in 1 .. c + 1, ChildOf(ms, n, f.node, "list"), LastChild(ms, n)
               PROVE  /\ ms[n].from < Base(f) + f.at
                      /\ Goes(f) => \/ ~GoesOn(Content(f), ms[n].marker)
                                    \/ \E d \in es : d.parent = f.node /\ ms[n].from < d.line
    BY <1>1 DEF ListEnded
  <2>1. n \in 1 .. c /\ ms[n] = ns[n]
    BY <1>2 DEF ChildOf
  <2>2. ChildOf(ns, n, f.node, "list") /\ LastChild(ns, n)
    BY <2>1, LastChildGrows DEF ChildOf
  <2> QED
    BY <1>4, <2>1, <2>2 DEF ListEnded
<1> QED
  BY <1>3, <1>4

LEMMA ListStaysOpen ==
  ASSUME NEW ns, NEW b, NEW ms, Grows(ns, b, ms), NEW g, g.node \in 1 .. Len(ns), ListOpen(ns, g),
         b.parent # ns[g.node].parent
  PROVE  ListOpen(ms, g)
<1>1. ms[g.node] = ns[g.node]
  BY GrowthFacts
<1>2. LastChild(ms, g.node)
  BY LastChildGrows DEF ListOpen
<1> QED
  BY <1>1, <1>2 DEF ListOpen

(* A new block that goes with the one before it. *)
Fits(ns, ds, b) ==
  /\ \A m \in 1 .. Len(ns) :
       ChildOf(ns, m, b.parent, "paragraph") /\ b.from = ns[m].to + 1 => MayInterrupt(b)
  /\ b.kind = "list" => \A m \in 1 .. Len(ns) :
       ChildOf(ns, m, b.parent, "list") /\ LastChild(ns, m) /\ ns[m].marker = b.marker
       => \E d \in ds : d.parent = b.parent /\ ns[m].from < d.line /\ d.line < b.from
  /\ b.kind = "paragraph" => \A d \in ds : d.line # b.to + 1
  /\ b.parent # 0 /\ ns[b.parent].kind = "list" => b.kind = "item"

LEMMA MaximalGrows ==
  ASSUME NEW ns, NEW b, NEW ms, Grows(ns, b, ms), Tree(ns), b.parent \in 0 .. Len(ns),
         NEW ds, Maximal(ns, ds), Fits(ns, ds, b)
  PROVE  Maximal(ms, ds)
<1> DEFINE c == Len(ns)
<1>1. c \in Nat /\ Len(ms) = c + 1 /\ ms[c + 1] = b /\ \A k \in 1 .. c : ms[k] = ns[k]
  BY GrowthFacts
<1>2. TextIsMaximal(ms, ds)
  <2>1. ASSUME NEW m \in 1 .. c + 1, ms[m].kind = "paragraph", NEW n \in 1 .. c + 1, Siblings(ms, m, n),
               ms[n].from = ms[m].to + 1
        PROVE  MayInterrupt(ms[n])
    <3>1. /\ m \in 1 .. c /\ ms[m] = ns[m]
          /\ \/ n \in 1 .. c /\ ms[n] = ns[n] /\ Siblings(ns, m, n)
             \/ n = c + 1 /\ ms[n] = b /\ ns[m].parent = b.parent /\ LastChild(ns, m)
      BY <2>1, SiblingsGrow
    <3> QED
      BY <2>1, <3>1 DEF Maximal, TextIsMaximal, Fits, ChildOf
  <2>2. ASSUME NEW m \in 1 .. c + 1, ms[m].kind = "paragraph", NEW d \in ds, d.parent = ms[m].parent
        PROVE  d.line # ms[m].to + 1
    <3>1. (m \in 1 .. c /\ ms[m] = ns[m]) \/ ms[m] = b
      BY <1>1
    <3> QED
      BY <2>2, <3>1 DEF Maximal, TextIsMaximal, Fits
  <2> QED
    BY <1>1, <2>1, <2>2 DEF TextIsMaximal
<1>3. ListsAreWhole(ms, ds)
  <2>1. ASSUME NEW m \in 1 .. c + 1, NEW n \in 1 .. c + 1, ms[m].kind = "list", ms[n].kind = "list",
               Siblings(ms, m, n), ms[m].marker = ms[n].marker
        PROVE  \E d \in ds : d.parent = ms[m].parent /\ ms[m].from < d.line /\ d.line < ms[n].from
    <3>1. /\ m \in 1 .. c /\ ms[m] = ns[m]
          /\ \/ n \in 1 .. c /\ ms[n] = ns[n] /\ Siblings(ns, m, n)
             \/ n = c + 1 /\ ms[n] = b /\ ns[m].parent = b.parent /\ LastChild(ns, m)
      BY <2>1, SiblingsGrow
    <3> QED
      BY <2>1, <3>1 DEF Maximal, ListsAreWhole, Fits, ChildOf
  <2> QED
    BY <1>1, <2>1 DEF ListsAreWhole
<1>4. ItemsInLists(ms)
  <2>1. ASSUME NEW n \in 1 .. c + 1, ms[n].parent # 0, ms[ms[n].parent].kind = "list"
        PROVE  ms[n].kind = "item"
    <3>1. CASE n \in 1 .. c
      <4>1. ms[n] = ns[n] /\ ns[n].parent \in 0 .. n - 1
        BY <1>1, <3>1 DEF Tree, Grown
      <4>2. ns[n].parent \in 1 .. c
        BY <1>1, <2>1, <3>1, <4>1
      <4>3. ms[ns[n].parent] = ns[ns[n].parent]
        BY <1>1, <4>2
      <4> QED
        BY <2>1, <3>1, <4>1, <4>3 DEF Maximal, ItemsInLists
    <3>2. CASE n = c + 1
      <4>1. b.parent \in 1 .. c
        BY <1>1, <2>1, <3>2
      <4>2. ms[b.parent] = ns[b.parent]
        BY <1>1, <4>1
      <4> QED
        BY <1>1, <2>1, <3>2, <4>2 DEF Fits
    <3> QED
      BY <1>1, <3>1, <3>2
  <2> QED
    BY <1>1, <2>1 DEF ItemsInLists
<1> QED
  BY <1>2, <1>3, <1>4 DEF Maximal

-----------------------------------------------------------------------------
(* The calls below the innermost are not concerned by what it does. *)
LEMMA TopIsEnded ==
  ASSUME BlocksInv, MaximalInv, frames # <<>>
  PROVE  /\ Len(frames) \in Nat /\ Len(frames) > 0 /\ IsSeq(frames) /\ Top = frames[Len(frames)]
         /\ LinesOfText(Rest)
         /\ IF Top.loop = "list" THEN ListOpen(nodes, Top)
            ELSE TextEnded(nodes, Top) /\ ListEnded(nodes, defined, Top)
         /\ Maximal(nodes, defined)
         /\ Top.loop \in {"blocks", "list"}
<1>1. /\ Len(frames) \in Nat /\ Len(frames) > 0 /\ Top = frames[Len(frames)] /\ Rest = Top.lines
      /\ Calls(frames, Len(source)) /\ IsFrame(Top)
  BY AtTop DEF BlocksInv
<1>2. IsSeq(frames) /\ Top.loop \in {"blocks", "list"}
  BY <1>1 DEF Calls, IsFrame
<1> DEFINE n == Len(frames)
<1>3. n \in 1 .. n /\ ~(n < n)
  BY <1>1
<1>4. Ended(nodes, defined, frames, n) /\ LinesOfText(frames[n].lines)
  BY <1>3 DEF MaximalInv
<1>5. ~Calling(frames, n)
  BY <1>3 DEF Calling
<1> QED
  BY <1>1, <1>2, <1>4, <1>5 DEF Ended, MaximalInv

LEMMA ListNodes ==
  ASSUME BlocksInv, NEW k \in 1 .. Len(frames), frames[k].loop = "list"
  PROVE  frames[k].node \in 1 .. Len(nodes) /\ nodes[frames[k].node].parent < frames[k].node
<1> DEFINE g == frames[k]
<1>1. g.node \in 0 .. Len(nodes) /\ g.node # 0 /\ Len(nodes) \in Nat
  BY DEF BlocksInv, TreeFits, Placed, Tree, IsSeq
<1>2. g.node \in 1 .. Len(nodes)
  BY <1>1
<1>3. nodes[g.node].parent \in 0 .. g.node - 1
  BY <1>2 DEF BlocksInv, TreeFits, Tree, Grown
<1> QED
  BY <1>2, <1>3

(* The frames as they are but for the innermost, and perhaps one more. *)
Kept(fs) ==
  /\ IsSeq(fs) /\ Len(fs) >= Len(frames)
  /\ \A k \in 1 .. Len(frames) - 1 : fs[k] = frames[k]
  /\ fs[Len(frames)].loop = Top.loop /\ fs[Len(frames)].node = Top.node
  /\ fs[Len(frames)].lines = Top.lines

NewBlock(ns, b) == ns = nodes \/ (Grows(nodes, b, ns) /\ b.parent = Top.node)

LEMMA LowerKept ==
  ASSUME BlocksInv, MaximalInv, frames # <<>>, NEW ns, NEW b, NewBlock(ns, b),
         NEW ds, defined \subseteq ds, NEW fs, Kept(fs), NEW k \in 1 .. Len(frames) - 1
  PROVE  Ended(ns, ds, fs, k)
<1> DEFINE n == Len(frames)
           f == frames[k]
<1>1. n \in Nat /\ n > 0 /\ Top = frames[n] /\ n \in 1 .. n /\ Len(fs) \in Nat /\ n <= Len(fs)
  BY TopIsEnded DEF Kept, IsSeq
<1>2. k \in 1 .. n /\ k < n /\ k + 1 \in 1 .. n /\ k < Len(fs)
  BY <1>1
<1>3. f.node < Top.node /\ f.node \in Int /\ Top.node \in Int
  <2>1. f.node < Top.node
    BY <1>1, <1>2 DEF MaximalInv, Deeper
  <2>2. \A j \in 1 .. n : frames[j].node \in 0 .. Len(nodes)
    BY DEF BlocksInv, TreeFits, Placed
  <2>3. Len(nodes) \in Nat
    BY DEF BlocksInv, TreeFits, Tree, IsSeq
  <2> QED
    BY <1>1, <1>2, <2>1, <2>2, <2>3
<1>4. fs[k] = f /\ fs[k + 1].loop = frames[k + 1].loop
  <2>1. CASE k + 1 = n
    BY <1>1, <2>1 DEF Kept
  <2>2. CASE k + 1 # n
    <3>1. k + 1 \in 1 .. n - 1
      BY <1>1, <1>2, <2>2
    <3> QED
      BY <3>1 DEF Kept
  <2> QED
    BY <2>1, <2>2 DEF Kept
<1>5. Calling(fs, k) <=> Calling(frames, k)
  BY <1>2, <1>4 DEF Calling
<1>6. Ended(nodes, defined, frames, k)
  BY <1>2 DEF MaximalInv
<1>7. CASE f.loop = "list"
  <2>1. ListOpen(nodes, f) /\ f.node \in 1 .. Len(nodes) /\ nodes[f.node].parent < f.node
    BY <1>2, <1>6, <1>7, ListNodes DEF Ended
  <2>2. nodes[f.node].parent \in Int
    <3>1. nodes[f.node].parent \in 0 .. f.node - 1
      BY <2>1 DEF BlocksInv, TreeFits, Tree, Grown
    <3> QED
      BY <3>1
  <2>3. nodes[f.node].parent # Top.node
    BY <1>3, <2>1, <2>2
  <2>4. ListOpen(ns, f)
    <3>1. CASE ns = nodes
      BY <2>1, <3>1
    <3>2. CASE Grows(nodes, b, ns) /\ b.parent = Top.node
      BY <2>1, <2>3, <3>2, ListStaysOpen
    <3> QED
      BY <3>1, <3>2 DEF NewBlock
  <2> QED
    BY <1>4, <1>7, <2>4 DEF Ended
<1>8. CASE f.loop # "list"
  <2>1. TextEnded(nodes, f) /\ (Calling(frames, k) \/ ListEnded(nodes, defined, f))
    BY <1>6, <1>8 DEF Ended
  <2>2. TextEnded(ns, f) /\ (ListEnded(nodes, defined, f) => ListEnded(ns, ds, f))
    <3>1. CASE ns = nodes
      <4>1. ListEnded(nodes, defined, f) => ListEnded(nodes, ds, f)
        BY DEF ListEnded
      <4> QED
        BY <2>1, <3>1, <4>1
    <3>2. CASE Grows(nodes, b, ns) /\ b.parent = Top.node
      <4>1. b.parent # f.node
        BY <1>3, <3>2
      <4> QED
        BY <2>1, <3>2, <4>1, ElsewhereKept
    <3> QED
      BY <3>1, <3>2 DEF NewBlock
  <2> QED
    BY <1>4, <1>5, <1>8, <2>1, <2>2 DEF Ended
<1> QED
  BY <1>7, <1>8

LEMMA DeeperKept ==
  ASSUME BlocksInv, MaximalInv, frames # <<>>, NEW fs, Kept(fs)
  PROVE  /\ Len(fs) = Len(frames) => Deeper(fs)
         /\ \A h : fs[Len(frames) + 1] = h /\ Len(fs) = Len(frames) + 1 /\ h.node = NewNode => Deeper(fs)
<1> DEFINE n == Len(frames)
<1>1. n \in Nat /\ n > 0 /\ Top = frames[n] /\ Len(nodes) \in Nat
  BY TopIsEnded DEF BlocksInv, TreeFits, Tree, IsSeq
<1>2. \A k \in 1 .. n : fs[k].node = frames[k].node
  <2> SUFFICES ASSUME NEW k \in 1 .. n PROVE fs[k].node = frames[k].node
    OBVIOUS
  <2>1. CASE k = n
    BY <1>1, <2>1 DEF Kept
  <2>2. CASE k # n
    <3>1. k \in 1 .. n - 1
      BY <1>1, <2>2
    <3> QED
      BY <3>1 DEF Kept
  <2> QED
    BY <2>1, <2>2
<1>3. \A k \in 1 .. n : frames[k].node \in 0 .. Len(nodes)
  BY DEF BlocksInv, TreeFits, Placed
<1>4. \A j, k \in 1 .. n : j < k => fs[j].node < fs[k].node
  BY <1>2 DEF MaximalInv, Deeper
<1>5. ASSUME NEW h, fs[n + 1] = h, Len(fs) = n + 1, h.node = NewNode PROVE Deeper(fs)
  <2>1. \A k \in 1 .. n : fs[k].node < fs[n + 1].node
    BY <1>1, <1>2, <1>3, <1>5 DEF NewNode
  <2>2. \A k \in 1 .. n + 1 : k \in 1 .. n \/ k = n + 1
    BY <1>1
  <2>3. ASSUME NEW j \in 1 .. n + 1, NEW k \in 1 .. n + 1, j < k PROVE fs[j].node < fs[k].node
    <3>1. j \in 1 .. n
      BY <1>1, <2>3
    <3> QED
      BY <1>4, <2>1, <2>2, <2>3, <3>1
  <2> QED
    BY <1>5, <2>3 DEF Deeper
<1>6. Len(fs) = n => Deeper(fs)
  BY <1>4 DEF Deeper
<1> QED
  BY <1>5, <1>6

LEMMA LinesKept ==
  ASSUME BlocksInv, MaximalInv, frames # <<>>, NEW fs, Kept(fs), NEW k \in 1 .. Len(frames)
  PROVE  LinesOfText(fs[k].lines)
<1> DEFINE n == Len(frames)
<1>1. n \in Nat /\ n > 0 /\ Top = frames[n] /\ LinesOfText(frames[k].lines)
  BY TopIsEnded DEF MaximalInv
<1>2. CASE k = n
  BY <1>1, <1>2 DEF Kept
<1>3. CASE k # n
  <2>1. k \in 1 .. n - 1
    BY <1>1, <1>3
  <2> QED
    BY <1>1, <2>1 DEF Kept
<1> QED
  BY <1>2, <1>3

(* A turn that moves the innermost loop on. *)
LEMMA TurnKeepsMaximal ==
  ASSUME BlocksInv, MaximalInv, frames # <<>>, Top.loop = "blocks", NEW b, NewBlock(nodes', b),
         defined \subseteq defined', NEW g, Same(g, Top), frames' = Put(frames, Len(frames), g),
         TextEnded(nodes', g), ListEnded(nodes', defined', g), Maximal(nodes', defined')
  PROVE  MaximalInv'
<1> DEFINE n == Len(frames)
<1>1. n \in Nat /\ n > 0 /\ IsSeq(frames) /\ Top = frames[n] /\ n \in 1 .. n
  BY TopIsEnded
<1>2. /\ IsSeq(frames') /\ Len(frames') = n /\ frames'[n] = g
      /\ \A k \in 1 .. n : k # n => frames'[k] = frames[k]
  BY <1>1, Replaced
<1>3. \A k \in 1 .. n - 1 : k \in 1 .. n /\ k # n
  BY <1>1
<1>4. Kept(frames')
  <2>1. n >= n
    BY <1>1
  <2> QED
    BY <1>1, <1>2, <1>3, <2>1 DEF Kept, Same
<1>5. ASSUME NEW k \in 1 .. n PROVE Ended(nodes', defined', frames', k)
  <2>1. CASE k = n
    BY <1>2, <2>1 DEF Ended, Same
  <2>2. CASE k # n
    <3>1. k \in 1 .. n - 1
      BY <1>1, <2>2
    <3> QED
      BY <1>4, <3>1, LowerKept
  <2> QED
    BY <2>1, <2>2
<1>6. Deeper(frames') /\ \A k \in 1 .. n : LinesOfText(frames'[k].lines)
  BY <1>2, <1>4, DeeperKept, LinesKept
<1> QED
  BY <1>2, <1>5, <1>6 DEF MaximalInv

(* A turn that calls another loop. *)
LEMMA CallKeepsMaximal ==
  ASSUME BlocksInv, MaximalInv, frames # <<>>, NEW b, Grows(nodes, b, nodes'), b.parent = Top.node,
         defined' = defined, NEW g, Same(g, Top),
         NEW moved, (moved = frames /\ g = Top) \/ moved = Put(frames, Len(frames), g),
         NEW h, h.node = NewNode, frames' = Append(moved, h), LinesOfText(h.lines),
         IF Top.loop = "list" THEN ListOpen(nodes', g)
         ELSE TextEnded(nodes', g) /\ (h.loop = "list" \/ ListEnded(nodes', defined, g)),
         h.loop = "list" => ListOpen(nodes', h),
         Maximal(nodes', defined)
  PROVE  MaximalInv'
<1> DEFINE n == Len(frames)
<1>1. n \in Nat /\ n > 0 /\ IsSeq(frames) /\ Top = frames[n] /\ n \in 1 .. n
  BY TopIsEnded
<1>2. /\ IsSeq(moved) /\ Len(moved) = n /\ moved[n] = g
      /\ \A k \in 1 .. n : k # n => moved[k] = frames[k]
  <2>1. CASE moved = frames /\ g = Top
    BY <1>1, <2>1
  <2>2. CASE moved = Put(frames, n, g)
    BY <1>1, <2>2, Replaced
  <2> QED
    BY <2>1, <2>2
<1>3. /\ IsSeq(frames') /\ Len(frames') = n + 1 /\ frames'[n + 1] = h
      /\ \A k \in 1 .. n : frames'[k] = moved[k]
  BY <1>2, Appended
<1>4. \A k \in 1 .. n - 1 : k \in 1 .. n /\ k # n
  BY <1>1
<1>5. Kept(frames') /\ frames'[n] = g
  <2>1. n + 1 >= n
    BY <1>1
  <2>2. frames'[n] = g
    BY <1>1, <1>2, <1>3
  <2> QED
    BY <1>1, <1>2, <1>3, <1>4, <2>1, <2>2 DEF Kept, Same
<1>6. ASSUME NEW k \in 1 .. n + 1 PROVE Ended(nodes', defined, frames', k)
  <2>1. CASE k = n
    <3>1. Calling(frames', n) <=> h.loop = "list"
      <4>1. n < n + 1
        BY <1>1
      <4> QED
        BY <1>3, <4>1 DEF Calling
    <3> QED
      BY <1>5, <2>1, <3>1 DEF Ended, Same
  <2>2. CASE k = n + 1
    <3>1. CASE h.loop = "list"
      BY <1>3, <2>2, <3>1 DEF Ended
    <3>2. CASE h.loop # "list"
      <4>1. \A m \in 1 .. Len(nodes') : nodes'[m].parent # h.node
        <5> DEFINE c == Len(nodes)
        <5>1. /\ c \in Nat /\ Len(nodes') = c + 1 /\ nodes'[c + 1] = b
              /\ \A m \in 1 .. c : nodes'[m] = nodes[m]
          BY GrowthFacts
        <5>2. \A m \in 1 .. c : nodes[m].parent \in 0 .. m - 1
          BY DEF BlocksInv, TreeFits, Tree, Grown
        <5>3. \A m \in 1 .. c : nodes'[m].parent # c + 1
          BY <5>1, <5>2
        <5>4. b.parent # c + 1
          <6>1. Top.node \in 0 .. c
            BY RoomHere DEF BlocksInv
          <6> QED
            BY <5>1, <6>1
        <5> QED
          BY <5>1, <5>3, <5>4 DEF NewNode
      <4>2. TextEnded(nodes', h) /\ ListEnded(nodes', defined, h)
        BY <4>1 DEF TextEnded, ListEnded, ChildOf
      <4> QED
        BY <1>3, <2>2, <3>2, <4>2 DEF Ended
    <3> QED
      BY <3>1, <3>2
  <2>3. CASE k # n /\ k # n + 1
    <3>1. k \in 1 .. n - 1
      BY <1>1, <2>3
    <3>2. NewBlock(nodes', b) /\ defined \subseteq defined
      BY DEF NewBlock
    <3> QED
      BY <1>5, <3>1, <3>2, LowerKept
  <2> QED
    BY <2>1, <2>2, <2>3
<1>7. Deeper(frames')
  BY <1>3, <1>5, DeeperKept
<1>8. ASSUME NEW k \in 1 .. n + 1 PROVE LinesOfText(frames'[k].lines)
  <2>1. CASE k = n + 1
    BY <1>3, <2>1
  <2>2. CASE k # n + 1
    <3>1. k \in 1 .. n
      BY <1>1, <2>2
    <3> QED
      BY <1>5, <3>1, LinesKept
  <2> QED
    BY <2>1, <2>2
<1> QED
  BY <1>3, <1>6, <1>7, <1>8 DEF MaximalInv

-----------------------------------------------------------------------------
(* Every action keeps it. *)
LEMMA BeforeNext ==
  ASSUME BlocksInv, NEW d \in defined
  PROVE  d.line \in Int /\ d.line < NextLine
<1>1. d.line \in DefinitionLines
  BY DEF DefinitionLines
<1>2. DefinitionLines \subseteq 1 .. NextLine - 1
  BY DEF BlocksInv, LinesDivided, Divided
<1>3. NextLine \in Int
  <2>1. CASE frames = <<>>
    <3>1. IsSeq(frames) /\ Len(frames) = 0
      BY <2>1, NoLines DEF BlocksInv, FramesFit, Calls
    <3>2. Len(source) \in Nat
      BY DEF BlocksInv, FramesFit, IsSeq
    <3> QED
      BY <3>1, <3>2 DEF NextLine, NextOf
  <2>2. CASE frames # <<>>
    BY <2>2, AtTop DEF BlocksInv
  <2> QED
    BY <2>1, <2>2
<1> DEFINE l == d.line
           next == NextLine
<1>4. l \in 1 .. next - 1 /\ next \in Int
  BY <1>1, <1>2, <1>3
<1> HIDE DEF l, next
<1>5. l \in Int /\ l < next
  BY <1>4
<1> QED
  BY <1>5 DEF l, next

LEMMA MovedTop ==
  ASSUME BlocksInv, frames # <<>>, NEW at \in Nat, at > 0, at <= Len(Rest) + 1, NEW g, MovedTo(Top, at, g)
  PROVE  /\ Same(g, Top) /\ g.at = at /\ g.node = Top.node /\ g.loop = Top.loop /\ g.first = Top.first
         /\ Base(g) = Base(Top) /\ (Goes(g) <=> at <= Len(Rest))
         /\ (Goes(g) => Content(g) = Lookup(at))
<1>1. IsFrame(Top) /\ Rest = Top.lines /\ Len(Rest) \in Nat
  BY AtTop DEF BlocksInv
<1>2. IsFrame(g) /\ Same(g, Top) /\ g.at = at
  <2>1. at \in 1 .. Len(Top.lines) + 1
    BY <1>1
  <2> QED
    BY <1>1, <2>1, FrameChanged
<1>3. Base(g) = Base(Top)
  BY <1>2, SameBase
<1>4. g.first = Top.first
  <2> DEFINE f == Top
  <2>1. f = [loop |-> f.loop, node |-> f.node, lines |-> f.lines, at |-> f.at,
             first |-> f.first, loose |-> f.loose, item |-> f.item]
    BY <1>1 DEF IsFrame
  <2> HIDE DEF f
  <2>2. CASE g = [f EXCEPT !.at = at]
    BY <2>1, <2>2 DEF f
  <2>3. ASSUME NEW loose, NEW item, g = [f EXCEPT !.at = at, !.item = item, !.loose = loose]
        PROVE  g.first = f.first
    BY <2>1, <2>3
  <2> QED
    BY <2>2, <2>3 DEF MovedTo, f
<1> QED
  BY <1>1, <1>2, <1>3, <1>4 DEF Same, Goes, Content, Lookup, Rest

(* What a block that begins at the current line is told by the one before. *)
LEMMA TextBeforeBlock ==
  ASSUME BlocksInv, MaximalInv, Parsing, Beginning # "blank", NEW m \in 1 .. Len(nodes),
         ChildOf(nodes, m, Top.node, "paragraph"), nodes[m].to + 1 = Base(Top) + Top.at
  PROVE  StartsBlock(Here) /\ ~Blank(Here)
<1>1. frames # <<>> /\ Top.loop = "blocks" /\ Top.at <= Len(Rest)
  BY DEF Parsing
<1>2. TextEnded(nodes, Top)
  BY <1>1, TopIsEnded
<1>3. Goes(Top) /\ Content(Top) = Here
  BY <1>1 DEF Goes, Content, Here, Lookup, Rest
<1>4. Blank(Here) \/ StartsBlock(Here)
  BY <1>2, <1>3 DEF TextEnded
<1>5. ~Blank(Here)
  BY DEF Beginning
<1> QED
  BY <1>4, <1>5

(* A leaf shows the line it begins at. *)
LEMMA LeafBegins ==
  ASSUME NEW kind, NEW at, NEW last \in Nat, Top.at \in Nat, Top.at <= last
  PROVE  BlockOver(kind, Top.at, at - 1, Top.at .. last).text[1] = Here
<1>1. Cardinality(Top.at .. last) = last - Top.at + 1
  BY FS_Interval
<1>2. 1 \in 1 .. Cardinality(Top.at .. last) /\ Top.at + 1 - 1 = Top.at
  BY <1>1
<1> QED
  BY <1>2 DEF BlockOver, Here

LEMMA LeafKeepsMaximal ==
  ASSUME BlocksInv, MaximalInv, Parsing, NEW kind, kind \notin {"list", "item"}, NEW at \in Nat, NEW last \in Nat,
         TakesLeaf(kind, at, last), Beginning # "blank",
         StartsBlock(Here) => Beginning = kind,
         kind = "paragraph" /\ at <= Len(Rest) => Blank(Lookup(at)) \/ StartsBlock(Lookup(at))
  PROVE  MaximalInv'
<1> DEFINE b == BlockOver(kind, Top.at, at - 1, Top.at .. last)
           g == [Top EXCEPT !.at = at]
           c == Len(nodes)
<1>1. /\ Base(Top) \in Nat /\ Top.at \in Nat /\ Top.at > 0 /\ Len(Rest) \in Nat
      /\ Top.at <= last /\ last < at /\ at <= Len(Rest) + 1 /\ NextLine = Base(Top) + Top.at
      /\ frames # <<>> /\ Top.loop = "blocks" /\ FramesFit /\ TreeFits /\ Tree(nodes) /\ IsSeq(nodes)
  BY AtTop DEF TakesLeaf, BlocksInv, TreeFits, Tree
<1>2. /\ b.kind = kind /\ b.parent = Top.node /\ b.from = Base(Top) + Top.at /\ b.to = Base(Top) + at - 1
      /\ b.text[1] = Here
  <2>1. Top.at .. last \in SUBSET (Top.at .. at - 1) /\ Top.at < at
    BY <1>1
  <2>2. Made(b, kind, at, Top.at .. last)
    BY <1>1, <2>1, BlockMade
  <2>3. b.text[1] = Here
    BY <1>1, LeafBegins
  <2> HIDE DEF b
  <2> QED
    BY <2>2, <2>3 DEF Made
<1> HIDE DEF b
<1>3. Grows(nodes, b, nodes') /\ defined' = defined
  BY <1>1 DEF Grows, TakesLeaf, b
<1>4. /\ Same(g, Top) /\ g.at = at /\ g.node = Top.node /\ Base(g) = Base(Top)
      /\ (Goes(g) <=> at <= Len(Rest)) /\ (Goes(g) => Content(g) = Lookup(at))
  <2>1. MovedTo(Top, at, g) /\ at > 0
    BY <1>1 DEF MovedTo
  <2> HIDE DEF g
  <2> QED
    BY <1>1, <2>1, MovedTop
<1>5. frames' = Put(frames, Len(frames), g)
  BY MoveToPuts DEF TakesLeaf
<1> HIDE DEF g
<1>6. /\ TextEnded(nodes, Top) /\ ListEnded(nodes, defined, Top) /\ Maximal(nodes, defined)
  BY <1>1, TopIsEnded
<1>7. /\ c \in Nat /\ Len(nodes') = c + 1 /\ nodes'[c + 1] = b
      /\ \A n \in 1 .. c : nodes'[n] = nodes[n]
  BY <1>3, GrowthFacts
<1>8. Top.node \in 0 .. c /\ (Top.node # 0 => nodes[Top.node].kind # "list")
  BY <1>1, RoomHere DEF Room
<1>9. Fits(nodes, defined, b)
  <2>1. ASSUME NEW m \in 1 .. c, ChildOf(nodes, m, b.parent, "paragraph"), b.from = nodes[m].to + 1
        PROVE  MayInterrupt(b)
    <3>1. StartsBlock(Here) /\ ~Blank(Here)
      BY <1>2, <2>1, TextBeforeBlock
    <3> QED
      BY <1>2, <3>1, InterruptersBegin DEF MayInterrupt
  <2>2. ASSUME NEW d \in defined PROVE d.line # b.to + 1
    <3>1. d.line \in Int /\ d.line < Base(Top) + Top.at
      BY <1>1, BeforeNext
    <3> QED
      BY <1>1, <1>2, <3>1
  <2> QED
    BY <1>2, <1>8, <2>1, <2>2 DEF Fits
<1>10. Maximal(nodes', defined)
  BY <1>1, <1>2, <1>3, <1>6, <1>8, <1>9, MaximalGrows
<1>11. TextEnded(nodes', g)
  <2> SUFFICES ASSUME NEW n \in 1 .. c + 1, ChildOf(nodes', n, Top.node, "paragraph")
               PROVE  /\ nodes'[n].to < Base(Top) + at
                      /\ nodes'[n].to + 1 = Base(Top) + at /\ at <= Len(Rest)
                           => Blank(Lookup(at)) \/ StartsBlock(Lookup(at))
    BY <1>4, <1>7 DEF TextEnded
  <2>1. CASE n \in 1 .. c
    <3>1. nodes'[n].to = nodes[n].to /\ nodes[n].to < Base(Top) + Top.at
      BY <1>6, <1>7, <2>1 DEF TextEnded, ChildOf
    <3>2. nodes[n].to \in Nat
      BY <1>1, <2>1 DEF Tree, Grown, IsBlock
    <3> QED
      BY <1>1, <3>1, <3>2
  <2>2. CASE n = c + 1
    <3>1. nodes'[n].to = Base(Top) + at - 1 /\ kind = "paragraph"
      BY <1>2, <1>7, <2>2 DEF ChildOf
    <3> QED
      BY <1>1, <3>1
  <2> QED
    BY <1>7, <2>1, <2>2
<1>12. ListEnded(nodes', defined, g)
  <2> SUFFICES ASSUME NEW n \in 1 .. c + 1, ChildOf(nodes', n, Top.node, "list"), LastChild(nodes', n)
               PROVE  FALSE
    BY <1>4, <1>7 DEF ListEnded
  <2>1. CASE n \in 1 .. c
    <3>1. b.parent # nodes[n].parent
      BY <1>3, <2>1, LastChildGrows
    <3> QED
      BY <1>2, <1>7, <2>1, <3>1 DEF ChildOf
  <2>2. CASE n = c + 1
    BY <1>2, <1>7, <2>2 DEF ChildOf
  <2> QED
    BY <1>7, <2>1, <2>2
<1>13. NewBlock(nodes', b) /\ defined \subseteq defined'
  BY <1>2, <1>3 DEF NewBlock
<1> QED
  BY <1>1, <1>3, <1>4, <1>5, <1>10, <1>11, <1>12, <1>13, TurnKeepsMaximal

LEMMA OtherLeafKeepsMaximal ==
  ASSUME BlocksInv, MaximalInv, Parsing, NEW kind \in LeafKinds, NEW at \in Nat, NEW last \in Nat,
         TakesLeaf(kind, at, last), Beginning = kind \/ Beginning = "paragraph"
  PROVE  MaximalInv'
<1>1. kind \notin {"list", "item"} /\ Beginning # "blank" /\ kind # "paragraph"
  BY DEF LeafKinds
<1>2. StartsBlock(Here) => Beginning = kind
  BY <1>1, InterruptersBegin DEF Beginning
<1> QED
  BY <1>1, <1>2, LeafKeepsMaximal

LEMMA LeafActionsKeepMaximal ==
  ASSUME BlocksInv, MaximalInv,
         \/ ParseFence \/ ParseHeading \/ ParseBreak \/ ParseIndentedCode
         \/ ParseHtml \/ ParseParagraph \/ ParseSetext \/ ParseTable
  PROVE  MaximalInv'
<1>1. CASE ParseParagraph
  <2>1. /\ Parsing /\ Beginning = "paragraph" /\ ParagraphEnd \in Nat /\ ParagraphEnd - 1 \in Nat
        /\ TakesLeaf("paragraph", ParagraphEnd, ParagraphEnd - 1)
    BY <1>1, ParseParagraphTakes DEF ParseParagraph, At
  <2>2. ParagraphEnd <= Len(Rest) => Blank(Lookup(ParagraphEnd)) \/ StartsBlock(Lookup(ParagraphEnd))
    BY <1>1, <2>1, ParagraphEndsAt DEF ParseParagraph
  <2>3. ~StartsBlock(Here)
    BY <2>1, InterruptersBegin DEF Beginning
  <2> DEFINE at == ParagraphEnd
             last == at - 1
  <2>4. /\ at \in Nat /\ last \in Nat /\ TakesLeaf("paragraph", at, last)
        /\ at <= Len(Rest) => Blank(Lookup(at)) \/ StartsBlock(Lookup(at))
    BY <2>1, <2>2
  <2> HIDE DEF at, last
  <2>5. "paragraph" \notin {"list", "item"} /\ Beginning # "blank"
    BY <2>1
  <2> QED
    BY <2>1, <2>3, <2>4, <2>5, LeafKeepsMaximal
<1>2. CASE ~ParseParagraph
  <2>1. PICK kind \in LeafKinds : Takes(kind) /\ (Beginning = kind \/ Beginning = "paragraph")
    BY <1>2, LeafActions
  <2>2. PICK at, last \in Nat : TakesLeaf(kind, at, last)
    BY <2>1 DEF Takes
  <2>3. Parsing
    BY LeafActions
  <2> QED
    BY <2>1, <2>2, <2>3, OtherLeafKeepsMaximal
<1> QED
  BY <1>1, <1>2

LEMMA LineKeepsMaximal ==
  ASSUME BlocksInv, MaximalInv, SkipBlank \/ ParseDefinition
  PROVE  MaximalInv'
<1> DEFINE at == Top.at + 1
           g == [Top EXCEPT !.at = at]
           c == Len(nodes)
           next == Base(Top) + Top.at
<1>1. Parsing /\ nodes' = nodes /\ MoveTo(at)
  BY DEF SkipBlank, ParseDefinition, At
<1>2. /\ frames # <<>> /\ Top.loop = "blocks" /\ Top.at \in Nat /\ Len(Rest) \in Nat /\ Top.at <= Len(Rest)
      /\ at \in Nat /\ at > 0 /\ at <= Len(Rest) + 1 /\ Base(Top) \in Nat /\ NextLine = next
      /\ Base(Top) + at = next + 1 /\ next \in Nat /\ Tree(nodes)
  <2>1. frames # <<>> /\ Top.loop = "blocks"
    BY <1>1 DEF Parsing
  <2>2. Top.at \in Nat /\ Len(Rest) \in Nat /\ Top.at <= Len(Rest) /\ Base(Top) \in Nat /\ NextLine = next
    BY <1>1, <2>1, TurnAt, AtTop DEF BlocksInv
  <2>3. Tree(nodes)
    BY DEF BlocksInv, TreeFits
  <2> QED
    BY <2>1, <2>2, <2>3
<1>3. frames' = Put(frames, Len(frames), g)
  BY <1>1, MoveToPuts
<1>4. Same(g, Top) /\ g.at = at /\ g.node = Top.node /\ Base(g) = Base(Top)
  <2>1. MovedTo(Top, at, g)
    BY DEF MovedTo
  <2> HIDE DEF g, at
  <2> QED
    BY <1>2, <2>1, MovedTop
<1> HIDE DEF g
<1>5. TextEnded(nodes, Top) /\ ListEnded(nodes, defined, Top) /\ Maximal(nodes, defined)
  BY <1>2, TopIsEnded
<1>6. Goes(Top) /\ Content(Top) = Here
  BY <1>2 DEF Goes, Content, Here, Lookup, Rest
<1> HIDE DEF next, at
<1>7. Base(g) + g.at = next + 1
  BY <1>2, <1>4
<1>8. TextEnded(nodes, g)
  <2> SUFFICES ASSUME NEW n \in 1 .. c, ChildOf(nodes, n, Top.node, "paragraph")
               PROVE  nodes[n].to < next + 1 /\ nodes[n].to + 1 # next + 1
    BY <1>4, <1>7 DEF TextEnded
  <2>1. nodes[n].to < next
    BY <1>5 DEF TextEnded, next
  <2>2. nodes[n].to \in Nat
    BY <1>2 DEF Tree, Grown, IsBlock
  <2> QED
    BY <1>2, <2>1, <2>2
<1>9. defined \subseteq defined' /\ ListEnded(nodes, defined', g) /\ Maximal(nodes, defined')
  <2>1. CASE SkipBlank
    <3>1. defined' = defined /\ Blank(Here)
      BY <2>1 DEF SkipBlank, At, Beginning
    <3>2. ASSUME NEW n \in 1 .. c, ChildOf(nodes, n, Top.node, "list"), LastChild(nodes, n)
          PROVE  nodes[n].from < next + 1 /\ \E d \in defined : d.parent = Top.node /\ nodes[n].from < d.line
      <4>1. nodes[n].from < next /\ \E d \in defined : d.parent = Top.node /\ nodes[n].from < d.line
        BY <1>5, <1>6, <3>1, <3>2 DEF ListEnded, GoesOn, next
      <4>2. nodes[n].from \in Nat
        BY <1>2 DEF Tree, Grown, IsBlock
      <4> QED
        BY <1>2, <4>1, <4>2
    <3>3. ListEnded(nodes, defined, g)
      BY <1>4, <1>7, <3>2 DEF ListEnded
    <3> QED
      BY <1>5, <3>1, <3>3
  <2>2. CASE ParseDefinition
    <3> DEFINE e == [line |-> next, parent |-> Top.node]
    <3>1. defined' = defined \cup {e}
      <4>1. Rest[Top.at].number = next
        BY <1>2, AtTop DEF BlocksInv, next
      <4> QED
        BY <2>2, <4>1 DEF ParseDefinition
    <3>2. e.line = next /\ e.parent = Top.node /\ e \in defined' /\ defined \subseteq defined'
      BY <3>1
    <3>3. Beginning = "definition"
      BY <2>2 DEF ParseDefinition, At
    <3>4. ASSUME NEW n \in 1 .. c, ChildOf(nodes, n, Top.node, "list"), LastChild(nodes, n)
          PROVE  nodes[n].from < next + 1 /\ \E d \in defined' : d.parent = Top.node /\ nodes[n].from < d.line
      <4>1. nodes[n].from < next
        BY <1>5, <3>4 DEF ListEnded, next
      <4>2. nodes[n].from \in Nat
        BY <1>2 DEF Tree, Grown, IsBlock
      <4> QED
        BY <1>2, <3>2, <4>1, <4>2
    <3>5. ListEnded(nodes, defined', g)
      BY <1>4, <1>7, <3>4 DEF ListEnded
    <3>6. TextIsMaximal(nodes, defined')
      <4>1. ASSUME NEW m \in 1 .. c, nodes[m].kind = "paragraph", NEW d \in defined', d.parent = nodes[m].parent
            PROVE  d.line # nodes[m].to + 1
        <5>1. CASE d \in defined
          BY <1>5, <4>1, <5>1 DEF Maximal, TextIsMaximal
        <5>2. CASE d = e
          <6> SUFFICES ASSUME nodes[m].to + 1 = Base(Top) + Top.at PROVE FALSE
            BY <3>2, <5>2 DEF next
          <6>1. ChildOf(nodes, m, Top.node, "paragraph")
            BY <3>2, <4>1, <5>2 DEF ChildOf
          <6>2. StartsBlock(Here) /\ ~Blank(Here)
            BY <1>1, <3>3, <6>1, TextBeforeBlock
          <6> QED
            BY <3>3, <6>2, InterruptersBegin
        <5> QED
          BY <3>1, <4>1, <5>1, <5>2
      <4> QED
        BY <1>5, <4>1 DEF Maximal, TextIsMaximal
    <3>7. ListsAreWhole(nodes, defined')
      BY <1>5, <3>2 DEF Maximal, ListsAreWhole
    <3> QED
      BY <1>5, <3>2, <3>5, <3>6, <3>7 DEF Maximal
  <2> QED
    BY <2>1, <2>2
<1> QED
  <2>1. \A b : NewBlock(nodes', b)
    BY <1>1 DEF NewBlock
  <2> QED
    BY <1>1, <1>2, <1>3, <1>4, <1>8, <1>9, <2>1, TurnKeepsMaximal

-----------------------------------------------------------------------------
(* What is handed to a container is made of texts, too. *)
LEMMA HandedText ==
  ASSUME BlocksInv, frames # <<>>, NEW at \in Nat, Top.at < at, at <= Len(Rest) + 1,
         NEW lines, Handed(lines, at),
         \A k \in 1 .. at - Top.at :
           Top.at + k - 1 \in Top.at .. Len(Rest) => lines[k].content \in Seq(Characters)
  PROVE  LinesOfText(lines)
<1> DEFINE n == at - Top.at
<1>1. Len(lines) = n
  BY HandedFit DEF BlocksInv
<1>2. Top.at \in Nat /\ Len(Rest) \in Nat
  BY AtTop DEF BlocksInv
<1>3. \A k \in 1 .. n : Top.at + k - 1 \in Top.at .. Len(Rest)
  BY <1>2
<1> QED
  BY <1>1, <1>3 DEF LinesOfText

LEMMA QuoteLinesAreText ==
  ASSUME BlocksInv, frames # <<>>, LinesOfText(Rest), QuoteEnd \in Nat, Top.at < QuoteEnd,
         QuoteEnd <= Len(Rest) + 1, Handed(QuoteLines, QuoteEnd)
  PROVE  LinesOfText(QuoteLines)
<1> DEFINE at == QuoteEnd
           taken == QuoteLines
<1>1. Top.at \in Nat /\ Top.at > 0 /\ Len(Rest) \in Nat /\ \A n \in 1 .. Len(Rest) : IsLine(Rest[n])
  BY AtTop DEF BlocksInv
<1>2. taken = [k \in 1 .. at - Top.at |-> TakenByQuote(Top.at + k - 1)]
  BY DEF QuoteLines
<1>3. ASSUME NEW n \in Top.at .. Len(Rest) PROVE TakenByQuote(n).content \in Seq(Characters)
  <2> DEFINE c == Lookup(n)
             r == Rest[n]
             end == Indent(c) + 1
             width == IF end < Len(c) /\ c[end + 1] = " " THEN end + 1 ELSE end
  <2>1. n \in 1 .. Len(Rest)
    BY <1>1
  <2>2. c \in Seq(Characters) /\ r = [number |-> r.number, content |-> c, lazy |-> r.lazy]
    BY <1>1, <2>1 DEF LinesOfText, Lookup, IsLine, Line
  <2>3. StripQuote(c) \in Seq(Characters)
    <3>1. StripQuote(c) = StripContainer(c, end, width)
      BY DEF StripQuote
    <3>2. Indent(c) \in Nat
      BY <2>2, IndentIsNat
    <3>3. end \in Nat
      BY <3>2
    <3> HIDE DEF c, end
    <3>4. width = end \/ width = end + 1
      OBVIOUS
    <3> HIDE DEF width
    <3>5. width \in Nat
      BY <3>3, <3>4
    <3> QED
      BY <2>2, <3>1, <3>3, <3>5, StrippedIsText
  <2> DEFINE stripped == StripQuote(c)
  <2>4. TakenByQuote(n) = IF Quoted(c) THEN [r EXCEPT !.content = stripped] ELSE [r EXCEPT !.lazy = TRUE]
    BY DEF TakenByQuote
  <2> HIDE DEF c, r, stripped
  <2>5. TakenByQuote(n).content = IF Quoted(c) THEN stripped ELSE c
    BY <2>2, <2>4
  <2> QED
    BY <2>2, <2>3, <2>5 DEF stripped
<1>4. ASSUME NEW k \in 1 .. at - Top.at, Top.at + k - 1 \in Top.at .. Len(Rest)
      PROVE  taken[k].content \in Seq(Characters)
  <2>1. taken[k] = TakenByQuote(Top.at + k - 1)
    BY <1>2
  <2> QED
    BY <1>3, <1>4, <2>1
<1> HIDE DEF at, taken
<1>5. LinesOfText(taken)
  <2>1. at \in Nat /\ Top.at < at /\ at <= Len(Rest) + 1 /\ Handed(taken, at)
    BY DEF at, taken
  <2> QED
    BY <1>4, <2>1, HandedText
<1> QED
  BY <1>5 DEF taken

LEMMA ItemLinesAreText ==
  ASSUME BlocksInv, frames # <<>>, LinesOfText(Rest), Top.at <= Len(Rest), ItemEnd \in Nat, Top.at < ItemEnd,
         ItemEnd <= Len(Rest) + 1, Handed(ItemLines, ItemEnd)
  PROVE  LinesOfText(ItemLines)
<1> DEFINE at == ItemEnd
           taken == ItemLines
<1>1. Top.at \in Nat /\ Top.at > 0 /\ Len(Rest) \in Nat /\ \A n \in 1 .. Len(Rest) : IsLine(Rest[n])
  BY AtTop DEF BlocksInv
<1>2. taken = [k \in 1 .. at - Top.at |-> TakenByItem(Top.at + k - 1)]
  BY DEF ItemLines
<1>3. ItemMarker.width \in Nat /\ ItemMarker.end \in Nat /\ ItemContent \in Seq(Characters)
  <2>1. Here \in Seq(Characters)
    <3>1. Top.at \in 1 .. Len(Rest)
      BY <1>1
    <3> QED
      BY <3>1 DEF LinesOfText, Lookup, Here
  <2>2. ItemMarker.width \in Nat /\ ItemMarker.end \in Nat
    BY <2>1, MarkerColumns DEF ItemMarker
  <2> QED
    BY <2>1, <2>2, StrippedIsText DEF ItemContent
<1>4. ASSUME NEW n \in Top.at .. Len(Rest) PROVE TakenByItem(n).content \in Seq(Characters)
  <2> DEFINE c == Lookup(n)
             r == Rest[n]
             inner == Inner(n, ItemMarker)
             short == Indent(c) < ItemMarker.width
             width == IF short THEN Indent(c) ELSE ItemMarker.width
  <2>1. n \in 1 .. Len(Rest) /\ (n = Top.at \/ n > Top.at)
    BY <1>1
  <2>2. c \in Seq(Characters) /\ r = [number |-> r.number, content |-> c, lazy |-> r.lazy]
    BY <1>1, <2>1 DEF LinesOfText, Lookup, IsLine, Line
  <2>3. inner \in Seq(Characters)
    <3>1. Indent(c) \in Nat
      BY <2>2, IndentIsNat
    <3>2. width \in Nat
      BY <1>3, <3>1
    <3>3. inner = StripContainer(c, 0, width)
      BY DEF Inner
    <3> HIDE DEF c, width, inner
    <3> QED
      BY <2>2, <3>2, <3>3, StrippedIsText
  <2> HIDE DEF inner, short
  <2>4. CASE n = Top.at
    <3>1. TakenByItem(n) = [r EXCEPT !.content = ItemContent]
      BY <2>4 DEF TakenByItem
    <3> HIDE DEF r
    <3> QED
      BY <1>3, <2>2, <3>1
  <2>5. CASE n > Top.at /\ Blank(c)
    <3>1. TakenByItem(n) = r
      BY <2>5 DEF TakenByItem
    <3> HIDE DEF r
    <3>2. r.content = c
      BY <2>2
    <3> QED
      BY <2>2, <3>1, <3>2
  <2>6. CASE n > Top.at /\ ~Blank(c)
    <3>1. n # Top.at
      BY <1>1, <2>6
    <3>2. TakenByItem(n) = [r EXCEPT !.content = inner, !.lazy = @ \/ short]
      BY <2>6, <3>1 DEF TakenByItem, inner, short
    <3> HIDE DEF r
    <3> QED
      BY <2>2, <2>3, <3>2
  <2> QED
    BY <2>1, <2>4, <2>5, <2>6
<1>5. ASSUME NEW k \in 1 .. at - Top.at, Top.at + k - 1 \in Top.at .. Len(Rest)
      PROVE  taken[k].content \in Seq(Characters)
  <2>1. taken[k] = TakenByItem(Top.at + k - 1)
    BY <1>2
  <2> QED
    BY <1>4, <1>5, <2>1
<1> HIDE DEF at, taken
<1>6. LinesOfText(taken)
  <2>1. at \in Nat /\ Top.at < at /\ at <= Len(Rest) + 1 /\ Handed(taken, at)
    BY DEF at, taken
  <2> QED
    BY <1>5, <2>1, HandedText
<1> QED
  BY <1>6 DEF taken

-----------------------------------------------------------------------------
(* The actions that call another loop. *)
LEMMA TextStaysEnded ==
  ASSUME BlocksInv, MaximalInv, frames # <<>>, Top.loop = "blocks",
         NEW b, Grows(nodes, b, nodes'), b.kind # "paragraph",
         NEW g, g.node = Top.node, Base(g) = Base(Top), g = Top \/ (g.at \in Nat /\ Top.at < g.at)
  PROVE  TextEnded(nodes', g)
<1> DEFINE c == Len(nodes)
           next == Base(Top) + Top.at
           here == Base(g) + g.at
<1>1. TextEnded(nodes, Top) /\ Base(Top) \in Nat /\ Top.at \in Nat
  BY TopIsEnded, AtTop DEF BlocksInv
<1>2. c \in Nat /\ Len(nodes') = c + 1 /\ nodes'[c + 1] = b /\ \A n \in 1 .. c : nodes'[n] = nodes[n]
  BY GrowthFacts
<1> SUFFICES ASSUME NEW n \in 1 .. c + 1, ChildOf(nodes', n, Top.node, "paragraph")
             PROVE  /\ nodes'[n].to < here
                    /\ nodes'[n].to + 1 = here /\ Goes(g) => Blank(Content(g)) \/ StartsBlock(Content(g))
  BY <1>2 DEF TextEnded
<1>3. n \in 1 .. c /\ nodes'[n] = nodes[n]
  BY <1>2 DEF ChildOf
<1>4. /\ nodes[n].to < next
      /\ nodes[n].to + 1 = next /\ Goes(Top) => Blank(Content(Top)) \/ StartsBlock(Content(Top))
  BY <1>1, <1>3 DEF TextEnded, ChildOf
<1>5. CASE g = Top
  BY <1>3, <1>4, <1>5
<1>6. CASE g.at \in Nat /\ Top.at < g.at
  <2>1. next \in Nat /\ here \in Nat /\ next < here
    BY <1>1, <1>6
  <2>2. nodes[n].to \in Nat
    BY <1>3 DEF BlocksInv, TreeFits, Tree, Grown, IsBlock
  <2> HIDE DEF next, here
  <2>3. nodes[n].to < here /\ nodes[n].to + 1 # here
    BY <1>4, <2>1, <2>2
  <2> QED
    BY <1>3, <2>3
<1> QED
  BY <1>5, <1>6

(* A list is no longer the last child when something is put behind it. *)
LEMMA NoListLast ==
  ASSUME NEW b, Grows(nodes, b, nodes'), b.parent = Top.node, b.kind # "list",
         NEW ds, NEW g, g.node = Top.node
  PROVE  ListEnded(nodes', ds, g)
<1> DEFINE c == Len(nodes)
<1>1. c \in Nat /\ Len(nodes') = c + 1 /\ nodes'[c + 1] = b /\ \A n \in 1 .. c : nodes'[n] = nodes[n]
  BY GrowthFacts
<1> SUFFICES ASSUME NEW n \in 1 .. c + 1, ChildOf(nodes', n, Top.node, "list"), LastChild(nodes', n)
             PROVE  FALSE
  BY <1>1 DEF ListEnded
<1>2. CASE n \in 1 .. c
  <2>1. b.parent # nodes[n].parent
    BY <1>2, LastChildGrows
  <2> QED
    BY <1>1, <1>2, <2>1 DEF ChildOf
<1>3. CASE n = c + 1
  BY <1>1, <1>3 DEF ChildOf
<1> QED
  BY <1>1, <1>2, <1>3

LEMMA HandedFrame ==
  ASSUME NEW lines, NEW h, h = BlocksFrame(NewNode, lines)
  PROVE  h.node = NewNode /\ h.lines = lines /\ h.loop = "blocks" /\ h.loop # "list"
BY DEF BlocksFrame

LEMMA QuoteKeepsMaximal ==
  ASSUME BlocksInv, MaximalInv, ParseQuote
  PROVE  MaximalInv'
<1> DEFINE at == QuoteEnd
           g == [Top EXCEPT !.at = at]
           taken == QuoteLines
           b == BlockOver("quote", Top.at, at - 1, {})
           h == BlocksFrame(NewNode, taken)
           moved == Put(frames, Len(frames), g)
<1>1. at \in Nat /\ HandsOver("quote", at, g, taken)
  BY ParseQuoteHands
<1>2. frames # <<>> /\ Top.loop = "blocks"
  BY DEF ParseQuote, At, Parsing
<1>3. /\ Top.at < at /\ at <= Len(Rest) + 1 /\ MovedTo(Top, at, g) /\ Handed(taken, at)
      /\ nodes' = Append(nodes, b) /\ frames' = Append(moved, h) /\ defined' = defined
  BY <1>1 DEF HandsOver
<1>4. Top.at \in Nat /\ LinesOfText(Rest) /\ Maximal(nodes, defined) /\ Tree(nodes) /\ IsSeq(nodes)
  BY <1>2, AtTop, TopIsEnded DEF BlocksInv, TreeFits, Tree
<1>5. LinesOfText(taken)
  BY <1>1, <1>2, <1>3, <1>4, QuoteLinesAreText
<1>6. h.node = NewNode /\ h.lines = taken /\ h.loop # "list"
  <2> HIDE DEF taken
  <2> QED
    BY HandedFrame
<1> HIDE DEF at, taken, h
<1>7. b.kind = "quote" /\ b.parent = Top.node
  <2>1. {} \in SUBSET (Top.at .. at - 1)
    OBVIOUS
  <2>2. Made(b, "quote", at, {})
    BY <1>1, <1>2, <1>3, <2>1, BlockMade DEF BlocksInv
  <2> QED
    BY <2>2 DEF Made
<1> HIDE DEF b
<1>8. Grows(nodes, b, nodes')
  BY <1>3, <1>4 DEF Grows
<1> HIDE DEF g
<1>9. Same(g, Top) /\ g.at = at /\ g.node = Top.node /\ Base(g) = Base(Top)
  <2>1. at > 0
    BY <1>1, <1>3, <1>4
  <2> QED
    BY <1>1, <1>2, <1>3, <2>1, MovedTop
<1>10. TextEnded(nodes', g) /\ ListEnded(nodes', defined, g)
  <2>1. b.kind # "paragraph" /\ b.kind # "list" /\ g.at \in Nat /\ Top.at < g.at
    BY <1>1, <1>3, <1>7, <1>9
  <2> QED
    BY <1>2, <1>7, <1>8, <1>9, <2>1, TextStaysEnded, NoListLast
<1>11. Top.node \in 0 .. Len(nodes) /\ (Top.node # 0 => nodes[Top.node].kind # "list")
  BY <1>2, RoomHere DEF Room, BlocksInv
<1>12. Maximal(nodes', defined)
  <2>1. Fits(nodes, defined, b)
    BY <1>7, <1>11 DEF Fits, MayInterrupt
  <2> QED
    BY <1>4, <1>7, <1>8, <1>11, <2>1, MaximalGrows
<1> QED
  BY <1>2, <1>3, <1>5, <1>6, <1>7, <1>8, <1>9, <1>10, <1>12, CallKeepsMaximal

LEMMA OpenListKeepsMaximal ==
  ASSUME BlocksInv, MaximalInv, OpenList
  PROVE  MaximalInv'
<1> DEFINE a == BlockOver("list", Top.at, Top.at, {})
           marker == ListMarker(Here)
           b == [a EXCEPT !.marker = marker.delimiter, !.start = marker.number]
           h == [loop |-> "list", node |-> NewNode, lines |-> Rest, at |-> Top.at,
                 first |-> marker, loose |-> FALSE, item |-> 0]
           c == Len(nodes)
           next == Base(Top) + Top.at
<1>1. /\ Parsing /\ Beginning = "list" /\ frames # <<>> /\ Top.loop = "blocks" /\ Top.at <= Len(Rest)
      /\ nodes' = Append(nodes, b) /\ frames' = Append(frames, h) /\ defined' = defined
  BY DEF OpenList, At, Parsing
<1>2. /\ Base(Top) \in Nat /\ Top.at \in Nat /\ Top.at > 0 /\ Len(Rest) \in Nat /\ NextLine = next
      /\ Rest = Top.lines /\ LinesOfText(Rest) /\ Maximal(nodes, defined) /\ ListEnded(nodes, defined, Top)
      /\ TextEnded(nodes, Top) /\ Tree(nodes) /\ IsSeq(nodes) /\ c \in Nat
  BY <1>1, AtTop, TopIsEnded DEF BlocksInv, TreeFits, Tree, IsSeq
<1>3. Here \in Seq(Characters) /\ Goes(Top) /\ Content(Top) = Here
  <2>1. Top.at \in 1 .. Len(Rest)
    BY <1>1, <1>2
  <2> QED
    BY <1>1, <1>2, <2>1 DEF LinesOfText, Lookup, Here, Goes, Content
<1>4. ~Blank(Here) /\ ~ThematicBreak(Here) /\ IsMarker(marker)
  BY <1>1 DEF Beginning
<1>5. /\ b.kind = "list" /\ b.parent = Top.node /\ b.from = next
      /\ b.marker = marker.delimiter /\ b.start = marker.number
  <2> DEFINE at == Top.at + 1
  <2>1. at \in Nat /\ Top.at < at /\ at <= Len(Rest) + 1 /\ at - 1 = Top.at /\ {} \in SUBSET (Top.at .. at - 1)
    BY <1>1, <1>2
  <2>2. Made(BlockOver("list", Top.at, at - 1, {}), "list", at, {})
    <3> HIDE DEF at
    <3> QED
      BY <1>1, <1>2, <2>1, BlockMade DEF BlocksInv
  <2>3. a = BlockOver("list", Top.at, at - 1, {})
    BY <2>1
  <2> HIDE DEF a, at, marker
  <2>4. IsBlock(a) /\ a.kind = "list" /\ a.parent = Top.node /\ a.from = next
    BY <2>2, <2>3 DEF Made
  <2>5. b = Marked(a, marker.delimiter, marker.number)
    BY DEF Marked
  <2> HIDE DEF b
  <2> QED
    BY <2>4, <2>5, BlockMarked
<1>6. /\ h.node = c + 1 /\ h.node = NewNode /\ h.lines = Rest /\ h.at = Top.at /\ h.loop = "list"
      /\ h.first = marker /\ h.item = 0
  BY DEF NewNode
<1> HIDE DEF a, b, h
<1>7. Grows(nodes, b, nodes')
  BY <1>1, <1>2 DEF Grows
<1>8. Len(nodes') = c + 1 /\ nodes'[c + 1] = b
  BY <1>7, GrowthFacts
<1>9. Top.node \in 0 .. c /\ (Top.node # 0 => nodes[Top.node].kind # "list")
  BY <1>1, RoomHere DEF Room, BlocksInv
<1>10. Base(h) = Base(Top) /\ Goes(h) /\ Content(h) = Here
  BY <1>1, <1>2, <1>6 DEF Base, Goes, Content, Here, Lookup
<1>11. ListOpen(nodes', h)
  <2>1. LastChild(nodes', c + 1)
    BY <1>2, <1>8 DEF LastChild
  <2>2. Continued(h)
    BY <1>4, <1>6, <1>10 DEF Continued
  <2>3. b.from <= Base(h) + h.at
    BY <1>2, <1>5, <1>6, <1>10
  <2> QED
    BY <1>4, <1>5, <1>6, <1>8, <1>10, <2>1, <2>2, <2>3 DEF ListOpen
<1>12. Fits(nodes, defined, b)
  <2>1. ASSUME NEW m \in 1 .. c, ChildOf(nodes, m, Top.node, "paragraph"), next = nodes[m].to + 1
        PROVE  MayInterrupt(b)
    <3>1. ListMarker(Here).number \in {"0", "1"}
      BY <1>1, <2>1, TextBeforeBlock, InterruptersBegin
    <3> QED
      BY <1>5, <3>1 DEF MayInterrupt
  <2>2. ASSUME NEW m \in 1 .. c, ChildOf(nodes, m, Top.node, "list"), LastChild(nodes, m),
               nodes[m].marker = marker.delimiter
        PROVE  \E d \in defined : d.parent = Top.node /\ nodes[m].from < d.line /\ d.line < next
    <3>1. GoesOn(Here, nodes[m].marker)
      BY <1>4, <2>2 DEF GoesOn
    <3>2. PICK d \in defined : d.parent = Top.node /\ nodes[m].from < d.line
      BY <1>2, <1>3, <2>2, <3>1 DEF ListEnded
    <3>3. d.line < next
      BY <1>2, BeforeNext
    <3> QED
      BY <3>2, <3>3
  <2> QED
    BY <1>5, <1>9, <2>1, <2>2 DEF Fits
<1>13. Maximal(nodes', defined)
  BY <1>2, <1>5, <1>7, <1>9, <1>12, MaximalGrows
<1>14. TextEnded(nodes', Top)
  <2>1. b.kind # "paragraph"
    BY <1>5
  <2> QED
    BY <1>1, <1>7, <2>1, TextStaysEnded
<1>15. Same(Top, Top)
  BY DEF Same
<1>16. LinesOfText(h.lines)
  BY <1>2, <1>6
<1>17. Top.loop # "list"
  BY <1>1
<1> DEFINE moved == frames
<1>18. moved = frames /\ frames' = Append(moved, h)
  BY <1>1
<1> HIDE DEF moved
<1> QED
  BY <1>1, <1>5, <1>6, <1>7, <1>11, <1>13, <1>14, <1>15, <1>16, <1>17, <1>18, CallKeepsMaximal

Filled(f, at, item, loose) == [f EXCEPT !.at = at, !.item = item, !.loose = loose]

LEMMA ItemOfFrame ==
  ASSUME NEW f, IsFrame(f), NEW at, NEW item, NEW loose,
         NEW g, g = Filled(f, at, item, loose)
  PROVE  g.item = item
<1>1. f = [loop |-> f.loop, node |-> f.node, lines |-> f.lines, at |-> f.at,
           first |-> f.first, loose |-> f.loose, item |-> f.item]
  BY DEF IsFrame
<1> QED
  BY <1>1 DEF Filled

LEMMA ParseItemKeepsMaximal ==
  ASSUME BlocksInv, MaximalInv, ParseItem
  PROVE  MaximalInv'
<1> DEFINE at == ItemEnd
           item == NewNode
           loose == ItemAfter(Len(Rest)).loose
           g == [Top EXCEPT !.at = at, !.item = item, !.loose = loose]
           taken == ItemLines
           b == BlockOver("item", Top.at, at - 1, {})
           h == BlocksFrame(NewNode, taken)
           moved == Put(frames, Len(frames), g)
           c == Len(nodes)
<1>1. at \in Nat /\ HandsOver("item", at, g, taken)
  BY ParseItemHands
<1>2. frames # <<>> /\ Top.loop = "list" /\ Top.at <= Len(Rest)
  BY DEF ParseItem, InList, Continues
<1>3. /\ Top.at < at /\ at <= Len(Rest) + 1 /\ MovedTo(Top, at, g) /\ Handed(taken, at)
      /\ nodes' = Append(nodes, b) /\ frames' = Append(moved, h) /\ defined' = defined
  BY <1>1 DEF HandsOver
<1>4. /\ Top.at \in Nat /\ Base(Top) \in Nat /\ LinesOfText(Rest) /\ Maximal(nodes, defined) /\ Tree(nodes)
      /\ IsSeq(nodes) /\ ListOpen(nodes, Top) /\ c \in Nat
  BY <1>2, AtTop, TopIsEnded DEF BlocksInv, TreeFits, Tree, IsSeq
<1>5. LinesOfText(taken)
  BY <1>1, <1>2, <1>3, <1>4, ItemLinesAreText
<1>6. h.node = NewNode /\ h.lines = taken /\ h.loop # "list"
  <2> HIDE DEF taken
  <2> QED
    BY HandedFrame
<1>7. at <= Len(Rest) => ~Blank(Lookup(at))
  BY <1>2, <1>4, ItemEndsAtText
<1> HIDE DEF at, taken, h
<1>8. b.kind = "item" /\ b.parent = Top.node
  <2>1. {} \in SUBSET (Top.at .. at - 1)
    OBVIOUS
  <2>2. Made(b, "item", at, {})
    BY <1>1, <1>2, <1>3, <2>1, BlockMade DEF BlocksInv
  <2> QED
    BY <2>2 DEF Made
<1> HIDE DEF b
<1>9. Grows(nodes, b, nodes')
  BY <1>3, <1>4 DEF Grows
<1>10. item # 0
  BY <1>4 DEF NewNode
<1> HIDE DEF item, loose
<1>11. g = [Top EXCEPT !.at = at, !.item = item, !.loose = loose]
  OBVIOUS
<1> HIDE DEF g
<1>12. /\ Same(g, Top) /\ g.at = at /\ g.node = Top.node /\ Base(g) = Base(Top) /\ g.first = Top.first
       /\ g.item # 0 /\ (Goes(g) => ~Blank(Content(g)))
  <2>1. at > 0
    BY <1>1, <1>3, <1>4
  <2>2. /\ Same(g, Top) /\ g.at = at /\ g.node = Top.node /\ Base(g) = Base(Top) /\ g.first = Top.first
        /\ (Goes(g) <=> at <= Len(Rest)) /\ (Goes(g) => Content(g) = Lookup(at))
    BY <1>1, <1>2, <1>3, <2>1, MovedTop
  <2>3. g.item = item
    <3> DEFINE f == Top
    <3>1. IsFrame(f)
      BY <1>2, AtTop DEF BlocksInv
    <3>2. g = Filled(f, at, item, loose)
      BY ONLY <1>11 DEF Filled
    <3> HIDE DEF f
    <3> QED
      BY ONLY <3>1, <3>2, ItemOfFrame
  <2> QED
    BY <1>7, <1>10, <2>2, <2>3
<1>13. /\ Top.node \in 1 .. c /\ Top.node # 0 /\ nodes[Top.node].kind = "list"
       /\ nodes[Top.node].parent \in 0 .. Top.node - 1
  <2>1. Top.node \in 0 .. c /\ Top.node # 0 /\ nodes[Top.node].kind = "list"
        /\ nodes[Top.node].parent \in 0 .. Top.node - 1
    BY <1>2, RoomHere DEF BlocksInv
  <2> QED
    BY <1>4, <2>1
<1>14. ListOpen(nodes', g)
  <2>1. nodes'[Top.node] = nodes[Top.node]
    BY <1>9, <1>13, GrowthFacts
  <2>2. LastChild(nodes', Top.node)
    <3>1. b.parent # nodes[Top.node].parent
      BY <1>8, <1>13
    <3> QED
      BY <1>4, <1>9, <1>13, <3>1, LastChildGrows DEF ListOpen
  <2>3. nodes[Top.node].from < Base(Top) + at
    <3>1. nodes[Top.node].from <= Base(Top) + Top.at
      BY <1>4 DEF ListOpen
    <3>2. nodes[Top.node].from \in Nat
      BY <1>4, <1>13 DEF Tree, Grown, IsBlock
    <3> QED
      BY <1>1, <1>3, <1>4, <3>1, <3>2
  <2>4. nodes[Top.node].from <= Base(Top) + at
    <3>1. nodes[Top.node].from \in Nat
      BY <1>4, <1>13 DEF Tree, Grown, IsBlock
    <3> QED
      BY <1>1, <1>4, <2>3, <3>1
  <2> QED
    BY <1>4, <1>12, <2>1, <2>2, <2>3, <2>4 DEF ListOpen
<1>15. Fits(nodes, defined, b)
  <2>1. ASSUME NEW m \in 1 .. c, ChildOf(nodes, m, Top.node, "paragraph") PROVE FALSE
    <3>1. nodes[m].kind = "item"
      BY <1>4, <1>13, <2>1 DEF ChildOf, Maximal, ItemsInLists
    <3> QED
      BY <2>1, <3>1 DEF ChildOf
  <2> QED
    BY <1>8, <2>1 DEF Fits
<1>16. Maximal(nodes', defined)
  <2>1. b.parent \in 0 .. c
    BY <1>8, <1>13
  <2> QED
    BY <1>4, <1>9, <1>15, <2>1, MaximalGrows
<1> QED
  BY <1>2, <1>3, <1>5, <1>6, <1>8, <1>9, <1>12, <1>14, <1>16, CallKeepsMaximal

(* Two lists of nodes that differ in tightness alone are alike in all this. *)
LEMMA EndedAlike ==
  ASSUME NEW ns, NEW ms, Tree(ns), Alike(ns, ms), NEW ds, NEW f
  PROVE  /\ TextEnded(ns, f) => TextEnded(ms, f)
         /\ ListEnded(ns, ds, f) => ListEnded(ms, ds, f)
         /\ f.node \in 1 .. Len(ns) /\ ListOpen(ns, f) => ListOpen(ms, f)
<1> DEFINE c == Len(ns)
<1>1. c \in Nat /\ Len(ms) = c
  BY DEF Tree, IsSeq, Alike
<1>2. \A n \in 1 .. c : /\ ms[n].kind = ns[n].kind /\ ms[n].parent = ns[n].parent /\ ms[n].from = ns[n].from
                        /\ ms[n].to = ns[n].to /\ ms[n].marker = ns[n].marker
  BY DEF Alike
<1>3. ASSUME NEW n \in 1 .. c PROVE LastChild(ms, n) <=> LastChild(ns, n)
  <2>1. \A m \in n + 1 .. c : m \in 1 .. c
    BY <1>1
  <2> QED
    BY <1>1, <1>2, <2>1 DEF LastChild
<1>4. TextEnded(ns, f) => TextEnded(ms, f)
  BY <1>1, <1>2 DEF TextEnded, ChildOf
<1>5. ListEnded(ns, ds, f) => ListEnded(ms, ds, f)
  BY <1>1, <1>2, <1>3 DEF ListEnded, ChildOf
<1>6. f.node \in 1 .. c /\ ListOpen(ns, f) => ListOpen(ms, f)
  BY <1>1, <1>2, <1>3 DEF ListOpen
<1> QED
  BY <1>4, <1>5, <1>6

LEMMA MaximalAlike ==
  ASSUME NEW ns, NEW ms, Tree(ns), Alike(ns, ms), NEW ds, Maximal(ns, ds)
  PROVE  Maximal(ms, ds)
<1> DEFINE c == Len(ns)
<1>1. c \in Nat /\ Len(ms) = c
  BY DEF Tree, IsSeq, Alike
<1>2. \A n \in 1 .. c : /\ ms[n].kind = ns[n].kind /\ ms[n].parent = ns[n].parent /\ ms[n].from = ns[n].from
                        /\ ms[n].to = ns[n].to /\ ms[n].marker = ns[n].marker
                        /\ ms[n].start = ns[n].start /\ ms[n].text = ns[n].text
  BY DEF Alike
<1>3. ASSUME NEW m \in 1 .. c, NEW n \in 1 .. c, Siblings(ms, m, n) PROVE Siblings(ns, m, n)
  <2>1. \A k \in m + 1 .. n - 1 : k \in 1 .. c
    BY <1>1
  <2> QED
    BY <1>2, <1>3, <2>1 DEF Siblings
<1>4. TextIsMaximal(ms, ds)
  <2>1. \A n \in 1 .. c : MayInterrupt(ns[n]) => MayInterrupt(ms[n])
    BY <1>2 DEF MayInterrupt
  <2> QED
    BY <1>1, <1>2, <1>3, <2>1 DEF Maximal, TextIsMaximal
<1>5. ListsAreWhole(ms, ds)
  BY <1>1, <1>2, <1>3 DEF Maximal, ListsAreWhole
<1>6. ItemsInLists(ms)
  <2> SUFFICES ASSUME NEW n \in 1 .. c, ms[n].parent # 0, ms[ms[n].parent].kind = "list"
               PROVE  ms[n].kind = "item"
    BY <1>1 DEF ItemsInLists
  <2>1. ms[n].parent = ns[n].parent /\ ns[n].parent \in 0 .. n - 1
    BY <1>2 DEF Tree, Grown
  <2>2. ns[n].parent \in 1 .. c
    BY <1>1, <2>1
  <2> QED
    BY <1>2, <2>1, <2>2 DEF Maximal, ItemsInLists
<1> QED
  BY <1>4, <1>5, <1>6 DEF Maximal

(* The innermost call returns to the one below it. *)
LEMMA ReturnKeepsMaximal ==
  ASSUME BlocksInv, MaximalInv, Len(frames) > 1, Alike(nodes, nodes'), defined' = defined,
         NEW g, Same(g, frames[Len(frames) - 1]),
         NEW below, below = SubSeq(frames, 1, Len(frames) - 1),
         \/ frames' = below /\ g = frames[Len(frames) - 1]
         \/ frames' = Put(below, Len(below), g),
         IF g.loop = "list" THEN ListOpen(nodes', g)
         ELSE TextEnded(nodes', g) /\ ListEnded(nodes', defined, g)
  PROVE  MaximalInv'
<1> DEFINE n == Len(frames)
           l == n - 1
<1>1. IsSeq(frames) /\ n \in Nat /\ Tree(nodes)
  BY DEF BlocksInv, FramesFit, TreeFits, Calls, IsSeq
<1>2. l \in Nat /\ l > 0 /\ l \in 1 .. l /\ l < n /\ l \in 1 .. n
  BY <1>1
<1>3. IsSeq(below) /\ Len(below) = l /\ \A k \in 1 .. l : below[k] = frames[k]
  BY <1>1, Shortened
<1>4. Len(frames') = l /\ frames'[l] = g /\ \A k \in 1 .. l : k # l => frames'[k] = frames[k]
  <2>1. CASE frames' = below /\ g = frames[l]
    BY <1>2, <1>3, <2>1
  <2>2. CASE frames' = Put(below, Len(below), g)
    <3>1. frames' = Put(below, l, g) /\ l \in 1 .. Len(below)
      BY <1>2, <1>3, <2>2
    <3> HIDE DEF l
    <3>2. /\ Len(frames') = Len(below) /\ frames'[l] = g
          /\ \A k \in 1 .. Len(below) : k # l => frames'[k] = below[k]
      BY ONLY <1>3, <3>1, Replaced
    <3> QED
      BY <1>3, <3>2
  <2> QED
    BY <2>1, <2>2
<1> HIDE DEF l
<1>5. \A k \in 1 .. l : /\ frames'[k].node = frames[k].node /\ frames'[k].loop = frames[k].loop
                        /\ frames'[k].lines = frames[k].lines
  BY <1>4 DEF Same, l
<1>6. \A k \in 1 .. l : k \in 1 .. n
  BY <1>1, <1>2
<1>7. Deeper(frames')
  BY <1>4, <1>5, <1>6 DEF MaximalInv, Deeper
<1>8. \A k \in 1 .. l : LinesOfText(frames'[k].lines)
  BY <1>5, <1>6 DEF MaximalInv
<1>9. Maximal(nodes', defined)
  BY <1>1, MaximalAlike DEF MaximalInv
<1>10. ASSUME NEW k \in 1 .. l PROVE Ended(nodes', defined, frames', k)
  <2>1. CASE k = l
    BY <1>4, <2>1 DEF Ended
  <2>2. CASE k # l
    <3> DEFINE f == frames[k]
    <3>1. frames'[k] = f /\ k \in 1 .. n /\ k + 1 \in 1 .. l /\ k < l /\ k < n
      BY <1>2, <1>4, <1>6, <2>2
    <3>2. Ended(nodes, defined, frames, k)
      BY <3>1 DEF MaximalInv
    <3>3. Calling(frames', k) <=> Calling(frames, k)
      BY <1>4, <1>5, <3>1 DEF Calling
    <3>4. f.loop = "list" => f.node \in 1 .. Len(nodes)
      BY <3>1, ListNodes
    <3>5. /\ TextEnded(nodes, f) => TextEnded(nodes', f)
          /\ ListEnded(nodes, defined, f) => ListEnded(nodes', defined, f)
          /\ f.node \in 1 .. Len(nodes) /\ ListOpen(nodes, f) => ListOpen(nodes', f)
      BY <1>1, EndedAlike
    <3> QED
      BY <3>1, <3>2, <3>3, <3>4, <3>5 DEF Ended
  <2> QED
    BY <2>1, <2>2
<1> QED
  BY <1>4, <1>7, <1>8, <1>9, <1>10 DEF MaximalInv

LEMMA EndListKeepsMaximal ==
  ASSUME BlocksInv, MaximalInv, EndList
  PROVE  MaximalInv'
<1> DEFINE n == Len(frames)
           l == n - 1
           below == SubSeq(frames, 1, n - 1)
           caller == frames[n - 1]
           g == [caller EXCEPT !.at = Top.at]
           b == nodes[Top.node]
           d == [b EXCEPT !.tight = ~Top.loose]
           here == Base(Top) + Top.at
<1>1. frames # <<>> /\ Top.loop = "list" /\ ~Continues /\ defined' = defined
  BY DEF EndList, InList
<1>2. /\ Top.at \in Nat /\ Len(Rest) \in Nat /\ Calls(frames, Len(source)) /\ n > 0 /\ n \in Nat
      /\ IsFrame(Top) /\ Top = frames[n] /\ Rest = Top.lines /\ Tree(nodes) /\ Placed(frames, nodes)
      /\ IsSeq(nodes) /\ Len(nodes) \in Nat /\ Top.at <= Len(Rest) + 1 /\ Top.at > 0 /\ Base(Top) \in Nat
  BY <1>1, AtTop DEF BlocksInv, TreeFits, Tree, IsSeq
<1>3. ListOpen(nodes, Top)
  BY <1>1, TopIsEnded
<1> HIDE DEF n
<1>4. n > 1
  <2>1. frames[1].loop = "blocks"
    BY <1>2 DEF Calls, n
  <2> QED
    BY <1>1, <1>2, <2>1
<1>5. n - 1 \in 1 .. n - 1 /\ n - 1 \in 1 .. n /\ n - 1 \in Nat /\ (n - 1) + 1 = n /\ n - 1 < n /\ n \in 1 .. n
  BY <1>2, <1>4
<1>6. Hands(caller, Top) /\ IsFrame(caller)
  BY <1>2, <1>5 DEF Calls, n
<1>7. caller.loop = "blocks" /\ caller.loop # "list" /\ caller.lines = Rest /\ caller.at <= Top.at /\ caller.at \in Nat
  <2>1. caller.loop = "blocks" /\ caller.lines = Rest /\ caller.at <= Top.at
    BY <1>1, <1>2, <1>6 DEF Hands
  <2>2. caller.at \in Nat
    BY <1>2, <1>6, <2>1 DEF IsFrame
  <2> QED
    BY <2>1, <2>2
<1>8. TextEnded(nodes, caller)
  <2>1. Ended(nodes, defined, frames, n - 1)
    BY <1>5 DEF MaximalInv, n
  <2> QED
    BY <1>7, <2>1 DEF Ended
<1>9. /\ Top.node \in 1 .. Len(nodes) /\ b.kind = "list" /\ b.parent = caller.node
  <2>1. frames[n].loop # "blocks"
    BY <1>1, <1>2
  <2>2. /\ frames[n].node \in 0 .. Len(nodes) /\ frames[n].node # 0 /\ nodes[frames[n].node].kind = "list"
        /\ nodes[frames[n].node].parent = frames[n - 1].node
    BY <1>2, <1>5, <2>1 DEF Placed, n
  <2> QED
    BY <1>2, <2>2
<1>10. frames' = Put(below, n - 1, g)
  <2>1. frames' = [below EXCEPT ![n - 1] = [@ EXCEPT !.at = Top.at]]
    BY DEF EndList, n
  <2>2. below[n - 1] = caller
    <3>1. \A k \in 1 .. n - 1 : below[k] = frames[k]
      BY <1>2, Shortened DEF Calls, n
    <3> QED
      BY <1>5, <3>1
  <2> HIDE DEF below
  <2> QED
    BY <2>1, <2>2 DEF Put
<1>11. Same(g, caller) /\ g.at = Top.at /\ g.node = caller.node /\ g.loop = caller.loop /\ g.lines = Rest
  <2>1. Top.at \in 1 .. Len(caller.lines) + 1 /\ MovedTo(caller, Top.at, g)
    BY <1>2, <1>7 DEF MovedTo
  <2> HIDE DEF g, caller
  <2>2. Same(g, caller) /\ g.at = Top.at
    BY <1>6, <2>1, FrameChanged
  <2> QED
    BY <1>7, <2>2 DEF Same
<1> HIDE DEF g, caller
<1>12. Base(g) = Base(Top) /\ Base(caller) = Base(Top)
  BY <1>2, <1>7, <1>11 DEF Base
<1>13. /\ Goes(g) => Top.at <= Len(Rest) /\ Content(g) = Here /\ Goes(Top) /\ Content(Top) = Here
  BY <1>2, <1>11 DEF Goes, Content, Here, Lookup
<1>14. nodes' = Put(nodes, Top.node, d)
  BY DEF EndList, Put
<1> HIDE DEF d
<1>15. Alike(nodes, nodes')
  <2>1. d = [b EXCEPT !.tight = ~Top.loose]
    BY DEF d
  <2> HIDE DEF b
  <2>2. b = nodes[Top.node]
    BY DEF b
  <2> QED
    BY <1>2, <1>9, <1>14, <2>1, <2>2, TightnessAlike
<1>16. TextEnded(nodes, g)
  <2> SUFFICES ASSUME NEW m \in 1 .. Len(nodes), ChildOf(nodes, m, caller.node, "paragraph")
               PROVE  /\ nodes[m].to < here
                      /\ nodes[m].to + 1 = here /\ Goes(g) => Blank(Content(g)) \/ StartsBlock(Content(g))
    BY <1>11, <1>12 DEF TextEnded
  <2> DEFINE last == nodes[m].to
  <2>1. /\ last < Base(Top) + caller.at
        /\ last + 1 = Base(Top) + caller.at /\ Goes(caller)
             => Blank(Content(caller)) \/ StartsBlock(Content(caller))
    BY <1>8, <1>12 DEF TextEnded
  <2>2. last \in Nat
    BY <1>2 DEF Tree, Grown, IsBlock
  <2>3. last < here
    BY <1>2, <1>7, <2>1, <2>2
  <2>4. last + 1 = here => caller.at = Top.at
    BY <1>2, <1>7, <2>1, <2>2
  <2>5. caller.at = Top.at => (Goes(caller) <=> Goes(g)) /\ Content(caller) = Content(g)
    BY <1>7, <1>11 DEF Goes, Content
  <2> QED
    BY <2>1, <2>3, <2>4, <2>5
<1>17. ListEnded(nodes, defined, g)
  <2> SUFFICES ASSUME NEW m \in 1 .. Len(nodes), ChildOf(nodes, m, caller.node, "list"), LastChild(nodes, m)
               PROVE  nodes[m].from < here /\ (Goes(g) => ~GoesOn(Content(g), nodes[m].marker))
    BY <1>11, <1>12 DEF ListEnded
  <2>1. m = Top.node
    <3>1. LastChild(nodes, Top.node) /\ nodes[m].parent = b.parent
      BY <1>3, <1>9 DEF ListOpen, ChildOf
    <3>2. ~(m < Top.node)
      <4> SUFFICES ASSUME m < Top.node PROVE FALSE
        OBVIOUS
      <4>1. Top.node \in m + 1 .. Len(nodes)
        BY <1>2, <1>9
      <4> QED
        BY <3>1, <4>1 DEF LastChild
    <3>3. ~(Top.node < m)
      <4> SUFFICES ASSUME Top.node < m PROVE FALSE
        OBVIOUS
      <4>1. m \in Top.node + 1 .. Len(nodes)
        BY <1>2, <1>9
      <4> QED
        BY <3>1, <4>1 DEF LastChild
    <3> QED
      BY <1>2, <1>9, <3>2, <3>3
  <2>2. Top.item # 0
    <3> SUFFICES ASSUME Top.item = 0 PROVE FALSE
      OBVIOUS
    <3>1. Goes(Top) /\ Continued(Top)
      BY <1>3 DEF ListOpen
    <3>2. Top.at <= Len(Rest) /\ Content(Top) = Here
      BY <1>2, <3>1 DEF Goes, Content, Here, Lookup
    <3> QED
      BY <1>1, <3>1, <3>2 DEF Continues, Continued, SameList
  <2>3. nodes[m].from < here /\ nodes[m].marker = Top.first.delimiter
    BY <1>3, <2>1, <2>2 DEF ListOpen
  <2>4. Goes(g) => ~GoesOn(Here, Top.first.delimiter)
    BY <1>1, <1>3, <1>13, <2>2 DEF ListOpen, GoesOn, Continues, SameList
  <2> QED
    BY <1>13, <2>3, <2>4
<1>18. TextEnded(nodes', g) /\ ListEnded(nodes', defined, g)
  BY <1>2, <1>15, <1>16, <1>17, EndedAlike
<1>19. /\ Len(frames) > 1 /\ Same(g, frames[Len(frames) - 1]) /\ below = SubSeq(frames, 1, Len(frames) - 1)
       /\ frames' = Put(below, Len(below), g) /\ g.loop # "list"
  <2>1. Len(below) = n - 1
    BY <1>2, Shortened DEF Calls, n
  <2> QED
    BY <1>4, <1>7, <1>10, <1>11, <2>1 DEF n, caller
<1> HIDE DEF below
<1> QED
  BY <1>1, <1>15, <1>18, <1>19, ReturnKeepsMaximal

LEMMA EndBlocksKeepsMaximal ==
  ASSUME BlocksInv, MaximalInv, EndBlocks
  PROVE  MaximalInv'
<1> DEFINE n == Len(frames)
           below == SubSeq(frames, 1, n - 1)
           caller == frames[n - 1]
           loose == caller.loose \/ ItemIsLoose(Top.node)
           h == [caller EXCEPT !.loose = loose]
           g == IF caller.loop = "list" THEN h ELSE caller
<1>1. frames # <<>> /\ Top.loop = "blocks" /\ defined' = defined /\ nodes' = nodes
  BY DEF EndBlocks
<1>2. /\ Calls(frames, Len(source)) /\ n > 0 /\ n \in Nat /\ IsSeq(frames)
      /\ Top = frames[n] /\ Tree(nodes) /\ Maximal(nodes, defined)
  BY <1>1, AtTop, TopIsEnded DEF BlocksInv, TreeFits, Tree, IsSeq
<1>3. IsSeq(below) /\ Len(below) = n - 1 /\ \A k \in 1 .. n - 1 : below[k] = frames[k]
  BY <1>2, Shortened
<1> HIDE DEF n
<1>4. CASE n = 1
  <2>1. below = <<>>
    BY <1>2, <1>3, <1>4, NoLines
  <2>2. frames' = <<>>
    BY <2>1 DEF EndBlocks, n
  <2>3. Len(frames') = 0
    BY <2>2
  <2>4. 1 .. 0 = {}
    OBVIOUS
  <2> QED
    BY <1>1, <1>2, <2>3, <2>4 DEF MaximalInv, Deeper
<1>5. CASE n # 1
  <2>1. n > 1 /\ n - 1 \in 1 .. n - 1 /\ n - 1 \in 1 .. n /\ n - 1 > 0 /\ (n - 1) + 1 = n
    BY <1>2, <1>5
  <2>2. below # <<>> /\ below[Len(below)] = caller /\ IsFrame(caller)
    <3>1. below # <<>>
      <4> HIDE DEF below
      <4> QED
        BY <1>2, <1>3, <2>1, NoLines
    <3> QED
      BY <1>2, <1>3, <2>1, <3>1 DEF Calls, n
  <2>3. \/ frames' = below /\ g = caller
        \/ frames' = Put(below, Len(below), g)
    <3>1. frames' = IF below[Len(below)].loop = "list"
                    THEN [below EXCEPT ![Len(below)].loose = @ \/ ItemIsLoose(Top.node)] ELSE below
      BY <2>2 DEF EndBlocks, n
    <3> HIDE DEF below
    <3> QED
      BY <2>2, <3>1 DEF Put
  <2>4. Same(g, caller) /\ g.at = caller.at /\ g.first = caller.first /\ g.item = caller.item
    <3> HIDE DEF caller, loose
    <3> QED
      BY <2>2, FrameLoosened DEF Same
  <2> HIDE DEF g
  <2>5. /\ Base(g) = Base(caller) /\ g.node = caller.node /\ g.loop = caller.loop
        /\ (Goes(g) <=> Goes(caller)) /\ Content(g) = Content(caller)
    BY <2>4, SameBase DEF Same, Goes, Content
  <2>6. IF caller.loop = "list" THEN ListOpen(nodes, caller)
        ELSE TextEnded(nodes, caller) /\ ListEnded(nodes, defined, caller)
    <3>1. Ended(nodes, defined, frames, n - 1)
      BY <2>1 DEF MaximalInv, n
    <3>2. ~Calling(frames, n - 1)
      BY <1>1, <1>2, <2>1 DEF Calling, n
    <3> QED
      BY <3>1, <3>2 DEF Ended
  <2>7. IF g.loop = "list" THEN ListOpen(nodes', g)
        ELSE TextEnded(nodes', g) /\ ListEnded(nodes', defined, g)
    <3> HIDE DEF caller
    <3>1. CASE caller.loop = "list"
      BY <1>1, <2>4, <2>5, <2>6, <3>1 DEF ListOpen, Continued
    <3>2. CASE caller.loop # "list"
      BY <1>1, <2>4, <2>5, <2>6, <3>2 DEF TextEnded, ListEnded
    <3> QED
      BY <3>1, <3>2
  <2>8. Alike(nodes, nodes')
    BY <1>1, <1>2 DEF Alike, Tree, Grown
  <2> HIDE DEF below
  <2>9. below = SubSeq(frames, 1, Len(frames) - 1)
    BY DEF below, n
  <2> QED
    <3>1. Len(frames) > 1 /\ Same(g, frames[Len(frames) - 1]) /\ caller = frames[Len(frames) - 1]
      BY <2>1, <2>4 DEF n
    <3> HIDE DEF caller
    <3> QED
      BY <1>1, <2>3, <2>7, <2>8, <2>9, <3>1, ReturnKeepsMaximal
<1> QED
  BY <1>4, <1>5

-----------------------------------------------------------------------------
LEMMA MaximalInit ==
  ASSUME BlockInit
  PROVE  MaximalInv
<1> DEFINE lines == Scanned(source)
           f == BlocksFrame(0, lines)
<1>1. source \in Seq(Seq(Characters))
  BY DocumentsAssumption DEF BlockInit
<1>2. frames = <<f>> /\ nodes = <<>> /\ defined = {}
  BY DEF BlockInit
<1>3. IsSeq(source)
  BY <1>1, SeqsAreSeqs
<1>4. f.lines = lines /\ Len(lines) = Len(source) /\ f.loop # "list"
  <2>1. f.lines = lines /\ f.loop # "list"
    <3> HIDE DEF lines
    <3> QED
      BY DEF BlocksFrame
  <2>2. Len(f.lines) = Len(source)
    BY <1>3, ScannedFits
  <2> HIDE DEF f, lines
  <2> QED
    BY <2>1, <2>2
<1>5. LinesOfText(lines)
  <2>1. \A n \in 1 .. Len(source) : lines[n].content = source[n]
    BY DEF Scanned, Line
  <2>2. \A n \in 1 .. Len(source) : source[n] \in Seq(Characters)
    BY <1>1, ElementOfSeq
  <2> QED
    BY <1>4, <2>1, <2>2 DEF LinesOfText
<1> HIDE DEF f, lines
<1>6. Len(frames) = 1 /\ frames[1] = f /\ Len(nodes) = 0
  BY <1>2
<1>7. TextEnded(nodes, f) /\ ListEnded(nodes, defined, f) /\ Maximal(nodes, defined)
  BY <1>6 DEF TextEnded, ListEnded, Maximal, TextIsMaximal, ListsAreWhole, ItemsInLists
<1>8. Deeper(frames)
  BY <1>6 DEF Deeper
<1> QED
  BY <1>4, <1>5, <1>6, <1>7, <1>8 DEF MaximalInv, Ended

LEMMA MaximalStep ==
  ASSUME BlocksInv, MaximalInv, [BlockNext]_blockVars
  PROVE  MaximalInv'
<1>1. CASE SkipBlank \/ ParseDefinition
  BY <1>1, LineKeepsMaximal
<1>2. CASE \/ ParseFence \/ ParseHeading \/ ParseBreak \/ ParseIndentedCode
           \/ ParseHtml \/ ParseParagraph \/ ParseSetext \/ ParseTable
  BY <1>2, LeafActionsKeepMaximal
<1>3. CASE ParseQuote
  BY <1>3, QuoteKeepsMaximal
<1>4. CASE OpenList
  BY <1>4, OpenListKeepsMaximal
<1>5. CASE ParseItem
  BY <1>5, ParseItemKeepsMaximal
<1>6. CASE EndList
  BY <1>6, EndListKeepsMaximal
<1>7. CASE EndBlocks
  BY <1>7, EndBlocksKeepsMaximal
<1>8. CASE UNCHANGED blockVars
  <2>1. frames' = frames /\ nodes' = nodes /\ defined' = defined
    BY <1>8 DEF blockVars
  <2> QED
    BY <2>1 DEF MaximalInv
<1> QED
  BY <1>1, <1>2, <1>3, <1>4, <1>5, <1>6, <1>7, <1>8 DEF BlockNext

(* What the calls on the stack are told by the blocks behind them: where   *)
(* each of them goes on, no paragraph above can go on, and no list above   *)
(* that is not being parsed.                                               *)
THEOREM MaximalInvariant == BlockSpec => []MaximalInv
<1>1. BlockInit => MaximalInv
  BY MaximalInit
<1>2. BlocksInv /\ MaximalInv /\ [BlockNext]_blockVars => MaximalInv'
  BY MaximalStep
<1> QED
  BY <1>1, <1>2, BlocksInvariant, PTL DEF BlockSpec

(* A paragraph takes every line that can go on with it, at every depth of  *)
(* quotes and items: the block right behind it is one that may interrupt   *)
(* it by its kind, its tag or its number, or indented code that is taken   *)
(* for a quote, and never a definition.                                    *)
THEOREM ParagraphsGoOn == BlockSpec => []ParagraphsAreMaximal
<1>1. MaximalInv => ParagraphsAreMaximal
  <2> SUFFICES ASSUME Maximal(nodes, defined) PROVE ParagraphsAreMaximal
    BY DEF MaximalInv
  <2>1. \A m, n \in Blocks : NextSibling(m, n) => Siblings(nodes, m, n) /\ nodes[n].from = nodes[m].to + 1
    BY DEF NextSibling, Adjacent, Siblings
  <2> QED
    BY <2>1 DEF Maximal, TextIsMaximal, ParagraphsAreMaximal, Blocks
<1> QED
  BY <1>1, MaximalInvariant, PTL

(* parseList goes on with a list as long as items of its kind follow: two  *)
(* such lists side by side have a reference definition between them.       *)
THEOREM ListsGoOn == BlockSpec => []ListsAreMaximal
<1>1. MaximalInv => ListsAreMaximal
  <2> SUFFICES ASSUME Maximal(nodes, defined) PROVE ListsAreMaximal
    BY DEF MaximalInv
  <2>1. \A m, n \in Blocks : Adjacent(m, n) => Siblings(nodes, m, n)
    BY DEF Adjacent, Siblings
  <2> QED
    BY <2>1 DEF Maximal, ListsAreWhole, ListsAreMaximal, Blocks
<1> QED
  BY <1>1, MaximalInvariant, PTL
-----------------------------------------------------------------------------
(* Why parsing ends.  Work is a sum over the calls of sums over their lines,*)
(* so a turn is accounted for call by call: what is below the two innermost*)
(* calls stays what it was (LowerAlike), and the lines a call hands on are *)
(* counted with the new call, shorter by a marker than they were with it.  *)
(* Taking markers off makes lines shorter. *)
LEMMA DropShortens ==
  ASSUME NEW c \in Seq(Characters), NEW n \in Nat
  PROVE  Len(Drop(c, n)) \in Nat /\ Len(Drop(c, n)) <= Len(c)
         /\ (n > 0 /\ Len(c) > 0 => Len(Drop(c, n)) < Len(c))
<1>1. Len(c) \in Nat
  OBVIOUS
<1>2. \A i \in n + 1 .. Len(c) : c[i] \in Characters
  BY <1>1, ElementOfSeq
<1>3. Len(Drop(c, n)) = IF n + 1 <= Len(c) THEN Len(c) - (n + 1) + 1 ELSE 0
  BY <1>1, <1>2, SubSeqProperties DEF Drop
<1> QED
  BY <1>1, <1>3

LEMMA StrippedIsShorter ==
  ASSUME NEW c \in Seq(Characters), NEW end \in Nat, NEW width \in Nat
  PROVE  LET s == StripContainer(c, end, width)
         IN  Len(s) \in Nat /\ Len(s) <= Len(c) /\ (end > 0 /\ width > 0 /\ Len(c) > 0 => Len(s) < Len(c))
<1> DEFINE more == Indent(Drop(c, end))
           prefix == end + more
           cut == IF width < prefix THEN width ELSE prefix
<1>1. more \in Nat
  BY DropIsText, IndentIsNat
<1>2. StripContainer(c, end, width) = Drop(c, cut)
  BY DEF StripContainer
<1> HIDE DEF more
<1>3. cut \in Nat /\ (end > 0 /\ width > 0 => cut > 0)
  BY <1>1
<1> HIDE DEF cut
<1> QED
  BY <1>2, <1>3, DropShortens

LEMMA QuotedIsShorter ==
  ASSUME NEW c \in Seq(Characters), Quoted(c)
  PROVE  Len(StripQuote(c)) \in Nat /\ Len(StripQuote(c)) < Len(c)
<1> DEFINE end == Indent(c) + 1
           width == IF end < Len(c) /\ c[end + 1] = " " THEN end + 1 ELSE end
<1>1. Indent(c) \in Nat /\ Len(c) \in Nat
  BY IndentIsNat
<1>2. Len(c) > 0
  BY <1>1 DEF Quoted, Begins
<1>3. end \in Nat /\ end > 0
  BY <1>1
<1>4. StripQuote(c) = StripContainer(c, end, width)
  BY DEF StripQuote
<1> HIDE DEF end
<1>5. width = end \/ width = end + 1
  OBVIOUS
<1> HIDE DEF width
<1>6. width \in Nat /\ width > 0
  BY <1>3, <1>5
<1> QED
  BY <1>2, <1>3, <1>4, <1>6, StrippedIsShorter

LEMMA MarkedIsShorter ==
  ASSUME NEW c \in Seq(Characters), IsMarker(ListMarker(c))
  PROVE  LET m == ListMarker(c)
             s == StripContainer(c, m.end, m.width)
         IN  Len(s) \in Nat /\ Len(s) < Len(c)
<1> DEFINE bullet == Begins(c, {"-", "+", "*"})
           end == Indent(c) + (IF bullet THEN 1 ELSE 2)
           spaces == Indent(Drop(c, end))
           padding == IF spaces \in 1 .. 4 THEN spaces ELSE 1
           m == ListMarker(c)
<1>1. Indent(c) \in Nat /\ Len(c) \in Nat
  BY IndentIsNat
<1>2. Len(c) > 0
  <2>1. Begins(c, {"-", "+", "*"}) \/ Begins(c, {"1", "2"})
    BY DEF ListMarker, IsMarker, NoMarker
  <2> QED
    BY <1>1, <2>1 DEF Begins
<1>3. end \in Nat /\ end > 0
  BY <1>1
<1>4. spaces \in Nat
  <2> HIDE DEF end
  <2> QED
    BY <1>3, DropIsText, IndentIsNat
<1> HIDE DEF spaces
<1>5. padding \in Nat /\ padding > 0
  BY <1>4
<1>6. m.end = end /\ m.width = end + padding
  <2> HIDE DEF padding, end
  <2> QED
    BY DEF ListMarker, padding, end, spaces, IsMarker, NoMarker
<1> HIDE DEF padding, end, m
<1>7. m.end \in Nat /\ m.end > 0 /\ m.width \in Nat /\ m.width > 0
  BY <1>3, <1>5, <1>6
<1>8. LET s == StripContainer(c, m.end, m.width) IN Len(s) \in Nat /\ Len(s) < Len(c)
  BY <1>2, <1>7, StrippedIsShorter
<1> QED
  BY <1>8 DEF m
-----------------------------------------------------------------------------
(* What each line counts, and what the lines from one on make up. *)
Amounts(lines)  == [n \in 1 .. Len(lines) |-> Len(lines[n].content) + 1]
Left(lines, at) == SumFrom(Amounts(lines), Len(lines), at)

IsText(lines) == IsSeq(lines) /\ LinesOfText(lines)

LEMMA AmountsCount ==
  ASSUME NEW lines, IsText(lines)
  PROVE  /\ Len(lines) \in Nat
         /\ Amounts(lines) \in [1 .. Len(lines) -> Nat]
         /\ \A n \in 1 .. Len(lines) : Amounts(lines)[n] > 0 /\ Len(lines[n].content) \in Nat
<1>1. \A n \in 1 .. Len(lines) : Len(lines[n].content) \in Nat
  BY DEF IsText, LinesOfText
<1> QED
  BY <1>1 DEF Amounts, IsText, IsSeq

LEMMA LeftShrinks ==
  ASSUME NEW lines, IsText(lines), NEW at \in Nat, at > 0, NEW to \in Nat, at <= to, to <= Len(lines) + 1
  PROVE  /\ Left(lines, at) \in Nat /\ Left(lines, to) \in Nat /\ Left(lines, Len(lines) + 1) = 0
         /\ at < to => Left(lines, to) < Left(lines, at)
<1> DEFINE n == Len(lines)
           w == Amounts(lines)
<1>1. n \in Nat /\ w \in [1 .. n -> Nat] /\ \A k \in 1 .. n : w[k] > 0
  BY AmountsCount
<1>2. at \in 1 .. n + 1 /\ to \in at .. n + 1 /\ to \in 1 .. n + 1 /\ n + 1 \in 1 .. n + 1
  BY <1>1
<1>3. \A i : Left(lines, i) = SumFrom(w, n, i)
  BY DEF Left
<1> HIDE DEF n, w
<1>4. SumFrom(w, n, at) \in Nat /\ SumFrom(w, n, to) \in Nat /\ SumFrom(w, n, n + 1) = 0
  BY <1>1, <1>2, SumFromNext
<1>5. at < to => SumFrom(w, n, to) < SumFrom(w, n, at)
  BY <1>1, <1>2, SumFromShrinks
<1> QED
  BY <1>3, <1>4, <1>5 DEF n

LEMMA LeftHanded ==
  ASSUME NEW lines, IsText(lines), NEW at \in Nat, at > 0, NEW to \in Nat, at < to, to <= Len(lines) + 1,
         NEW taken, IsText(taken), Len(taken) = to - at,
         \A k \in 1 .. to - at : Len(taken[k].content) <= Len(lines[at + k - 1].content),
         Len(taken[1].content) < Len(lines[at].content)
  PROVE  Left(taken, 1) + Left(lines, to) < Left(lines, at)
<1> DEFINE n == Len(lines)
           w == Amounts(lines)
           m == Len(taken)
           v == Amounts(taken)
<1>1. n \in Nat /\ w \in [1 .. n -> Nat] /\ m \in Nat /\ v \in [1 .. m -> Nat]
  BY AmountsCount
<1>2. at \in 1 .. n /\ to \in at + 1 .. n + 1 /\ m = to - at /\ 1 \in 1 .. m
  BY <1>1
<1>3. \A k \in 1 .. m : v[k] <= w[at + k - 1]
  <2> TAKE k \in 1 .. m
  <2>1. at + k - 1 \in 1 .. n
    BY <1>1, <1>2
  <2>2. v[k] = Len(taken[k].content) + 1 /\ w[at + k - 1] = Len(lines[at + k - 1].content) + 1
    BY <2>1 DEF Amounts
  <2>3. Len(taken[k].content) \in Nat /\ Len(lines[at + k - 1].content) \in Nat
    BY <2>1, AmountsCount
  <2> QED
    BY <1>2, <2>2, <2>3
<1>4. v[1] < w[at]
  <2>1. v[1] = Len(taken[1].content) + 1 /\ w[at] = Len(lines[at].content) + 1
    BY <1>2 DEF Amounts
  <2>2. Len(taken[1].content) \in Nat /\ Len(lines[at].content) \in Nat
    BY <1>2, AmountsCount
  <2> QED
    BY <2>1, <2>2
<1>5. Left(taken, 1) = SumFrom(v, m, 1) /\ \A i : Left(lines, i) = SumFrom(w, n, i)
  BY DEF Left
<1> HIDE DEF n, w, m, v
<1>6. SumFrom(v, m, 1) + SumFrom(w, n, to) < SumFrom(w, n, at)
  BY <1>1, <1>2, <1>3, <1>4, SumsHanded
<1> QED
  BY <1>5, <1>6
-----------------------------------------------------------------------------
(* The work of one of the calls on a stack, and that of the calls up to    *)
(* one of them.                                                            *)
CallOf(fs, k) ==
  (IF Calling(fs, k) THEN 0 ELSE 4 * LinesLeft(fs[k]))
    + (IF fs[k].loop = "list" /\ fs[k].item = 0 THEN -1 ELSE 1)
WorkTo(fs, m) == Sum([k \in 1 .. m |-> CallOf(fs, k)])

Sized(fs) == IsSeq(fs) /\ \A k \in 1 .. Len(fs) : IsFrame(fs[k]) /\ LinesOfText(fs[k].lines)

LEMMA FrameLeft ==
  ASSUME NEW f, IsFrame(f), LinesOfText(f.lines)
  PROVE  /\ IsText(f.lines) /\ Len(f.lines) \in Nat /\ f.at \in Nat /\ f.at > 0 /\ f.at <= Len(f.lines) + 1
         /\ LinesLeft(f) = Left(f.lines, f.at) /\ LinesLeft(f) \in Nat
<1>1. IsText(f.lines) /\ Len(f.lines) \in Nat /\ f.at \in 1 .. Len(f.lines) + 1
  BY DEF IsFrame, IsSeq, IsText
<1>2. LinesLeft(f) = Left(f.lines, f.at)
  <2>1. [n \in f.at .. Len(f.lines) |-> Len(f.lines[n].content) + 1]
          = [n \in f.at .. Len(f.lines) |-> Amounts(f.lines)[n]]
    BY <1>1 DEF Amounts
  <2> QED
    BY <2>1 DEF LinesLeft, Left, SumFrom, Sum
<1>3. Left(f.lines, f.at) \in Nat
  <2>1. f.at \in Nat /\ f.at > 0 /\ f.at <= f.at /\ f.at <= Len(f.lines) + 1
    BY <1>1
  <2> QED
    BY <1>1, <2>1, LeftShrinks
<1> QED
  BY <1>1, <1>2, <1>3

LEMMA CallIsInt ==
  ASSUME NEW fs, Sized(fs), NEW k \in 1 .. Len(fs)
  PROVE  CallOf(fs, k) \in Int
<1>1. LinesLeft(fs[k]) \in Nat
  BY FrameLeft DEF Sized
<1> QED
  BY <1>1 DEF CallOf

LEMMA WorkOfLast ==
  ASSUME NEW fs, Sized(fs), NEW m \in 1 .. Len(fs)
  PROVE  /\ WorkTo(fs, m) \in Int /\ WorkTo(fs, m - 1) \in Int
         /\ WorkTo(fs, m) = CallOf(fs, m) + WorkTo(fs, m - 1)
<1> DEFINE S == 1 .. m
           a == [k \in S |-> CallOf(fs, k)]
           b == [k \in 1 .. m - 1 |-> CallOf(fs, k)]
<1>1. Len(fs) \in Nat /\ m \in S /\ IsFiniteSet(S) /\ S \ {m} = 1 .. m - 1
  BY FS_Interval DEF Sized, IsSeq
<1>2. \A k \in S : CallOf(fs, k) \in Int
  BY <1>1, CallIsInt
<1>3. a \in [S -> Int] /\ a[m] = CallOf(fs, m)
  BY <1>1, <1>2
<1>4. b = [k \in S \ {m} |-> a[k]]
  BY <1>1
<1>5. WorkTo(fs, m) = Sum(a) /\ WorkTo(fs, m - 1) = Sum(b)
  BY DEF WorkTo
<1> HIDE DEF S, a, b
<1>6. AllBut(a, S, m, b)
  BY <1>1, <1>3, <1>4 DEF AllBut
<1>7. Sum(a) \in Int /\ Sum(b) \in Int /\ Sum(a) = a[m] + Sum(b)
  BY <1>6, SumWithout
<1> QED
  BY <1>3, <1>5, <1>7

LEMMA WorkAlike ==
  ASSUME NEW fs, NEW gs, NEW m, \A k \in 1 .. m : CallOf(fs, k) = CallOf(gs, k)
  PROVE  WorkTo(fs, m) = WorkTo(gs, m)
<1>1. [k \in 1 .. m |-> CallOf(fs, k)] = [k \in 1 .. m |-> CallOf(gs, k)]
  OBVIOUS
<1> QED
  BY <1>1 DEF WorkTo

LEMMA WorkOfNone ==
  ASSUME NEW fs
  PROVE  WorkTo(fs, 0) = 0
<1> DEFINE a == [k \in 1 .. 0 |-> CallOf(fs, k)]
<1>1. a \in [{} -> Int]
  OBVIOUS
<1> HIDE DEF a
<1>2. Sum(a) = 0
  BY <1>1, SumOfNone
<1> QED
  BY <1>2 DEF WorkTo, a

LEMMA WorkIsSum == Work = WorkTo(frames, Len(frames)) /\ Work' = WorkTo(frames', Len(frames'))
<1>1. Work = WorkTo(frames, Len(frames))
  BY DEF Work, CallWork, Waiting, WorkTo, CallOf, Calling, Sum
<1>2. Work' = WorkTo(frames', Len(frames'))
  BY DEF Work, CallWork, Waiting, WorkTo, CallOf, Calling, Sum, LinesLeft, FoldFunction, FoldFunctionOnSet, MapThenFoldSet
<1> QED
  BY <1>1, <1>2
-----------------------------------------------------------------------------
LEMMA LowerAlike ==
  ASSUME NEW fs, NEW gs, NEW m \in Nat, Len(fs) \in Nat, Len(gs) \in Nat, m <= Len(fs), m <= Len(gs),
         \A k \in 1 .. m : gs[k] = fs[k], m > 0 => (Calling(fs, m) <=> Calling(gs, m))
  PROVE  WorkTo(gs, m) = WorkTo(fs, m)
<1>1. ASSUME NEW k \in 1 .. m PROVE CallOf(gs, k) = CallOf(fs, k)
  <2>1. Calling(fs, k) <=> Calling(gs, k)
    <3>1. CASE k = m
      BY <3>1
    <3>2. CASE k # m
      <4>1. k + 1 \in 1 .. m /\ k < Len(fs) /\ k < Len(gs)
        BY <3>2
      <4> QED
        BY <4>1 DEF Calling
    <3> QED
      BY <3>1, <3>2
  <2> QED
    BY <2>1 DEF CallOf
<1> QED
  BY <1>1, WorkAlike

(* A turn that takes lines. *)
LEMMA MovingShrinks ==
  ASSUME NEW fs, Sized(fs), NEW n, n = Len(fs), n > 0, NEW f, f = fs[n], f.loop = "blocks",
         NEW g, Same(g, f), g.at > f.at, NEW gs, Sized(gs), gs = Put(fs, n, g)
  PROVE  WorkTo(gs, Len(gs)) < WorkTo(fs, n)
<1>1. n \in Nat /\ n \in 1 .. n /\ IsSeq(fs)
  BY DEF Sized, IsSeq
<1>2. Len(gs) = n /\ gs[n] = g /\ \A k \in 1 .. n : k # n => gs[k] = fs[k]
  BY <1>1, Replaced
<1>3. WorkTo(gs, n - 1) = WorkTo(fs, n - 1)
  <2> DEFINE m == n - 1
  <2>1. m \in Nat /\ m <= n /\ m + 1 = n /\ \A k \in 1 .. m : gs[k] = fs[k]
    BY <1>1, <1>2
  <2>2. Calling(fs, m) <=> Calling(gs, m)
    BY <1>2, <2>1 DEF Calling, Same
  <2> HIDE DEF m
  <2>3. WorkTo(gs, m) = WorkTo(fs, m)
    BY <1>1, <1>2, <2>1, <2>2, LowerAlike
  <2> QED
    BY <2>3 DEF m
<1>4. CallOf(gs, n) < CallOf(fs, n)
  <2>1. ~Calling(fs, n) /\ ~Calling(gs, n) /\ g.loop = "blocks"
    BY <1>1, <1>2 DEF Calling, Same
  <2>2. CallOf(fs, n) = 4 * LinesLeft(f) + 1 /\ CallOf(gs, n) = 4 * LinesLeft(g) + 1
    BY <1>2, <2>1 DEF CallOf
  <2>3. IsFrame(f) /\ LinesOfText(f.lines) /\ IsFrame(g) /\ LinesOfText(g.lines) /\ g.lines = f.lines
    BY <1>1, <1>2 DEF Sized, Same
  <2>4. /\ IsText(f.lines) /\ f.at \in Nat /\ f.at > 0 /\ g.at \in Nat /\ g.at <= Len(f.lines) + 1
        /\ LinesLeft(f) = Left(f.lines, f.at) /\ LinesLeft(g) = Left(f.lines, g.at)
        /\ LinesLeft(f) \in Nat /\ LinesLeft(g) \in Nat
    BY <2>3, FrameLeft
  <2>5. LinesLeft(g) < LinesLeft(f)
    BY <2>4, LeftShrinks
  <2> QED
    BY <2>2, <2>4, <2>5
<1>5. /\ WorkTo(fs, n) = CallOf(fs, n) + WorkTo(fs, n - 1) /\ WorkTo(gs, n) = CallOf(gs, n) + WorkTo(gs, n - 1)
      /\ WorkTo(fs, n - 1) \in Int
  BY <1>1, <1>2, WorkOfLast
<1>6. CallOf(fs, n) \in Int /\ CallOf(gs, n) \in Int
  BY <1>1, <1>2, CallIsInt
<1> QED
  BY <1>2, <1>3, <1>4, <1>5, <1>6

(* A turn that hands lines, of which the first has lost its marker, to a   *)
(* new call.                                                               *)
LEMMA HandingShrinks ==
  ASSUME NEW fs, Sized(fs), NEW n, n = Len(fs), n > 0, NEW f, f = fs[n],
         NEW g, Same(g, f), g.at > f.at, f.loop = "list" => g.item # 0,
         NEW h, h.loop = "blocks", h.at = 1, NEW gs, Sized(gs), gs = Append(Put(fs, n, g), h),
         Len(h.lines) = g.at - f.at,
         \A k \in 1 .. g.at - f.at : Len(h.lines[k].content) <= Len(f.lines[f.at + k - 1].content),
         Len(h.lines[1].content) < Len(f.lines[f.at].content)
  PROVE  WorkTo(gs, Len(gs)) < WorkTo(fs, n)
<1> DEFINE moved == Put(fs, n, g)
<1>1. n \in Nat /\ n \in 1 .. n /\ IsSeq(fs)
  BY DEF Sized, IsSeq
<1>2. IsSeq(moved) /\ Len(moved) = n /\ moved[n] = g /\ \A k \in 1 .. n : k # n => moved[k] = fs[k]
  BY <1>1, Replaced
<1> HIDE DEF moved
<1>3. /\ Len(gs) = n + 1 /\ gs[n + 1] = h /\ gs[n] = g
      /\ \A k \in 1 .. n : k # n => gs[k] = fs[k]
  <2>1. gs = Append(moved, h)
    BY DEF moved
  <2> QED
    BY <1>1, <1>2, <2>1, Appended
<1>4. WorkTo(gs, n - 1) = WorkTo(fs, n - 1)
  <2> DEFINE m == n - 1
  <2>1. m \in Nat /\ m <= n /\ m <= n + 1 /\ m + 1 = n /\ n + 1 \in Nat /\ \A k \in 1 .. m : gs[k] = fs[k]
    BY <1>1, <1>3
  <2>2. Calling(fs, m) <=> Calling(gs, m)
    BY <1>1, <1>3, <2>1 DEF Calling, Same
  <2> HIDE DEF m
  <2>3. WorkTo(gs, m) = WorkTo(fs, m)
    BY <1>1, <1>3, <2>1, <2>2, LowerAlike
  <2> QED
    BY <2>3 DEF m
<1>5. ~Calling(fs, n) /\ ~Calling(gs, n) /\ ~Calling(gs, n + 1)
  BY <1>1, <1>3 DEF Calling
<1>6. /\ CallOf(gs, n + 1) = 4 * LinesLeft(h) + 1
      /\ CallOf(gs, n) = 4 * LinesLeft(g) + 1
      /\ CallOf(fs, n) = 4 * LinesLeft(f) + 1 \/ CallOf(fs, n) = 4 * LinesLeft(f) - 1
  <2>1. ~(g.loop = "list" /\ g.item = 0)
    BY DEF Same
  <2>2. CallOf(fs, n) = 4 * LinesLeft(f) + (IF f.loop = "list" /\ f.item = 0 THEN -1 ELSE 1)
    BY <1>5 DEF CallOf
  <2>3. LinesLeft(f) \in Nat
    BY <1>1, FrameLeft DEF Sized
  <2> QED
    BY <1>3, <1>5, <2>1, <2>2, <2>3 DEF CallOf
<1>7. /\ IsFrame(f) /\ LinesOfText(f.lines) /\ IsFrame(g) /\ LinesOfText(g.lines) /\ g.lines = f.lines
      /\ IsFrame(h) /\ LinesOfText(h.lines)
  <2>1. n + 1 \in 1 .. n + 1 /\ n \in 1 .. n + 1
    BY <1>1
  <2> QED
    BY <1>1, <1>3, <2>1 DEF Sized, Same
<1>8. /\ IsText(f.lines) /\ IsText(h.lines) /\ f.at \in Nat /\ f.at > 0 /\ g.at \in Nat /\ g.at <= Len(f.lines) + 1
      /\ LinesLeft(f) = Left(f.lines, f.at) /\ LinesLeft(g) = Left(f.lines, g.at) /\ LinesLeft(h) = Left(h.lines, 1)
      /\ LinesLeft(f) \in Nat /\ LinesLeft(g) \in Nat /\ LinesLeft(h) \in Nat
  BY <1>7, FrameLeft
<1>9. LinesLeft(h) + LinesLeft(g) < LinesLeft(f)
  BY <1>8, LeftHanded
<1>10. /\ WorkTo(fs, n) = CallOf(fs, n) + WorkTo(fs, n - 1) /\ WorkTo(fs, n - 1) \in Int
       /\ WorkTo(gs, n) = CallOf(gs, n) + WorkTo(gs, n - 1)
       /\ WorkTo(gs, n + 1) = CallOf(gs, n + 1) + WorkTo(gs, n)
  <2>1. n + 1 \in 1 .. n + 1 /\ n \in 1 .. n + 1 /\ (n + 1) - 1 = n
    BY <1>1
  <2>2. WorkTo(gs, n + 1) = CallOf(gs, n + 1) + WorkTo(gs, (n + 1) - 1)
    BY <1>3, <2>1, WorkOfLast
  <2>3. WorkTo(gs, n) = CallOf(gs, n) + WorkTo(gs, n - 1)
    BY <1>3, <2>1, WorkOfLast
  <2> QED
    BY <1>1, <2>1, <2>2, <2>3, WorkOfLast
<1>11. CallOf(gs, n + 1) + CallOf(gs, n) < CallOf(fs, n) /\ CallOf(gs, n + 1) + CallOf(gs, n) \in Int /\ CallOf(fs, n) \in Int
  BY ONLY <1>6, <1>8, <1>9
<1>12. WorkTo(gs, n + 1) = (CallOf(gs, n + 1) + CallOf(gs, n)) + WorkTo(fs, n - 1)
  BY ONLY <1>4, <1>6, <1>8, <1>10
<1>13. WorkTo(gs, n + 1) < WorkTo(fs, n)
  BY ONLY <1>10, <1>11, <1>12
<1> QED
  BY <1>3, <1>13

(* A list is begun by the call that is at its first line. *)
LEMMA CallingShrinks ==
  ASSUME NEW fs, Sized(fs), NEW n, n = Len(fs), n > 0, NEW f, f = fs[n], f.loop = "blocks",
         NEW h, h.loop = "list", h.item = 0, h.lines = f.lines, h.at = f.at,
         NEW gs, Sized(gs), gs = Append(fs, h)
  PROVE  WorkTo(gs, Len(gs)) < WorkTo(fs, n)
<1>1. n \in Nat /\ n \in 1 .. n /\ IsSeq(fs)
  BY DEF Sized, IsSeq
<1>2. Len(gs) = n + 1 /\ gs[n + 1] = h /\ \A k \in 1 .. n : gs[k] = fs[k]
  BY <1>1, Appended
<1>3. WorkTo(gs, n - 1) = WorkTo(fs, n - 1)
  <2> DEFINE m == n - 1
  <2>1. m \in Nat /\ m <= n /\ m <= n + 1 /\ m + 1 = n /\ n + 1 \in Nat /\ \A k \in 1 .. m : gs[k] = fs[k]
    BY <1>1, <1>2
  <2>2. Calling(fs, m) <=> Calling(gs, m)
    BY <1>1, <1>2, <2>1 DEF Calling
  <2> HIDE DEF m
  <2>3. WorkTo(gs, m) = WorkTo(fs, m)
    BY <1>1, <1>2, <2>1, <2>2, LowerAlike
  <2> QED
    BY <2>3 DEF m
<1>4. ~Calling(fs, n) /\ Calling(gs, n) /\ ~Calling(gs, n + 1)
  BY <1>1, <1>2 DEF Calling
<1>5. LinesLeft(h) = LinesLeft(f) /\ LinesLeft(f) \in Nat
  <2>1. IsFrame(f) /\ LinesOfText(f.lines)
    BY <1>1 DEF Sized
  <2>2. LinesLeft(f) \in Nat
    BY <2>1, FrameLeft
  <2> QED
    BY <2>2 DEF LinesLeft
<1>6. CallOf(fs, n) = 4 * LinesLeft(f) + 1 /\ CallOf(gs, n) = 1 /\ CallOf(gs, n + 1) = 4 * LinesLeft(f) - 1
  BY <1>1, <1>2, <1>4, <1>5 DEF CallOf
<1>7. /\ WorkTo(fs, n) = CallOf(fs, n) + WorkTo(fs, n - 1) /\ WorkTo(fs, n - 1) \in Int
      /\ WorkTo(gs, n) = CallOf(gs, n) + WorkTo(gs, n - 1)
      /\ WorkTo(gs, n + 1) = CallOf(gs, n + 1) + WorkTo(gs, n)
  <2>1. n + 1 \in 1 .. n + 1 /\ n \in 1 .. n + 1 /\ (n + 1) - 1 = n
    BY <1>1
  <2>2. WorkTo(gs, n + 1) = CallOf(gs, n + 1) + WorkTo(gs, (n + 1) - 1)
    BY <1>2, <2>1, WorkOfLast
  <2>3. WorkTo(gs, n) = CallOf(gs, n) + WorkTo(gs, n - 1)
    BY <1>2, <2>1, WorkOfLast
  <2> QED
    BY <1>1, <2>1, <2>2, <2>3, WorkOfLast
<1> QED
  BY <1>2, <1>3, <1>5, <1>6, <1>7
(* A call returns to its caller. *)
Returned(fs, gs, g) ==
  /\ Len(fs) > 1 /\ Len(gs) = Len(fs) - 1
  /\ gs[Len(fs) - 1] = g /\ \A k \in 1 .. Len(fs) - 2 : gs[k] = fs[k]

LEMMA ReturningShrinks ==
  ASSUME NEW fs, Sized(fs), NEW n, n = Len(fs), NEW g, NEW gs, Sized(gs), Returned(fs, gs, g),
         g.loop = fs[n - 1].loop, CallOf(gs, n - 1) < CallOf(fs, n) + CallOf(fs, n - 1)
  PROVE  WorkTo(gs, Len(gs)) < WorkTo(fs, n)
<1>1. n \in Nat /\ n > 1 /\ Len(gs) = n - 1 /\ gs[n - 1] = g /\ \A k \in 1 .. n - 2 : gs[k] = fs[k]
  BY DEF Sized, IsSeq, Returned
<1>2. WorkTo(gs, n - 2) = WorkTo(fs, n - 2)
  <2> DEFINE m == n - 2
  <2>1. m \in Nat /\ m <= n /\ m <= n - 1 /\ m + 1 = n - 1 /\ n - 1 \in Nat /\ \A k \in 1 .. m : gs[k] = fs[k]
    BY <1>1
  <2>2. Calling(fs, m) <=> Calling(gs, m)
    BY <1>1, <2>1 DEF Calling
  <2> HIDE DEF m
  <2>3. WorkTo(gs, m) = WorkTo(fs, m)
    BY <1>1, <2>1, <2>2, LowerAlike
  <2> QED
    BY <2>3 DEF m
<1>3. n \in 1 .. n /\ n - 1 \in 1 .. n /\ n - 1 \in 1 .. n - 1 /\ (n - 1) - 1 = n - 2
  BY <1>1
<1>4. WorkTo(fs, n) = CallOf(fs, n) + WorkTo(fs, n - 1)
  BY <1>3, WorkOfLast
<1>5. WorkTo(fs, n - 1) = CallOf(fs, n - 1) + WorkTo(fs, n - 2) /\ WorkTo(fs, n - 2) \in Int
  <2>1. WorkTo(fs, n - 1) = CallOf(fs, n - 1) + WorkTo(fs, (n - 1) - 1) /\ WorkTo(fs, (n - 1) - 1) \in Int
    BY <1>3, WorkOfLast
  <2> QED
    BY <1>3, <2>1
<1>6. WorkTo(gs, n - 1) = CallOf(gs, n - 1) + WorkTo(gs, n - 2)
  <2>1. WorkTo(gs, n - 1) = CallOf(gs, n - 1) + WorkTo(gs, (n - 1) - 1)
    BY <1>1, <1>3, WorkOfLast
  <2> QED
    BY <1>3, <2>1
<1>7. CallOf(fs, n) \in Int /\ CallOf(fs, n - 1) \in Int /\ CallOf(gs, n - 1) \in Int
  BY <1>1, <1>3, CallIsInt
<1> QED
  BY <1>1, <1>2, <1>4, <1>5, <1>6, <1>7

(* parseBlocks returns from behind its last line. *)
LEMMA DoneShrinks ==
  ASSUME NEW fs, Sized(fs), NEW n, n = Len(fs), NEW f, f = fs[n], f.loop = "blocks", f.at > Len(f.lines),
         NEW c, n > 1 => c = fs[n - 1] /\ IsFrame(c), NEW g, Same(g, c), g.at = c.at, g.item = c.item,
         NEW gs, Sized(gs), n > 0, IF n = 1 THEN Len(gs) = 0 ELSE Returned(fs, gs, g)
  PROVE  WorkTo(gs, Len(gs)) < WorkTo(fs, n)
<1>1. n \in Nat /\ n > 0 /\ n \in 1 .. n
  BY DEF Sized, IsSeq
<1>2. CallOf(fs, n) = 1
  <2>1. IsFrame(f) /\ LinesOfText(f.lines)
    BY <1>1 DEF Sized
  <2>2. IsText(f.lines) /\ f.at = Len(f.lines) + 1 /\ LinesLeft(f) = Left(f.lines, f.at) /\ f.at \in Nat /\ f.at > 0
    BY <2>1, FrameLeft
  <2>3. Left(f.lines, f.at) = 0
    BY <2>2, LeftShrinks
  <2>4. ~Calling(fs, n)
    BY <1>1 DEF Calling
  <2> QED
    BY <2>2, <2>3, <2>4 DEF CallOf
<1>3. CASE n = 1
  <2>1. WorkTo(gs, Len(gs)) = 0
    BY <1>3, WorkOfNone
  <2>2. WorkTo(fs, 1) = CallOf(fs, 1) + WorkTo(fs, 1 - 1)
    BY <1>3, <1>1, WorkOfLast
  <2>3. WorkTo(fs, 0) = 0
    BY WorkOfNone
  <2> QED
    BY <1>2, <1>3, <2>1, <2>2, <2>3
<1>4. CASE n # 1
  <2>1. n - 1 \in 1 .. n /\ n - 1 \in 1 .. n - 1 /\ Len(gs) = n - 1 /\ gs[n - 1] = g /\ c = fs[n - 1] /\ (n - 1) + 1 = n
    BY <1>1, <1>4 DEF Returned
  <2>2. ~Calling(gs, n - 1) /\ ~Calling(fs, n - 1)
    BY <1>1, <2>1 DEF Calling
  <2>3. LinesLeft(g) = LinesLeft(c) /\ g.loop = c.loop
    BY DEF LinesLeft, Same
  <2>4. CallOf(gs, n - 1) = CallOf(fs, n - 1)
    BY <2>1, <2>2, <2>3 DEF CallOf
  <2>5. CallOf(fs, n - 1) \in Int
    BY <2>1, CallIsInt
  <2>6. CallOf(gs, n - 1) < CallOf(fs, n) + CallOf(fs, n - 1)
    BY <1>2, <2>4, <2>5
  <2> QED
    BY <1>1, <1>4, <2>1, <2>3, <2>6, ReturningShrinks
<1> QED
  BY <1>3, <1>4

(* parseList returns: what is left of the lines is the caller's again. *)
LEMMA ListDoneShrinks ==
  ASSUME NEW fs, Sized(fs), NEW n, n = Len(fs), n > 1, NEW f, f = fs[n], f.loop = "list", f.item # 0,
         NEW g, g.loop = "blocks", g.loop = fs[n - 1].loop, g.lines = f.lines, g.at = f.at,
         NEW gs, Sized(gs), Returned(fs, gs, g)
  PROVE  WorkTo(gs, Len(gs)) < WorkTo(fs, n)
<1>1. n \in Nat /\ n \in 1 .. n /\ n - 1 \in 1 .. n /\ (n - 1) + 1 = n /\ n - 1 < n /\ Len(gs) = n - 1 /\ gs[n - 1] = g
  BY DEF Sized, IsSeq, Returned
<1>2. Calling(fs, n - 1) /\ ~Calling(fs, n) /\ ~Calling(gs, n - 1)
  BY <1>1 DEF Calling
<1>3. LinesLeft(g) = LinesLeft(f) /\ LinesLeft(f) \in Nat
  <2>1. LinesLeft(f) \in Nat
    BY <1>1, FrameLeft DEF Sized
  <2> QED
    BY <2>1 DEF LinesLeft
<1>4. CallOf(fs, n) = 4 * LinesLeft(f) + 1 /\ CallOf(fs, n - 1) = 1 /\ CallOf(gs, n - 1) = 4 * LinesLeft(f) + 1
  BY <1>1, <1>2, <1>3 DEF CallOf
<1>5. CallOf(gs, n - 1) < CallOf(fs, n) + CallOf(fs, n - 1)
  BY <1>3, <1>4
<1> QED
  BY <1>5, ReturningShrinks
-----------------------------------------------------------------------------
(* The lines a container hands on are no longer than they were, and the    *)
(* first of them is shorter.                                               *)
Shorter(taken, at) ==
  /\ \A k \in 1 .. at - Top.at : Len(taken[k].content) <= Len(Rest[Top.at + k - 1].content)
  /\ Len(taken[1].content) < Len(Rest[Top.at].content)

LEMMA QuoteLinesAreShorter ==
  ASSUME BlocksInv, frames # <<>>, LinesOfText(Rest), Quoted(Here), Top.at <= Len(Rest),
         QuoteEnd \in Nat, Top.at < QuoteEnd, QuoteEnd <= Len(Rest) + 1
  PROVE  Shorter(QuoteLines, QuoteEnd)
<1>1. Top.at \in Nat /\ Top.at > 0 /\ Len(Rest) \in Nat /\ \A n \in 1 .. Len(Rest) : IsLine(Rest[n])
  BY AtTop DEF BlocksInv
<1>2. ASSUME NEW n \in Top.at .. Len(Rest)
      PROVE  /\ Len(TakenByQuote(n).content) <= Len(Rest[n].content)
             /\ Quoted(Lookup(n)) => Len(TakenByQuote(n).content) < Len(Rest[n].content)
  <2> DEFINE c == Lookup(n)
             r == Rest[n]
             stripped == StripQuote(c)
  <2>1. n \in 1 .. Len(Rest)
    BY <1>1
  <2>2. c \in Seq(Characters) /\ r = [number |-> r.number, content |-> c, lazy |-> r.lazy] /\ r.content = c
    BY <1>1, <2>1 DEF LinesOfText, Lookup, IsLine, Line
  <2>3. Len(c) \in Nat /\ (Quoted(c) => Len(stripped) \in Nat /\ Len(stripped) < Len(c))
    BY <2>2, QuotedIsShorter
  <2>4. TakenByQuote(n) = IF Quoted(c) THEN [r EXCEPT !.content = stripped] ELSE [r EXCEPT !.lazy = TRUE]
    BY DEF TakenByQuote
  <2>5. Quoted(Lookup(n)) <=> Quoted(c)
    OBVIOUS
  <2> HIDE DEF c, r, stripped
  <2>6. TakenByQuote(n).content = IF Quoted(c) THEN stripped ELSE c
    BY <2>2, <2>4
  <2>7. Len(r.content) = Len(c)
    BY <2>2
  <2>8. Len(TakenByQuote(n).content) <= Len(r.content) /\ (Quoted(c) => Len(TakenByQuote(n).content) < Len(r.content))
    BY <2>3, <2>6, <2>7
  <2> QED
    BY <2>5, <2>8 DEF r
<1>3. Len(TakenByQuote(Top.at).content) < Len(Rest[Top.at].content)
  <2>1. Top.at \in Top.at .. Len(Rest) /\ Here = Lookup(Top.at)
    BY <1>1 DEF Here
  <2> QED
    BY <1>2, <2>1
<1>4. ASSUME NEW k \in 1 .. QuoteEnd - Top.at
      PROVE  Len(QuoteLines[k].content) <= Len(Rest[Top.at + k - 1].content)
  <2>1. Top.at + k - 1 \in Top.at .. Len(Rest)
    BY <1>1
  <2>2. QuoteLines[k] = TakenByQuote(Top.at + k - 1)
    BY DEF QuoteLines
  <2> QED
    BY <1>2, <2>1, <2>2
<1>5. QuoteLines[1] = TakenByQuote(Top.at)
  <2>1. 1 \in 1 .. QuoteEnd - Top.at /\ Top.at + 1 - 1 = Top.at
    BY <1>1
  <2> QED
    BY <2>1 DEF QuoteLines
<1> QED
  BY <1>3, <1>4, <1>5 DEF Shorter

LEMMA ItemLinesAreShorter ==
  ASSUME BlocksInv, frames # <<>>, LinesOfText(Rest), Top.at <= Len(Rest), IsMarker(ListMarker(Here)),
         ItemEnd \in Nat, Top.at < ItemEnd, ItemEnd <= Len(Rest) + 1
  PROVE  Shorter(ItemLines, ItemEnd)
<1>1. Top.at \in Nat /\ Top.at > 0 /\ Len(Rest) \in Nat /\ \A n \in 1 .. Len(Rest) : IsLine(Rest[n])
  BY AtTop DEF BlocksInv
<1>2. Here \in Seq(Characters) /\ Here = Lookup(Top.at)
  <2>1. Top.at \in 1 .. Len(Rest)
    BY <1>1
  <2> QED
    BY <2>1 DEF LinesOfText, Lookup, Here
<1>3. ItemMarker.width \in Nat /\ Len(ItemContent) \in Nat /\ Len(ItemContent) < Len(Here)
  <2>1. ItemMarker.width \in Nat
    BY <1>2, MarkerColumns DEF ItemMarker
  <2> QED
    BY <1>2, <2>1, MarkedIsShorter DEF ItemContent, ItemMarker
<1>4. ASSUME NEW n \in Top.at .. Len(Rest)
      PROVE  /\ Len(TakenByItem(n).content) <= Len(Rest[n].content)
             /\ n = Top.at => Len(TakenByItem(n).content) < Len(Rest[n].content)
  <2> DEFINE c == Lookup(n)
             r == Rest[n]
             inner == Inner(n, ItemMarker)
             short == Indent(c) < ItemMarker.width
             width == IF short THEN Indent(c) ELSE ItemMarker.width
             t == TakenByItem(n)
  <2>1. n \in 1 .. Len(Rest) /\ (n = Top.at \/ n > Top.at)
    BY <1>1
  <2>2. c \in Seq(Characters) /\ r = [number |-> r.number, content |-> c, lazy |-> r.lazy] /\ r.content = c
    BY <1>1, <2>1 DEF LinesOfText, Lookup, IsLine, Line
  <2>3. Len(c) \in Nat /\ Len(inner) \in Nat /\ Len(inner) <= Len(c)
    <3>1. Indent(c) \in Nat
      BY <2>2, IndentIsNat
    <3>2. width \in Nat
      BY <1>3, <3>1
    <3>3. inner = StripContainer(c, 0, width)
      BY DEF Inner
    <3> HIDE DEF c, width, inner
    <3> QED
      BY <2>2, <3>2, <3>3, StrippedIsShorter
  <2>4. n = Top.at => t = [r EXCEPT !.content = ItemContent] /\ c = Here
    BY <1>2 DEF TakenByItem
  <2>5. n > Top.at /\ Blank(c) => t = r
    BY <1>1 DEF TakenByItem
  <2>6. n > Top.at /\ ~Blank(c) => t = [r EXCEPT !.content = inner, !.lazy = @ \/ short]
    BY <1>1 DEF TakenByItem
  <2> HIDE DEF c, r, inner, short, t
  <2>7. \/ n = Top.at /\ t.content = ItemContent /\ c = Here
        \/ n # Top.at /\ (t.content = c \/ t.content = inner)
    <3>1. CASE n = Top.at
      BY <2>2, <2>4, <3>1
    <3>2. CASE n > Top.at /\ Blank(c)
      BY <1>1, <2>2, <2>5, <3>2
    <3>3. CASE n > Top.at /\ ~Blank(c)
      <4>1. t.content = inner
        BY <2>2, <2>6, <3>3
      <4> QED
        BY <1>1, <3>3, <4>1
    <3> QED
      BY <2>1, <3>1, <3>2, <3>3
  <2>8. Len(t.content) <= Len(c) /\ (n = Top.at => Len(t.content) < Len(c))
    BY <1>3, <2>3, <2>7
  <2>9. Len(r.content) = Len(c)
    BY <2>2
  <2> QED
    BY <2>8, <2>9 DEF r, t
<1>5. Len(TakenByItem(Top.at).content) < Len(Rest[Top.at].content)
  <2>1. Top.at \in Top.at .. Len(Rest)
    BY <1>1
  <2> QED
    BY <1>4, <2>1
<1>6. ASSUME NEW k \in 1 .. ItemEnd - Top.at
      PROVE  Len(ItemLines[k].content) <= Len(Rest[Top.at + k - 1].content)
  <2>1. Top.at + k - 1 \in Top.at .. Len(Rest)
    BY <1>1
  <2>2. ItemLines[k] = TakenByItem(Top.at + k - 1)
    BY DEF ItemLines
  <2> QED
    BY <1>4, <2>1, <2>2
<1>7. ItemLines[1] = TakenByItem(Top.at)
  <2>1. 1 \in 1 .. ItemEnd - Top.at /\ Top.at + 1 - 1 = Top.at
    BY <1>1
  <2> QED
    BY <2>1 DEF ItemLines
<1> QED
  BY <1>5, <1>6, <1>7 DEF Shorter
-----------------------------------------------------------------------------
LEMMA SizedNow ==
  ASSUME BlocksInv, MaximalInv
  PROVE  Sized(frames)
BY DEF BlocksInv, FramesFit, Calls, MaximalInv, Sized

LEMMA SizedNext ==
  ASSUME BlocksInv', MaximalInv'
  PROVE  Sized(frames')
BY DEF BlocksInv, FramesFit, Calls, MaximalInv, Sized

Shrinks == WorkTo(frames', Len(frames')) < WorkTo(frames, Len(frames))

(* A turn that takes lines. *)
LEMMA MoveToShrinks ==
  ASSUME BlocksInv, Sized(frames), Sized(frames'), frames # <<>>, Top.loop = "blocks",
         NEW at \in Nat, Top.at < at, at <= Len(Rest) + 1, MoveTo(at)
  PROVE  Shrinks
<1> DEFINE g == [Top EXCEPT !.at = at]
<1>1. frames' = Put(frames, Len(frames), g)
  BY MoveToPuts
<1>2. /\ Len(frames) > 0 /\ Top = frames[Len(frames)] /\ IsFrame(Top) /\ Rest = Top.lines /\ Top.at \in Nat
  BY AtTop DEF BlocksInv
<1>3. MovedTo(Top, at, g) /\ at \in 1 .. Len(Top.lines) + 1
  BY <1>2 DEF MovedTo
<1> HIDE DEF g
<1>4. Same(g, Top) /\ g.at = at
  BY <1>2, <1>3, FrameChanged
<1> QED
  BY <1>1, <1>2, <1>4, MovingShrinks DEF Shrinks

LEMMA LeafShrinks ==
  ASSUME BlocksInv, Sized(frames), Sized(frames'),
         \/ ParseFence \/ ParseHeading \/ ParseBreak \/ ParseIndentedCode
         \/ ParseHtml \/ ParseParagraph \/ ParseSetext \/ ParseTable
  PROVE  Shrinks
<1>1. \E kind, at, last : TakesLeaf(kind, at, last) /\ at \in Nat /\ last \in Nat
  <2>1. CASE ParseParagraph
    BY <2>1, ParseParagraphTakes
  <2>2. CASE ~ParseParagraph
    <3>1. \E kind \in LeafKinds : Takes(kind)
      BY <2>2, LeafActions
    <3> QED
      BY <3>1 DEF Takes
  <2> QED
    BY <2>1, <2>2
<1>5. PICK kind, at, last : TakesLeaf(kind, at, last) /\ at \in Nat /\ last \in Nat
  BY <1>1
<1>2. frames # <<>> /\ Top.loop = "blocks" /\ Top.at <= last /\ last < at /\ at <= Len(Rest) + 1 /\ MoveTo(at)
  BY <1>5 DEF TakesLeaf
<1>3. Top.at \in Nat
  BY <1>2, AtTop DEF BlocksInv
<1>4. Top.at < at /\ at \in Nat
  BY <1>5, <1>2, <1>3
<1> QED
  BY <1>2, <1>4, MoveToShrinks

LEMMA LineShrinks ==
  ASSUME BlocksInv, Sized(frames), Sized(frames'), SkipBlank \/ ParseDefinition
  PROVE  Shrinks
<1>1. Parsing /\ MoveTo(Top.at + 1)
  BY DEF SkipBlank, ParseDefinition, At
<1>2. Top.loop = "blocks"
  BY <1>1 DEF Parsing
<1>3. frames # <<>> /\ Top.at + 1 \in Nat /\ Top.at < Top.at + 1 /\ Top.at + 1 <= Len(Rest) + 1
  BY <1>1, TurnAt
<1> QED
  BY <1>1, <1>2, <1>3, MoveToShrinks

(* Lines handed to a new call. *)
LEMMA HandsOverShrinks ==
  ASSUME BlocksInv, Sized(frames), Sized(frames'), NEW kind, NEW at \in Nat, NEW g, NEW taken,
         HandsOver(kind, at, g, taken), Shorter(taken, at), Top.loop = "list" => g.item # 0
  PROVE  Shrinks
<1> DEFINE h == BlocksFrame(NewNode, taken)
<1>1. /\ frames # <<>> /\ Top.at < at /\ at <= Len(Rest) + 1 /\ MovedTo(Top, at, g) /\ Handed(taken, at)
      /\ frames' = Append(Put(frames, Len(frames), g), h)
  BY DEF HandsOver
<1>2. /\ Len(frames) > 0 /\ Top = frames[Len(frames)] /\ IsFrame(Top) /\ Rest = Top.lines /\ Top.at \in Nat
      /\ FramesFit
  BY <1>1, AtTop DEF BlocksInv
<1>3. h.loop = "blocks" /\ h.lines = taken /\ h.at = 1 /\ Len(taken) = at - Top.at
  BY <1>1, <1>2, HandedFit
<1> HIDE DEF h
<1>4. Same(g, Top) /\ g.at = at
  <2>1. at \in 1 .. Len(Top.lines) + 1
    BY <1>1, <1>2
  <2> QED
    BY <1>1, <1>2, <2>1, FrameChanged
<1>5. /\ \A k \in 1 .. g.at - Top.at : Len(h.lines[k].content) <= Len(Top.lines[Top.at + k - 1].content)
      /\ Len(h.lines[1].content) < Len(Top.lines[Top.at].content)
      /\ Len(h.lines) = g.at - Top.at /\ g.at > Top.at
  BY <1>1, <1>2, <1>3, <1>4 DEF Shorter
<1> QED
  BY <1>1, <1>2, <1>3, <1>4, <1>5, HandingShrinks DEF Shrinks

LEMMA QuoteShrinks ==
  ASSUME BlocksInv, MaximalInv, Sized(frames), Sized(frames'), ParseQuote
  PROVE  Shrinks
<1>1. QuoteEnd \in Nat /\ HandsOver("quote", QuoteEnd, [Top EXCEPT !.at = QuoteEnd], QuoteLines)
  BY ParseQuoteHands
<1>2. Parsing /\ Quoted(Here)
  BY DEF ParseQuote, At, Beginning
<1>3. frames # <<>> /\ Top.loop = "blocks" /\ Top.at <= Len(Rest) /\ Top.loop # "list"
  BY <1>2 DEF Parsing
<1>4. Top.at < QuoteEnd /\ QuoteEnd <= Len(Rest) + 1
  BY <1>1 DEF HandsOver
<1>5. Shorter(QuoteLines, QuoteEnd)
  BY <1>1, <1>2, <1>3, <1>4, TopIsEnded, QuoteLinesAreShorter
<1> QED
  BY <1>1, <1>3, <1>5, HandsOverShrinks

LEMMA ItemShrinks ==
  ASSUME BlocksInv, MaximalInv, Sized(frames), Sized(frames'), ParseItem
  PROVE  Shrinks
<1> DEFINE item == NewNode
           loose == ItemAfter(Len(Rest)).loose
           g == [Top EXCEPT !.at = ItemEnd, !.item = item, !.loose = loose]
<1>1. ItemEnd \in Nat /\ HandsOver("item", ItemEnd, g, ItemLines)
  BY ParseItemHands
<1>2. frames # <<>> /\ Top.at <= Len(Rest) /\ IsMarker(ListMarker(Here))
  BY DEF ParseItem, InList, Continues
<1>3. Top.at < ItemEnd /\ ItemEnd <= Len(Rest) + 1
  BY <1>1 DEF HandsOver
<1>4. Shorter(ItemLines, ItemEnd)
  BY <1>1, <1>2, <1>3, TopIsEnded, ItemLinesAreShorter
<1>5. g.item # 0
  <2>1. item # 0
    BY DEF BlocksInv, TreeFits, Tree, IsSeq, NewNode
  <2>2. IsFrame(Top)
    BY <1>2, AtTop DEF BlocksInv
  <2>3. Top = [loop |-> Top.loop, node |-> Top.node, lines |-> Top.lines, at |-> Top.at,
               first |-> Top.first, loose |-> Top.loose, item |-> Top.item]
    BY <2>2 DEF IsFrame
  <2> HIDE DEF item, loose
  <2>4. g.item = item
    BY <2>3
  <2> QED
    BY <2>1, <2>4
<1> HIDE DEF g
<1> QED
  BY <1>1, <1>4, <1>5, HandsOverShrinks

LEMMA OpenListShrinks ==
  ASSUME BlocksInv, Sized(frames), Sized(frames'), OpenList
  PROVE  Shrinks
<1> DEFINE marker == ListMarker(Here)
           h == [loop |-> "list", node |-> NewNode, lines |-> Rest, at |-> Top.at,
                 first |-> marker, loose |-> FALSE, item |-> 0]
<1>1. frames # <<>> /\ Top.loop = "blocks" /\ frames' = Append(frames, h)
  BY DEF OpenList, At, Parsing
<1>2. Len(frames) > 0 /\ Top = frames[Len(frames)] /\ Rest = Top.lines
  BY <1>1, AtTop DEF BlocksInv
<1> HIDE DEF marker
<1>3. h.loop = "list" /\ h.item = 0 /\ h.lines = Top.lines /\ h.at = Top.at
  BY <1>2
<1> HIDE DEF h
<1> QED
  BY <1>1, <1>2, <1>3, CallingShrinks DEF Shrinks

LEMMA EndListShrinks ==
  ASSUME BlocksInv, MaximalInv, Sized(frames), Sized(frames'), EndList
  PROVE  Shrinks
<1> DEFINE n == Len(frames)
           below == SubSeq(frames, 1, n - 1)
           caller == frames[n - 1]
           g == [caller EXCEPT !.at = Top.at]
<1>1. frames # <<>> /\ Top.loop = "list" /\ ~Continues
  BY DEF EndList, InList
<1>2. /\ Top.at \in Nat /\ Calls(frames, Len(source)) /\ n > 0 /\ n \in Nat /\ Top = frames[n] /\ Rest = Top.lines
      /\ Top.at <= Len(Rest) + 1 /\ Top.at > 0 /\ IsSeq(frames)
  BY <1>1, AtTop DEF BlocksInv, Calls
<1>3. Top.item # 0
  <2>1. ListOpen(nodes, Top)
    BY <1>1, TopIsEnded
  <2> SUFFICES ASSUME Top.item = 0 PROVE FALSE
    OBVIOUS
  <2>2. Goes(Top) /\ Continued(Top)
    BY <2>1 DEF ListOpen
  <2>3. Top.at <= Len(Rest) /\ Content(Top) = Here
    BY <1>2, <2>2 DEF Goes, Content, Here, Lookup
  <2> QED
    BY <1>1, <2>2, <2>3 DEF Continues, Continued, SameList
<1> HIDE DEF n
<1>4. n > 1
  <2>1. frames[1].loop = "blocks"
    BY <1>2 DEF Calls, n
  <2> QED
    BY <1>1, <1>2, <2>1
<1>5. n - 1 \in 1 .. n - 1 /\ n - 1 \in 1 .. n /\ (n - 1) + 1 = n
  BY <1>2, <1>4
<1>6. Hands(caller, Top) /\ IsFrame(caller)
  BY <1>2, <1>5 DEF Calls, n
<1>7. caller.loop = "blocks" /\ caller.lines = Rest
  BY <1>1, <1>2, <1>6 DEF Hands
<1>8. IsSeq(below) /\ Len(below) = n - 1 /\ \A k \in 1 .. n - 1 : below[k] = frames[k]
  BY <1>2, Shortened DEF n
<1> HIDE DEF below
<1>9. frames' = Put(below, n - 1, g)
  <2>1. frames' = [below EXCEPT ![n - 1] = [@ EXCEPT !.at = Top.at]]
    BY DEF EndList, n, below
  <2>2. below[n - 1] = caller
    BY <1>5, <1>8
  <2> QED
    BY <2>1, <2>2 DEF Put
<1>10. g.loop = "blocks" /\ g.loop = caller.loop /\ g.lines = Top.lines /\ g.at = Top.at
  <2>1. Top.at \in 1 .. Len(caller.lines) + 1 /\ MovedTo(caller, Top.at, g)
    BY <1>2, <1>7 DEF MovedTo
  <2> HIDE DEF g, caller
  <2>2. Same(g, caller) /\ g.at = Top.at
    BY <1>6, <2>1, FrameChanged
  <2> QED
    BY <1>2, <1>7, <2>2 DEF Same
<1> HIDE DEF g
<1>11. Returned(frames, frames', g)
  <2>1. /\ Len(frames') = n - 1 /\ frames'[n - 1] = g
        /\ \A k \in 1 .. n - 1 : k # n - 1 => frames'[k] = below[k]
    BY <1>5, <1>8, <1>9, Replaced
  <2>2. \A k \in 1 .. n - 2 : frames'[k] = frames[k]
    BY <1>2, <1>4, <1>8, <2>1
  <2> QED
    BY <1>4, <2>1, <2>2 DEF Returned, n
<1>12. n = Len(frames)
  BY DEF n
<1> QED
  BY <1>1, <1>2, <1>3, <1>4, <1>10, <1>11, <1>12, ListDoneShrinks DEF Shrinks

LEMMA EndBlocksShrinks ==
  ASSUME BlocksInv, Sized(frames), Sized(frames'), EndBlocks
  PROVE  Shrinks
<1> DEFINE n == Len(frames)
           below == SubSeq(frames, 1, n - 1)
           caller == frames[n - 1]
           loose == caller.loose \/ ItemIsLoose(Top.node)
           h == [caller EXCEPT !.loose = loose]
           g == IF caller.loop = "list" THEN h ELSE caller
<1>1. frames # <<>> /\ Top.loop = "blocks" /\ Top.at > Len(Rest)
  BY DEF EndBlocks
<1>2. /\ Calls(frames, Len(source)) /\ n > 0 /\ n \in Nat /\ IsSeq(frames) /\ Top = frames[n] /\ Rest = Top.lines
  BY <1>1, AtTop DEF BlocksInv, Calls
<1>3. IsSeq(below) /\ Len(below) = n - 1 /\ \A k \in 1 .. n - 1 : below[k] = frames[k]
  BY <1>2, Shortened
<1> HIDE DEF n
<1>4. n > 1 => caller = frames[n - 1] /\ IsFrame(caller)
  <2>1. n > 1 => n - 1 \in 1 .. n
    BY <1>2
  <2> QED
    BY <1>2, <2>1 DEF Calls, n
<1>5. CASE n = 1
  <2>1. below = <<>>
    BY <1>2, <1>3, <1>5, NoLines
  <2>2. frames' = <<>>
    BY <2>1 DEF EndBlocks, n
  <2>3. Len(frames') = 0
    BY <2>2
  <2>4. Same(caller, caller)
    BY DEF Same
  <2>5. n = Len(frames)
    BY DEF n
  <2> HIDE DEF caller
  <2> QED
    BY <1>1, <1>2, <1>4, <1>5, <2>3, <2>4, <2>5, DoneShrinks DEF Shrinks
<1>6. CASE n # 1
  <2>1. n > 1 /\ n - 1 \in 1 .. n - 1 /\ n - 1 > 0
    BY <1>2, <1>6
  <2>2. below # <<>> /\ below[Len(below)] = caller /\ IsFrame(caller)
    <3>1. below # <<>>
      <4> HIDE DEF below
      <4> QED
        BY <1>2, <1>3, <2>1, NoLines
    <3> QED
      BY <1>3, <1>4, <2>1, <3>1
  <2>3. \/ frames' = below /\ g = caller
        \/ frames' = Put(below, Len(below), g)
    <3>1. frames' = IF below[Len(below)].loop = "list"
                    THEN [below EXCEPT ![Len(below)].loose = @ \/ ItemIsLoose(Top.node)] ELSE below
      BY <2>2 DEF EndBlocks, n
    <3> HIDE DEF below
    <3> QED
      BY <2>2, <3>1 DEF Put
  <2>4. Same(g, caller) /\ g.at = caller.at /\ g.item = caller.item
    <3> HIDE DEF caller, loose
    <3> QED
      BY <2>2, FrameLoosened DEF Same
  <2> HIDE DEF g, below, caller
  <2>5. /\ Len(frames') = n - 1 /\ frames'[n - 1] = g
        /\ \A k \in 1 .. n - 1 : k # n - 1 => frames'[k] = below[k]
    <3>1. CASE frames' = below /\ g = caller
      BY <1>3, <2>2, <3>1
    <3>2. CASE frames' = Put(below, Len(below), g)
      BY <1>3, <2>1, <3>2, Replaced
    <3> QED
      BY <2>3, <3>1, <3>2
  <2>6. \A k \in 1 .. n - 2 : frames'[k] = frames[k]
    BY <1>2, <1>3, <2>1, <2>5
  <2>7. Returned(frames, frames', g) /\ n = Len(frames)
    BY <2>1, <2>5, <2>6 DEF Returned, n
  <2> QED
    BY <1>1, <1>2, <1>4, <1>6, <2>4, <2>7, DoneShrinks DEF Shrinks
<1> QED
  BY <1>5, <1>6

LEMMA TurnsShrink ==
  ASSUME BlocksInv, MaximalInv, BlocksInv', MaximalInv', BlockNext
  PROVE  Work' < Work
<1> SUFFICES Shrinks
  BY WorkIsSum DEF Shrinks
<1>1. Sized(frames) /\ Sized(frames')
  BY SizedNow, SizedNext
<1>2. CASE SkipBlank \/ ParseDefinition
  BY <1>1, <1>2, LineShrinks
<1>3. CASE \/ ParseFence \/ ParseHeading \/ ParseBreak \/ ParseIndentedCode
           \/ ParseHtml \/ ParseParagraph \/ ParseSetext \/ ParseTable
  BY <1>1, <1>3, LeafShrinks
<1>4. CASE ParseQuote
  BY <1>1, <1>4, QuoteShrinks
<1>5. CASE OpenList
  BY <1>1, <1>5, OpenListShrinks
<1>6. CASE ParseItem
  BY <1>1, <1>6, ItemShrinks
<1>7. CASE EndList
  BY <1>1, <1>7, EndListShrinks
<1>8. CASE EndBlocks
  BY <1>1, <1>8, EndBlocksShrinks
<1> QED
  BY <1>2, <1>3, <1>4, <1>5, <1>6, <1>7, <1>8 DEF BlockNext

(* What is left to do is a natural number: a list that has no item yet is  *)
(* at a line.                                                              *)
LEMMA CallsAreNatural ==
  ASSUME BlocksInv, MaximalInv, NEW k \in 1 .. Len(frames)
  PROVE  CallOf(frames, k) \in Nat
<1> DEFINE f == frames[k]
<1>1. IsFrame(f) /\ LinesOfText(f.lines)
  BY SizedNow DEF Sized
<1>2. /\ IsText(f.lines) /\ Len(f.lines) \in Nat /\ f.at \in Nat /\ f.at > 0
      /\ LinesLeft(f) = Left(f.lines, f.at) /\ LinesLeft(f) \in Nat
  BY <1>1, FrameLeft
<1>3. CASE f.loop = "list" /\ f.item = 0
  <2>1. Goes(f)
    <3>1. Ended(nodes, defined, frames, k)
      BY DEF MaximalInv
    <3> QED
      BY <1>3, <3>1 DEF Ended, ListOpen
  <2>2. f.at < Len(f.lines) + 1 /\ Len(f.lines) + 1 \in Nat /\ f.at <= Len(f.lines) + 1
    BY <1>2, <2>1 DEF Goes
  <2>3. LinesLeft(f) > 0
    <3>1. Left(f.lines, Len(f.lines) + 1) = 0 /\ Left(f.lines, Len(f.lines) + 1) < Left(f.lines, f.at)
      BY <1>2, <2>2, LeftShrinks
    <3> QED
      BY <1>2, <3>1
  <2>4. ~Calling(frames, k)
    <3> SUFFICES ASSUME Calling(frames, k) PROVE FALSE
      OBVIOUS
    <3>1. Len(frames) \in Nat /\ Calls(frames, Len(source))
      BY DEF BlocksInv, FramesFit, Calls, IsSeq
    <3>2. k \in 1 .. Len(frames) - 1 /\ frames[k + 1].loop = "list"
      BY <3>1 DEF Calling
    <3>3. Hands(f, frames[k + 1])
      BY <3>1, <3>2 DEF Calls
    <3> QED
      BY <1>3, <3>2, <3>3 DEF Hands
  <2> QED
    BY <1>2, <1>3, <2>3, <2>4 DEF CallOf
<1>4. CASE ~(f.loop = "list" /\ f.item = 0)
  BY <1>2, <1>4 DEF CallOf
<1> QED
  BY <1>3, <1>4

LEMMA WorkIsNatural ==
  ASSUME BlocksInv, MaximalInv
  PROVE  Work \in Nat
<1> DEFINE n == Len(frames)
           Natural == {m \in Nat : m <= n => WorkTo(frames, m) \in Nat}
<1>1. Sized(frames) /\ n \in Nat
  BY SizedNow DEF Sized, IsSeq
<1>2. 0 \in Natural
  BY WorkOfNone
<1>3. ASSUME NEW m \in Nat, m \in Natural PROVE m + 1 \in Natural
  <2> SUFFICES ASSUME m + 1 <= n PROVE WorkTo(frames, m + 1) \in Nat
    OBVIOUS
  <2>1. m + 1 \in 1 .. n /\ m <= n /\ (m + 1) - 1 = m
    BY <1>1
  <2>2. WorkTo(frames, m) \in Nat
    BY <1>3, <2>1
  <2>3. WorkTo(frames, m + 1) = CallOf(frames, m + 1) + WorkTo(frames, (m + 1) - 1)
    BY <1>1, <2>1, WorkOfLast
  <2>4. CallOf(frames, m + 1) \in Nat
    BY <2>1, CallsAreNatural
  <2> QED
    BY <2>1, <2>2, <2>3, <2>4
<1>4. Nat \subseteq Natural
  <2> HIDE DEF Natural
  <2> QED
    BY <1>2, <1>3, SetInduction
<1>5. WorkTo(frames, n) \in Nat
  BY <1>1, <1>4
<1> QED
  BY <1>5, WorkIsSum

(* Parsing ends on every document: what is left to do is a natural number, *)
(* and each turn of parseBlocks or parseList, at any depth, makes it less. *)
THEOREM EveryTurnShrinks == BlockSpec => EveryTurnMakesProgress
<1>1. BlocksInv /\ MaximalInv => Work \in Nat
  BY WorkIsNatural
<1>2. /\ BlocksInv /\ MaximalInv /\ Work \in Nat
      /\ BlocksInv' /\ MaximalInv' /\ (Work \in Nat)'
      /\ [BlockNext]_blockVars
      => [~Parsed => Work' \in 0 .. Work - 1]_blockVars
  <2> SUFFICES ASSUME BlocksInv, MaximalInv, Work \in Nat, BlocksInv', MaximalInv', Work' \in Nat, BlockNext
               PROVE  Work' \in 0 .. Work - 1
    OBVIOUS
  <2>1. Work' < Work
    BY TurnsShrink
  <2> QED
    BY <2>1
<1> QED
  BY <1>1, <1>2, BlocksInvariant, MaximalInvariant, PTL DEF BlockSpec, EveryTurnMakesProgress
=============================================================================
