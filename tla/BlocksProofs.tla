---------------------------- MODULE BlocksProofs ----------------------------
(***************************************************************************)
(* Where the lines of a document go in Blocks: each to one leaf, one       *)
(* definition or the blank lines, whatever quotes and lists take apart and *)
(* hand to calls of their own.  The argument is one number, NextLine, the  *)
(* first line nobody has taken yet: what is on the call stack determines   *)
(* it (FramesFit), every turn takes the lines from it on, and opening or   *)
(* closing a container leaves it where it is.                              *)
(***************************************************************************)
EXTENDS Blocks, Counting, SequenceTheorems

(* Data is described by its shape; the kinds of characters do not matter.  *)
IsSeq(s)  == Len(s) \in Nat /\ s = [n \in 1 .. Len(s) |-> s[n]]
IsLine(r) == r = Line(r.number, r.content, r.lazy)

(* The number of the line before the first of a frame. *)
Base(f) == IF Len(f.lines) = 0 THEN 0 ELSE f.lines[1].number - 1

IsFrame(f) ==
  /\ f = [loop |-> f.loop, node |-> f.node, lines |-> f.lines, at |-> f.at,
          first |-> f.first, loose |-> f.loose, item |-> f.item]
  /\ f.loop \in {"blocks", "list"}
  /\ IsSeq(f.lines)
  /\ Base(f) \in Nat
  /\ \A n \in 1 .. Len(f.lines) : IsLine(f.lines[n]) /\ f.lines[n].number = Base(f) + n
  /\ f.at \in 1 .. Len(f.lines) + 1

(* A call and the one it is in: a list walks the lines of its caller, and  *)
(* a caller goes on behind the lines it has handed to a container.         *)
Hands(f, g) ==
  IF g.loop = "list" THEN f.loop = "blocks" /\ g.lines = f.lines /\ f.at <= g.at
  ELSE Base(f) + f.at = Base(g) + Len(g.lines) + 1

Calls(fs, lines) ==
  /\ IsSeq(fs)
  /\ \A k \in 1 .. Len(fs) : IsFrame(fs[k])
  /\ \A k \in 1 .. Len(fs) - 1 : Hands(fs[k], fs[k + 1])
  /\ Len(fs) > 0 => /\ fs[1].loop = "blocks" /\ fs[1].node = 0
                    /\ Base(fs[1]) = 0 /\ Len(fs[1].lines) = lines

FramesFit == IsSeq(source) /\ Calls(frames, Len(source))

(* The first line that has not been taken. *)
NextOf(fs, lines) == IF Len(fs) = 0 THEN lines + 1 ELSE Base(fs[Len(fs)]) + fs[Len(fs)].at
NextLine == NextOf(frames, Len(source))

IsBlock(b) ==
  /\ b = [kind |-> b.kind, parent |-> b.parent, from |-> b.from, to |-> b.to, own |-> b.own,
          text |-> b.text, inset |-> b.inset, marker |-> b.marker, start |-> b.start,
          tight |-> b.tight]
  /\ b.from \in Nat /\ b.to \in Nat
  /\ b.own \subseteq b.from .. b.to

(* The lines before next are divided among leaves, definitions and blank   *)
(* lines, and the leaves are in order.                                     *)
Divided(ns, ds, bs, next) ==
  /\ \A n \in 1 .. Len(ns) : ns[n].own \subseteq 1 .. next - 1
  /\ ds \subseteq 1 .. next - 1
  /\ bs \subseteq 1 .. next - 1
  /\ \A l \in 1 .. next - 1 : l \in ds \cup bs \/ \E n \in 1 .. Len(ns) : l \in ns[n].own
  /\ \A m, n \in 1 .. Len(ns) : m < n => \A i \in ns[m].own, j \in ns[n].own : i < j
  /\ \A n \in 1 .. Len(ns) : ns[n].own \cap (ds \cup bs) = {}
  /\ ds \cap bs = {}

LinesDivided == Divided(nodes, DefinitionLines, skipped, NextLine)

FirstIsKept ==
  IF defined = {} THEN references = 0
  ELSE references \in DefinitionLines /\ \A l \in DefinitionLines : references <= l

Queue(queue, most) ==
  /\ IsSeq(queue)
  /\ \A i \in 1 .. Len(queue) : queue[i] \in 1 .. most
  /\ \A i, j \in 1 .. Len(queue) : i < j => queue[i] < queue[j]

QueueInOrder == Queue(inlines, Len(nodes))

(* p is the document, or a quote or item that the lines are in.            *)
Room(ns, p, from, to) ==
  p # 0 => ns[p].kind # "list" /\ ns[p].from <= from /\ to <= ns[p].to

(* Below a list are items, and what holds the list holds them.             *)
Grown(ns, n) ==
  LET b == ns[n]
      p == b.parent
  IN  /\ IsBlock(b)
      /\ p \in 0 .. n - 1
      /\ IF b.kind = "list" THEN b.own = {} /\ (p # 0 => ns[p].kind # "list")
         ELSE Room(ns, IF p # 0 /\ ns[p].kind = "list" THEN ns[p].parent ELSE p, b.from, b.to)

Tree(ns) == IsSeq(ns) /\ \A n \in 1 .. Len(ns) : Grown(ns, n)

(* Calls work below what holds their lines, lists below their caller's.    *)
Placed(fs, ns) ==
  \A k \in 1 .. Len(fs) :
    LET f == fs[k]
    IN  /\ f.node \in 0 .. Len(ns)
        /\ IF f.loop = "blocks" THEN Room(ns, f.node, Base(f) + 1, Base(f) + Len(f.lines))
           ELSE f.node # 0 /\ ns[f.node].kind = "list" /\ ns[f.node].parent = fs[k - 1].node

TreeFits == Tree(nodes) /\ Placed(frames, nodes)

BlocksInv == FramesFit /\ TreeFits /\ LinesDivided /\ FirstIsKept /\ QueueInOrder
-----------------------------------------------------------------------------
(* Sequences by their shape. *)
LEMMA SeqOfElements ==
  ASSUME NEW s, IsSeq(s)
  PROVE  s \in Seq({s[n] : n \in 1 .. Len(s)})
<1>1. s \in [1 .. Len(s) -> {s[n] : n \in 1 .. Len(s)}]
  BY DEF IsSeq
<1> QED
  BY <1>1 DEF IsSeq

LEMMA SeqsAreSeqs ==
  ASSUME NEW S, NEW s \in Seq(S)
  PROVE  IsSeq(s)
BY DEF IsSeq

LEMMA BuiltIsSeq ==
  ASSUME NEW n \in Nat, NEW s, s = [k \in 1 .. n |-> s[k]]
  PROVE  IsSeq(s) /\ Len(s) = n
<1>1. s \in [1 .. n -> {s[k] : k \in 1 .. n}]
  OBVIOUS
<1>2. s \in Seq({s[k] : k \in 1 .. n}) /\ Len(s) = n
  BY <1>1
<1> QED
  BY <1>2 DEF IsSeq

LEMMA Appended ==
  ASSUME NEW s, IsSeq(s), NEW e
  PROVE  /\ IsSeq(Append(s, e))
         /\ Len(Append(s, e)) = Len(s) + 1
         /\ Append(s, e)[Len(s) + 1] = e
         /\ \A n \in 1 .. Len(s) : Append(s, e)[n] = s[n]
         /\ Append(s, e) # <<>>
<1> DEFINE S == {s[n] : n \in 1 .. Len(s)} \cup {e}
<1>1. s \in Seq(S)
  <2>1. s \in [1 .. Len(s) -> S] /\ Len(s) \in Nat
    BY DEF IsSeq
  <2> QED
    BY <2>1
<1>2. e \in S /\ Len(s) \in Nat
  BY DEF IsSeq
<1> HIDE DEF S
<1>3. Append(s, e) \in Seq(S)
  BY <1>1, <1>2
<1>4. IsSeq(Append(s, e))
  BY <1>3, SeqsAreSeqs
<1>5. Len(Append(s, e)) = Len(s) + 1 /\ Append(s, e)[Len(s) + 1] = e
  BY <1>1, <1>2
<1>6. \A n \in 1 .. Len(s) : Append(s, e)[n] = s[n]
  BY <1>1, <1>2
<1>7. Append(s, e) # <<>>
  BY <1>5, <1>2
<1> QED
  BY <1>4, <1>5, <1>6, <1>7

Put(s, i, e) == [s EXCEPT ![i] = e]

LEMMA Replaced ==
  ASSUME NEW s, IsSeq(s), NEW i \in 1 .. Len(s), NEW e, NEW t, t = Put(s, i, e)
  PROVE  /\ IsSeq(t)
         /\ Len(t) = Len(s)
         /\ t[i] = e
         /\ \A n \in 1 .. Len(s) : n # i => t[n] = s[n]
<1>1. t = [k \in 1 .. Len(s) |-> t[k]] /\ Len(s) \in Nat
  BY DEF IsSeq, Put
<1>2. t[i] = e /\ \A n \in 1 .. Len(s) : n # i => t[n] = s[n]
  BY DEF IsSeq, Put
<1>3. IsSeq(t) /\ Len(t) = Len(s)
  BY <1>1, BuiltIsSeq
<1> QED
  BY <1>2, <1>3

LEMMA Shortened ==
  ASSUME NEW s, IsSeq(s), Len(s) > 0
  PROVE  /\ IsSeq(SubSeq(s, 1, Len(s) - 1))
         /\ Len(SubSeq(s, 1, Len(s) - 1)) = Len(s) - 1
         /\ \A n \in 1 .. Len(s) - 1 : SubSeq(s, 1, Len(s) - 1)[n] = s[n]
<1> DEFINE S == {s[n] : n \in 1 .. Len(s)}
<1>1. s \in Seq(S) /\ Len(s) \in Nat
  BY SeqOfElements DEF IsSeq
<1> HIDE DEF S
<1>2. /\ SubSeq(s, 1, Len(s) - 1) \in Seq(S)
      /\ Len(SubSeq(s, 1, Len(s) - 1)) = Len(s) - 1
      /\ \A n \in 1 .. Len(s) - 1 : SubSeq(s, 1, Len(s) - 1)[n] = s[n]
  <2> DEFINE m == Len(s) - 1
             t == SubSeq(s, 1, m)
  <2>1. m \in Int /\ m >= 0 /\ \A n \in 1 .. m : s[n] \in S
    BY <1>1
  <2>2. /\ t \in Seq(S)
        /\ Len(t) = IF 1 <= m THEN m - 1 + 1 ELSE 0
        /\ \A n \in 1 .. m - 1 + 1 : t[n] = s[1 + n - 1]
    <3> HIDE DEF m
    <3> QED
      BY <2>1, SubSeqProperties
  <2>3. \A n \in 1 .. m : n \in 1 .. m - 1 + 1 /\ 1 + n - 1 = n
    BY <2>1
  <2> HIDE DEF t
  <2>4. Len(t) = m
    <3>1. m \in Int /\ m >= 0 /\ Len(t) = IF 1 <= m THEN m - 1 + 1 ELSE 0
      BY <2>1, <2>2
    <3> HIDE DEF m
    <3> QED
      BY <3>1
  <2>5. ASSUME NEW n \in 1 .. m PROVE t[n] = s[n]
    <3>1. t[n] = s[1 + n - 1]
      BY <2>2, <2>3
    <3> HIDE DEF m
    <3> QED
      BY <3>1, <2>3
  <2> QED
    BY <2>2, <2>4, <2>5 DEF t
<1> QED
  BY <1>2, SeqsAreSeqs

LEMMA NoLines ==
  ASSUME NEW s, IsSeq(s)
  PROVE  s = <<>> <=> Len(s) = 0
<1>1. s \in Seq({s[n] : n \in 1 .. Len(s)})
  BY SeqOfElements
<1> QED
  BY <1>1

(* First and Max are what their names say. *)
LEMMA LeastOf ==
  ASSUME NEW lo \in Int, NEW hi \in Int, lo <= hi + 1, NEW S \in SUBSET (lo .. hi)
  PROVE  /\ Min(S \cup {hi + 1}) \in S \cup {hi + 1}
         /\ \A s \in S : Min(S \cup {hi + 1}) <= s
<1> DEFINE T == {hi + 1 - s : s \in S \cup {hi + 1}}
<1>1. T \in SUBSET Nat /\ 0 \in T /\ hi + 1 - lo \in Nat /\ \A t \in T : t <= hi + 1 - lo
  OBVIOUS
<1>2. PICK m \in T : \A t \in T : t <= m
  <2> HIDE DEF T
  <2> QED
    BY <1>1, LargestExists
<1>3. hi + 1 - m \in S \cup {hi + 1} /\ \A s \in S \cup {hi + 1} : hi + 1 - m <= s
  BY <1>2
<1> QED
  BY <1>3 DEF Min

LEMMA GreatestOf ==
  ASSUME NEW lo \in Nat, NEW hi \in Nat, NEW S \in SUBSET (lo .. hi), S # {}
  PROVE  Max(S) \in S /\ \A s \in S : s <= Max(S)
<1>1. PICK m \in S : \A s \in S : s <= m
  <2>1. S \in SUBSET Nat /\ \A s \in S : s <= hi
    OBVIOUS
  <2> QED
    BY <2>1, LargestExists
<1> QED
  BY <1>1 DEF Max
-----------------------------------------------------------------------------
(* The frames under the three things that happen to them: the innermost    *)
(* moves on, hands lines to a new one, or returns to its caller.           *)
Same(f, g) == f.loop = g.loop /\ f.node = g.node /\ f.lines = g.lines

MovedTo(f, at, g) ==
  \/ g = [f EXCEPT !.at = at]
  \/ \E loose, item : g = [f EXCEPT !.at = at, !.item = item, !.loose = loose]

LEMMA FrameChanged ==
  ASSUME NEW f, IsFrame(f), NEW at \in 1 .. Len(f.lines) + 1, NEW g, MovedTo(f, at, g)
  PROVE  IsFrame(g) /\ Same(g, f) /\ g.at = at
<1>1. f = [loop |-> f.loop, node |-> f.node, lines |-> f.lines, at |-> f.at,
           first |-> f.first, loose |-> f.loose, item |-> f.item]
  BY DEF IsFrame
<1>2. \E l, i : g = [loop |-> f.loop, node |-> f.node, lines |-> f.lines, at |-> at,
                    first |-> f.first, loose |-> l, item |-> i]
  <2>1. CASE g = [f EXCEPT !.at = at]
    BY <1>1, <2>1
  <2>2. ASSUME NEW loose, NEW item, g = [f EXCEPT !.at = at, !.item = item, !.loose = loose]
        PROVE  g = [loop |-> f.loop, node |-> f.node, lines |-> f.lines, at |-> at,
                    first |-> f.first, loose |-> loose, item |-> item]
    BY <1>1, <2>2
  <2> QED
    BY <2>1, <2>2 DEF MovedTo
<1>3. /\ g = [loop |-> g.loop, node |-> g.node, lines |-> g.lines, at |-> g.at,
              first |-> g.first, loose |-> g.loose, item |-> g.item]
      /\ Same(g, f) /\ g.at = at
  BY <1>2 DEF Same
<1>4. Base(g) = Base(f) /\ g.lines = f.lines /\ g.loop = f.loop
  BY <1>3 DEF Same, Base
<1> QED
  BY <1>3, <1>4 DEF IsFrame

LEMMA FrameLoosened ==
  ASSUME NEW f, IsFrame(f), NEW loose, NEW g, g = [f EXCEPT !.loose = loose]
  PROVE  IsFrame(g) /\ Same(g, f) /\ g.at = f.at /\ g.first = f.first /\ g.item = f.item
<1>1. f = [loop |-> f.loop, node |-> f.node, lines |-> f.lines, at |-> f.at,
           first |-> f.first, loose |-> f.loose, item |-> f.item]
  BY DEF IsFrame
<1>2. g = [loop |-> f.loop, node |-> f.node, lines |-> f.lines, at |-> f.at,
           first |-> f.first, loose |-> loose, item |-> f.item]
  BY <1>1
<1>3. /\ g = [loop |-> g.loop, node |-> g.node, lines |-> g.lines, at |-> g.at,
              first |-> g.first, loose |-> g.loose, item |-> g.item]
      /\ Same(g, f) /\ g.at = f.at /\ g.first = f.first /\ g.item = f.item
  BY <1>2 DEF Same
<1>4. Base(g) = Base(f) /\ g.lines = f.lines /\ g.loop = f.loop
  BY <1>3 DEF Same, Base
<1> QED
  BY <1>3, <1>4 DEF IsFrame

LEMMA SameBase ==
  ASSUME NEW f, NEW g, Same(f, g)
  PROVE  Base(f) = Base(g)
BY DEF Same, Base

LEMMA TopFits ==
  ASSUME NEW fs, NEW lines, Calls(fs, lines), Len(fs) > 0, NEW f, f = fs[Len(fs)]
  PROVE  /\ Len(fs) \in Nat
         /\ IsFrame(f)
         /\ IsSeq(f.lines) /\ Len(f.lines) \in Nat
         /\ f.at \in 1 .. Len(f.lines) + 1 /\ f.at \in Nat
         /\ Base(f) \in Nat
         /\ \A n \in 1 .. Len(f.lines) : IsLine(f.lines[n]) /\ f.lines[n].number = Base(f) + n
<1>1. Len(fs) \in Nat
  BY DEF Calls, IsSeq
<1>2. IsFrame(f)
  BY <1>1 DEF Calls
<1> QED
  BY <1>1, <1>2 DEF IsFrame, IsSeq

LEMMA FramesMove ==
  ASSUME NEW fs, NEW lines, Calls(fs, lines), Len(fs) > 0,
         NEW f, f = fs[Len(fs)], NEW g, IsFrame(g), Same(g, f), g.at >= f.at,
         NEW gs, gs = Put(fs, Len(fs), g)
  PROVE  /\ Calls(gs, lines) /\ Len(gs) = Len(fs) /\ gs[Len(gs)] = g
         /\ \A k \in 1 .. Len(fs) - 1 : gs[k] = fs[k]
<1> DEFINE n == Len(fs)
<1>1. n \in Nat /\ n > 0 /\ IsSeq(fs) /\ n \in 1 .. n
  BY DEF Calls, IsSeq
<1>2. /\ IsSeq(gs) /\ Len(gs) = n /\ gs[n] = g
      /\ \A k \in 1 .. n : k # n => gs[k] = fs[k]
  BY <1>1, Replaced
<1>3. \A k \in 1 .. n : IsFrame(gs[k])
  BY <1>2 DEF Calls
<1>4. ASSUME NEW k \in 1 .. n - 1 PROVE Hands(gs[k], gs[k + 1])
  <2>1. Hands(fs[k], fs[k + 1]) /\ gs[k] = fs[k] /\ k + 1 \in 1 .. n
    BY <1>1, <1>2 DEF Calls
  <2>2. CASE k + 1 # n
    BY <2>1, <2>2, <1>2
  <2>3. CASE k + 1 = n
    <3>1. gs[k + 1] = g /\ fs[k + 1] = f
      BY <2>3, <1>2
    <3>2. Base(f) = Base(g)
      BY SameBase
    <3>3. k \in 1 .. n
      BY <1>1
    <3>4. IsFrame(fs[k])
      BY <3>3 DEF Calls
    <3>5. IsFrame(f)
      BY <1>1 DEF Calls
    <3>6. fs[k].at \in Int /\ f.at \in Int /\ g.at \in Int
      BY <3>4, <3>5 DEF IsFrame, IsSeq
    <3> QED
      BY <2>1, <3>1, <3>2, <3>6 DEF Hands, Same
  <2> QED
    BY <2>2, <2>3
<1>5. gs[1].loop = "blocks" /\ gs[1].node = 0 /\ Base(gs[1]) = 0 /\ Len(gs[1].lines) = lines
  <2>1. fs[1].loop = "blocks" /\ fs[1].node = 0 /\ Base(fs[1]) = 0 /\ Len(fs[1].lines) = lines
    BY DEF Calls
  <2>2. CASE n = 1
    BY <2>1, <2>2, <1>2, SameBase DEF Same
  <2>3. CASE n # 1
    <3>1. gs[1] = fs[1]
      BY <2>3, <1>1, <1>2
    <3> QED
      BY <2>1, <3>1
  <2> QED
    BY <2>2, <2>3
<1>6. \A k \in 1 .. n - 1 : gs[k] = fs[k]
  BY <1>1, <1>2
<1> QED
  BY <1>1, <1>2, <1>3, <1>4, <1>5, <1>6 DEF Calls

LEMMA FramesHand ==
  ASSUME NEW fs, NEW lines, Calls(fs, lines), Len(fs) > 0, NEW g, IsFrame(g), Hands(fs[Len(fs)], g),
         NEW gs, gs = Append(fs, g)
  PROVE  /\ Calls(gs, lines) /\ Len(gs) = Len(fs) + 1 /\ gs[Len(gs)] = g
         /\ \A k \in 1 .. Len(fs) : gs[k] = fs[k]
<1> DEFINE n == Len(fs)
<1>1. n \in Nat /\ n > 0 /\ IsSeq(fs)
  BY DEF Calls, IsSeq
<1>2. /\ IsSeq(gs) /\ Len(gs) = n + 1 /\ gs[n + 1] = g
      /\ \A k \in 1 .. n : gs[k] = fs[k]
  BY <1>1, Appended
<1>3. \A k \in 1 .. n + 1 : IsFrame(gs[k])
  BY <1>1, <1>2 DEF Calls
<1>4. ASSUME NEW k \in 1 .. n PROVE Hands(gs[k], gs[k + 1])
  <2>1. CASE k = n
    BY <2>1, <1>1, <1>2
  <2>2. CASE k # n
    <3>1. k \in 1 .. n - 1 /\ k + 1 \in 1 .. n
      BY <2>2, <1>1
    <3> QED
      BY <3>1, <1>2 DEF Calls
  <2> QED
    BY <2>1, <2>2
<1>5. gs[1].loop = "blocks" /\ gs[1].node = 0 /\ Base(gs[1]) = 0 /\ Len(gs[1].lines) = lines
  BY <1>1, <1>2 DEF Calls
<1>6. \A k \in 1 .. (n + 1) - 1 : Hands(gs[k], gs[k + 1])
  BY <1>1, <1>4
<1> QED
  BY <1>1, <1>2, <1>3, <1>5, <1>6 DEF Calls

LEMMA FramesReturn ==
  ASSUME NEW fs, NEW lines, Calls(fs, lines), Len(fs) > 0,
         NEW gs, gs = SubSeq(fs, 1, Len(fs) - 1)
  PROVE  /\ Calls(gs, lines) /\ Len(gs) = Len(fs) - 1
         /\ \A k \in 1 .. Len(fs) - 1 : gs[k] = fs[k]
<1> DEFINE n == Len(fs)
<1>1. n \in Nat /\ n > 0 /\ IsSeq(fs)
  BY DEF Calls, IsSeq
<1>2. /\ IsSeq(gs) /\ Len(gs) = n - 1
      /\ \A k \in 1 .. n - 1 : gs[k] = fs[k]
  BY <1>1, Shortened
<1>3. \A k \in 1 .. n - 1 : IsFrame(gs[k])
  BY <1>1, <1>2 DEF Calls
<1>4. ASSUME NEW k \in 1 .. n - 2 PROVE Hands(gs[k], gs[k + 1])
  <2>1. k \in 1 .. n - 1 /\ k + 1 \in 1 .. n - 1
    BY <1>1
  <2> QED
    BY <2>1, <1>2 DEF Calls
<1>5. n - 1 > 0 => gs[1].loop = "blocks" /\ gs[1].node = 0 /\ Base(gs[1]) = 0 /\ Len(gs[1].lines) = lines
  BY <1>1, <1>2 DEF Calls
<1>6. \A k \in 1 .. (n - 1) - 1 : Hands(gs[k], gs[k + 1])
  BY <1>1, <1>4
<1> QED
  BY <1>1, <1>2, <1>3, <1>5, <1>6 DEF Calls

(* Where the next line is after these. *)
LEMMA MovedOn ==
  ASSUME NEW fs, NEW lines, Calls(fs, lines), Len(fs) > 0,
         NEW f, f = fs[Len(fs)], NEW g, IsFrame(g), Same(g, f), g.at >= f.at,
         NEW gs, gs = Put(fs, Len(fs), g)
  PROVE  NextOf(fs, lines) = Base(f) + f.at /\ NextOf(gs, lines) = Base(f) + g.at
<1>1. Len(gs) = Len(fs) /\ gs[Len(gs)] = g
  BY FramesMove
<1>2. Base(g) = Base(f)
  BY SameBase
<1> QED
  BY <1>1, <1>2 DEF NextOf

(* A caller goes on where what it has called has got. *)
LEMMA ReturnsToNext ==
  ASSUME NEW fs, NEW lines, Calls(fs, lines), lines \in Nat, Len(fs) > 0,
         NEW f, f = fs[Len(fs)], f.loop = "blocks", f.at > Len(f.lines),
         NEW gs, gs = SubSeq(fs, 1, Len(fs) - 1)
  PROVE  NextOf(gs, lines) = NextOf(fs, lines)
<1>1. /\ Len(fs) \in Nat /\ IsFrame(f) /\ Len(f.lines) \in Nat
      /\ f.at = Len(f.lines) + 1 /\ Base(f) \in Nat
  BY TopFits
<1>2. Len(gs) = Len(fs) - 1 /\ \A k \in 1 .. Len(fs) - 1 : gs[k] = fs[k]
  BY FramesReturn
<1>3. CASE Len(fs) = 1
  <2>1. Base(f) = 0 /\ Len(f.lines) = lines
    BY <1>3 DEF Calls
  <2> QED
    BY <1>1, <1>2, <1>3, <2>1 DEF NextOf
<1>4. CASE Len(fs) # 1
  <2> DEFINE k == Len(fs) - 1
  <2>1. k \in 1 .. Len(fs) - 1 /\ k + 1 = Len(fs) /\ Len(gs) = k /\ gs[k] = fs[k]
    BY <1>1, <1>2, <1>4
  <2>2. Hands(fs[k], f)
    BY <2>1 DEF Calls
  <2>3. Base(fs[k]) + fs[k].at = Base(f) + Len(f.lines) + 1
    BY <2>2 DEF Hands
  <2>4. NextOf(gs, lines) = Base(fs[k]) + fs[k].at
    BY <2>1 DEF NextOf
  <2>5. NextOf(fs, lines) = Base(f) + f.at
    BY DEF NextOf
  <2> QED
    BY <1>1, <2>3, <2>4, <2>5
<1> QED
  BY <1>3, <1>4
-----------------------------------------------------------------------------
(* How lines are taken. *)
LEMMA LeafTakes ==
  ASSUME NEW ns, NEW ds, NEW bs, NEW next \in Nat, next > 0, IsSeq(ns), Divided(ns, ds, bs, next),
         NEW last \in Nat, NEW to \in Nat, next <= last, last <= to,
         NEW b, b.own = next .. last, NEW ms, ms = Append(ns, b)
  PROVE  Divided(ms, ds, bs \cup (last + 1 .. to), to + 1)
<1> DEFINE c == Len(ns)
           after == to + 1
<1>1. /\ c \in Nat /\ Len(ms) = c + 1 /\ ms[c + 1] = b
      /\ \A n \in 1 .. c : ms[n] = ns[n] /\ ns[n].own \subseteq 1 .. next - 1
  BY Appended DEF IsSeq, Divided
<1>2. \A n \in 1 .. c + 1 : IF n = c + 1 THEN ms[n].own = next .. last
                            ELSE n \in 1 .. c /\ ms[n] = ns[n]
  BY <1>1
<1>3. ASSUME NEW n \in 1 .. c + 1 PROVE ms[n].own \subseteq 1 .. after - 1
  <2>1. CASE n = c + 1
    BY <2>1, <1>2
  <2>2. CASE n # c + 1
    <3>1. ms[n].own \subseteq 1 .. next - 1
      BY <2>2, <1>1, <1>2
    <3> QED
      BY <3>1
  <2> QED
    BY <2>1, <2>2
<1>4. ds \subseteq 1 .. after - 1 /\ bs \cup (last + 1 .. to) \subseteq 1 .. after - 1
  <2>1. \A l \in ds \cup bs : l \in 1 .. next - 1
    BY DEF Divided
  <2>2. 1 .. next - 1 \subseteq 1 .. after - 1 /\ last + 1 .. to \subseteq 1 .. after - 1
    OBVIOUS
  <2> HIDE DEF after
  <2> QED
    BY <2>1, <2>2
<1>5. ASSUME NEW l \in 1 .. after - 1
      PROVE  l \in ds \cup (bs \cup (last + 1 .. to)) \/ \E n \in 1 .. c + 1 : l \in ms[n].own
  <2>1. CASE l <= next - 1
    <3>1. l \in 1 .. next - 1
      BY <2>1
    <3>2. l \in ds \cup bs \/ \E n \in 1 .. c : l \in ns[n].own
      BY <3>1 DEF Divided
    <3> QED
      BY <3>2, <1>1
  <2>2. CASE l \in next .. last
    BY <2>2, <1>1, <1>2
  <2>3. CASE l > last
    BY <2>3
  <2> QED
    BY <2>1, <2>2, <2>3
<1>6. ASSUME NEW m \in 1 .. c + 1, NEW n \in 1 .. c + 1, m < n, NEW i \in ms[m].own, NEW j \in ms[n].own
      PROVE  i < j
  <2>1. m \in 1 .. c /\ ms[m] = ns[m] /\ i \in 1 .. next - 1
    BY <1>1, <1>6
  <2>2. CASE n = c + 1
    BY <2>1, <2>2, <1>2
  <2>3. CASE n # c + 1
    BY <2>1, <2>3, <1>2, <1>6 DEF Divided
  <2> QED
    BY <2>2, <2>3
<1>7. ASSUME NEW n \in 1 .. c + 1 PROVE ms[n].own \cap (ds \cup (bs \cup (last + 1 .. to))) = {}
  <2>1. CASE n = c + 1
    <3>1. ms[n].own = next .. last
      BY <2>1, <1>2
    <3>2. \A l \in ds \cup bs : l \in 1 .. next - 1
      BY DEF Divided
    <3> QED
      BY <3>1, <3>2
  <2>2. CASE n # c + 1
    <3>1. ms[n] = ns[n] /\ ns[n].own \cap (ds \cup bs) = {} /\ ns[n].own \subseteq 1 .. next - 1
      BY <2>2, <1>1, <1>2 DEF Divided
    <3> QED
      BY <3>1
  <2> QED
    BY <2>1, <2>2
<1>8. ds \cap (bs \cup (last + 1 .. to)) = {}
  BY DEF Divided
<1> HIDE DEF after
<1> QED
  BY <1>1, <1>3, <1>4, <1>5, <1>6, <1>7, <1>8 DEF Divided, after

LEMMA LineTakes ==
  ASSUME NEW ns, NEW ds, NEW bs, NEW next \in Nat, next > 0, Divided(ns, ds, bs, next),
         NEW es, NEW cs, \/ es = ds \cup {next} /\ cs = bs
                         \/ es = ds /\ cs = bs \cup {next}
  PROVE  Divided(ns, es, cs, next + 1)
<1> DEFINE after == next + 1
<1>1. \A l \in 1 .. after - 1 : l \in 1 .. next - 1 \/ l = next
  OBVIOUS
<1>2. next \notin 1 .. next - 1 /\ next \in 1 .. after - 1 /\ 1 .. next - 1 \subseteq 1 .. after - 1
  OBVIOUS
<1>3. next \notin ds \cup bs /\ \A n \in 1 .. Len(ns) : next \notin ns[n].own
  BY <1>2 DEF Divided
<1>4. es \cup cs = ds \cup bs \cup {next} /\ es \cap cs = {} /\ ds \subseteq es /\ bs \subseteq cs
  BY <1>3 DEF Divided
<1>5. /\ \A n \in 1 .. Len(ns) : ns[n].own \subseteq 1 .. after - 1 /\ ns[n].own \cap (es \cup cs) = {}
      /\ es \subseteq 1 .. after - 1 /\ cs \subseteq 1 .. after - 1
  BY <1>2, <1>3, <1>4 DEF Divided
<1>6. \A l \in 1 .. after - 1 : l \in es \cup cs \/ \E n \in 1 .. Len(ns) : l \in ns[n].own
  BY <1>1, <1>4 DEF Divided
<1> HIDE DEF after
<1> QED
  BY <1>4, <1>5, <1>6 DEF Divided, after

LEMMA ContainerTakesNone ==
  ASSUME NEW ns, NEW ds, NEW bs, NEW next, IsSeq(ns), Divided(ns, ds, bs, next),
         NEW b, b.own = {}, NEW ms, ms = Append(ns, b)
  PROVE  Divided(ms, ds, bs, next)
<1> DEFINE c == Len(ns)
<1>1. /\ c \in Nat /\ Len(ms) = c + 1 /\ ms[c + 1] = b
      /\ \A n \in 1 .. c : ms[n] = ns[n]
  BY Appended DEF IsSeq
<1>2. \A n \in 1 .. c + 1 : IF n = c + 1 THEN ms[n].own = {} ELSE n \in 1 .. c /\ ms[n] = ns[n]
  BY <1>1
<1>3. \A n \in 1 .. c + 1 : ms[n].own \subseteq 1 .. next - 1 /\ ms[n].own \cap (ds \cup bs) = {}
  BY <1>2 DEF Divided
<1>4. ASSUME NEW l \in 1 .. next - 1 PROVE l \in ds \cup bs \/ \E n \in 1 .. c + 1 : l \in ms[n].own
  <2>1. l \in ds \cup bs \/ \E n \in 1 .. c : l \in ns[n].own
    BY DEF Divided
  <2> QED
    BY <2>1, <1>1
<1>5. \A m, n \in 1 .. c + 1 : m < n => \A i \in ms[m].own, j \in ms[n].own : i < j
  BY <1>2 DEF Divided
<1> QED
  BY <1>1, <1>3, <1>4, <1>5 DEF Divided

LEMMA DividedAlike ==
  ASSUME NEW ns, NEW ds, NEW bs, NEW next, Divided(ns, ds, bs, next),
         NEW ms, Len(ms) = Len(ns), \A n \in 1 .. Len(ns) : ms[n].own = ns[n].own
  PROVE  Divided(ms, ds, bs, next)
BY DEF Divided

(* How the tree grows. *)
LEMMA TreeGrows ==
  ASSUME NEW ns, Tree(ns), NEW b, NEW ms, ms = Append(ns, b), Grown(ms, Len(ns) + 1)
  PROVE  Tree(ms)
<1> DEFINE c == Len(ns)
<1>1. /\ c \in Nat /\ Len(ms) = c + 1 /\ IsSeq(ms)
      /\ \A n \in 1 .. c : ms[n] = ns[n]
  BY Appended DEF IsSeq, Tree
<1>2. ASSUME NEW n \in 1 .. c PROVE Grown(ms, n)
  <2>1. Grown(ns, n) /\ ms[n] = ns[n] /\ n \in Nat
    BY <1>1 DEF Tree
  <2>2. \A p \in 0 .. n - 1 : p # 0 => p \in 1 .. c /\ ms[p] = ns[p]
    BY <1>1
  <2>3. ns[n].parent \in 0 .. n - 1
    BY <2>1 DEF Grown
  <2>4. CASE ns[n].parent = 0
    BY <2>1, <2>4 DEF Grown, Room
  <2>5. CASE ns[n].parent # 0
    <3> DEFINE p == ns[n].parent
    <3>1. p \in 1 .. c /\ ms[p] = ns[p] /\ p \in 0 .. n - 1
      BY <2>2, <2>3, <2>5
    <3>2. Grown(ns, p)
      BY <3>1 DEF Tree
    <3>3. ns[p].parent \in 0 .. n - 1
      BY <3>1, <3>2, <2>1 DEF Grown
    <3>4. ns[p].parent # 0 => ms[ns[p].parent] = ns[ns[p].parent]
      BY <3>3, <2>2
    <3> QED
      BY <2>1, <2>5, <3>1, <3>4 DEF Grown, Room
  <2> QED
    BY <2>4, <2>5
<1> QED
  BY <1>1, <1>2 DEF Tree

LEMMA PlacedStays ==
  ASSUME NEW ns, Tree(ns), NEW fs, Placed(fs, ns), NEW b, NEW ms, ms = Append(ns, b)
  PROVE  Placed(fs, ms)
<1> DEFINE c == Len(ns)
<1>1. /\ c \in Nat /\ Len(ms) = c + 1
      /\ \A n \in 1 .. c : ms[n] = ns[n]
  BY Appended DEF IsSeq, Tree
<1>2. \A n \in 0 .. c : n # 0 => ms[n] = ns[n]
  BY <1>1
<1>3. 0 .. c \subseteq 0 .. c + 1
  BY <1>1
<1> QED
  BY <1>1, <1>2, <1>3 DEF Placed, Room

Alike(ns, ms) ==
  /\ Len(ms) = Len(ns)
  /\ \A n \in 1 .. Len(ns) : /\ IsBlock(ms[n]) /\ ms[n].kind = ns[n].kind /\ ms[n].parent = ns[n].parent
                             /\ ms[n].from = ns[n].from /\ ms[n].to = ns[n].to /\ ms[n].own = ns[n].own
                             /\ ms[n].marker = ns[n].marker /\ ms[n].start = ns[n].start
                             /\ ms[n].text = ns[n].text

LEMMA TightnessAlike ==
  ASSUME NEW ns, Tree(ns), NEW k \in 1 .. Len(ns), NEW tight,
         NEW b, b = ns[k], NEW c, c = [b EXCEPT !.tight = tight], NEW ms, ms = Put(ns, k, c)
  PROVE  IsSeq(ms) /\ Alike(ns, ms)
<1>1. IsSeq(ns) /\ IsBlock(b)
  BY DEF Tree, Grown
<1>2. /\ IsBlock(c) /\ c.kind = b.kind /\ c.parent = b.parent
      /\ c.from = b.from /\ c.to = b.to /\ c.own = b.own /\ c.marker = b.marker
      /\ c.start = b.start /\ c.text = b.text
  <2>1. b = [kind |-> b.kind, parent |-> b.parent, from |-> b.from, to |-> b.to, own |-> b.own,
             text |-> b.text, inset |-> b.inset, marker |-> b.marker, start |-> b.start,
             tight |-> b.tight]
    BY <1>1 DEF IsBlock
  <2>2. c = [kind |-> b.kind, parent |-> b.parent, from |-> b.from, to |-> b.to, own |-> b.own,
             text |-> b.text, inset |-> b.inset, marker |-> b.marker, start |-> b.start,
             tight |-> tight]
    BY <2>1
  <2> QED
    BY <2>2, <1>1 DEF IsBlock
<1>3. /\ IsSeq(ms) /\ Len(ms) = Len(ns) /\ ms[k] = c
      /\ \A n \in 1 .. Len(ns) : n # k => ms[n] = ns[n]
  BY <1>1, Replaced
<1>4. \A n \in 1 .. Len(ns) : IsBlock(ns[n])
  BY DEF Tree, Grown
<1> QED
  BY <1>2, <1>3, <1>4 DEF Alike

LEMMA TreeAlike ==
  ASSUME NEW ns, Tree(ns), NEW ms, IsSeq(ms), Alike(ns, ms), NEW fs, Placed(fs, ns)
  PROVE  Tree(ms) /\ Placed(fs, ms)
<1> DEFINE c == Len(ns)
<1>1. c \in Nat /\ Len(ms) = c
  BY DEF Tree, IsSeq, Alike
<1>2. ASSUME NEW n \in 1 .. c PROVE Grown(ms, n)
  <2>1. Grown(ns, n) /\ n \in Nat
    BY <1>1 DEF Tree
  <2>2. \A p \in 0 .. n - 1 : p # 0 => /\ p \in 1 .. c /\ ms[p].kind = ns[p].kind /\ ms[p].parent = ns[p].parent
                                       /\ ms[p].from = ns[p].from /\ ms[p].to = ns[p].to
    BY <1>1 DEF Alike
  <2>3. /\ IsBlock(ms[n]) /\ ms[n].kind = ns[n].kind /\ ms[n].parent = ns[n].parent
        /\ ms[n].from = ns[n].from /\ ms[n].to = ns[n].to /\ ms[n].own = ns[n].own
        /\ ns[n].parent \in 0 .. n - 1
    BY <2>1 DEF Alike, Grown
  <2>4. CASE ns[n].parent = 0
    BY <2>1, <2>3, <2>4 DEF Grown, Room
  <2>5. CASE ns[n].parent # 0
    <3> DEFINE p == ns[n].parent
    <3>1. /\ p \in 1 .. c /\ p \in 0 .. n - 1 /\ ms[p].kind = ns[p].kind /\ ms[p].parent = ns[p].parent
          /\ ms[p].from = ns[p].from /\ ms[p].to = ns[p].to
      BY <2>2, <2>3, <2>5
    <3>2. Grown(ns, p)
      BY <3>1 DEF Tree
    <3>3. ns[p].parent \in 0 .. n - 1
      BY <3>1, <3>2, <2>1 DEF Grown
    <3> DEFINE q == ns[p].parent
    <3>4. q # 0 => ms[q].kind = ns[q].kind /\ ms[q].from = ns[q].from /\ ms[q].to = ns[q].to
      BY <3>3, <2>2
    <3> QED
      BY <2>1, <2>3, <2>5, <3>1, <3>4 DEF Grown, Room
  <2> QED
    BY <2>4, <2>5
<1>3. Placed(fs, ms)
  <2>1. \A n \in 0 .. c : n # 0 => /\ ms[n].kind = ns[n].kind /\ ms[n].parent = ns[n].parent
                                   /\ ms[n].from = ns[n].from /\ ms[n].to = ns[n].to
    BY <1>1 DEF Alike
  <2> QED
    BY <2>1, <1>1 DEF Placed, Room
<1> QED
  BY <1>1, <1>2, <1>3 DEF Tree

(* Where new calls stand. *)
LEMMA PlacedMoves ==
  ASSUME NEW ns, NEW fs, NEW lines, Calls(fs, lines), Len(fs) > 0, Placed(fs, ns),
         NEW f, f = fs[Len(fs)], NEW g, IsFrame(g), Same(g, f), g.at >= f.at,
         NEW gs, gs = Put(fs, Len(fs), g)
  PROVE  Placed(gs, ns)
<1> DEFINE n == Len(fs)
<1>1. /\ n \in Nat /\ Len(gs) = n /\ gs[n] = g
      /\ \A k \in 1 .. n - 1 : gs[k] = fs[k]
  <2>1. n \in Nat
    BY DEF Calls, IsSeq
  <2> QED
    BY <2>1, FramesMove
<1>2. Base(g) = Base(f) /\ g.loop = f.loop /\ g.node = f.node /\ g.lines = f.lines
  BY SameBase DEF Same
<1>3. \A k \in 1 .. n : /\ Base(gs[k]) = Base(fs[k]) /\ gs[k].loop = fs[k].loop
                        /\ gs[k].node = fs[k].node /\ gs[k].lines = fs[k].lines
  BY <1>1, <1>2
<1>4. fs[1].loop = "blocks"
  BY DEF Calls
<1>5. ASSUME NEW k \in 1 .. n, fs[k].loop # "blocks" PROVE gs[k - 1].node = fs[k - 1].node
  <2>1. k # 1
    BY <1>4, <1>5
  <2>2. k - 1 \in 1 .. n
    BY <2>1, <1>1
  <2> QED
    BY <2>2, <1>3
<1> QED
  BY <1>1, <1>3, <1>5 DEF Placed

LEMMA PlacedHand ==
  ASSUME NEW ns, NEW fs, NEW lines, Calls(fs, lines), Len(fs) > 0, Placed(fs, ns),
         NEW g, g.node \in 0 .. Len(ns),
         IF g.loop = "blocks" THEN Room(ns, g.node, Base(g) + 1, Base(g) + Len(g.lines))
         ELSE g.node # 0 /\ ns[g.node].kind = "list" /\ ns[g.node].parent = fs[Len(fs)].node,
         NEW gs, gs = Append(fs, g)
  PROVE  Placed(gs, ns)
<1> DEFINE n == Len(fs)
<1>1. /\ n \in Nat /\ n > 0 /\ Len(gs) = n + 1 /\ gs[n + 1] = g
      /\ \A k \in 1 .. n : gs[k] = fs[k]
  BY Appended DEF Calls, IsSeq
<1>2. fs[1].loop = "blocks"
  BY DEF Calls
<1>3. ASSUME NEW k \in 1 .. n, fs[k].loop # "blocks" PROVE gs[k - 1] = fs[k - 1]
  <2>1. k # 1
    BY <1>2, <1>3
  <2>2. k - 1 \in 1 .. n
    BY <2>1, <1>1
  <2> QED
    BY <2>2, <1>1
<1>4. gs[(n + 1) - 1] = fs[n]
  BY <1>1
<1>5. ASSUME NEW k \in 1 .. n + 1
      PROVE  /\ gs[k].node \in 0 .. Len(ns)
             /\ IF gs[k].loop = "blocks"
                THEN Room(ns, gs[k].node, Base(gs[k]) + 1, Base(gs[k]) + Len(gs[k].lines))
                ELSE /\ gs[k].node # 0 /\ ns[gs[k].node].kind = "list"
                     /\ ns[gs[k].node].parent = gs[k - 1].node
  <2>1. CASE k = n + 1
    BY <2>1, <1>1, <1>4
  <2>2. CASE k # n + 1
    <3>1. k \in 1 .. n /\ gs[k] = fs[k]
      BY <2>2, <1>1
    <3> QED
      BY <3>1, <1>3 DEF Placed
  <2> QED
    BY <2>1, <2>2
<1> QED
  BY <1>1, <1>5 DEF Placed

LEMMA PlacedReturn ==
  ASSUME NEW ns, NEW fs, NEW lines, Calls(fs, lines), Len(fs) > 0, Placed(fs, ns),
         NEW gs, gs = SubSeq(fs, 1, Len(fs) - 1)
  PROVE  Placed(gs, ns)
<1> DEFINE n == Len(fs)
<1>1. /\ n \in Nat /\ Len(gs) = n - 1
      /\ \A k \in 1 .. n - 1 : gs[k] = fs[k]
  BY FramesReturn DEF Calls, IsSeq
<1>2. fs[1].loop = "blocks"
  BY DEF Calls
<1>3. ASSUME NEW k \in 1 .. n - 1, fs[k].loop # "blocks" PROVE gs[k - 1] = fs[k - 1]
  <2>1. k # 1
    BY <1>2, <1>3
  <2>2. k - 1 \in 1 .. n - 1
    BY <2>1, <1>1
  <2> QED
    BY <2>2, <1>1
<1>4. ASSUME NEW k \in 1 .. n - 1
      PROVE  /\ gs[k].node \in 0 .. Len(ns)
             /\ IF gs[k].loop = "blocks"
                THEN Room(ns, gs[k].node, Base(gs[k]) + 1, Base(gs[k]) + Len(gs[k].lines))
                ELSE /\ gs[k].node # 0 /\ ns[gs[k].node].kind = "list"
                     /\ ns[gs[k].node].parent = gs[k - 1].node
  <2>1. gs[k] = fs[k] /\ k \in 1 .. Len(fs)
    BY <1>1
  <2> QED
    BY <2>1, <1>3 DEF Placed
<1> QED
  BY <1>1, <1>4 DEF Placed
-----------------------------------------------------------------------------
(* What the steps do to the frames and the tree. *)
LEMMA AtTop ==
  ASSUME FramesFit, frames # <<>>
  PROVE  /\ Len(frames) \in Nat /\ Len(frames) > 0 /\ Calls(frames, Len(source)) /\ Len(source) \in Nat
         /\ IsFrame(Top) /\ Len(Rest) \in Nat /\ Rest = Top.lines /\ Top = frames[Len(frames)]
         /\ Top.at \in Nat /\ Top.at > 0 /\ Top.at <= Len(Rest) + 1 /\ Base(Top) \in Nat
         /\ \A n \in 1 .. Len(Rest) : IsLine(Rest[n]) /\ Rest[n].number = Base(Top) + n
         /\ NextLine = Base(Top) + Top.at
<1>1. /\ IsSeq(frames) /\ Calls(frames, Len(source)) /\ Len(source) \in Nat
  BY DEF FramesFit, Calls, IsSeq
<1>2. Len(frames) \in Nat /\ Len(frames) > 0
  BY <1>1, NoLines DEF IsSeq
<1>3. Top = frames[Len(frames)] /\ Rest = Top.lines
  BY DEF Top, Rest
<1>4. /\ IsFrame(Top) /\ IsSeq(Top.lines) /\ Len(Top.lines) \in Nat
      /\ Top.at \in 1 .. Len(Top.lines) + 1 /\ Top.at \in Nat /\ Base(Top) \in Nat
      /\ \A n \in 1 .. Len(Top.lines) : IsLine(Top.lines[n]) /\ Top.lines[n].number = Base(Top) + n
  BY <1>1, <1>2, <1>3, TopFits
<1>5. NextLine = Base(Top) + Top.at
  BY <1>2 DEF NextLine, NextOf, Top
<1> QED
  BY <1>1, <1>2, <1>3, <1>4, <1>5

LEMMA Moves ==
  ASSUME FramesFit, frames # <<>>, NEW at \in Nat, at >= Top.at, at <= Len(Rest) + 1,
         NEW g, MovedTo(Top, at, g), NEW gs, gs = Put(frames, Len(frames), g)
  PROVE  /\ Calls(gs, Len(source)) /\ Len(gs) = Len(frames) /\ gs[Len(gs)] = g
         /\ IsFrame(g) /\ Same(g, Top) /\ g.at = at
         /\ NextOf(gs, Len(source)) = Base(Top) + at
         /\ \A ns : Placed(frames, ns) => Placed(gs, ns)
<1>1. at \in 1 .. Len(Top.lines) + 1
  BY AtTop
<1>2. IsFrame(g) /\ Same(g, Top) /\ g.at = at
  BY <1>1, AtTop, FrameChanged
<1>3. Calls(frames, Len(source)) /\ Len(frames) > 0 /\ Top = frames[Len(frames)] /\ g.at >= Top.at
  BY AtTop, <1>2
<1>4. Calls(gs, Len(source)) /\ Len(gs) = Len(frames) /\ gs[Len(gs)] = g
  BY <1>2, <1>3, FramesMove
<1>5. NextOf(gs, Len(source)) = Base(Top) + at
  BY <1>2, <1>3, MovedOn
<1>6. \A ns : Placed(frames, ns) => Placed(gs, ns)
  BY <1>2, <1>3, PlacedMoves
<1> QED
  BY <1>2, <1>4, <1>5, <1>6

LEMMA MoveToPuts ==
  ASSUME NEW at, MoveTo(at)
  PROVE  frames' = Put(frames, Len(frames), [Top EXCEPT !.at = at])
BY DEF MoveTo, Put, Top

Shifted(base, S) == {base + n : n \in S}

LEMMA RangeMoved ==
  ASSUME NEW base \in Nat, NEW from \in Nat, NEW to \in Int
  PROVE  Shifted(base, from .. to) = base + from .. base + to
<1>1. ASSUME NEW l \in base + from .. base + to PROVE l \in {base + n : n \in from .. to}
  <2>1. l - base \in from .. to /\ l = base + (l - base)
    OBVIOUS
  <2> QED
    BY <2>1
<1>2. ASSUME NEW n \in from .. to PROVE base + n \in base + from .. base + to
  OBVIOUS
<1> QED
  BY <1>1, <1>2 DEF Shifted

(* b is the current call's block over the lines up to at. *)
Made(b, kind, at, own) ==
  /\ IsBlock(b) /\ b.kind = kind /\ b.parent = Top.node
  /\ b.from = Base(Top) + Top.at /\ b.to = Base(Top) + at - 1
  /\ b.own = Shifted(Base(Top), own)

LEMMA BlockMade ==
  ASSUME FramesFit, frames # <<>>, NEW kind, NEW at \in Nat, Top.at < at, at <= Len(Rest) + 1,
         NEW own \in SUBSET (Top.at .. at - 1)
  PROVE  Made(BlockOver(kind, Top.at, at - 1, own), kind, at, own)
<1> DEFINE b == BlockOver(kind, Top.at, at - 1, own)
<1>1. /\ Len(Rest) \in Nat /\ Base(Top) \in Nat /\ Top.at \in Nat /\ Top.at > 0
      /\ \A n \in 1 .. Len(Rest) : Rest[n].number = Base(Top) + n
  BY AtTop
<1>2. Top.at \in 1 .. Len(Rest) /\ at - 1 \in 1 .. Len(Rest)
  BY <1>1
<1>3. Rest[Top.at].number = Base(Top) + Top.at /\ Rest[at - 1].number = Base(Top) + at - 1
  BY <1>1, <1>2
<1>4. \A n \in own : n \in 1 .. Len(Rest) /\ Rest[n].number = Base(Top) + n
  BY <1>1, <1>2
<1>5. {Rest[n].number : n \in own} = {Base(Top) + n : n \in own}
  BY <1>4
<1>6. {Base(Top) + n : n \in own} \subseteq Base(Top) + Top.at .. Base(Top) + at - 1
  BY <1>1
<1>7. b = [kind |-> kind, parent |-> Top.node, from |-> Base(Top) + Top.at, to |-> Base(Top) + at - 1,
           own |-> {Base(Top) + n : n \in own}, text |-> b.text, inset |-> b.inset,
           marker |-> b.marker, start |-> b.start, tight |-> b.tight]
  BY <1>3, <1>5 DEF BlockOver
<1> HIDE DEF b
<1> DEFINE from == Base(Top) + Top.at
           to == Base(Top) + at - 1
           lines == {Base(Top) + n : n \in own}
<1>8. from \in Nat /\ to \in Nat /\ lines \subseteq from .. to
  BY <1>1, <1>6
<1> HIDE DEF from, to, lines
<1>9. /\ b.kind = kind /\ b.parent = Top.node /\ b.from = from /\ b.to = to /\ b.own = lines
      /\ b = [kind |-> b.kind, parent |-> b.parent, from |-> b.from, to |-> b.to, own |-> b.own,
              text |-> b.text, inset |-> b.inset, marker |-> b.marker, start |-> b.start,
              tight |-> b.tight]
  BY <1>7 DEF from, to, lines
<1>10. IsBlock(b)
  BY <1>8, <1>9 DEF IsBlock
<1> QED
  BY <1>9, <1>10 DEF Made, b, from, to, lines, Shifted

LEMMA NumbersOf ==
  ASSUME FramesFit, frames # <<>>, NEW from \in Nat, from > 0, NEW to \in Nat, to <= Len(Rest)
  PROVE  {Rest[n].number : n \in from .. to} = Base(Top) + from .. Base(Top) + to
<1>1. Base(Top) \in Nat /\ Len(Rest) \in Nat /\ \A n \in 1 .. Len(Rest) : Rest[n].number = Base(Top) + n
  BY AtTop
<1>2. \A n \in from .. to : n \in 1 .. Len(Rest)
  BY <1>1
<1>3. {Rest[n].number : n \in from .. to} = Shifted(Base(Top), from .. to)
  BY <1>1, <1>2 DEF Shifted
<1>4. Shifted(Base(Top), from .. to) = Base(Top) + from .. Base(Top) + to
  BY <1>1, RangeMoved
<1> QED
  BY <1>3, <1>4

(* What is made in the current call has room where it is put. *)
LEMMA RoomHere ==
  ASSUME FramesFit, TreeFits, frames # <<>>
  PROVE  /\ Top.node \in 0 .. Len(nodes) /\ Len(nodes) \in Nat
         /\ IF Top.loop = "list"
            THEN /\ Top.node # 0 /\ nodes[Top.node].kind = "list"
                 /\ nodes[Top.node].parent \in 0 .. Top.node - 1
                 /\ Room(nodes, nodes[Top.node].parent, Base(Top) + 1, Base(Top) + Len(Rest))
            ELSE Room(nodes, Top.node, Base(Top) + 1, Base(Top) + Len(Rest))
<1>1. /\ Calls(frames, Len(source)) /\ Len(frames) \in Nat /\ Len(frames) > 0
      /\ Top = frames[Len(frames)] /\ Rest = Top.lines /\ IsFrame(Top)
  BY AtTop
<1> DEFINE n == Len(frames)
<1>2. n \in 1 .. n /\ Top = frames[n]
  BY <1>1
<1>3. Placed(frames, nodes) /\ Tree(nodes) /\ Len(nodes) \in Nat
  BY DEF TreeFits, Tree, IsSeq
<1>4. Top.node \in 0 .. Len(nodes)
  BY <1>2, <1>3 DEF Placed
<1>5. CASE Top.loop = "list"
  <2>1. /\ Top.node # 0 /\ nodes[Top.node].kind = "list"
        /\ nodes[Top.node].parent = frames[n - 1].node
    BY <1>2, <1>3, <1>5 DEF Placed
  <2>2. n # 1
    <3>1. frames[1].loop = "blocks"
      BY <1>1 DEF Calls
    <3> QED
      BY <1>1, <1>5, <3>1
  <2>3. n - 1 \in 1 .. n - 1 /\ n - 1 \in 1 .. n /\ (n - 1) + 1 = n
    <3>1. n \in Nat /\ n > 0
      BY <1>1
    <3> HIDE DEF n
    <3> QED
      BY <2>2, <3>1
  <2>4. Hands(frames[n - 1], Top)
    BY <1>1, <2>3 DEF Calls
  <2>5. frames[n - 1].loop = "blocks" /\ frames[n - 1].lines = Rest
    BY <1>1, <1>5, <2>4 DEF Hands
  <2>6. Base(frames[n - 1]) = Base(Top)
    BY <1>1, <2>5 DEF Base
  <2>7. Room(nodes, frames[n - 1].node, Base(Top) + 1, Base(Top) + Len(Rest))
    BY <1>3, <2>3, <2>5, <2>6 DEF Placed
  <2>8. Top.node \in 1 .. Len(nodes)
    BY <1>3, <1>4, <2>1
  <2>9. nodes[Top.node].parent \in 0 .. Top.node - 1
    BY <1>3, <2>8 DEF Tree, Grown
  <2> QED
    BY <1>3, <1>4, <1>5, <2>1, <2>7, <2>9
<1>6. CASE Top.loop # "list"
  <2>1. Top.loop = "blocks"
    BY <1>1, <1>6 DEF IsFrame
  <2> QED
    BY <1>1, <1>2, <1>3, <1>4, <1>6, <2>1 DEF Placed
<1> QED
  BY <1>5, <1>6

LEMMA RoomKept ==
  ASSUME NEW ns, Tree(ns), NEW p \in 0 .. Len(ns), NEW low \in Nat, NEW high \in Nat, Room(ns, p, low, high),
         NEW from \in Nat, NEW to \in Nat, low <= from, to <= high, NEW ms, p # 0 => ms[p] = ns[p]
  PROVE  Room(ms, p, from, to)
<1>1. CASE p = 0
  BY <1>1 DEF Room
<1>2. CASE p # 0
  <2>1. p \in 1 .. Len(ns)
    BY <1>2 DEF Tree, IsSeq
  <2>2. ns[p].from \in Nat /\ ns[p].to \in Nat
    BY <2>1 DEF Tree, Grown, IsBlock
  <2> DEFINE x == ns[p].from
             y == ns[p].to
  <2>3. ms[p] = ns[p] /\ ns[p].kind # "list" /\ x <= low /\ high <= y
    BY <1>2 DEF Room
  <2>4. x <= from /\ to <= y
    <3> HIDE DEF x, y
    <3>1. x \in Nat /\ y \in Nat
      BY <2>2 DEF x, y
    <3> QED
      BY <2>3, <3>1
  <2> QED
    BY <2>3, <2>4 DEF Room
<1> QED
  BY <1>1, <1>2

LEMMA GrowsHere ==
  ASSUME FramesFit, TreeFits, frames # <<>>, NEW b, IsBlock(b), b.kind # "list", b.parent = Top.node,
         b.from >= Base(Top) + 1, b.to <= Base(Top) + Len(Rest), NEW ms, ms = Append(nodes, b)
  PROVE  Grown(ms, Len(nodes) + 1)
<1> DEFINE c == Len(nodes)
           p == Top.node
           low == Base(Top) + 1
           high == Base(Top) + Len(Rest)
<1>1. IsSeq(nodes) /\ Tree(nodes) /\ c \in Nat
  BY DEF TreeFits, Tree, IsSeq
<1>2. ms[c + 1] = b /\ \A n \in 1 .. c : ms[n] = nodes[n]
  BY <1>1, Appended
<1>3. low \in Nat /\ high \in Nat /\ b.from \in Nat /\ b.to \in Nat
  BY AtTop DEF IsBlock
<1>4. p \in 0 .. c /\ p \in 0 .. (c + 1) - 1 /\ (p # 0 => ms[p] = nodes[p])
  BY <1>1, <1>2, RoomHere
<1> HIDE DEF low, high
<1>5. CASE Top.loop = "list"
  <2> DEFINE q == nodes[p].parent
  <2>1. /\ p # 0 /\ nodes[p].kind = "list" /\ q \in 0 .. p - 1
        /\ Room(nodes, q, low, high)
    BY <1>5, RoomHere DEF low, high
  <2>2. q \in 0 .. c /\ (q # 0 => ms[q] = nodes[q])
    BY <1>2, <1>4, <2>1
  <2>3. low <= b.from /\ b.to <= high
    BY <1>3 DEF low, high
  <2> HIDE DEF q
  <2>4. Room(ms, q, b.from, b.to)
    BY <1>1, <1>3, <2>1, <2>2, <2>3, RoomKept
  <2>5. ms[p] = nodes[p]
    BY <1>4, <2>1
  <2> QED
    BY <1>2, <1>4, <2>1, <2>4, <2>5 DEF Grown, q
<1>6. CASE Top.loop # "list"
  <2>1. Room(nodes, p, low, high)
    BY <1>6, RoomHere DEF low, high
  <2>2. b.from >= low /\ b.to <= high
    BY DEF low, high
  <2>3. Room(ms, p, b.from, b.to)
    BY <1>1, <1>3, <1>4, <2>1, <2>2, RoomKept
  <2>4. p # 0 => ms[p].kind # "list"
    BY <2>3 DEF Room
  <2> QED
    BY <1>2, <1>4, <2>3, <2>4 DEF Grown
<1> QED
  BY <1>5, <1>6

(* A leaf over the lines up to at, of which those behind last are blank.   *)
TakesLeaf(kind, at, last) ==
  /\ frames # <<>> /\ Top.loop = "blocks"
  /\ Top.at <= last /\ last < at /\ at <= Len(Rest) + 1
  /\ nodes' = Append(nodes, BlockOver(kind, Top.at, at - 1, Top.at .. last))
  /\ inlines' = inlines \/ inlines' = Append(inlines, NewNode)
  /\ skipped' = skipped \cup {Rest[n].number : n \in last + 1 .. at - 1}
  /\ MoveTo(at)
  /\ UNCHANGED <<source, tables, references, defined>>

LEMMA QueueGrows ==
  ASSUME NEW most \in Nat, NEW q, Queue(q, most), NEW r, r = q \/ r = Append(q, most + 1)
  PROVE  Queue(r, most + 1)
<1>1. CASE r = q
  <2>1. \A i \in 1 .. Len(q) : q[i] \in 1 .. most + 1
    BY DEF Queue
  <2> QED
    BY <1>1, <2>1 DEF Queue
<1>2. CASE r = Append(q, most + 1)
  <2> DEFINE n == Len(q)
  <2>1. /\ n \in Nat /\ IsSeq(r) /\ Len(r) = n + 1 /\ r[n + 1] = most + 1
        /\ \A i \in 1 .. n : r[i] = q[i] /\ q[i] \in 1 .. most
    BY <1>2, Appended DEF Queue, IsSeq
  <2>2. \A i \in 1 .. n + 1 : IF i = n + 1 THEN r[i] = most + 1
                              ELSE i \in 1 .. n /\ r[i] = q[i] /\ q[i] \in 1 .. most
    BY <2>1
  <2>3. \A i \in 1 .. n + 1 : r[i] \in 1 .. most + 1
    BY <2>2
  <2>4. ASSUME NEW i \in 1 .. n + 1, NEW j \in 1 .. n + 1, i < j PROVE r[i] < r[j]
    <3>1. i \in 1 .. n /\ r[i] = q[i] /\ q[i] \in 1 .. most
      BY <2>1, <2>4
    <3>2. CASE j = n + 1
      BY <2>2, <3>1, <3>2
    <3>3. CASE j # n + 1
      <4>1. j \in 1 .. n /\ r[j] = q[j]
        BY <2>1, <3>3
      <4> QED
        BY <3>1, <4>1, <2>4 DEF Queue
    <3> QED
      BY <3>2, <3>3
  <2> QED
    BY <2>1, <2>3, <2>4 DEF Queue
<1> QED
  BY <1>1, <1>2

LEMMA LeafKeeps ==
  ASSUME BlocksInv, NEW kind, kind # "list", NEW at \in Nat, NEW last \in Nat, TakesLeaf(kind, at, last)
  PROVE  BlocksInv'
<1> DEFINE b == BlockOver(kind, Top.at, at - 1, Top.at .. last)
           next == Base(Top) + Top.at
           c == Len(nodes)
<1>1. /\ Base(Top) \in Nat /\ Top.at \in Nat /\ Top.at > 0 /\ Len(Rest) \in Nat
      /\ Top.at <= last /\ last < at /\ at <= Len(Rest) + 1 /\ NextLine = next
      /\ Calls(frames, Len(source)) /\ Top = frames[Len(frames)] /\ Len(frames) \in Nat /\ Len(frames) > 0
      /\ Rest = Top.lines
  BY AtTop DEF TakesLeaf, BlocksInv
<1>2. /\ IsBlock(b) /\ b.kind = kind /\ b.parent = Top.node
      /\ b.from = next /\ b.to = Base(Top) + at - 1
      /\ b.own = next .. Base(Top) + last
  <2>1. Top.at .. last \in SUBSET (Top.at .. at - 1)
    BY <1>1
  <2>2. Shifted(Base(Top), Top.at .. last) = next .. Base(Top) + last
    <3>1. Base(Top) \in Nat /\ Top.at \in Nat /\ last \in Int
      BY <1>1
    <3> QED
      BY ONLY <3>1, RangeMoved
  <2>3. FramesFit /\ frames # <<>> /\ Top.at < at
    BY <1>1 DEF TakesLeaf, BlocksInv
  <2>4. Made(b, kind, at, Top.at .. last)
    BY <1>1, <2>1, <2>3, BlockMade
  <2> QED
    BY <2>2, <2>4 DEF Made
<1>3. /\ Calls(frames', Len(source)) /\ NextOf(frames', Len(source)) = Base(Top) + at
      /\ Placed(frames', nodes)
  <2>1. MovedTo(Top, at, [Top EXCEPT !.at = at]) /\ frames' = Put(frames, Len(frames), [Top EXCEPT !.at = at])
    BY MoveToPuts DEF MovedTo, TakesLeaf
  <2>2. FramesFit /\ frames # <<>> /\ at >= Top.at /\ Placed(frames, nodes)
    BY <1>1 DEF TakesLeaf, BlocksInv, TreeFits
  <2> QED
    BY <1>1, <2>1, <2>2, Moves
<1>4. source' = source /\ references' = references /\ defined' = defined /\ nodes' = Append(nodes, b)
  BY DEF TakesLeaf
<1>5. Tree(nodes) /\ Placed(frames, nodes) /\ IsSeq(nodes) /\ c \in Nat
  BY DEF BlocksInv, TreeFits, Tree, IsSeq
<1>6. Len(nodes') = c + 1 /\ nodes'[c + 1] = b /\ \A n \in 1 .. c : nodes'[n] = nodes[n]
  BY <1>4, <1>5, Appended
<1> HIDE DEF b
<1>7. Tree(nodes')
  <2>1. b.from >= Base(Top) + 1 /\ b.to <= Base(Top) + Len(Rest)
    BY <1>1, <1>2
  <2>2. Grown(nodes', c + 1)
    BY <1>2, <1>4, <2>1, GrowsHere DEF BlocksInv, TakesLeaf
  <2> QED
    BY <1>4, <1>5, <2>2, TreeGrows
<1>8. Placed(frames', nodes')
  BY <1>3, <1>4, <1>5, PlacedStays
<1>9. Divided(nodes', DefinitionLines, skipped', Base(Top) + at)
  <2> DEFINE to == Base(Top) + (at - 1)
             end == Base(Top) + last
             blanks == skipped \cup (end + 1 .. to)
  <2>1. next \in Nat /\ next > 0 /\ end \in Nat /\ to \in Nat /\ next <= end /\ end <= to
        /\ to + 1 = Base(Top) + at
    <3>1. /\ Base(Top) \in Nat /\ Top.at \in Nat /\ Top.at > 0 /\ last \in Nat /\ at \in Nat
          /\ Top.at <= last /\ last < at
      BY <1>1
    <3> QED
      BY <3>1
  <2>2. {Rest[n].number : n \in last + 1 .. at - 1} = Base(Top) + (last + 1) .. to
    <3>1. FramesFit /\ frames # <<>> /\ last + 1 \in Nat /\ last + 1 > 0 /\ at - 1 \in Nat /\ at - 1 <= Len(Rest)
      BY <1>1 DEF BlocksInv, TakesLeaf
    <3> QED
      BY <3>1, NumbersOf
  <2>3. Base(Top) + (last + 1) = end + 1
    BY <1>1
  <2>4. skipped' = blanks
    BY <2>2, <2>3 DEF TakesLeaf
  <2>5. Divided(nodes, DefinitionLines, skipped, next)
    BY <1>1 DEF BlocksInv, LinesDivided
  <2>6. b.own = next .. end
    BY <1>2
  <2> HIDE DEF next, end, to
  <2>7. Divided(nodes', DefinitionLines, blanks, to + 1)
    BY <1>4, <1>5, <2>1, <2>5, <2>6, LeafTakes
  <2> QED
    BY <2>1, <2>4, <2>7
<1>10. Queue(inlines', c + 1)
  BY <1>5, QueueGrows DEF TakesLeaf, BlocksInv, QueueInOrder, NewNode
<1>11. DefinitionLines' = DefinitionLines
  BY <1>4 DEF DefinitionLines
<1>12. FramesFit'
  BY <1>3, <1>4 DEF FramesFit, BlocksInv
<1>13. LinesDivided'
  BY <1>3, <1>4, <1>9, <1>11 DEF LinesDivided, NextLine
<1>14. FirstIsKept'
  BY <1>4, <1>11 DEF BlocksInv, FirstIsKept
<1>15. QueueInOrder'
  BY <1>6, <1>10 DEF QueueInOrder
<1> QED
  BY <1>7, <1>8, <1>12, <1>13, <1>14, <1>15 DEF BlocksInv, TreeFits

(* A line taken as blank or as a definition.                               *)
LEMMA LineKeeps ==
  ASSUME BlocksInv, frames # <<>>, Top.at <= Len(Rest), MoveTo(Top.at + 1),
         UNCHANGED <<source, nodes, inlines>>,
         \/ /\ skipped' = skipped \cup {Rest[Top.at].number}
            /\ UNCHANGED <<references, defined>>
         \/ /\ UNCHANGED skipped
            /\ references' = IF references = 0 THEN Rest[Top.at].number ELSE references
            /\ \E parent : defined' = defined \cup {[line |-> Rest[Top.at].number, parent |-> parent]}
  PROVE  BlocksInv'
<1> DEFINE next == Base(Top) + Top.at
<1>1. /\ Base(Top) \in Nat /\ Top.at \in Nat /\ Top.at > 0 /\ Len(Rest) \in Nat /\ NextLine = next
      /\ FramesFit /\ Tree(nodes) /\ Placed(frames, nodes)
  BY AtTop DEF BlocksInv, TreeFits
<1>2. next \in Nat /\ next > 0 /\ Base(Top) + (Top.at + 1) = next + 1
  BY <1>1
<1>3. Rest[Top.at].number = next
  BY <1>1, AtTop
<1>4. /\ Calls(frames', Len(source)) /\ NextOf(frames', Len(source)) = next + 1
      /\ Placed(frames', nodes)
  <2>1. /\ MovedTo(Top, Top.at + 1, [Top EXCEPT !.at = Top.at + 1])
        /\ frames' = Put(frames, Len(frames), [Top EXCEPT !.at = Top.at + 1])
    BY MoveToPuts DEF MovedTo
  <2>2. Top.at + 1 \in Nat /\ Top.at + 1 >= Top.at /\ Top.at + 1 <= Len(Rest) + 1
    BY <1>1
  <2> QED
    BY <1>1, <1>2, <2>1, <2>2, Moves
<1>5. Divided(nodes, DefinitionLines, skipped, next)
  BY <1>1 DEF BlocksInv, LinesDivided
<1>6. \/ DefinitionLines' = DefinitionLines /\ skipped' = skipped \cup {next} /\ FirstIsKept'
      \/ DefinitionLines' = DefinitionLines \cup {next} /\ skipped' = skipped /\ FirstIsKept'
  <2>1. CASE skipped' = skipped \cup {Rest[Top.at].number} /\ UNCHANGED <<references, defined>>
    <3>1. DefinitionLines' = DefinitionLines
      BY <2>1 DEF DefinitionLines
    <3>2. FirstIsKept'
      BY <2>1, <3>1 DEF FirstIsKept, BlocksInv
    <3> QED
      BY <1>3, <2>1, <3>1, <3>2
  <2>2. ASSUME NEW parent, UNCHANGED skipped,
               references' = IF references = 0 THEN Rest[Top.at].number ELSE references,
               defined' = defined \cup {[line |-> Rest[Top.at].number, parent |-> parent]}
        PROVE  DefinitionLines' = DefinitionLines \cup {next} /\ skipped' = skipped /\ FirstIsKept'
    <3>1. DefinitionLines' = DefinitionLines \cup {next} /\ defined' # {}
      <4> DEFINE d == [line |-> next, parent |-> parent]
      <4>1. defined' = defined \cup {d} /\ d.line = next
        BY <1>3, <2>2
      <4> HIDE DEF d, next
      <4> QED
        BY <4>1 DEF DefinitionLines
    <3>2. references' = IF references = 0 THEN next ELSE references
      BY <1>3, <2>2
    <3>3. \A l \in DefinitionLines : l \in 1 .. next - 1
      BY <1>5 DEF Divided
    <3> HIDE DEF next
    <3>4. CASE defined = {}
      <4>1. references' = next /\ DefinitionLines = {}
        BY <3>2, <3>4 DEF FirstIsKept, BlocksInv, DefinitionLines
      <4>2. references' \in DefinitionLines' /\ \A l \in DefinitionLines' : references' <= l
        BY <1>2, <3>1, <4>1
      <4> QED
        BY <2>2, <3>1, <4>2 DEF FirstIsKept
    <3>5. CASE defined # {}
      <4>1. references \in DefinitionLines /\ \A l \in DefinitionLines : references <= l
        BY <3>5 DEF FirstIsKept, BlocksInv
      <4>2. references' = references /\ references <= next
        BY <1>2, <3>2, <3>3, <4>1
      <4>3. references' \in DefinitionLines' /\ \A l \in DefinitionLines' : references' <= l
        BY <3>1, <4>1, <4>2
      <4> QED
        BY <2>2, <3>1, <4>3 DEF FirstIsKept
    <3> QED
      BY <3>4, <3>5
  <2> QED
    BY <2>1, <2>2
<1>7. Divided(nodes, DefinitionLines', skipped', next + 1)
  <2> HIDE DEF next
  <2> QED
    BY <1>2, <1>5, <1>6, LineTakes
<1>8. FramesFit'
  BY <1>4 DEF FramesFit, BlocksInv
<1>9. LinesDivided'
  BY <1>4, <1>7 DEF LinesDivided, NextLine
<1>10. TreeFits' /\ QueueInOrder'
  BY <1>1, <1>4 DEF TreeFits, QueueInOrder, BlocksInv
<1> QED
  BY <1>6, <1>8, <1>9, <1>10 DEF BlocksInv

(* The lines up to at, with their markers off, as those of a new call.     *)
Handed(lines, at) ==
  /\ lines = [k \in 1 .. at - Top.at |-> lines[k]]
  /\ \A k \in 1 .. at - Top.at : IsLine(lines[k]) /\ lines[k].number = Rest[Top.at + k - 1].number

LEMMA HandedFit ==
  ASSUME FramesFit, frames # <<>>, NEW at \in Nat, Top.at < at, at <= Len(Rest) + 1,
         NEW lines, Handed(lines, at), NEW node, NEW g, g = BlocksFrame(node, lines)
  PROVE  /\ IsFrame(g) /\ g.loop = "blocks" /\ g.node = node /\ g.lines = lines /\ g.at = 1
         /\ Len(lines) = at - Top.at /\ Base(g) = Base(Top) + Top.at - 1
<1> DEFINE n == at - Top.at
<1>1. /\ Base(Top) \in Nat /\ Top.at \in Nat /\ Top.at > 0 /\ Len(Rest) \in Nat
      /\ \A k \in 1 .. Len(Rest) : Rest[k].number = Base(Top) + k
  BY AtTop
<1>2. n \in Nat /\ n > 0
  BY <1>1
<1>3. IsSeq(lines) /\ Len(lines) = n
  <2>1. lines = [k \in 1 .. n |-> lines[k]]
    BY DEF Handed
  <2> HIDE DEF n
  <2> QED
    BY <1>2, <2>1, BuiltIsSeq
<1>4. ASSUME NEW k \in 1 .. n PROVE IsLine(lines[k]) /\ lines[k].number = Base(Top) + Top.at - 1 + k
  <2>1. Top.at + k - 1 \in 1 .. Len(Rest)
    BY <1>1
  <2>2. Rest[Top.at + k - 1].number = Base(Top) + (Top.at + k - 1)
    BY <1>1, <2>1
  <2>3. IsLine(lines[k]) /\ lines[k].number = Rest[Top.at + k - 1].number
    BY DEF Handed
  <2> QED
    BY <1>1, <2>2, <2>3
<1>5. /\ g.loop = "blocks" /\ g.node = node /\ g.lines = lines /\ g.at = 1
      /\ g = [loop |-> g.loop, node |-> g.node, lines |-> g.lines, at |-> g.at,
              first |-> g.first, loose |-> g.loose, item |-> g.item]
  BY DEF BlocksFrame
<1>6. Base(g) = Base(Top) + Top.at - 1
  <2>1. 1 \in 1 .. n
    BY <1>2
  <2>2. lines[1].number = Base(Top) + Top.at - 1 + 1
    BY <1>4, <2>1
  <2> HIDE DEF n
  <2> QED
    BY <1>1, <1>2, <1>3, <1>5, <2>2 DEF Base
<1>7. Base(g) \in Nat /\ \A k \in 1 .. n : lines[k].number = Base(g) + k
  BY <1>1, <1>4, <1>6
<1>8. IsFrame(g)
  <2> HIDE DEF n
  <2> QED
    BY <1>2, <1>3, <1>4, <1>5, <1>7 DEF IsFrame
<1> QED
  BY <1>3, <1>5, <1>6, <1>8

(* A quote or an item is made and its lines are handed to a new call.      *)
HandsOver(kind, at, g, lines) ==
  /\ frames # <<>> /\ Top.at < at /\ at <= Len(Rest) + 1
  /\ MovedTo(Top, at, g) /\ Handed(lines, at)
  /\ nodes' = Append(nodes, BlockOver(kind, Top.at, at - 1, {}))
  /\ frames' = Append(Put(frames, Len(frames), g), BlocksFrame(NewNode, lines))
  /\ UNCHANGED <<source, tables, inlines, references, defined, skipped>>

LEMMA HandingKeeps ==
  ASSUME BlocksInv, NEW kind, kind # "list", NEW at \in Nat, NEW g, NEW lines, HandsOver(kind, at, g, lines)
  PROVE  BlocksInv'
<1> DEFINE b == BlockOver(kind, Top.at, at - 1, {})
           next == Base(Top) + Top.at
           c == Len(nodes)
           moved == Put(frames, Len(frames), g)
           h == BlocksFrame(NewNode, lines)
<1>1. /\ Base(Top) \in Nat /\ Top.at \in Nat /\ Top.at > 0 /\ Len(Rest) \in Nat
      /\ Top.at < at /\ at <= Len(Rest) + 1 /\ NextLine = next
      /\ FramesFit /\ TreeFits /\ Tree(nodes) /\ Placed(frames, nodes)
      /\ IsSeq(nodes) /\ c \in Nat /\ frames # <<>>
  BY AtTop DEF HandsOver, BlocksInv, TreeFits, Tree, IsSeq
<1>2. /\ IsBlock(b) /\ b.kind = kind /\ b.parent = Top.node
      /\ b.from = next /\ b.to = Base(Top) + at - 1 /\ b.own = {}
  <2>1. Made(b, kind, at, {})
    <3>1. {} \in SUBSET (Top.at .. at - 1)
      OBVIOUS
    <3> QED
      BY <1>1, <3>1, BlockMade
  <2> QED
    BY <2>1 DEF Made, Shifted
<1> HIDE DEF b
<1>3. nodes' = Append(nodes, b) /\ frames' = Append(moved, h)
  BY DEF HandsOver, b
<1>4. /\ Calls(moved, Len(source)) /\ Len(moved) = Len(frames) /\ moved[Len(moved)] = g
      /\ IsFrame(g) /\ Same(g, Top) /\ g.at = at /\ Placed(moved, nodes)
  <2>1. at >= Top.at /\ MovedTo(Top, at, g)
    BY <1>1 DEF HandsOver
  <2> QED
    BY <1>1, <2>1, Moves
<1> HIDE DEF moved
<1>5. /\ IsFrame(h) /\ h.loop = "blocks" /\ h.node = c + 1 /\ h.lines = lines /\ h.at = 1
      /\ Len(lines) = at - Top.at /\ Base(h) = Base(Top) + Top.at - 1
  <2>1. Handed(lines, at)
    BY DEF HandsOver
  <2> QED
    BY <1>1, <2>1, HandedFit DEF NewNode
<1> HIDE DEF h
<1>6. Hands(g, h)
  <2>1. Base(g) = Base(Top)
    BY <1>4, SameBase
  <2>2. Base(Top) + at = (Base(Top) + Top.at - 1) + (at - Top.at) + 1
    BY <1>1
  <2> QED
    BY <1>4, <1>5, <2>1, <2>2 DEF Hands
<1>7. Len(frames) \in Nat /\ Len(frames) > 0
  BY <1>1, AtTop
<1>8. /\ Calls(frames', Len(source)) /\ Len(frames') = Len(frames) + 1 /\ frames'[Len(frames')] = h
  <2>1. Hands(moved[Len(moved)], h) /\ Len(moved) > 0 /\ frames' = Append(moved, h)
    BY <1>3, <1>4, <1>6, <1>7
  <2>2. /\ Calls(frames', Len(source)) /\ Len(frames') = Len(moved) + 1 /\ frames'[Len(frames')] = h
    <3>1. Calls(moved, Len(source)) /\ IsFrame(h)
      BY <1>4, <1>5
    <3>2. Calls(frames', Len(source))
      BY ONLY <2>1, <3>1, FramesHand
    <3>3. Len(frames') = Len(moved) + 1
      BY ONLY <2>1, <3>1, FramesHand
    <3>4. frames'[Len(frames')] = h
      BY ONLY <2>1, <3>1, FramesHand
    <3> QED
      BY <3>2, <3>3, <3>4
  <2> QED
    BY <1>4, <2>2
<1>9. NextOf(frames', Len(source)) = next
  BY <1>1, <1>5, <1>7, <1>8 DEF NextOf
<1>10. Len(nodes') = c + 1 /\ nodes'[c + 1] = b /\ \A n \in 1 .. c : nodes'[n] = nodes[n]
  BY <1>1, <1>3, Appended
<1>11. Tree(nodes')
  <2>1. b.from >= Base(Top) + 1 /\ b.to <= Base(Top) + Len(Rest)
    BY <1>1, <1>2
  <2>2. Grown(nodes', c + 1)
    BY <1>1, <1>2, <1>3, <2>1, GrowsHere
  <2> QED
    BY <1>1, <1>3, <2>2, TreeGrows
<1>12. Placed(frames', nodes')
  <2>1. Placed(moved, nodes')
    BY <1>1, <1>3, <1>4, PlacedStays
  <2>2. Room(nodes', h.node, Base(h) + 1, Base(h) + Len(h.lines))
    <3>1. b.from <= Base(h) + 1 /\ Base(h) + Len(h.lines) <= b.to
      BY <1>1, <1>2, <1>5
    <3> QED
      BY <1>2, <1>5, <1>10, <3>1 DEF Room
  <2>3. h.node \in 0 .. Len(nodes')
    BY <1>1, <1>5, <1>10
  <2> QED
    BY <1>3, <1>4, <1>5, <1>7, <2>1, <2>2, <2>3, PlacedHand
<1>13. Divided(nodes', DefinitionLines, skipped, next)
  <2>1. Divided(nodes, DefinitionLines, skipped, next)
    BY <1>1 DEF BlocksInv, LinesDivided
  <2> QED
    BY <1>1, <1>2, <1>3, <2>1, ContainerTakesNone
<1>14. DefinitionLines' = DefinitionLines /\ skipped' = skipped /\ source' = source /\ inlines' = inlines
  BY DEF DefinitionLines, HandsOver
<1>15. FramesFit'
  BY <1>1, <1>8, <1>14 DEF FramesFit
<1>16. LinesDivided'
  BY <1>9, <1>13, <1>14 DEF LinesDivided, NextLine
<1>17. FirstIsKept'
  BY <1>14 DEF BlocksInv, FirstIsKept, HandsOver
<1>18. QueueInOrder'
  <2>1. Queue(inlines, c + 1)
    BY <1>1, QueueGrows DEF BlocksInv, QueueInOrder
  <2> QED
    BY <1>10, <1>14, <2>1 DEF QueueInOrder
<1> QED
  BY <1>11, <1>12, <1>15, <1>16, <1>17, <1>18 DEF BlocksInv, TreeFits

(* The steps that take no line. *)
LEMMA TakesNoLine ==
  ASSUME BlocksInv, UNCHANGED <<source, inlines, references, defined, skipped>>,
         Calls(frames', Len(source)), NextOf(frames', Len(source)) = NextLine,
         Tree(nodes'), Placed(frames', nodes'),
         Divided(nodes', DefinitionLines, skipped, NextLine),
         Queue(inlines, Len(nodes'))
  PROVE  BlocksInv'
<1>1. DefinitionLines' = DefinitionLines
  BY DEF DefinitionLines
<1>2. FramesFit'
  BY DEF FramesFit, BlocksInv
<1>3. LinesDivided'
  BY <1>1 DEF LinesDivided, NextLine
<1>4. FirstIsKept'
  BY <1>1 DEF BlocksInv, FirstIsKept
<1>5. QueueInOrder'
  BY DEF QueueInOrder
<1> QED
  BY <1>2, <1>3, <1>4, <1>5 DEF BlocksInv, TreeFits

Marked(a, marker, start) == [a EXCEPT !.marker = marker, !.start = start]

LEMMA BlockMarked ==
  ASSUME NEW a, IsBlock(a), NEW marker, NEW start, NEW b, b = Marked(a, marker, start)
  PROVE  /\ IsBlock(b) /\ b.kind = a.kind /\ b.parent = a.parent /\ b.own = a.own
         /\ b.from = a.from /\ b.marker = marker /\ b.start = start
<1>1. a = [kind |-> a.kind, parent |-> a.parent, from |-> a.from, to |-> a.to, own |-> a.own,
           text |-> a.text, inset |-> a.inset, marker |-> a.marker, start |-> a.start,
           tight |-> a.tight]
  BY DEF IsBlock
<1>2. b = [kind |-> a.kind, parent |-> a.parent, from |-> a.from, to |-> a.to, own |-> a.own,
           text |-> a.text, inset |-> a.inset, marker |-> marker, start |-> start,
           tight |-> a.tight]
  BY <1>1 DEF Marked
<1> QED
  BY <1>2 DEF IsBlock

LEMMA OpenListKeeps ==
  ASSUME BlocksInv, OpenList
  PROVE  BlocksInv'
<1> DEFINE a == BlockOver("list", Top.at, Top.at, {})
           b == [a EXCEPT !.marker = ListMarker(Here).delimiter, !.start = ListMarker(Here).number]
           h == [loop |-> "list", node |-> NewNode, lines |-> Rest, at |-> Top.at,
                 first |-> ListMarker(Here), loose |-> FALSE, item |-> 0]
           c == Len(nodes)
<1>1. /\ frames # <<>> /\ Top.loop = "blocks" /\ Top.at <= Len(Rest)
      /\ nodes' = Append(nodes, b) /\ frames' = Append(frames, h)
      /\ UNCHANGED <<source, inlines, references, defined, skipped>>
  BY DEF OpenList, At, Parsing
<1>2. /\ Base(Top) \in Nat /\ Top.at \in Nat /\ Top.at > 0 /\ Len(Rest) \in Nat
      /\ NextLine = Base(Top) + Top.at /\ Calls(frames, Len(source)) /\ Len(frames) > 0
      /\ Len(frames) \in Nat /\ IsFrame(Top) /\ Top = frames[Len(frames)] /\ Rest = Top.lines
      /\ FramesFit /\ TreeFits /\ Tree(nodes) /\ Placed(frames, nodes) /\ IsSeq(nodes) /\ c \in Nat
  BY <1>1, AtTop DEF BlocksInv, TreeFits, Tree, IsSeq
<1>3. IsBlock(b) /\ b.kind = "list" /\ b.parent = Top.node /\ b.own = {}
  <2> DEFINE at == Top.at + 1
  <2>1. at \in Nat /\ Top.at < at /\ at <= Len(Rest) + 1 /\ at - 1 = Top.at /\ {} \in SUBSET (Top.at .. at - 1)
    BY <1>1, <1>2
  <2>2. Made(BlockOver("list", Top.at, at - 1, {}), "list", at, {})
    <3> HIDE DEF at
    <3> QED
      BY <1>1, <1>2, <2>1, BlockMade
  <2>3. a = BlockOver("list", Top.at, at - 1, {})
    BY <2>1
  <2> HIDE DEF a, at
  <2>4. IsBlock(a) /\ a.kind = "list" /\ a.parent = Top.node /\ a.own = {}
    BY <2>2, <2>3 DEF Made, Shifted
  <2>5. b = Marked(a, ListMarker(Here).delimiter, ListMarker(Here).number)
    BY DEF Marked
  <2> HIDE DEF b
  <2> QED
    BY <2>4, <2>5, BlockMarked
<1>4. /\ IsFrame(h) /\ h.loop = "list" /\ h.node = c + 1 /\ h.lines = Rest /\ h.at = Top.at
      /\ Base(h) = Base(Top)
  <2>1. /\ h.loop = "list" /\ h.node = c + 1 /\ h.lines = Rest /\ h.at = Top.at
        /\ h = [loop |-> h.loop, node |-> h.node, lines |-> h.lines, at |-> h.at,
                first |-> h.first, loose |-> h.loose, item |-> h.item]
    BY DEF NewNode
  <2> HIDE DEF h
  <2>2. Base(h) = Base(Top)
    BY <1>2, <2>1 DEF Base
  <2> QED
    BY <1>2, <2>1, <2>2 DEF IsFrame
<1> HIDE DEF a, b, h
<1>5. Len(nodes') = c + 1 /\ nodes'[c + 1] = b /\ \A n \in 1 .. c : nodes'[n] = nodes[n]
  BY <1>1, <1>2, Appended
<1>6. /\ Calls(frames', Len(source)) /\ NextOf(frames', Len(source)) = NextLine
  <2>1. Hands(frames[Len(frames)], h)
    BY <1>1, <1>2, <1>4 DEF Hands
  <2>2. Calls(frames, Len(source)) /\ Len(frames) > 0 /\ IsFrame(h) /\ frames' = Append(frames, h)
    BY <1>1, <1>2, <1>4
  <2>3. Calls(frames', Len(source))
    BY ONLY <2>1, <2>2, FramesHand
  <2>4. Len(frames') = Len(frames) + 1
    BY ONLY <2>1, <2>2, FramesHand
  <2>5. frames'[Len(frames')] = h
    BY ONLY <2>1, <2>2, FramesHand
  <2> QED
    BY <1>2, <1>4, <2>3, <2>4, <2>5 DEF NextOf
<1>7. Tree(nodes')
  <2>1. Top.node \in 0 .. c /\ Top.node \in 0 .. (c + 1) - 1
    BY <1>1, <1>2, RoomHere
  <2>2. Top.node # 0 => nodes'[Top.node].kind # "list"
    <3>1. Room(nodes, Top.node, Base(Top) + 1, Base(Top) + Len(Rest))
      BY <1>1, <1>2, RoomHere
    <3>2. Top.node # 0 => nodes'[Top.node] = nodes[Top.node]
      BY <1>5, <2>1
    <3> QED
      BY <3>1, <3>2 DEF Room
  <2>3. Grown(nodes', c + 1)
    BY <1>3, <1>5, <2>1, <2>2 DEF Grown
  <2> QED
    BY <1>1, <1>2, <2>3, TreeGrows
<1>8. Placed(frames', nodes')
  <2>1. Placed(frames, nodes')
    BY <1>1, <1>2, PlacedStays
  <2>2. /\ h.node \in 0 .. Len(nodes') /\ h.node # 0 /\ h.loop # "blocks"
        /\ nodes'[h.node].kind = "list" /\ nodes'[h.node].parent = frames[Len(frames)].node
    BY <1>2, <1>3, <1>4, <1>5
  <2> QED
    BY <1>1, <1>2, <2>1, <2>2, PlacedHand
<1>9. Divided(nodes', DefinitionLines, skipped, NextLine)
  <2>1. Divided(nodes, DefinitionLines, skipped, NextLine)
    BY DEF BlocksInv, LinesDivided
  <2> QED
    BY <1>1, <1>2, <1>3, <2>1, ContainerTakesNone
<1>10. Queue(inlines, Len(nodes'))
  <2>1. Queue(inlines, c)
    BY DEF BlocksInv, QueueInOrder
  <2> QED
    BY <1>2, <1>5, <2>1, QueueGrows
<1> QED
  BY <1>1, <1>6, <1>7, <1>8, <1>9, <1>10, TakesNoLine

LEMMA EndListKeeps ==
  ASSUME BlocksInv, EndList
  PROVE  BlocksInv'
<1> DEFINE n == Len(frames)
           below == SubSeq(frames, 1, n - 1)
           caller == frames[n - 1]
           g == [caller EXCEPT !.at = Top.at]
           b == nodes[Top.node]
           d == [b EXCEPT !.tight = ~Top.loose]
<1>1. /\ frames # <<>> /\ Top.loop = "list"
      /\ UNCHANGED <<source, inlines, references, defined, skipped>>
  BY DEF EndList, InList
<1>2. /\ Base(Top) \in Nat /\ Top.at \in Nat /\ Top.at > 0 /\ Top.at <= Len(Rest) + 1
      /\ Len(Rest) \in Nat /\ NextLine = Base(Top) + Top.at /\ Calls(frames, Len(source)) /\ n > 0
      /\ n \in Nat /\ IsFrame(Top) /\ Top = frames[n] /\ Rest = Top.lines
      /\ FramesFit /\ TreeFits /\ Tree(nodes) /\ Placed(frames, nodes) /\ IsSeq(nodes) /\ Len(nodes) \in Nat
  BY <1>1, AtTop DEF BlocksInv, TreeFits, Tree, IsSeq
<1> HIDE DEF n
<1>3. n > 1
  <2>1. frames[1].loop = "blocks"
    BY <1>2 DEF Calls, n
  <2> QED
    BY <1>1, <1>2, <2>1
<1>4. n - 1 \in 1 .. n - 1 /\ n - 1 \in Nat /\ n - 1 > 0 /\ (n - 1) + 1 = n
  BY <1>2, <1>3
<1>5. Hands(caller, Top)
  BY <1>2, <1>4 DEF Calls, n
<1>6. caller.loop = "blocks" /\ caller.lines = Rest /\ caller.at <= Top.at
  BY <1>1, <1>2, <1>5 DEF Hands
<1>7. Calls(below, Len(source)) /\ Len(below) = n - 1 /\ below[n - 1] = caller /\ Placed(below, nodes)
  <2>1. Calls(below, Len(source)) /\ Len(below) = n - 1 /\ \A k \in 1 .. n - 1 : below[k] = frames[k]
    BY <1>2, FramesReturn DEF n
  <2>2. Placed(below, nodes)
    BY <1>2, PlacedReturn DEF n
  <2> QED
    BY <1>4, <2>1, <2>2
<1>8. frames' = Put(below, Len(below), g)
  <2>1. frames' = [below EXCEPT ![n - 1] = [@ EXCEPT !.at = Top.at]]
    BY DEF EndList, n
  <2> HIDE DEF below
  <2> QED
    BY <1>7, <2>1 DEF Put
<1> HIDE DEF below
<1>9. IsFrame(g) /\ Same(g, caller) /\ g.at = Top.at /\ Base(caller) = Base(Top)
  <2>1. IsFrame(caller)
    BY <1>4, <1>7 DEF Calls
  <2>2. Top.at \in 1 .. Len(caller.lines) + 1 /\ MovedTo(caller, Top.at, g)
    BY <1>2, <1>6 DEF MovedTo
  <2>3. Base(caller) = Base(Top)
    BY <1>2, <1>6 DEF Base
  <2> HIDE DEF g, caller
  <2> QED
    BY <2>1, <2>2, <2>3, FrameChanged
<1> HIDE DEF g, caller
<1>10. Calls(frames', Len(source)) /\ NextOf(frames', Len(source)) = NextLine /\ Placed(frames', nodes)
  <2>1. Len(below) > 0 /\ caller = below[Len(below)] /\ g.at >= caller.at /\ Calls(below, Len(source))
    BY <1>4, <1>6, <1>7, <1>9
  <2>2. Calls(frames', Len(source))
    BY <1>8, <1>9, <2>1, FramesMove
  <2>3. NextOf(frames', Len(source)) = Base(caller) + g.at
    BY <1>8, <1>9, <2>1, MovedOn
  <2>4. Placed(frames', nodes)
    BY <1>7, <1>8, <1>9, <2>1, PlacedMoves
  <2> QED
    BY <1>2, <1>9, <2>2, <2>3, <2>4
<1>11. Top.node \in 1 .. Len(nodes)
  BY <1>1, <1>2, RoomHere
<1>12. nodes' = Put(nodes, Top.node, d)
  BY DEF EndList, Put
<1> HIDE DEF d
<1>13. IsSeq(nodes') /\ Alike(nodes, nodes')
  <2>1. d = [b EXCEPT !.tight = ~Top.loose]
    BY DEF d
  <2> HIDE DEF b
  <2>2. b = nodes[Top.node]
    BY DEF b
  <2> QED
    BY <1>2, <1>11, <1>12, <2>1, <2>2, TightnessAlike
<1>14. Tree(nodes') /\ Placed(frames', nodes')
  BY <1>2, <1>10, <1>13, TreeAlike
<1>15. Divided(nodes', DefinitionLines, skipped, NextLine)
  <2>1. Divided(nodes, DefinitionLines, skipped, NextLine)
    BY DEF BlocksInv, LinesDivided
  <2> QED
    BY <1>13, <2>1, DividedAlike DEF Alike
<1>16. Queue(inlines, Len(nodes'))
  BY <1>13 DEF Alike, BlocksInv, QueueInOrder
<1> QED
  BY <1>1, <1>10, <1>14, <1>15, <1>16, TakesNoLine

LEMMA EndBlocksKeeps ==
  ASSUME BlocksInv, EndBlocks
  PROVE  BlocksInv'
<1> DEFINE n == Len(frames)
           below == SubSeq(frames, 1, n - 1)
           caller == below[Len(below)]
           g == [caller EXCEPT !.loose = @ \/ ItemIsLoose(Top.node)]
<1>1. /\ frames # <<>> /\ Top.loop = "blocks" /\ Top.at > Len(Rest)
      /\ UNCHANGED <<source, nodes, inlines, references, defined, skipped>>
      /\ frames' = IF below # <<>> /\ caller.loop = "list" THEN Put(below, Len(below), g) ELSE below
  BY DEF EndBlocks, Put
<1>2. /\ NextLine = NextOf(frames, Len(source)) /\ Calls(frames, Len(source)) /\ n > 0 /\ Len(source) \in Nat
      /\ n \in Nat /\ Top = frames[n] /\ Rest = Top.lines
      /\ FramesFit /\ TreeFits /\ Tree(nodes) /\ Placed(frames, nodes)
  BY <1>1, AtTop DEF BlocksInv, TreeFits, Tree, IsSeq, NextLine
<1>3. Calls(below, Len(source)) /\ Placed(below, nodes)
  BY <1>2, FramesReturn, PlacedReturn
<1>4. NextOf(below, Len(source)) = NextLine
  BY <1>1, <1>2, ReturnsToNext
<1> HIDE DEF n, below
<1>5. Calls(frames', Len(source)) /\ NextOf(frames', Len(source)) = NextLine /\ Placed(frames', nodes)
  <2>1. CASE frames' = below
    BY <1>3, <1>4, <2>1
  <2>2. CASE below # <<>> /\ frames' = Put(below, Len(below), g)
    <3>1. Len(below) \in Nat /\ Len(below) > 0 /\ IsSeq(below)
      BY <1>3, <2>2, NoLines DEF Calls, IsSeq
    <3>2. IsFrame(caller)
      BY <1>3, <3>1 DEF Calls
    <3>3. \E loose : g = [caller EXCEPT !.loose = loose]
      OBVIOUS
    <3> HIDE DEF g, caller
    <3>4. IsFrame(g) /\ Same(g, caller) /\ g.at = caller.at /\ caller.at \in Nat
      <4>1. caller.at \in Nat
        BY <3>2 DEF IsFrame, IsSeq
      <4> QED
        BY <3>2, <3>3, <4>1, FrameLoosened
    <3>5. g.at >= caller.at /\ caller = below[Len(below)]
      BY <3>4 DEF caller
    <3>6. Calls(frames', Len(source))
      BY <1>3, <2>2, <3>1, <3>4, <3>5, FramesMove
    <3>7. NextOf(below, Len(source)) = Base(caller) + caller.at /\ NextOf(frames', Len(source)) = Base(caller) + g.at
      BY <1>3, <2>2, <3>1, <3>4, <3>5, MovedOn
    <3>8. Placed(frames', nodes)
      BY <1>3, <2>2, <3>1, <3>4, <3>5, PlacedMoves
    <3> QED
      BY <1>4, <3>4, <3>6, <3>7, <3>8
  <2> QED
    BY <1>1, <2>1, <2>2
<1>6. nodes' = nodes /\ Divided(nodes, DefinitionLines, skipped, NextLine) /\ Queue(inlines, Len(nodes))
  BY <1>1 DEF BlocksInv, LinesDivided, QueueInOrder
<1> QED
  BY <1>1, <1>2, <1>5, <1>6, TakesNoLine
-----------------------------------------------------------------------------
(* Every action is one of these steps. *)
LEMMA FirstOf ==
  ASSUME BlocksInv, frames # <<>>, NEW n \in Nat, n > 0, n <= Len(Rest) + 1, NEW S \in SUBSET From(n)
  PROVE  /\ First(S) \in Nat /\ n <= First(S) /\ First(S) <= Len(Rest) + 1
         /\ First(S) \in S \/ First(S) = Len(Rest) + 1
<1>1. Len(Rest) \in Nat
  BY AtTop DEF BlocksInv
<1> DEFINE hi == Len(Rest)
<1>2. n \in Int /\ hi \in Int /\ n <= hi + 1 /\ S \in SUBSET (n .. hi)
  BY <1>1 DEF From
<1>3. First(S) \in S \cup {hi + 1}
  <2>1. First(S) = Min(S \cup {hi + 1})
    BY DEF First
  <2> HIDE DEF hi
  <2> QED
    BY <1>2, <2>1, LeastOf
<1> HIDE DEF hi
<1>4. CASE First(S) = hi + 1
  BY <1>1, <1>4 DEF hi
<1>5. CASE First(S) \in S
  <2>1. First(S) \in n .. hi
    BY <1>2, <1>5
  <2> QED
    BY <1>1, <1>5, <2>1 DEF hi
<1> QED
  BY <1>3, <1>4, <1>5

(* Leaves other than paragraphs. *)
LeafKinds == {"fence", "heading", "break", "html", "code", "setext", "table"}

Takes(kind) == \E at, last \in Nat : TakesLeaf(kind, at, last)

LEMMA LeafIsTaken ==
  ASSUME BlocksInv, Parsing, NEW kind, NEW at \in Nat, Top.at < at, at <= Len(Rest) + 1,
         NEW queued \in BOOLEAN, Leaf(kind, at, queued)
  PROVE  Takes(kind)
<1>1. frames # <<>> /\ Top.loop = "blocks" /\ Top.at \in Nat /\ Len(Rest) \in Nat
  BY AtTop DEF Parsing, BlocksInv
<1> DEFINE last == at - 1
<1>2. last \in Nat /\ Top.at <= last /\ last < at
  BY <1>1
<1>3. skipped \cup {Rest[n].number : n \in last + 1 .. at - 1} = skipped
  <2>1. last + 1 .. at - 1 = {}
    OBVIOUS
  <2> HIDE DEF last
  <2> QED
    BY <2>1
<1>4. TakesLeaf(kind, at, last)
  BY <1>1, <1>2, <1>3 DEF Leaf, TakesLeaf
<1> HIDE DEF last
<1> QED
  BY <1>2, <1>4 DEF Takes

LEMMA TurnAt ==
  ASSUME BlocksInv, Parsing
  PROVE  /\ frames # <<>> /\ Top.at \in Nat /\ Top.at > 0 /\ Len(Rest) \in Nat /\ Top.at <= Len(Rest)
         /\ Top.at + 1 \in Nat /\ Top.at + 1 > 0 /\ Top.at + 1 <= Len(Rest) + 1 /\ Top.at < Top.at + 1
<1>1. frames # <<>> /\ Top.at <= Len(Rest)
  BY DEF Parsing
<1> QED
  BY <1>1, AtTop DEF BlocksInv

LEMMA SkipBlankKeeps ==
  ASSUME BlocksInv, SkipBlank
  PROVE  BlocksInv'
BY LineKeeps DEF SkipBlank, At, Parsing

LEMMA ParseDefinitionKeeps ==
  ASSUME BlocksInv, ParseDefinition
  PROVE  BlocksInv'
BY LineKeeps DEF ParseDefinition, At, Parsing

LEMMA ParseFenceTakes ==
  ASSUME BlocksInv, ParseFence
  PROVE  Takes("fence")
<1> DEFINE S == {n \in From(Top.at + 1) : ClosesFence(Lookup(n), Fence(Here))}
           closing == First(S)
           at == IF closing > Len(Rest) THEN closing ELSE closing + 1
<1>1. Parsing /\ Leaf("fence", at, FALSE)
  BY DEF ParseFence, At
<1>2. /\ closing \in Nat /\ Top.at + 1 <= closing /\ closing <= Len(Rest) + 1
  <2>1. S \in SUBSET From(Top.at + 1)
    OBVIOUS
  <2> HIDE DEF S
  <2> QED
    BY <1>1, <2>1, TurnAt, FirstOf
<1> HIDE DEF closing
<1>3. at \in Nat /\ Top.at < at /\ at <= Len(Rest) + 1
  BY <1>1, <1>2, TurnAt
<1> HIDE DEF at
<1> QED
  BY <1>1, <1>3, LeafIsTaken

LEMMA ParseOneLineTakes ==
  ASSUME BlocksInv
  PROVE  /\ ParseHeading => Takes("heading")
         /\ ParseBreak => Takes("break")
<1>1. ASSUME Parsing, NEW kind, NEW queued \in BOOLEAN, Leaf(kind, Top.at + 1, queued) PROVE Takes(kind)
  <2> DEFINE at == Top.at + 1
  <2>1. at \in Nat /\ Top.at < at /\ at <= Len(Rest) + 1 /\ Leaf(kind, at, queued)
    BY <1>1, TurnAt
  <2> HIDE DEF at
  <2> QED
    BY <1>1, <2>1, LeafIsTaken
<1>2. ParseHeading => Parsing /\ Leaf("heading", Top.at + 1, TRUE)
  BY DEF ParseHeading, At
<1>3. ParseBreak => Parsing /\ Leaf("break", Top.at + 1, FALSE)
  BY DEF ParseBreak, At
<1> QED
  BY <1>1, <1>2, <1>3

LEMMA ParseHtmlTakes ==
  ASSUME BlocksInv, ParseHtml
  PROVE  Takes("html")
<1> DEFINE rule == Html(Here, FALSE)
           S == {n \in From(Top.at + 1) : Blank(Lookup(n))}
           R == {n \in From(Top.at) : EndsHtml(Lookup(n), rule)}
           blank == First(S)
           closer == First(R)
           at == IF rule = "blank" THEN blank
                 ELSE IF closer > Len(Rest) THEN closer ELSE closer + 1
<1>1. Parsing /\ Leaf("html", at, FALSE)
  BY DEF ParseHtml, At
<1>2. S \in SUBSET From(Top.at + 1) /\ R \in SUBSET From(Top.at)
  OBVIOUS
<1> HIDE DEF S, R
<1>3. blank \in Nat /\ Top.at + 1 <= blank /\ blank <= Len(Rest) + 1
  BY <1>1, <1>2, TurnAt, FirstOf
<1>4. closer \in Nat /\ Top.at <= closer /\ closer <= Len(Rest) + 1
  <2>1. Top.at <= Len(Rest) + 1
    BY <1>1, TurnAt
  <2> QED
    BY <1>1, <1>2, <2>1, TurnAt, FirstOf
<1> HIDE DEF blank, closer
<1>5. at \in Nat /\ Top.at < at /\ at <= Len(Rest) + 1
  <2>1. Top.at \in Nat /\ Len(Rest) \in Nat /\ Top.at <= Len(Rest)
    BY <1>1, TurnAt
  <2>2. CASE rule = "blank"
    BY <1>3, <2>1, <2>2
  <2>3. CASE rule # "blank"
    <3>1. at = IF closer > Len(Rest) THEN closer ELSE closer + 1
      BY <2>3
    <3> HIDE DEF at
    <3> QED
      BY <1>4, <2>1, <3>1
  <2> QED
    BY <2>2, <2>3
<1> HIDE DEF at
<1> QED
  BY <1>1, <1>5, LeafIsTaken

LEMMA ParagraphEnds ==
  ASSUME BlocksInv, Parsing
  PROVE  ParagraphEnd \in Nat /\ Top.at + 1 <= ParagraphEnd /\ ParagraphEnd <= Len(Rest) + 1
<1> DEFINE S == {n \in From(Top.at + 1) : ParagraphStops(n)}
<1>1. S \in SUBSET From(Top.at + 1) /\ ParagraphEnd = First(S)
  BY DEF ParagraphEnd
<1> HIDE DEF S
<1> QED
  BY <1>1, TurnAt, FirstOf

LEMMA ParseTextTakes ==
  ASSUME BlocksInv, ParseSetext \/ ParseTable
  PROVE  \E kind \in {"setext", "table"} : Takes(kind)
<1>1. Parsing
  BY DEF ParseSetext, ParseTable, At
<1>2. /\ ParagraphEnd \in Nat /\ Top.at + 1 <= ParagraphEnd /\ ParagraphEnd <= Len(Rest) + 1
      /\ Top.at \in Nat /\ Len(Rest) \in Nat
  BY <1>1, ParagraphEnds, TurnAt
<1>3. CASE ParseSetext
  <2> DEFINE at == ParagraphEnd + 1
  <2>1. Leaf("setext", at, TRUE) /\ ParagraphEnd <= Len(Rest)
    BY <1>3 DEF ParseSetext, Underlined
  <2>2. at \in Nat /\ Top.at < at /\ at <= Len(Rest) + 1
    BY <1>2, <2>1
  <2> HIDE DEF at
  <2> QED
    BY <1>1, <2>1, <2>2, LeafIsTaken
<1>4. CASE ParseTable
  <2> DEFINE S == {n \in From(Top.at + 2) : Blank(Lookup(n)) \/ StartsBlock(Lookup(n))}
             at == First(S)
  <2>1. Leaf("table", at, TRUE) /\ ParagraphEnd = Top.at + 1 /\ ParagraphEnd <= Len(Rest)
    BY <1>4 DEF ParseTable, HeadsTable
  <2>2. S \in SUBSET From(Top.at + 2)
    OBVIOUS
  <2> HIDE DEF S
  <2>3. Top.at + 2 \in Nat /\ Top.at + 2 > 0 /\ Top.at + 2 <= Len(Rest) + 1
    BY <1>2, <2>1
  <2>4. at \in Nat /\ Top.at + 2 <= at /\ at <= Len(Rest) + 1
    BY <1>1, <2>2, <2>3, TurnAt, FirstOf
  <2>5. Top.at < at
    BY <1>2, <2>4
  <2> HIDE DEF at
  <2> QED
    BY <1>1, <2>1, <2>4, <2>5, LeafIsTaken
<1> QED
  BY <1>3, <1>4

LEMMA ParseParagraphTakes ==
  ASSUME BlocksInv, ParseParagraph
  PROVE  TakesLeaf("paragraph", ParagraphEnd, ParagraphEnd - 1) /\ ParagraphEnd \in Nat /\ ParagraphEnd - 1 \in Nat
<1>1. Parsing /\ frames # <<>> /\ Top.loop = "blocks" /\ Leaf("paragraph", ParagraphEnd, TRUE)
  BY DEF ParseParagraph, At, Parsing
<1> DEFINE at == ParagraphEnd
           last == at - 1
<1>2. /\ at \in Nat /\ last \in Nat /\ Top.at <= last /\ last < at /\ at <= Len(Rest) + 1
      /\ last + 1 .. at - 1 = {}
  <2>1. at \in Nat /\ Top.at + 1 <= at /\ at <= Len(Rest) + 1 /\ Top.at \in Nat
    BY <1>1, ParagraphEnds, TurnAt
  <2> HIDE DEF at
  <2> QED
    BY <2>1
<1>3. Leaf("paragraph", at, TRUE)
  BY <1>1
<1> HIDE DEF at, last
<1>4. skipped \cup {Rest[n].number : n \in last + 1 .. at - 1} = skipped
  BY <1>2
<1>5. at - 1 = last
  BY DEF last
<1>6. TakesLeaf("paragraph", at, last)
  BY <1>1, <1>2, <1>3, <1>4, <1>5 DEF Leaf, TakesLeaf
<1> QED
  BY <1>2, <1>6 DEF at, last

LEMMA ParseIndentedCodeTakes ==
  ASSUME BlocksInv, ParseIndentedCode
  PROVE  Takes("code")
<1> DEFINE S == {n \in From(Top.at) : ~Blank(Lookup(n)) /\ Flush(Lookup(n))}
           at == First(S)
           C == {n \in Top.at .. at - 1 : ~Blank(Lookup(n)) \/ Len(Lookup(n)) > 4}
           last == Max(C)
<1>1. /\ Parsing /\ Beginning = "code"
      /\ nodes' = Append(nodes, BlockOver("code", Top.at, at - 1, Top.at .. last))
      /\ skipped' = skipped \cup {Rest[n].number : n \in last + 1 .. at - 1}
      /\ MoveTo(at)
      /\ UNCHANGED <<source, tables, inlines, references, defined>>
  BY DEF ParseIndentedCode, At
<1>2. ~Blank(Lookup(Top.at)) /\ ~Flush(Lookup(Top.at))
  BY <1>1 DEF Beginning, Here
<1>3. S \in SUBSET From(Top.at) /\ Top.at \notin S
  BY <1>2
<1> HIDE DEF S
<1>4. at \in Nat /\ Top.at < at /\ at <= Len(Rest) + 1 /\ Top.at \in Nat
  <2>1. Top.at \in Nat /\ Len(Rest) \in Nat /\ Top.at <= Len(Rest)
    BY <1>1, TurnAt
  <2>2. Top.at <= Len(Rest) + 1
    BY <2>1
  <2>3. at \in Nat /\ Top.at <= at /\ at <= Len(Rest) + 1 /\ (at \in S \/ at = Len(Rest) + 1)
    BY <1>1, <1>3, <2>2, TurnAt, FirstOf
  <2> HIDE DEF at
  <2>4. at # Top.at
    BY <1>3, <2>1, <2>3
  <2> QED
    BY <2>1, <2>3, <2>4
<1> HIDE DEF at
<1>5. last \in Nat /\ Top.at <= last /\ last < at
  <2>1. C \in SUBSET (Top.at .. at - 1) /\ Top.at \in C /\ at - 1 \in Nat
    BY <1>2, <1>4
  <2> HIDE DEF C
  <2>2. last \in C
    BY <1>4, <2>1, GreatestOf
  <2> HIDE DEF last
  <2>3. last \in Top.at .. at - 1
    BY <2>1, <2>2
  <2> QED
    BY <1>4, <2>3
<1> HIDE DEF last
<1>6. TakesLeaf("code", at, last)
  BY <1>1, <1>4, <1>5 DEF TakesLeaf, Parsing
<1> QED
  BY <1>4, <1>5, <1>6 DEF Takes

(* What each action makes that makes a leaf. *)
LEMMA LeafActions ==
  ASSUME BlocksInv,
         \/ ParseFence \/ ParseHeading \/ ParseBreak \/ ParseIndentedCode
         \/ ParseHtml \/ ParseParagraph \/ ParseSetext \/ ParseTable
  PROVE  /\ Parsing
         /\ \/ ParseParagraph
            \/ \E kind \in LeafKinds : Takes(kind) /\ (Beginning = kind \/ Beginning = "paragraph")
<1>1. CASE ParseFence
  BY <1>1, ParseFenceTakes DEF ParseFence, At, LeafKinds
<1>2. CASE ParseHeading \/ ParseBreak
  BY <1>2, ParseOneLineTakes DEF ParseHeading, ParseBreak, At, LeafKinds
<1>3. CASE ParseIndentedCode
  BY <1>3, ParseIndentedCodeTakes DEF ParseIndentedCode, At, LeafKinds
<1>4. CASE ParseHtml
  BY <1>4, ParseHtmlTakes DEF ParseHtml, At, LeafKinds
<1>5. CASE ParseParagraph
  BY <1>5 DEF ParseParagraph, At
<1>6. CASE ParseSetext \/ ParseTable
  BY <1>6, ParseTextTakes DEF ParseSetext, ParseTable, At, LeafKinds
<1> QED
  BY <1>1, <1>2, <1>3, <1>4, <1>5, <1>6

LEMMA LeafActionsKeep ==
  ASSUME BlocksInv,
         \/ ParseFence \/ ParseHeading \/ ParseBreak \/ ParseIndentedCode
         \/ ParseHtml \/ ParseParagraph \/ ParseSetext \/ ParseTable
  PROVE  BlocksInv'
<1>1. CASE ParseParagraph
  BY <1>1, ParseParagraphTakes, LeafKeeps
<1>2. CASE ~ParseParagraph
  <2>1. PICK kind \in LeafKinds : Takes(kind)
    BY <1>2, LeafActions
  <2>2. kind # "list"
    BY DEF LeafKinds
  <2> QED
    BY <2>1, <2>2, LeafKeeps DEF Takes
<1> QED
  BY <1>1, <1>2

(* Lines keep their numbers and their shape when their markers are taken off. *)
LEMMA QuoteLineTaken ==
  ASSUME NEW n, IsLine(Rest[n])
  PROVE  IsLine(TakenByQuote(n)) /\ TakenByQuote(n).number = Rest[n].number
<1> DEFINE r == Rest[n]
<1>1. r = [number |-> r.number, content |-> r.content, lazy |-> r.lazy]
  BY DEF IsLine, Line
<1>2. CASE Quoted(Lookup(n))
  <2> DEFINE stripped == StripQuote(Lookup(n))
  <2>1. TakenByQuote(n) = [r EXCEPT !.content = stripped]
    BY <1>2 DEF TakenByQuote
  <2> HIDE DEF r, stripped
  <2>2. TakenByQuote(n) = [number |-> r.number, content |-> stripped, lazy |-> r.lazy]
    BY <1>1, <2>1
  <2> QED
    BY <2>2 DEF IsLine, Line, r
<1>3. CASE ~Quoted(Lookup(n))
  <2>1. TakenByQuote(n) = [r EXCEPT !.lazy = TRUE]
    BY <1>3 DEF TakenByQuote
  <2> HIDE DEF r
  <2>2. TakenByQuote(n) = [number |-> r.number, content |-> r.content, lazy |-> TRUE]
    BY <1>1, <2>1
  <2> QED
    BY <2>2 DEF IsLine, Line, r
<1> QED
  BY <1>2, <1>3

LEMMA ItemLineTaken ==
  ASSUME NEW n \in Nat, Top.at \in Nat, n >= Top.at, IsLine(Rest[n])
  PROVE  IsLine(TakenByItem(n)) /\ TakenByItem(n).number = Rest[n].number
<1> DEFINE r == Rest[n]
<1>1. r = [number |-> r.number, content |-> r.content, lazy |-> r.lazy]
  BY DEF IsLine, Line
<1>2. CASE n = Top.at
  <2>1. TakenByItem(n) = [r EXCEPT !.content = ItemContent]
    BY <1>2 DEF TakenByItem
  <2> HIDE DEF r
  <2>2. TakenByItem(n) = [number |-> r.number, content |-> ItemContent, lazy |-> r.lazy]
    BY <1>1, <2>1
  <2> QED
    BY <2>2 DEF IsLine, Line, r
<1>3. CASE n > Top.at /\ Blank(Lookup(n))
  <2>1. TakenByItem(n) = r
    BY <1>3 DEF TakenByItem
  <2> QED
    BY <2>1
<1>4. CASE n > Top.at /\ ~Blank(Lookup(n))
  <2> DEFINE inner == Inner(n, ItemMarker)
             short == Indent(Lookup(n)) < ItemMarker.width
  <2>1. TakenByItem(n) = [r EXCEPT !.content = inner, !.lazy = @ \/ short]
    BY <1>4 DEF TakenByItem
  <2> HIDE DEF r, inner, short
  <2>2. TakenByItem(n) = [number |-> r.number, content |-> inner, lazy |-> r.lazy \/ short]
    BY <1>1, <2>1
  <2> QED
    BY <2>2 DEF IsLine, Line, r
<1> QED
  BY <1>2, <1>3, <1>4

LEMMA ParseQuoteHands ==
  ASSUME BlocksInv, ParseQuote
  PROVE  /\ QuoteEnd \in Nat
         /\ HandsOver("quote", QuoteEnd, [Top EXCEPT !.at = QuoteEnd], QuoteLines)
<1> DEFINE at == QuoteEnd
           g == [Top EXCEPT !.at = at]
           taken == QuoteLines
<1>1. /\ Parsing
      /\ nodes' = Append(nodes, BlockOver("quote", Top.at, at - 1, {}))
      /\ frames' = Append(Put(frames, Len(frames), g), BlocksFrame(NewNode, taken))
      /\ UNCHANGED <<source, tables, inlines, references, defined, skipped>>
  <2>1. [frames EXCEPT ![Len(frames)].at = at] = Put(frames, Len(frames), g)
    BY DEF Put, Top
  <2> QED
    BY <2>1 DEF ParseQuote, At
<1>2. at \in Nat /\ Top.at + 1 <= at /\ at <= Len(Rest) + 1
  <2> DEFINE S == {n \in From(Top.at + 1) : QuoteStops(n)}
  <2>1. S \in SUBSET From(Top.at + 1) /\ at = First(S)
    BY DEF QuoteEnd
  <2> HIDE DEF S, at
  <2> QED
    BY <1>1, <2>1, TurnAt, FirstOf
<1>3. Top.at \in Nat /\ Top.at > 0 /\ Top.at < at /\ Len(Rest) \in Nat /\ frames # <<>>
  BY <1>1, <1>2, TurnAt
<1>4. Handed(taken, at)
  <2>1. taken = [k \in 1 .. at - Top.at |-> TakenByQuote(Top.at + k - 1)]
    BY DEF QuoteLines
  <2> HIDE DEF taken, at
  <2>2. ASSUME NEW k \in 1 .. at - Top.at
        PROVE  taken[k] = TakenByQuote(Top.at + k - 1) /\ IsLine(taken[k])
               /\ taken[k].number = Rest[Top.at + k - 1].number
    <3>1. Top.at + k - 1 \in 1 .. Len(Rest)
      BY <1>2, <1>3
    <3>2. IsLine(Rest[Top.at + k - 1])
      BY <1>3, <3>1, AtTop DEF BlocksInv
    <3>3. taken[k] = TakenByQuote(Top.at + k - 1)
      BY <2>1
    <3> QED
      BY <3>2, <3>3, QuoteLineTaken
  <2>3. taken = [k \in 1 .. at - Top.at |-> taken[k]]
    BY <2>1
  <2> QED
    BY <2>2, <2>3 DEF Handed
<1>5. MovedTo(Top, at, g)
  BY DEF MovedTo
<1> HIDE DEF at, g, taken
<1>6. HandsOver("quote", at, g, taken)
  BY <1>1, <1>2, <1>3, <1>4, <1>5 DEF HandsOver
<1> QED
  BY <1>2, <1>6 DEF at, g, taken

LEMMA ParseItemHands ==
  ASSUME BlocksInv, ParseItem
  PROVE  /\ ItemEnd \in Nat
         /\ HandsOver("item", ItemEnd, [Top EXCEPT !.at = ItemEnd, !.item = NewNode, !.loose = ItemAfter(Len(Rest)).loose], ItemLines)
<1> DEFINE at == ItemEnd
           loose == ItemAfter(Len(Rest)).loose
           g == [Top EXCEPT !.at = at, !.item = NewNode, !.loose = loose]
           taken == ItemLines
<1>1. /\ frames # <<>> /\ Top.at <= Len(Rest)
      /\ nodes' = Append(nodes, BlockOver("item", Top.at, at - 1, {}))
      /\ frames' = Append(Put(frames, Len(frames), g), BlocksFrame(NewNode, taken))
      /\ UNCHANGED <<source, tables, inlines, references, defined, skipped>>
  <2>1. [frames EXCEPT ![Len(frames)] = [@ EXCEPT !.at = at, !.item = NewNode, !.loose = loose]]
          = Put(frames, Len(frames), g)
    BY DEF Put, Top
  <2> QED
    BY <2>1 DEF ParseItem, InList, Continues
<1>2. /\ Top.at \in Nat /\ Top.at > 0 /\ Len(Rest) \in Nat
      /\ Top.at + 1 \in Nat /\ Top.at + 1 > 0 /\ Top.at + 1 <= Len(Rest) + 1
  <2>1. Top.at \in Nat /\ Top.at > 0 /\ Len(Rest) \in Nat
    BY <1>1, AtTop DEF BlocksInv
  <2> QED
    BY <1>1, <2>1
<1>3. at \in Nat /\ Top.at + 1 <= at /\ at <= Len(Rest) + 1
  <2> DEFINE S == {n \in From(Top.at + 1) : ~ItemAfter(n).more}
  <2>1. S \in SUBSET From(Top.at + 1) /\ at = First(S)
    BY DEF ItemEnd
  <2> HIDE DEF S, at
  <2> QED
    BY <1>1, <1>2, <2>1, FirstOf
<1>4. Top.at < at
  BY <1>2, <1>3
<1>5. Handed(taken, at)
  <2>1. taken = [k \in 1 .. at - Top.at |-> TakenByItem(Top.at + k - 1)]
    BY DEF ItemLines
  <2> HIDE DEF taken, at
  <2>2. ASSUME NEW k \in 1 .. at - Top.at
        PROVE  taken[k] = TakenByItem(Top.at + k - 1) /\ IsLine(taken[k])
               /\ taken[k].number = Rest[Top.at + k - 1].number
    <3>1. Top.at + k - 1 \in 1 .. Len(Rest) /\ Top.at + k - 1 \in Nat /\ Top.at + k - 1 >= Top.at
      BY <1>2, <1>3
    <3>2. IsLine(Rest[Top.at + k - 1])
      BY <1>1, <3>1, AtTop DEF BlocksInv
    <3>3. taken[k] = TakenByItem(Top.at + k - 1)
      BY <2>1
    <3> QED
      BY <1>2, <3>1, <3>2, <3>3, ItemLineTaken
  <2>3. taken = [k \in 1 .. at - Top.at |-> taken[k]]
    BY <2>1
  <2> QED
    BY <2>2, <2>3 DEF Handed
<1>6. MovedTo(Top, at, g)
  BY DEF MovedTo
<1> HIDE DEF at, g, taken
<1>7. HandsOver("item", at, g, taken)
  BY <1>1, <1>3, <1>4, <1>5, <1>6 DEF HandsOver
<1> QED
  BY <1>3, <1>7 DEF at, g, taken, loose
-----------------------------------------------------------------------------
LEMMA ScannedFits ==
  ASSUME NEW document, IsSeq(document), NEW lines, lines = Scanned(document),
         NEW f, f = BlocksFrame(0, lines)
  PROVE  IsFrame(f) /\ f.loop = "blocks" /\ f.node = 0 /\ f.at = 1
         /\ Base(f) = 0 /\ Len(f.lines) = Len(document)
<1> DEFINE n == Len(document)
<1>1. n \in Nat
  BY DEF IsSeq
<1>2. lines = [k \in 1 .. n |-> Line(k, document[k], FALSE)]
  BY DEF Scanned
<1> HIDE DEF n
<1>3. lines = [k \in 1 .. n |-> lines[k]]
  BY <1>2
<1>4. IsSeq(lines) /\ Len(lines) = n
  BY <1>1, <1>3, BuiltIsSeq
<1>5. \A k \in 1 .. n : IsLine(lines[k]) /\ lines[k].number = k
  BY <1>2 DEF IsLine, Line
<1>6. /\ f.loop = "blocks" /\ f.node = 0 /\ f.lines = lines /\ f.at = 1
      /\ f = [loop |-> f.loop, node |-> f.node, lines |-> f.lines, at |-> f.at,
              first |-> f.first, loose |-> f.loose, item |-> f.item]
  BY DEF BlocksFrame
<1>7. Base(f) = 0
  <2>1. n # 0 => lines[1].number = 1
    BY <1>1, <1>5
  <2> QED
    BY <1>4, <1>6, <2>1 DEF Base
<1>8. \A k \in 1 .. n : IsLine(lines[k]) /\ lines[k].number = Base(f) + k
  BY <1>5, <1>7
<1> QED
  BY <1>1, <1>4, <1>6, <1>7, <1>8 DEF IsFrame, n

LEMMA OneFrame ==
  ASSUME NEW f, IsFrame(f), f.loop = "blocks", f.node = 0, f.at = 1, Base(f) = 0,
         NEW fs, fs = <<f>>
  PROVE  Calls(fs, Len(f.lines)) /\ NextOf(fs, Len(f.lines)) = 1 /\ Placed(fs, <<>>)
<1>1. Len(fs) = 1 /\ fs[1] = f /\ IsSeq(fs)
  <2>1. fs \in Seq({f}) /\ Len(fs) = 1 /\ fs[1] = f
    OBVIOUS
  <2> QED
    BY <2>1, SeqsAreSeqs
<1>2. Calls(fs, Len(f.lines))
  BY <1>1 DEF Calls
<1>3. NextOf(fs, Len(f.lines)) = 1
  BY <1>1 DEF NextOf
<1>4. Placed(fs, <<>>)
  BY <1>1 DEF Placed, Room
<1> QED
  BY <1>2, <1>3, <1>4

LEMMA BlocksInvInit ==
  ASSUME BlockInit
  PROVE  BlocksInv
<1>1. IsSeq(source)
  BY DocumentsAssumption, SeqsAreSeqs DEF BlockInit
<1> DEFINE lines == Scanned(source)
           f == BlocksFrame(0, lines)
<1>2. /\ IsFrame(f) /\ f.loop = "blocks" /\ f.node = 0 /\ f.at = 1
      /\ Base(f) = 0 /\ Len(f.lines) = Len(source)
  BY <1>1, ScannedFits
<1>3. /\ frames = <<f>> /\ nodes = <<>> /\ inlines = <<>> /\ references = 0
      /\ defined = {} /\ skipped = {}
  BY DEF BlockInit
<1> HIDE DEF f
<1>4. Calls(frames, Len(source)) /\ NextOf(frames, Len(source)) = 1 /\ Placed(frames, <<>>)
  BY <1>2, <1>3, OneFrame
<1>5. IsSeq(<<>>) /\ Len(<<>>) = 0
  <2>1. <<>> \in Seq({})
    OBVIOUS
  <2> QED
    BY <2>1, SeqsAreSeqs
<1>6. DefinitionLines = {}
  BY <1>3 DEF DefinitionLines
<1>7. Divided(<<>>, {}, {}, 1)
  BY <1>5 DEF Divided
<1>8. Tree(<<>>) /\ Queue(<<>>, 0)
  BY <1>5 DEF Tree, Queue
<1>9. FramesFit
  BY <1>1, <1>4 DEF FramesFit
<1>10. TreeFits
  BY <1>3, <1>4, <1>8 DEF TreeFits
<1>11. LinesDivided
  BY <1>3, <1>4, <1>6, <1>7 DEF LinesDivided, NextLine
<1>12. FirstIsKept
  BY <1>3 DEF FirstIsKept
<1>13. QueueInOrder
  BY <1>3, <1>5, <1>8 DEF QueueInOrder
<1> QED
  BY <1>9, <1>10, <1>11, <1>12, <1>13 DEF BlocksInv

LEMMA BlocksInvStep ==
  ASSUME BlocksInv, [BlockNext]_blockVars
  PROVE  BlocksInv'
<1>1. CASE SkipBlank
  BY <1>1, SkipBlankKeeps
<1>2. CASE \/ ParseFence \/ ParseHeading \/ ParseBreak \/ ParseIndentedCode
           \/ ParseHtml \/ ParseParagraph \/ ParseSetext \/ ParseTable
  BY <1>2, LeafActionsKeep
<1>3. CASE ParseDefinition
  BY <1>3, ParseDefinitionKeeps
<1>4. CASE ParseQuote
  BY <1>4, ParseQuoteHands, HandingKeeps
<1>5. CASE OpenList
  BY <1>5, OpenListKeeps
<1>6. CASE ParseItem
  BY <1>6, ParseItemHands, HandingKeeps
<1>7. CASE EndList
  BY <1>7, EndListKeeps
<1>8. CASE EndBlocks
  BY <1>8, EndBlocksKeeps
<1>9. CASE UNCHANGED blockVars
  <2>1. /\ source' = source /\ frames' = frames /\ nodes' = nodes /\ inlines' = inlines
        /\ references' = references /\ defined' = defined /\ skipped' = skipped
    BY <1>9 DEF blockVars
  <2>2. DefinitionLines' = DefinitionLines
    BY <2>1 DEF DefinitionLines
  <2> QED
    BY <2>1, <2>2 DEF BlocksInv, FramesFit, TreeFits, LinesDivided, NextLine, FirstIsKept, QueueInOrder
<1> QED
  BY <1>1, <1>2, <1>3, <1>4, <1>5, <1>6, <1>7, <1>8, <1>9 DEF BlockNext

(* The frames on the call stack determine the first line that nobody has   *)
(* taken, and the lines before it are divided among leaves, definitions    *)
(* and blank lines, whatever parseBlocks and parseList have been called    *)
(* for.                                                                    *)
THEOREM BlocksInvariant == BlockSpec => []BlocksInv
<1>1. BlockInit => BlocksInv
  BY BlocksInvInit
<1>2. BlocksInv /\ [BlockNext]_blockVars => BlocksInv'
  BY BlocksInvStep
<1> QED
  BY <1>1, <1>2, PTL DEF BlockSpec

LEMMA EveryLineIsOnce ==
  ASSUME BlocksInv
  PROVE  EveryLineOnce
<1>1. IsSeq(nodes) /\ Len(nodes) \in Nat
  BY DEF BlocksInv, TreeFits, Tree, IsSeq
<1>2. /\ \A m, n \in Blocks : m < n => \A i \in nodes[m].own, j \in nodes[n].own : i < j
      /\ \A n \in Blocks : nodes[n].own \cap (DefinitionLines \cup skipped) = {}
      /\ DefinitionLines \cap skipped = {}
      /\ \A l \in 1 .. NextLine - 1 : l \in DefinitionLines \cup skipped \/ \E n \in Blocks : l \in nodes[n].own
  BY DEF BlocksInv, LinesDivided, Divided, Blocks
<1>3. ASSUME NEW l \in LineNumbers PROVE
        LET leaves == {n \in Blocks : l \in nodes[n].own}
        IN  /\ Cardinality(leaves) <= 1
            /\ leaves # {} => l \notin DefinitionLines \cup skipped
            /\ l \notin DefinitionLines \cap skipped
            /\ Parsed => leaves # {} \/ l \in DefinitionLines \cup skipped
  <2> DEFINE leaves == {n \in Blocks : l \in nodes[n].own}
  <2>1. l \in Int /\ Len(source) \in Nat /\ l \in 1 .. Len(source)
    BY DEF LineNumbers, BlocksInv, FramesFit, IsSeq
  <2>2. \A m, n \in leaves : m = n
    <3>1. ASSUME NEW m \in leaves, NEW n \in leaves, m < n PROVE FALSE
      <4>1. m \in Blocks /\ n \in Blocks /\ l \in nodes[m].own /\ l \in nodes[n].own
        OBVIOUS
      <4> HIDE DEF leaves
      <4>2. \A i \in nodes[m].own, j \in nodes[n].own : i < j
        <5>1. \A x, y \in Blocks : x < y => \A i \in nodes[x].own, j \in nodes[y].own : i < j
          BY <1>2
        <5>2. m \in Blocks /\ n \in Blocks /\ m < n
          BY <3>1, <4>1
        <5> QED
          BY ONLY <5>1, <5>2
      <4> QED
        BY <2>1, <4>1, <4>2
    <3>2. \A m, n \in leaves : m \in Int /\ n \in Int
      BY <1>1 DEF Blocks
    <3> QED
      BY <3>1, <3>2
  <2>3. Cardinality(leaves) <= 1
    <3> HIDE DEF leaves
    <3>1. CASE leaves = {}
      BY <3>1, FS_EmptySet
    <3>2. CASE leaves # {}
      <4>1. PICK m \in leaves : TRUE
        BY <3>2
      <4>2. leaves = {m}
        BY <2>2, <4>1
      <4>3. Cardinality({m}) = 1
        BY FS_Singleton, Zenon
      <4> QED
        BY <4>2, <4>3
    <3> QED
      BY <3>1, <3>2
  <2>4. leaves # {} => l \notin DefinitionLines \cup skipped
    BY <1>2
  <2>5. Parsed => leaves # {} \/ l \in DefinitionLines \cup skipped
    <3>1. ASSUME Parsed PROVE NextLine = Len(source) + 1
      <4>1. Len(frames) = 0
        BY <3>1 DEF Parsed
      <4> QED
        BY <4>1 DEF NextLine, NextOf
    <3>2. ASSUME Parsed PROVE l \in 1 .. NextLine - 1
      <4>1. NextLine = Len(source) + 1
        BY <3>1, <3>2
      <4> HIDE DEF leaves
      <4> QED
        BY <2>1, <4>1
    <3> QED
      BY <1>2, <3>2
  <2> QED
    BY <1>2, <2>3, <2>4, <2>5
<1> QED
  BY <1>3 DEF EveryLineOnce

(* Every line goes to one leaf, one reference definition or the blank      *)
(* lines, however deep the quotes and lists that parseBlocks takes apart.  *)
THEOREM LinesAreUsedOnce == BlockSpec => []EveryLineOnce
<1>1. BlocksInv => EveryLineOnce
  BY EveryLineIsOnce
<1> QED
  BY <1>1, BlocksInvariant, PTL

(* A label keeps its first definition, in whatever order the calls for     *)
(* quotes and items come by the definitions.                               *)
THEOREM FirstIsTheReference == BlockSpec => []FirstDefinitionWins
<1>1. ASSUME BlocksInv PROVE FirstDefinitionWins
  <2>1. CASE defined = {}
    BY <1>1, <2>1 DEF BlocksInv, FirstIsKept, FirstDefinitionWins
  <2>2. CASE defined # {}
    <3>1. references \in DefinitionLines /\ \A l \in DefinitionLines : references <= l
      BY <1>1, <2>2 DEF BlocksInv, FirstIsKept
    <3>2. \A l \in DefinitionLines : l \in Int
      BY <1>1 DEF BlocksInv, LinesDivided, Divided
    <3>3. references = Min(DefinitionLines)
      BY <3>1, <3>2 DEF Min
    <3> QED
      BY <2>2, <3>3 DEF FirstDefinitionWins
  <2> QED
    BY <2>1, <2>2
<1> QED
  BY <1>1, BlocksInvariant, PTL
-----------------------------------------------------------------------------
(* f maps a node to itself and the nodes above it. *)
Chain(f, ns, most) ==
  f = [n \in 0 .. most |-> IF n = 0 THEN {} ELSE {n} \cup f[ns[n].parent]]

LEMMA ChainExists ==
  ASSUME NEW ns, NEW most \in Nat, \A n \in 1 .. most : ns[n].parent \in 0 .. n - 1
  PROVE  \E f : Chain(f, ns, most)
<1> DEFINE Reached == {k \in Nat : k <= most => \E f : Chain(f, ns, k)}
<1>1. 0 \in Reached
  <2>1. Chain([n \in 0 .. 0 |-> {}], ns, 0)
    BY DEF Chain
  <2> QED
    BY <2>1
<1>2. ASSUME NEW k \in Nat, k \in Reached PROVE k + 1 \in Reached
  <2> SUFFICES ASSUME k + 1 <= most PROVE \E f : Chain(f, ns, k + 1)
    OBVIOUS
  <2>1. PICK f : Chain(f, ns, k)
    BY <1>2
  <2> DEFINE p == ns[k + 1].parent
             g == [n \in 0 .. k + 1 |-> IF n = k + 1 THEN {k + 1} \cup f[p] ELSE f[n]]
  <2>2. p \in 0 .. k
    <3>1. k + 1 \in 1 .. most /\ (k + 1) - 1 = k
      OBVIOUS
    <3> QED
      BY <3>1
  <2> HIDE DEF p
  <2>3. \A n \in 0 .. k : g[n] = f[n]
    OBVIOUS
  <2>4. ASSUME NEW n \in 0 .. k + 1
        PROVE  g[n] = IF n = 0 THEN {} ELSE {n} \cup g[ns[n].parent]
    <3>1. CASE n = k + 1
      <4>1. g[n] = {k + 1} \cup f[p] /\ g[p] = f[p] /\ n # 0
        BY <2>2, <2>3, <3>1
      <4> QED
        BY <3>1, <4>1 DEF p
    <3>2. CASE n = 0
      BY <2>1, <2>3, <3>2 DEF Chain
    <3>3. CASE n # 0 /\ n # k + 1
      <4>1. n \in 1 .. k /\ n \in 0 .. k /\ n \in 1 .. most
        BY <3>3
      <4>2. ns[n].parent \in 0 .. n - 1
        BY <4>1
      <4>3. ns[n].parent \in 0 .. k
        BY <4>1, <4>2
      <4>4. g[n] = f[n] /\ g[ns[n].parent] = f[ns[n].parent]
        BY <2>3, <4>1, <4>3
      <4>5. f[n] = {n} \cup f[ns[n].parent]
        BY <2>1, <3>3, <4>1 DEF Chain
      <4> QED
        BY <3>3, <4>4, <4>5
    <3> QED
      BY <3>1, <3>2, <3>3
  <2>5. Chain(g, ns, k + 1)
    <3>1. g = [n \in 0 .. k + 1 |-> g[n]]
      OBVIOUS
    <3> HIDE DEF g
    <3> QED
      BY <2>4, <3>1 DEF Chain
  <2> QED
    BY <2>5
<1>3. Nat \subseteq Reached
  <2> HIDE DEF Reached
  <2> QED
    BY <1>1, <1>2, SetInduction
<1> QED
  BY <1>3

LEMMA Ancestors ==
  ASSUME BlocksInv
  PROVE  /\ AncestorsOf(0) = {}
         /\ \A n \in Blocks : AncestorsOf(n) = {n} \cup AncestorsOf(nodes[n].parent)
<1> DEFINE above[n \in 0 .. Len(nodes)] == IF n = 0 THEN {} ELSE {n} \cup above[nodes[n].parent]
           most == Len(nodes)
<1>1. most \in Nat /\ \A n \in 1 .. most : nodes[n].parent \in 0 .. n - 1
  BY DEF BlocksInv, TreeFits, Tree, IsSeq, Grown
<1>2. \E f : Chain(f, nodes, most)
  <2> HIDE DEF most
  <2> QED
    BY <1>1, ChainExists
<1>3. above = CHOOSE f : Chain(f, nodes, most)
  BY DEF Chain
<1>4. \A n : AncestorsOf(n) = above[n]
  BY DEF AncestorsOf
<1> HIDE DEF above
<1>5. Chain(above, nodes, most)
  BY <1>2, <1>3
<1>6. above[0] = {}
  BY <1>1, <1>5 DEF Chain
<1>7. ASSUME NEW n \in 1 .. most PROVE above[n] = {n} \cup above[nodes[n].parent]
  <2>1. n \in 0 .. most /\ n # 0
    BY <1>1
  <2> QED
    BY <1>5, <2>1 DEF Chain
<1> QED
  BY <1>4, <1>6, <1>7 DEF Blocks

Holds(n, m) == nodes[n].from <= nodes[m].from /\ nodes[m].to <= nodes[n].to

LEMMA SpansHold ==
  ASSUME BlocksInv, NEW m \in Blocks, nodes[m].kind # "list",
         NEW n \in AncestorsOf(m), nodes[n].kind # "list"
  PROVE  Holds(n, m)
<1> DEFINE Good(k) == \A x \in AncestorsOf(k) : nodes[x].kind # "list" => x \in Blocks /\ Holds(x, k)
           S == {k \in Nat : k \in Blocks /\ nodes[k].kind # "list" => Good(k)}
<1>1. Tree(nodes) /\ Len(nodes) \in Nat
  BY DEF BlocksInv, TreeFits, Tree, IsSeq
<1>2. \A k \in Blocks : nodes[k].from \in Nat /\ nodes[k].to \in Nat /\ k \in Nat
  <2>1. \A k \in Blocks : k \in Nat /\ Grown(nodes, k)
    BY <1>1 DEF Tree, Blocks
  <2> QED
    BY <2>1 DEF Grown, IsBlock
<1>3. ASSUME NEW k \in Nat, \A j \in 0 .. k - 1 : j \in S PROVE k \in S
  <2> SUFFICES ASSUME k \in Blocks, nodes[k].kind # "list", NEW x \in AncestorsOf(k),
                      nodes[x].kind # "list"
               PROVE  x \in Blocks /\ Holds(x, k)
    OBVIOUS
  <2> DEFINE p == nodes[k].parent
  <2>1. /\ p \in 0 .. k - 1 /\ p \in 0 .. Len(nodes)
        /\ Room(nodes, IF p # 0 /\ nodes[p].kind = "list" THEN nodes[p].parent ELSE p,
                nodes[k].from, nodes[k].to)
    <3>1. Grown(nodes, k) /\ k \in 1 .. Len(nodes)
      BY <1>1 DEF Tree, Blocks
    <3> QED
      BY <3>1 DEF Grown
  <2>2. x = k \/ x \in AncestorsOf(p)
    BY Ancestors
  <2>3. CASE x = k
    <3>1. nodes[k].from \in Nat /\ nodes[k].to \in Nat
      BY <1>2
    <3> QED
      BY <2>3, <3>1 DEF Holds
  <2>4. ASSUME NEW q \in 0 .. k - 1, x \in AncestorsOf(q), Room(nodes, q, nodes[k].from, nodes[k].to)
        PROVE  x \in Blocks /\ Holds(x, k)
    <3>1. q # 0
      BY <2>4, Ancestors
    <3>2. q \in Blocks /\ q \in Nat
      BY <1>1, <3>1 DEF Blocks
    <3>3. nodes[q].kind # "list" /\ Holds(q, k)
      BY <2>4, <3>1 DEF Room, Holds
    <3>4. x \in Blocks /\ Holds(x, q)
      BY <1>3, <2>4, <3>2, <3>3
    <3>5. Holds(x, k)
      <4>1. \A a, b, c \in Nat : a <= b /\ b <= c => a <= c
        OBVIOUS
      <4> QED
        BY <1>2, <3>2, <3>3, <3>4, <4>1 DEF Holds
    <3> QED
      BY <3>4, <3>5
  <2>5. CASE x \in AncestorsOf(p)
    <3>1. p # 0
      BY <2>5, Ancestors
    <3>2. CASE nodes[p].kind # "list"
      BY <2>1, <2>4, <2>5, <3>2
    <3>3. CASE nodes[p].kind = "list"
      <4> DEFINE q == nodes[p].parent
      <4>1. p \in Blocks
        BY <1>1, <2>1, <3>1 DEF Blocks
      <4>2. x \in AncestorsOf(q)
        BY <2>5, <3>3, <4>1, Ancestors
      <4>3. q \in 0 .. p - 1
        BY <1>1, <4>1 DEF Tree, Grown, Blocks
      <4>4. q \in 0 .. k - 1
        <5> HIDE DEF q, p
        <5> QED
          BY <2>1, <4>3
      <4>5. Room(nodes, q, nodes[k].from, nodes[k].to)
        BY <2>1, <3>1, <3>3
      <4> QED
        BY <2>4, <4>2, <4>4, <4>5
    <3> QED
      BY <3>2, <3>3
  <2> QED
    BY <2>2, <2>3, <2>5
<1>4. Nat \subseteq S
  <2> HIDE DEF S
  <2> QED
    BY <1>3, StrongInduction
<1>5. m \in S
  BY <1>2, <1>4
<1> QED
  BY <1>5

(* Leaves come in the order of their lines, each in the spans of the       *)
(* quotes and items around it, and inline parsing is told of them in that  *)
(* order.                                                                  *)
THEOREM BlocksStayInOrder == BlockSpec => []BlocksInSourceOrder
<1>1. ASSUME BlocksInv PROVE BlocksInSourceOrder
  <2>1. \A m, n \in Blocks : m < n => \A i \in nodes[m].own, j \in nodes[n].own : i < j
    BY <1>1 DEF BlocksInv, LinesDivided, Divided, Blocks
  <2>2. \A i, j \in 1 .. Len(inlines) : i < j => inlines[i] < inlines[j]
    BY <1>1 DEF BlocksInv, QueueInOrder, Queue
  <2>3. ASSUME NEW n \in Blocks, NEW m \in Inside(n), nodes[n].kind # "list"
        PROVE  nodes[m].own \subseteq nodes[n].from .. nodes[n].to
    <3>1. m \in Blocks /\ n \in AncestorsOf(m)
      BY DEF Inside
    <3>2. Grown(nodes, m) /\ IsBlock(nodes[n]) /\ IsBlock(nodes[m])
      BY <1>1, <3>1 DEF BlocksInv, TreeFits, Tree, Grown, Blocks
    <3>3. CASE nodes[m].kind = "list"
      BY <3>2, <3>3 DEF Grown
    <3>4. CASE nodes[m].kind # "list"
      <4>1. Holds(n, m)
        BY <1>1, <2>3, <3>1, <3>4, SpansHold
      <4>2. /\ nodes[m].own \subseteq nodes[m].from .. nodes[m].to
            /\ nodes[m].from \in Nat /\ nodes[m].to \in Nat /\ nodes[n].from \in Nat /\ nodes[n].to \in Nat
        BY <3>2 DEF IsBlock
      <4>3. nodes[m].from .. nodes[m].to \subseteq nodes[n].from .. nodes[n].to
        BY <4>1, <4>2 DEF Holds
      <4> QED
        BY <4>2, <4>3
    <3> QED
      BY <3>3, <3>4
  <2> QED
    BY <2>1, <2>2, <2>3 DEF BlocksInSourceOrder
<1> QED
  BY <1>1, BlocksInvariant, PTL
=============================================================================
