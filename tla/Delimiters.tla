----------------------------- MODULE Delimiters -----------------------------
(***************************************************************************)
(* How inline text is scanned for delimiter runs, code spans and bracketed *)
(* links (parser/emphasis.go, parser/inline.go).  Text is a sequence of    *)
(* characters, each standing for its class:                                *)
(*   "*" "_" "~" delimiters, "esc" the backslash, "tick" a backtick,       *)
(*   "[" "]" brackets, "!" the image mark, " " whitespace, "nl" a line     *)
(*   ending, "." any other punctuation, "a" any other character.           *)
(* Positions are 0-based byte offsets as in the code: char i is text[i+1]. *)
(* Angle spans, which every scan jumps over as it jumps over code spans,   *)
(* and inline link targets in parentheses are left out; a bracketed label  *)
(* is a link when it names a reference definition, and refs says whether   *)
(* the document defines the labels its text uses.                          *)
(***************************************************************************)
EXTENDS Integers, Sequences, FiniteSetsExt

At(text, position) == text[position + 1]

(* byteRun: how many copies of marker stand at position. *)
ByteRun(text, position, end, marker) ==
  Cardinality({i \in position .. end - 1 : \A j \in position .. i : At(text, j) = marker})

Whitespace  == {" ", "nl"}
Punctuation == {"*", "_", "~", "tick", "esc", "[", "]", "!", "."}
Characters  == Whitespace \cup Punctuation \cup {"a"}

(* delimiterFlanking: the edges of [lower, upper) count as whitespace. *)
Flanking(text, start, run, marker, lower, upper) ==
  LET before == IF start <= lower THEN " " ELSE At(text, start - 1)
      after  == IF start + run >= upper THEN " " ELSE At(text, start + run)
      left   == /\ after \notin Whitespace
                /\ \/ after \notin Punctuation
                   \/ before \in Whitespace \cup Punctuation
      right  == /\ before \notin Whitespace
                /\ \/ before \notin Punctuation
                   \/ after \in Whitespace \cup Punctuation
  IN  IF marker = "_"
      THEN [canOpen  |-> left /\ (~right \/ before \in Punctuation),
            canClose |-> right /\ (~left \/ after \in Punctuation)]
      ELSE [canOpen |-> left, canClose |-> right]

(* matchingCodeSpanEnd: the offset behind the next backtick run of the     *)
(* same length, or -1.                                                     *)
CodeSpanEnd(text, candidate, end, run) ==
  LET closing == {i \in candidate .. end - 1 :
                    /\ i = candidate \/ At(text, i - 1) # "tick"
                    /\ ByteRun(text, i, end, "tick") = run}
  IN  IF closing = {} THEN -1 ELSE Min(closing) + run

(* Where every scan goes on from position: behind an escaped character and *)
(* behind a code span, or plain, which is a character or more further.     *)
Past(text, position, end, plain) ==
  LET ticks   == ByteRun(text, position, end, "tick")
      codeEnd == CodeSpanEnd(text, position + ticks, end, ticks)
  IN  CASE At(text, position) = "esc" -> position + 2
        [] ticks > 0 -> Max({plain, codeEnd})
        [] OTHER -> plain

(* findClosingBracket: the "]" that closes a bracket opened before         *)
(* position, code spans and escapes skipped, or -1.                        *)
ClosingBracket(text, position, end) ==
  LET closing[at \in (0 .. end + 1) \X Nat] ==
        LET p     == at[1]
            depth == at[2]
        IN  IF p >= end THEN -1
            ELSE CASE At(text, p) = "]" -> IF depth = 0 THEN p ELSE closing[<<p + 1, depth - 1>>]
                   [] At(text, p) = "[" -> closing[<<p + 1, depth + 1>>]
                   [] OTHER -> closing[<<Past(text, p, end, p + 1), depth>>]
  IN  closing[<<position, 0>>]

(* Whether the label in [from, to) can be the name of a definition. *)
Defined(text, from, to, refs) ==
  /\ refs
  /\ \E i \in from .. to - 1 : At(text, i) \notin Whitespace
  /\ \A i \in from .. to - 1 : At(text, i) # "["

(* linkSyntaxEnd: where a link whose "[" is at start ends, or -1. *)
LinkEnd(text, start, end, refs) ==
  LET close == ClosingBracket(text, start + 1, end)
      next  == close + 1
      full  == next < end /\ At(text, next) = "["
      second == ClosingBracket(text, next + 1, end)
  IN  IF close < 0 THEN -1
      ELSE IF full THEN
        IF second < 0 THEN -1
        ELSE IF \/ Defined(text, next + 1, second, refs)
                \/ second = next + 1 /\ Defined(text, start + 1, close, refs)
             THEN second + 1 ELSE -1
      ELSE IF Defined(text, start + 1, close, refs) THEN next ELSE -1

(* containsNestedLink over [from, end). *)
NestedLink(text, from, end, refs) ==
  LET nested[range \in (0 .. Len(text) + 1) \X (0 .. Len(text))] ==
        LET p == range[1]
            e == range[2]
        IN  /\ p < e
            /\ \/ /\ At(text, p) = "["
                  /\ ~(p > from /\ At(text, p - 1) = "!")
                  /\ LinkEnd(text, p, e, refs) >= 0
               \/ nested[<<Past(text, p, e, p + 1), e>>]
  IN  nested[<<from, end>>]

(* collectEmphasisDelimiters over [position, end). *)
Collect(text, position, end, refs) ==
  LET found[range \in (0 .. Len(text) + 1) \X (0 .. Len(text))] ==
        LET p      == range[1]
            e      == range[2]
            c      == At(text, p)
            run    == ByteRun(text, p, e, c)
            flank  == Flanking(text, p, run, c, 0, e)
            image  == c = "!" /\ p + 1 < e /\ At(text, p + 1) = "["
            open   == IF image THEN p + 1 ELSE p
            close  == ClosingBracket(text, open + 1, e)
            target == LinkEnd(text, open, e, refs)
        IN  IF p >= e THEN <<>>
            ELSE CASE c \in {"*", "_"} ->
                        <<[start |-> p, marker |-> c, length |-> run,
                           canOpen |-> flank.canOpen, canClose |-> flank.canClose]>>
                        \o found[<<p + run, e>>]
                   [] (c = "[" \/ image) /\ close >= 0 /\ target >= 0 ->
                        IF c = "[" /\ NestedLink(text, open + 1, close, refs)
                        THEN found[<<open + 1, close>>] \o found[<<close + 1, e>>]
                        ELSE found[<<target, e>>]
                   [] OTHER -> found[<<Past(text, p, e, IF c = "tick" THEN p + run ELSE p + 1), e>>]
  IN  found[<<position, end>>]

(* The inline texts of at most n characters over an alphabet. *)
Texts(alphabet, n) == UNION {[1 .. k -> alphabet] : k \in 1 .. n}
=============================================================================
