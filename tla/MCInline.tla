------------------------------ MODULE MCInline ------------------------------
(***************************************************************************)
(* InlineRange over the short texts of some alphabets, each under the      *)
(* parser configurations that matter to it: a profile's defaults and       *)
(* explicit recovery policies.                                             *)
(***************************************************************************)
EXTENDS InlineRange

CONSTANT Families   \* alphabet, length of the longest text, configurations

CommonMark == [paired |-> FALSE, strike |-> FALSE, range |-> FALSE, refs |-> TRUE,
               emphasis |-> "literal", strong |-> "literal", strikethrough |-> "literal",
               code |-> "literal", link |-> "literal", image |-> "literal"]
Gfm        == [CommonMark EXCEPT !.strike = TRUE]
EnhanceMark == [CommonMark EXCEPT !.paired = TRUE, !.strike = TRUE, !.range = TRUE,
                  !.emphasis = "recover", !.strong = "recover", !.strikethrough = "recover"]
RecoverCode == [EnhanceMark EXCEPT !.code = "recover"]
Strict      == [EnhanceMark EXCEPT !.emphasis = "error", !.code = "error"]
StrictLabels == [CommonMark EXCEPT !.image = "error", !.link = "error"]

(* Emphasis alone; emphasis in emphasis, deep enough for pairs the lookup   *)
(* loses; delimiters of all kinds; links and images; breaks.               *)
AllKinds ==
  {[letters |-> {"*", "a", "."}, length |-> 8, configs |-> {CommonMark, EnhanceMark}],
   [letters |-> {"*", "_", "a"}, length |-> 9, configs |-> {CommonMark}],
   [letters |-> {"*", "_", "a"}, length |-> 7, configs |-> {EnhanceMark}],
   [letters |-> {"*", "_", "~", "tick", "a"}, length |-> 5, configs |-> {Gfm, RecoverCode, Strict}],
   [letters |-> {"[", "]", "!", "*", "a"}, length |-> 5,
    configs |-> {CommonMark, StrictLabels, EnhanceMark}],
   [letters |-> {"esc", "nl", " ", "*", "a"}, length |-> 5, configs |-> {EnhanceMark}]}

MCParagraphs == UNION {Texts(f.letters, f.length) : f \in Families}
MCConfigs    == UNION {f.configs : f \in Families}

(* Every text of a family under every configuration of it.                 *)
Chosen ==
  \E f \in Families : /\ config \in f.configs
                      /\ Len(text) <= f.length
                      /\ \A i \in 1 .. Len(text) : text[i] \in f.letters

(* Parsing may stop only when it is done: anything else is a deadlock.     *)
Stopped == phase \in {"done", "failed"} /\ UNCHANGED allVars

ChosenInit == InlineInit /\ Chosen
InlineRuns == ChosenInit /\ [][InlineNext \/ Stopped]_allVars
=============================================================================
