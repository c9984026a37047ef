----------------------------- MODULE MCBoundary -----------------------------
(***************************************************************************)
(* Fullmatch over texts of bounded length with few runs of characters.     *)
(***************************************************************************)
EXTENDS Fullmatch, FiniteSets

CONSTANTS
  MaxLen,           \* longest text: one more than the longest rule
  MaxRuns           \* how often a text may change its kind of character, plus one

Changes(s) == { i \in 2..Len(s) : s[i] # s[i - 1] }

\* Only capitals and digits come in runs of more than two.
ShortRun(s, ch) ==
  LET last == { s[i] : i \in 1..Len(s) \ 1..(Len(s) - 2) }
  IN  ch \notin ALNUM /\ Len(s) >= 2 => last # {ch}

ReadBounded(ch) ==
  /\ Len(prefix) < MaxLen
  /\ ShortRun(prefix, ch)
  /\ ReadChar(ch)
  /\ Cardinality(Changes(prefix')) < MaxRuns

Next == \E ch \in Char : ReadBounded(ch)

Spec == FullmatchInit /\ [][Next]_fullmatchVars

=============================================================================
