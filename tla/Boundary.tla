------------------------------ MODULE Boundary ------------------------------
(***************************************************************************)
(* The decode-time defense: defense/boundary.check and the rules of        *)
(* defense/grammar.  A text is a sequence of characters, here drawn from   *)
(* any set of characters that has capitals, digits and a hyphen; the       *)
(* patterns are what their regular expressions match in full.              *)
(***************************************************************************)
EXTENDS Naturals, Sequences

CONSTANTS
  UPPER,            \* the capital letters
  DIGITS,           \* the digits
  Char              \* every character a decoded text may hold

HYPHEN == "-"
T == "T"            \* the capital a ticket starts with
NoText == <<"no text">>   \* the text of a record whose bytes were not UTF-8

ASSUME BoundaryAssumption ==
  /\ T \in UPPER
  /\ HYPHEN \notin UPPER \union DIGITS
  /\ UPPER \intersect DIGITS = {}
  /\ UPPER \union DIGITS \union {HYPHEN} \subseteq Char
  /\ NoText \notin Seq(Char)

Use == {"identifier", "plate", "ticket"}

\* RULES without the patterns
Rule ==
  [ identifier |-> [ min_len |-> 6,  max_len |-> 13, charset |-> UPPER \union DIGITS \union {HYPHEN} ],
    plate      |-> [ min_len |-> 3,  max_len |-> 14, charset |-> UPPER \union DIGITS \union {HYPHEN} ],
    ticket     |-> [ min_len |-> 14, max_len |-> 14, charset |-> {T} \union DIGITS \union {HYPHEN} ] ]

\* text[i..j] is all in set
Within(text, i, j, set) == \A k \in i..j : text[k] \in set

\* [A-Z]{1,4}-[0-9]{4,8}
MatchesIdentifier(text) ==
  \E a \in 1..4, d \in 4..8 :
    /\ Len(text) = a + 1 + d
    /\ Within(text, 1, a, UPPER)
    /\ text[a + 1] = HYPHEN
    /\ Within(text, a + 2, a + 1 + d, DIGITS)

\* [A-Z0-9]{1,4}-[A-Z0-9]{1,4}(-[A-Z0-9]{1,4})?
MatchesPlate(text) ==
  \E a, b \in 1..4, c \in 0..4 :
    /\ Len(text) = a + 1 + b + (IF c = 0 THEN 0 ELSE 1 + c)
    /\ Within(text, 1, a, UPPER \union DIGITS)
    /\ text[a + 1] = HYPHEN
    /\ Within(text, a + 2, a + 1 + b, UPPER \union DIGITS)
    /\ c # 0 => text[a + b + 2] = HYPHEN
    /\ Within(text, a + b + 3, Len(text), UPPER \union DIGITS)

\* T[0-9]{8}-[0-9]{4}
MatchesTicket(text) ==
  /\ Len(text) = 14
  /\ text[1] = T
  /\ Within(text, 2, 9, DIGITS)
  /\ text[10] = HYPHEN
  /\ Within(text, 11, 14, DIGITS)

Matches(use, text) ==
  CASE use = "identifier" -> MatchesIdentifier(text)
    [] use = "plate"      -> MatchesPlate(text)
    [] use = "ticket"     -> MatchesTicket(text)

\* fullmatch replaced by match: whatever follows the pattern is let through
AcceptsPrefix(use, text) ==
  IF Len(text) > Rule[use].max_len THEN "length"
  ELSE IF \E n \in 1..Len(text) : Matches(use, SubSeq(text, 1, n)) THEN "ok"
  ELSE "grammar"

\* The reason `check` gives for a text; "ok" allows it.  The order is the
\* code's: length, then charset, then the pattern.
Judged(use, text) ==
  IF ~(Rule[use].min_len <= Len(text) /\ Len(text) <= Rule[use].max_len) THEN "length"
  ELSE IF \E i \in 1..Len(text) : text[i] \notin Rule[use].charset THEN "charset"
  ELSE IF ~Matches(use, text) THEN "grammar"
  ELSE "ok"

\* check, of a delivered record
check(use, text) == IF text = NoText THEN "encoding" ELSE Judged(use, text)

=============================================================================
