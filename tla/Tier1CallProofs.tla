-------------------------- MODULE Tier1CallProofs --------------------------
(***************************************************************************)
(* The check that stands before Tier 1, for texts of any length, and the   *)
(* call of Tier 1, for every set of payloads that PayloadAssumption        *)
(* admits: with any control on nothing crosses, every row is one the       *)
(* contract accepts, nothing is guessed of a call that did not answer, and *)
(* the evidence of the canary is not lost.                                 *)
(***************************************************************************)
EXTENDS Tier1Call, Fullmatch, AlgorithmProofs

-----------------------------------------------------------------------------
(***************************************************************************)
(* The three rules of the boundary agree with each other, for texts of any *)
(* length over any alphabet: the length and charset checks, which are      *)
(* there to be cheap, never change what the pattern decides.               *)
(***************************************************************************)

\* The identifier pattern lies within the identifier's length and charset.
LEMMA IdentifierWithinRule ==
  ASSUME NEW text \in Seq(Char), MatchesIdentifier(text)
  PROVE  /\ 6 <= Len(text) /\ Len(text) <= 13
         /\ \A i \in 1..Len(text) : text[i] \in Rule.identifier.charset
<1>1. PICK a \in 1..4, d \in 4..8 :
        /\ Len(text) = a + 1 + d
        /\ Within(text, 1, a, UPPER)
        /\ text[a + 1] = HYPHEN
        /\ Within(text, a + 2, a + 1 + d, DIGITS)
  BY DEF MatchesIdentifier
<1>2. ASSUME NEW i \in 1..Len(text)
      PROVE  i \in 1..a \/ i = a + 1 \/ i \in (a + 2)..(a + 1 + d)
  BY <1>1
<1>3. \A i \in 1..Len(text) : text[i] \in UPPER \union DIGITS \union {HYPHEN}
  BY <1>1, <1>2 DEF Within
<1> QED
  BY <1>1, <1>3 DEF Rule

\* The plate pattern lies within the plate's length and charset.
LEMMA PlateWithinRule ==
  ASSUME NEW text \in Seq(Char), MatchesPlate(text)
  PROVE  /\ 3 <= Len(text) /\ Len(text) <= 14
         /\ \A i \in 1..Len(text) : text[i] \in Rule.plate.charset
<1>1. PICK a \in 1..4, b \in 1..4, c \in 0..4 :
        /\ Len(text) = a + 1 + b + (IF c = 0 THEN 0 ELSE 1 + c)
        /\ Within(text, 1, a, UPPER \union DIGITS)
        /\ text[a + 1] = HYPHEN
        /\ Within(text, a + 2, a + 1 + b, UPPER \union DIGITS)
        /\ c # 0 => text[a + b + 2] = HYPHEN
        /\ Within(text, a + b + 3, Len(text), UPPER \union DIGITS)
  BY DEF MatchesPlate
<1>2. ASSUME NEW i \in 1..Len(text)
      PROVE  \/ i \in 1..a \/ i = a + 1 \/ i \in (a + 2)..(a + 1 + b)
             \/ (c # 0 /\ i = a + b + 2) \/ i \in (a + b + 3)..Len(text)
  BY <1>1
<1>3. \A i \in 1..Len(text) : text[i] \in UPPER \union DIGITS \union {HYPHEN}
  BY <1>1, <1>2 DEF Within
<1> QED
  BY <1>1, <1>3 DEF Rule

\* The ticket pattern lies within the ticket's length and charset.
LEMMA TicketWithinRule ==
  ASSUME NEW text \in Seq(Char), MatchesTicket(text)
  PROVE  /\ Len(text) = 14
         /\ \A i \in 1..Len(text) : text[i] \in Rule.ticket.charset
<1>1. \A i \in 1..14 : i = 1 \/ i \in 2..9 \/ i = 10 \/ i \in 11..14
  OBVIOUS
<1>2. \A i \in 1..Len(text) : text[i] \in {T} \union DIGITS \union {HYPHEN}
  BY <1>1 DEF MatchesTicket, Within
<1> QED
  BY <1>2 DEF Rule, MatchesTicket

\* check allows exactly what the pattern of its rule matches: no bound or
\* charset of a rule is narrower than its pattern (a legitimate id refused) and
\* none is needed for safety (an oversized text let through).
THEOREM CheckIsThePattern ==
  ASSUME NEW use \in Use, NEW text \in Seq(Char)
  PROVE  check(use, text) = "ok" <=> Matches(use, text)
<1> DEFINE rule == Rule[use]
<1>1. ASSUME Matches(use, text)
      PROVE  /\ rule.min_len <= Len(text) /\ Len(text) <= rule.max_len
             /\ \A i \in 1..Len(text) : text[i] \in rule.charset
  <2>1. CASE use = "identifier"
    BY <1>1, <2>1, IdentifierWithinRule DEF Matches, Rule
  <2>2. CASE use = "plate"
    BY <1>1, <2>2, PlateWithinRule DEF Matches, Rule
  <2>3. CASE use = "ticket"
    <3>1. MatchesTicket(text)
      BY <1>1, <2>3 DEF Matches
    <3>2. rule = Rule.ticket /\ rule.min_len = 14 /\ rule.max_len = 14
      BY <2>3 DEF Rule
    <3>3. Len(text) = 14 /\ \A i \in 1..Len(text) : text[i] \in Rule.ticket.charset
      BY <3>1, TicketWithinRule
    <3> QED
      BY <3>2, <3>3
  <2> QED
    BY <2>1, <2>2, <2>3 DEF Use
<1>2. text # NoText
  BY BoundaryAssumption
<1> QED
  BY <1>1, <1>2 DEF Judged, check

\* A text that is allowed holds capitals, digits and hyphens and nothing else,
\* so the string-built query and the shell command of Tier 1 take it literally.
THEOREM AllowedTextIsInert ==
  ASSUME NEW use \in Use, NEW text \in Seq(Char), check(use, text) = "ok"
  PROVE  \A i \in 1..Len(text) : text[i] \in UPPER \union DIGITS \union {HYPHEN}
<1>1. Judged(use, text) = "ok"
  BY DEF check
<1>2. \A i \in 1..Len(text) : text[i] \in Rule[use].charset
  BY <1>1 DEF Judged
<1>3. Rule[use].charset \subseteq UPPER \union DIGITS \union {HYPHEN}
  BY BoundaryAssumption DEF Use, Rule
<1> QED
  BY <1>2, <1>3

-----------------------------------------------------------------------------
(***************************************************************************)
(* The patterns as sets of texts (Matches) and as recognisers that read a  *)
(* text from its front (Fullmatch) are the same.                           *)
(***************************************************************************)

\* Texts that end within the first, the second or the third group of a pattern, after n
\* characters of it
First(s, n, A) == Len(s) = n /\ Within(s, 1, n, A)

Second(s, n, A, B) ==
  \E a \in 1..4 :
    /\ Len(s) = a + 1 + n /\ Within(s, 1, a, A) /\ s[a + 1] = HYPHEN
    /\ Within(s, a + 2, Len(s), B)

Third(s, n, A) ==
  \E a, b \in 1..4 :
    /\ Len(s) = a + 1 + b + 1 + n /\ Within(s, 1, a, A) /\ s[a + 1] = HYPHEN
    /\ Within(s, a + 2, a + 1 + b, A) /\ s[a + b + 2] = HYPHEN
    /\ Within(s, a + b + 3, Len(s), A)

\* The same of a ticket, whose first group is a T and eight digits
Date(s, n) == Len(s) = n /\ (n > 0 => s[1] = T) /\ Within(s, 2, n, DIGITS)

Number(s, n) ==
  /\ Len(s) = 10 + n /\ s[1] = T /\ Within(s, 2, 9, DIGITS) /\ s[10] = HYPHEN
  /\ Within(s, 11, Len(s), DIGITS)

Grown(s, ch, t) ==
  /\ Len(s) \in Nat /\ Len(t) = Len(s) + 1
  /\ \A i \in 1..Len(s) : t[i] = s[i]
  /\ t[Len(s) + 1] = ch

\* t is s and one more character: what Append makes.
LEMMA Growing ==
  ASSUME NEW s \in Seq(Char), NEW ch \in Char
  PROVE  Append(s, ch) \in Seq(Char) /\ Grown(s, ch, Append(s, ch))
BY DEF Grown

\* What stands before the new character stays, and a group can have grown by it.
LEMMA WithinGrown ==
  ASSUME NEW s, NEW ch, NEW t, Grown(s, ch, t), NEW A
  PROVE  /\ \A i, j \in Nat : i >= 1 /\ j <= Len(s) => (Within(t, i, j, A) <=> Within(s, i, j, A))
         /\ \A i \in Nat : i >= 1 /\ i <= Len(t) =>
              (Within(t, i, Len(t), A) <=> Within(s, i, Len(s), A) /\ ch \in A)
<1>1. ASSUME NEW i \in Nat, NEW j \in Nat, i >= 1, j <= Len(s)
      PROVE  Within(t, i, j, A) <=> Within(s, i, j, A)
  <2>1. \A k \in i..j : k \in 1..Len(s) /\ t[k] = s[k]
    BY <1>1 DEF Grown
  <2> QED
    BY <2>1 DEF Within
<1>2. ASSUME NEW i \in Nat, i >= 1, i <= Len(t)
      PROVE  Within(t, i, Len(t), A) <=> Within(s, i, Len(s), A) /\ ch \in A
  <2>1. \A k \in i..Len(t) : k \in i..Len(s) \/ k = Len(t)
    BY <1>2 DEF Grown
  <2>2. \A k \in i..Len(s) : k \in i..Len(t) /\ t[k] = s[k]
    BY <1>2 DEF Grown
  <2>3. Len(t) \in i..Len(t) /\ t[Len(t)] = ch
    BY <1>2 DEF Grown
  <2> QED
    BY <2>1, <2>2, <2>3 DEF Within
<1> QED
  BY <1>1, <1>2

\* A text ends within the first group if it did so before and goes on with it.
LEMMA FirstGrown ==
  ASSUME NEW s, NEW ch, NEW t, Grown(s, ch, t), NEW A, NEW n \in Nat
  PROVE  First(t, n, A) <=> n > 0 /\ First(s, n - 1, A) /\ ch \in A
<1>0. /\ \A i, j \in Nat : i >= 1 /\ j <= Len(s) => (Within(t, i, j, A) <=> Within(s, i, j, A))
      /\ \A i \in Nat : i >= 1 /\ i <= Len(t) =>
              (Within(t, i, Len(t), A) <=> Within(s, i, Len(s), A) /\ ch \in A)
  BY WithinGrown
<1>1. CASE Len(t) = n
  <2>1. n > 0 /\ Len(s) = n - 1 /\ 1 <= Len(t) /\ 1 \in Nat
    BY <1>1 DEF Grown
  <2>2. Within(t, 1, Len(t), A) <=> Within(s, 1, Len(s), A) /\ ch \in A
    BY <2>1, <1>0
  <2> QED
    BY <1>1, <2>1, <2>2 DEF First
<1>2. CASE Len(t) # n
  <2>1. Len(s) # n - 1
    BY <1>2 DEF Grown
  <2> QED
    BY <1>2, <2>1 DEF First
<1> QED
  BY <1>1, <1>2

\* The second group begins with a hyphen after any length of the first.
LEMMA SecondGrown ==
  ASSUME NEW s, NEW ch, NEW t, Grown(s, ch, t), NEW A, NEW B, NEW n \in Nat
  PROVE  Second(t, n, A, B) <=> \/ n = 0 /\ ch = HYPHEN /\ \E a \in 1..4 : First(s, a, A)
                                \/ n > 0 /\ Second(s, n - 1, A, B) /\ ch \in B
<1> DEFINE At(u, m, a) ==
      /\ Len(u) = a + 1 + m /\ Within(u, 1, a, A) /\ u[a + 1] = HYPHEN
      /\ Within(u, a + 2, Len(u), B)
<1>0. /\ \A i, j \in Nat : i >= 1 /\ j <= Len(s) => (Within(t, i, j, A) <=> Within(s, i, j, A))
      /\ \A i \in Nat : i >= 1 /\ i <= Len(t) =>
              (Within(t, i, Len(t), A) <=> Within(s, i, Len(s), A) /\ ch \in A)
      /\ \A i, j \in Nat : i >= 1 /\ j <= Len(s) => (Within(t, i, j, B) <=> Within(s, i, j, B))
      /\ \A i \in Nat : i >= 1 /\ i <= Len(t) =>
              (Within(t, i, Len(t), B) <=> Within(s, i, Len(s), B) /\ ch \in B)
  BY WithinGrown
<1>1. ASSUME NEW a \in 1..4, n > 0
      PROVE  At(t, n, a) <=> At(s, n - 1, a) /\ ch \in B
  <2>1. CASE Len(t) = a + 1 + n
    <3>1. /\ Len(s) = a + 1 + (n - 1) /\ a + 1 \in 1..Len(s) /\ a \in Nat /\ a <= Len(s)
          /\ a + 2 \in Nat /\ a + 2 >= 1 /\ a + 2 <= Len(t) /\ 1 \in Nat /\ 1 >= 1
      BY <1>1, <2>1 DEF Grown
    <3>2. Within(t, 1, a, A) <=> Within(s, 1, a, A)
      BY <3>1, <1>0
    <3>3. Within(t, a + 2, Len(t), B) <=> Within(s, a + 2, Len(s), B) /\ ch \in B
      BY <3>1, <1>0
    <3>4. t[a + 1] = s[a + 1]
      BY <3>1 DEF Grown
    <3> QED
      BY <2>1, <3>1, <3>2, <3>3, <3>4
  <2>2. CASE Len(t) # a + 1 + n
    <3>1. Len(s) # a + 1 + (n - 1)
      BY <2>2 DEF Grown
    <3> QED
      BY <2>2, <3>1
  <2> QED
    BY <2>1, <2>2
<1>2. ASSUME NEW a \in 1..4, n = 0
      PROVE  At(t, n, a) <=> First(s, a, A) /\ ch = HYPHEN
  <2>1. CASE Len(t) = a + 1
    <3>1. Len(s) = a /\ a \in Nat /\ a <= Len(s) /\ 1 \in Nat /\ 1 >= 1 /\ t[a + 1] = ch /\ Len(t) = a + 1 + n
      <4>1. Len(s) = a
        BY <1>2, <2>1 DEF Grown
      <4>2. t[a + 1] = ch
        BY <4>1 DEF Grown
      <4> QED
        BY <1>2, <2>1, <4>1, <4>2
    <3>2. Within(t, 1, a, A) <=> Within(s, 1, a, A)
      BY <3>1, <1>0
    <3>3. Within(t, a + 2, Len(t), B)
      BY <2>1 DEF Within
    <3> QED
      BY <3>1, <3>2, <3>3 DEF First
  <2>2. CASE Len(t) # a + 1
    <3>1. Len(s) # a /\ Len(t) # a + 1 + n
      BY <1>2, <2>2 DEF Grown
    <3> QED
      BY <3>1 DEF First
  <2> QED
    BY <2>1, <2>2
<1>3. /\ Second(t, n, A, B) <=> \E a \in 1..4 : At(t, n, a)
      /\ Second(s, n - 1, A, B) <=> \E a \in 1..4 : At(s, n - 1, a)
  BY DEF Second
<1> HIDE DEF At
<1>4. n = 0 \/ n > 0
  OBVIOUS
<1> QED
  BY <1>1, <1>2, <1>3, <1>4

\* And the third with a hyphen after any length of the second.
LEMMA ThirdGrown ==
  ASSUME NEW s, NEW ch, NEW t, Grown(s, ch, t), NEW A, NEW n \in Nat
  PROVE  Third(t, n, A) <=> \/ n = 0 /\ ch = HYPHEN /\ \E b \in 1..4 : Second(s, b, A, A)
                            \/ n > 0 /\ Third(s, n - 1, A) /\ ch \in A
<1> DEFINE At(u, m, a, b) ==
      /\ Len(u) = a + 1 + b + 1 + m /\ Within(u, 1, a, A) /\ u[a + 1] = HYPHEN
      /\ Within(u, a + 2, a + 1 + b, A) /\ u[a + b + 2] = HYPHEN
      /\ Within(u, a + b + 3, Len(u), A)
           Before(u, a, b) ==
      /\ Len(u) = a + 1 + b /\ Within(u, 1, a, A) /\ u[a + 1] = HYPHEN
      /\ Within(u, a + 2, Len(u), A)
<1>0. /\ \A i, j \in Nat : i >= 1 /\ j <= Len(s) => (Within(t, i, j, A) <=> Within(s, i, j, A))
      /\ \A i \in Nat : i >= 1 /\ i <= Len(t) =>
              (Within(t, i, Len(t), A) <=> Within(s, i, Len(s), A) /\ ch \in A)
  BY WithinGrown
<1>1. ASSUME NEW a \in 1..4, NEW b \in 1..4, n > 0
      PROVE  At(t, n, a, b) <=> At(s, n - 1, a, b) /\ ch \in A
  <2>1. CASE Len(t) = a + 1 + b + 1 + n
    <3>1. /\ Len(s) = a + 1 + b + 1 + (n - 1) /\ a + 1 \in 1..Len(s) /\ a + b + 2 \in 1..Len(s)
          /\ a \in Nat /\ a <= Len(s) /\ a + 2 \in Nat /\ a + 2 >= 1
          /\ a + 1 + b \in Nat /\ a + 1 + b <= Len(s)
          /\ a + b + 3 \in Nat /\ a + b + 3 >= 1 /\ a + b + 3 <= Len(t) /\ 1 \in Nat /\ 1 >= 1
      <4>1. Len(t) = Len(s) + 1 /\ Len(s) \in Nat
        BY DEF Grown
      <4>2. Len(s) = a + b + n + 1
        BY <2>1, <4>1
      <4> QED
        BY <1>1, <2>1, <4>2
    <3>2. Within(t, 1, a, A) <=> Within(s, 1, a, A)
      BY <3>1, <1>0
    <3>3. Within(t, a + 2, a + 1 + b, A) <=> Within(s, a + 2, a + 1 + b, A)
      BY <3>1, <1>0
    <3>4. Within(t, a + b + 3, Len(t), A) <=> Within(s, a + b + 3, Len(s), A) /\ ch \in A
      BY <3>1, <1>0
    <3>5. t[a + 1] = s[a + 1] /\ t[a + b + 2] = s[a + b + 2]
      BY <3>1 DEF Grown
    <3> QED
      BY <2>1, <3>1, <3>2, <3>3, <3>4, <3>5
  <2>2. CASE Len(t) # a + 1 + b + 1 + n
    <3>1. Len(s) # a + 1 + b + 1 + (n - 1)
      BY <2>2 DEF Grown
    <3> QED
      BY <2>2, <3>1
  <2> QED
    BY <2>1, <2>2
<1>2. ASSUME NEW a \in 1..4, NEW b \in 1..4, n = 0
      PROVE  At(t, n, a, b) <=> Before(s, a, b) /\ ch = HYPHEN
  <2>1. CASE Len(t) = a + 1 + b + 1
    <3>1. Len(s) = a + 1 + b
      BY <2>1 DEF Grown
    <3>2. /\ a \in Nat /\ a <= Len(s) /\ 1 \in Nat /\ 1 >= 1 /\ a + 1 \in 1..Len(s)
          /\ a + 2 \in Nat /\ a + 2 >= 1 /\ a + 1 + b \in Nat /\ a + 1 + b <= Len(s)
          /\ a + b + 2 = Len(s) + 1 /\ Len(t) = a + 1 + b + 1 + n
      BY <1>2, <2>1, <3>1
    <3>3. Within(t, 1, a, A) <=> Within(s, 1, a, A)
      BY <3>2, <1>0
    <3>4. Within(t, a + 2, a + 1 + b, A) <=> Within(s, a + 2, Len(s), A)
      BY <3>1, <3>2, <1>0
    <3>5. t[a + 1] = s[a + 1] /\ t[a + b + 2] = ch
      BY <3>2 DEF Grown
    <3>6. Within(t, a + b + 3, Len(t), A)
      BY <2>1 DEF Within
    <3> QED
      BY <3>1, <3>2, <3>3, <3>4, <3>5, <3>6
  <2>2. CASE Len(t) # a + 1 + b + 1
    <3>1. Len(s) # a + 1 + b /\ Len(t) # a + 1 + b + 1 + n
      BY <1>2, <2>2 DEF Grown
    <3> QED
      BY <3>1
  <2> QED
    BY <2>1, <2>2
<1>3. /\ Third(t, n, A) <=> \E a, b \in 1..4 : At(t, n, a, b)
      /\ Third(s, n - 1, A) <=> \E a, b \in 1..4 : At(s, n - 1, a, b)
      /\ \A b \in 1..4 : Second(s, b, A, A) <=> \E a \in 1..4 : Before(s, a, b)
  BY DEF Third, Second
<1> HIDE DEF At, Before
<1>4. n = 0 \/ n > 0
  OBVIOUS
<1> QED
  BY <1>1, <1>2, <1>3, <1>4

\* A ticket begins with its T and goes on with digits.
LEMMA DateGrown ==
  ASSUME NEW s, NEW ch, NEW t, Grown(s, ch, t), NEW n \in Nat
  PROVE  Date(t, n) <=> \/ n = 1 /\ Date(s, 0) /\ ch = T
                        \/ n > 1 /\ Date(s, n - 1) /\ ch \in DIGITS
<1>0. /\ \A i, j \in Nat : i >= 1 /\ j <= Len(s) => (Within(t, i, j, DIGITS) <=> Within(s, i, j, DIGITS))
      /\ \A i \in Nat : i >= 1 /\ i <= Len(t) =>
              (Within(t, i, Len(t), DIGITS) <=> Within(s, i, Len(s), DIGITS) /\ ch \in DIGITS)
  BY WithinGrown
<1>1. CASE Len(t) = n
  <2>1. n > 0 /\ Len(s) = n - 1
    BY <1>1 DEF Grown
  <2>2. CASE n = 1
    <3>1. t[1] = ch
      BY <2>1, <2>2 DEF Grown
    <3>2. Within(t, 2, n, DIGITS) /\ Within(s, 2, 0, DIGITS)
      BY <2>2 DEF Within
    <3> QED
      BY <1>1, <2>1, <2>2, <3>1, <3>2 DEF Date
  <2>3. CASE n > 1
    <3>1. 1 \in 1..Len(s) /\ 2 \in Nat /\ 2 >= 1 /\ 2 <= Len(t)
      BY <1>1, <2>1, <2>3
    <3>2. Within(t, 2, Len(t), DIGITS) <=> Within(s, 2, Len(s), DIGITS) /\ ch \in DIGITS
      BY <3>1, <1>0
    <3>3. t[1] = s[1]
      BY <3>1 DEF Grown
    <3> QED
      BY <1>1, <2>1, <2>3, <3>2, <3>3 DEF Date
  <2> QED
    BY <2>1, <2>2, <2>3
<1>2. CASE Len(t) # n
  <2>1. Len(s) # n - 1
    BY <1>2 DEF Grown
  <2> QED
    BY <1>2, <2>1 DEF Date
<1> QED
  BY <1>1, <1>2

\* The second group of a ticket begins after exactly nine characters.
LEMMA NumberGrown ==
  ASSUME NEW s, NEW ch, NEW t, Grown(s, ch, t), NEW n \in Nat
  PROVE  Number(t, n) <=> \/ n = 0 /\ Date(s, 9) /\ ch = HYPHEN
                          \/ n > 0 /\ Number(s, n - 1) /\ ch \in DIGITS
<1>0. /\ \A i, j \in Nat : i >= 1 /\ j <= Len(s) => (Within(t, i, j, DIGITS) <=> Within(s, i, j, DIGITS))
      /\ \A i \in Nat : i >= 1 /\ i <= Len(t) =>
              (Within(t, i, Len(t), DIGITS) <=> Within(s, i, Len(s), DIGITS) /\ ch \in DIGITS)
  BY WithinGrown
<1>1. CASE Len(t) = 10 + n
  <2>1. Len(s) = 9 + n /\ 1 \in 1..Len(s)
    BY <1>1 DEF Grown
  <2>2. /\ 2 \in Nat /\ 9 \in Nat /\ 2 >= 1 /\ 9 <= Len(s) /\ 11 \in Nat /\ 11 >= 1
    BY <2>1
  <2>3. t[1] = s[1] /\ (Within(t, 2, 9, DIGITS) <=> Within(s, 2, 9, DIGITS))
    BY <2>1, <2>2, <1>0 DEF Grown
  <2>4. CASE n = 0
    <3>1. t[10] = ch
      BY <2>1, <2>4 DEF Grown
    <3>2. Within(t, 11, Len(t), DIGITS)
      BY <1>1, <2>4 DEF Within
    <3> QED
      BY <1>1, <2>1, <2>3, <2>4, <3>1, <3>2 DEF Number, Date
  <2>5. CASE n > 0
    <3>1. 10 \in 1..Len(s) /\ 11 <= Len(t)
      BY <1>1, <2>1, <2>5
    <3>2. t[10] = s[10] /\ (Within(t, 11, Len(t), DIGITS) <=> Within(s, 11, Len(s), DIGITS) /\ ch \in DIGITS)
      BY <2>2, <3>1, <1>0 DEF Grown
    <3>3. Len(s) = 10 + (n - 1)
      BY <2>1
    <3> QED
      BY <1>1, <2>3, <2>5, <3>2, <3>3 DEF Number
  <2> QED
    BY <2>4, <2>5
<1>2. CASE Len(t) # 10 + n
  <2>1. Len(s) # 9 + n /\ Len(s) # 10 + (n - 1)
    BY <1>2 DEF Grown
  <2>2. ~Number(t, n)
    BY <1>2 DEF Number
  <2>3. ~Number(s, n - 1)
    BY <2>1 DEF Number
  <2>4. n = 0 => ~Date(s, 9)
    BY <2>1 DEF Date
  <2> QED
    BY <2>2, <2>3, <2>4
<1> QED
  BY <1>1, <1>2

-----------------------------------------------------------------------------
\* Where the recognisers of the three rules are when they have read s: in a group, with so
\* many characters of it, exactly if s is matched so far; nowhere, if s begins no match.
IdentifierPlace(q, s) ==
  /\ q = Dead \/ (\E n \in 0..4 : q = <<1, n>>) \/ \E n \in 0..8 : q = <<2, n>>
  /\ \A n \in 0..4 : q = <<1, n>> <=> First(s, n, UPPER)
  /\ \A n \in 0..8 : q = <<2, n>> <=> Second(s, n, UPPER, DIGITS)

PlatePlace(q, s) ==
  /\ q = Dead \/ \E g \in 1..3, n \in 0..4 : q = <<g, n>>
  /\ \A n \in 0..4 : q = <<1, n>> <=> First(s, n, ALNUM)
  /\ \A n \in 0..4 : q = <<2, n>> <=> Second(s, n, ALNUM, ALNUM)
  /\ \A n \in 0..4 : q = <<3, n>> <=> Third(s, n, ALNUM)

TicketPlace(q, s) ==
  /\ q = Dead \/ (\E n \in 0..9 : q = <<1, n>>) \/ \E n \in 0..4 : q = <<2, n>>
  /\ \A n \in 0..9 : q = <<1, n>> <=> Date(s, n)
  /\ \A n \in 0..4 : q = <<2, n>> <=> Number(s, n)

\* A step of the identifier's recogniser, from each place, is one of the text's growth.
LEMMA IdentifierAdvances ==
  ASSUME NEW s, NEW ch, NEW t, Grown(s, ch, t), NEW q, IdentifierPlace(q, s)
  PROVE  IdentifierPlace(Advance("identifier", q, ch), t)
<1> DEFINE
  new == Advance("identifier", q, ch)
  Moved ==
    /\ new = Dead \/ (\E n \in 0..4 : new = <<1, n>>) \/ \E n \in 0..8 : new = <<2, n>>
    /\ \A n \in 0..4 : new = <<1, n>> <=> n > 0 /\ q = <<1, n - 1>> /\ ch \in UPPER
    /\ \A n \in 0..8 : new = <<2, n>> <=>
                        \/ n = 0 /\ ch = HYPHEN /\ \E a \in 1..4 : q = <<1, a>>
                        \/ n > 0 /\ q = <<2, n - 1>> /\ ch \in DIGITS
<1>1. HYPHEN \notin UPPER /\ HYPHEN \notin DIGITS
  BY BoundaryAssumption
<1>2. \A n \in 0..4 : First(t, n, UPPER) <=> n > 0 /\ q = <<1, n - 1>> /\ ch \in UPPER
  <2> TAKE n \in 0..4
  <2>1. First(t, n, UPPER) <=> n > 0 /\ First(s, n - 1, UPPER) /\ ch \in UPPER
    BY FirstGrown
  <2>2. n > 0 => n - 1 \in 0..4
    OBVIOUS
  <2> QED
    BY <2>1, <2>2 DEF IdentifierPlace
<1>3. \A n \in 0..8 : Second(t, n, UPPER, DIGITS) <=>
                        \/ n = 0 /\ ch = HYPHEN /\ \E a \in 1..4 : q = <<1, a>>
                        \/ n > 0 /\ q = <<2, n - 1>> /\ ch \in DIGITS
  <2> TAKE n \in 0..8
  <2>1. Second(t, n, UPPER, DIGITS) <=>
                        \/ n = 0 /\ ch = HYPHEN /\ \E a \in 1..4 : First(s, a, UPPER)
                        \/ n > 0 /\ Second(s, n - 1, UPPER, DIGITS) /\ ch \in DIGITS
    BY SecondGrown
  <2>2. n > 0 => n - 1 \in 0..8
    OBVIOUS
  <2>3. \A a \in 1..4 : q = <<1, a>> <=> First(s, a, UPPER)
    BY DEF IdentifierPlace
  <2>4. n > 0 => (q = <<2, n - 1>> <=> Second(s, n - 1, UPPER, DIGITS))
    BY <2>2 DEF IdentifierPlace
  <2> QED
    BY <2>1, <2>3, <2>4
<1>4. SUFFICES Moved
  BY <1>2, <1>3 DEF IdentifierPlace
<1>5. CASE q = Dead
  BY <1>5 DEF Advance, Dead
<1>6. ASSUME NEW k \in 0..4, q = <<1, k>>
      PROVE  Moved
  <2>1. new = IF ch \in UPPER /\ k < 4 THEN <<1, k + 1>>
              ELSE IF ch = HYPHEN /\ k >= 1 THEN <<2, 0>> ELSE Dead
    BY <1>6 DEF Advance, Read, Dead
  <2> HIDE DEF new
  <2> QED
    BY <1>1, <1>6, <2>1 DEF Dead
<1>7. ASSUME NEW k \in 0..8, q = <<2, k>>
      PROVE  Moved
  <2>1. new = IF ch \in DIGITS /\ k < 8 THEN <<2, k + 1>> ELSE Dead
    BY <1>7 DEF Advance, Read, Dead
  <2> HIDE DEF new
  <2> QED
    BY <1>1, <1>7, <2>1 DEF Dead
<1> QED
  BY <1>5, <1>6, <1>7 DEF IdentifierPlace

\* So is one of the plate's.
LEMMA PlateAdvances ==
  ASSUME NEW s, NEW ch, NEW t, Grown(s, ch, t), NEW q, PlatePlace(q, s)
  PROVE  PlatePlace(Advance("plate", q, ch), t)
<1> DEFINE
  new == Advance("plate", q, ch)
  Moved ==
    /\ new = Dead \/ \E g \in 1..3, n \in 0..4 : new = <<g, n>>
    /\ \A n \in 0..4 : new = <<1, n>> <=> n > 0 /\ q = <<1, n - 1>> /\ ch \in ALNUM
    /\ \A n \in 0..4 : new = <<2, n>> <=>
                        \/ n = 0 /\ ch = HYPHEN /\ \E a \in 1..4 : q = <<1, a>>
                        \/ n > 0 /\ q = <<2, n - 1>> /\ ch \in ALNUM
    /\ \A n \in 0..4 : new = <<3, n>> <=>
                        \/ n = 0 /\ ch = HYPHEN /\ \E b \in 1..4 : q = <<2, b>>
                        \/ n > 0 /\ q = <<3, n - 1>> /\ ch \in ALNUM
<1>1. HYPHEN \notin ALNUM
  BY BoundaryAssumption DEF ALNUM
<1>2. \A n \in 0..4 : First(t, n, ALNUM) <=> n > 0 /\ q = <<1, n - 1>> /\ ch \in ALNUM
  <2> TAKE n \in 0..4
  <2>1. First(t, n, ALNUM) <=> n > 0 /\ First(s, n - 1, ALNUM) /\ ch \in ALNUM
    BY FirstGrown
  <2>2. n > 0 => n - 1 \in 0..4
    OBVIOUS
  <2> QED
    BY <2>1, <2>2 DEF PlatePlace
<1>3. \A n \in 0..4 : Second(t, n, ALNUM, ALNUM) <=>
                        \/ n = 0 /\ ch = HYPHEN /\ \E a \in 1..4 : q = <<1, a>>
                        \/ n > 0 /\ q = <<2, n - 1>> /\ ch \in ALNUM
  <2> TAKE n \in 0..4
  <2>1. Second(t, n, ALNUM, ALNUM) <=>
                        \/ n = 0 /\ ch = HYPHEN /\ \E a \in 1..4 : First(s, a, ALNUM)
                        \/ n > 0 /\ Second(s, n - 1, ALNUM, ALNUM) /\ ch \in ALNUM
    BY SecondGrown
  <2>2. n > 0 => n - 1 \in 0..4
    OBVIOUS
  <2>3. \A a \in 1..4 : q = <<1, a>> <=> First(s, a, ALNUM)
    BY DEF PlatePlace
  <2>4. n > 0 => (q = <<2, n - 1>> <=> Second(s, n - 1, ALNUM, ALNUM))
    BY <2>2 DEF PlatePlace
  <2> QED
    BY <2>1, <2>3, <2>4
<1>4. \A n \in 0..4 : Third(t, n, ALNUM) <=>
                        \/ n = 0 /\ ch = HYPHEN /\ \E b \in 1..4 : q = <<2, b>>
                        \/ n > 0 /\ q = <<3, n - 1>> /\ ch \in ALNUM
  <2> TAKE n \in 0..4
  <2>1. Third(t, n, ALNUM) <=>
                        \/ n = 0 /\ ch = HYPHEN /\ \E b \in 1..4 : Second(s, b, ALNUM, ALNUM)
                        \/ n > 0 /\ Third(s, n - 1, ALNUM) /\ ch \in ALNUM
    BY ThirdGrown
  <2>2. n > 0 => n - 1 \in 0..4
    OBVIOUS
  <2>3. \A b \in 1..4 : q = <<2, b>> <=> Second(s, b, ALNUM, ALNUM)
    BY DEF PlatePlace
  <2>4. n > 0 => (q = <<3, n - 1>> <=> Third(s, n - 1, ALNUM))
    BY <2>2 DEF PlatePlace
  <2> QED
    BY <2>1, <2>3, <2>4
<1>5. SUFFICES Moved
  BY <1>2, <1>3, <1>4 DEF PlatePlace
<1>6. CASE q = Dead
  BY <1>6 DEF Advance, Dead
<1>7. ASSUME NEW g \in 1..3, NEW k \in 0..4, q = <<g, k>>
      PROVE  Moved
  <2>1. new = IF ch \in ALNUM /\ k < 4 THEN <<g, k + 1>>
              ELSE IF ch = HYPHEN /\ k >= 1 /\ g < 3 THEN <<g + 1, 0>> ELSE Dead
    BY <1>7 DEF Advance, Read, Dead
  <2> HIDE DEF new
  <2>2. CASE g = 1
    BY <1>1, <1>7, <2>1, <2>2 DEF Dead
  <2>3. CASE g = 2
    BY <1>1, <1>7, <2>1, <2>3 DEF Dead
  <2>4. CASE g = 3
    BY <1>1, <1>7, <2>1, <2>4 DEF Dead
  <2> QED
    BY <2>2, <2>3, <2>4
<1> QED
  BY <1>6, <1>7 DEF PlatePlace

\* And one of the ticket's.
LEMMA TicketAdvances ==
  ASSUME NEW s, NEW ch, NEW t, Grown(s, ch, t), NEW q, TicketPlace(q, s)
  PROVE  TicketPlace(Advance("ticket", q, ch), t)
<1> DEFINE
  new == Advance("ticket", q, ch)
  Moved ==
    /\ new = Dead \/ (\E n \in 0..9 : new = <<1, n>>) \/ \E n \in 0..4 : new = <<2, n>>
    /\ \A n \in 0..9 : new = <<1, n>> <=>
                        \/ n = 1 /\ q = <<1, 0>> /\ ch = T
                        \/ n > 1 /\ q = <<1, n - 1>> /\ ch \in DIGITS
    /\ \A n \in 0..4 : new = <<2, n>> <=>
                        \/ n = 0 /\ q = <<1, 9>> /\ ch = HYPHEN
                        \/ n > 0 /\ q = <<2, n - 1>> /\ ch \in DIGITS
<1>1. HYPHEN \notin DIGITS
  BY BoundaryAssumption
<1>2. \A n \in 0..9 : Date(t, n) <=>
                        \/ n = 1 /\ q = <<1, 0>> /\ ch = T
                        \/ n > 1 /\ q = <<1, n - 1>> /\ ch \in DIGITS
  <2> TAKE n \in 0..9
  <2>1. Date(t, n) <=> \/ n = 1 /\ Date(s, 0) /\ ch = T
                       \/ n > 1 /\ Date(s, n - 1) /\ ch \in DIGITS
    BY DateGrown
  <2>2. n > 1 => n - 1 \in 0..9
    OBVIOUS
  <2>3. q = <<1, 0>> <=> Date(s, 0)
    BY DEF TicketPlace
  <2>4. n > 1 => (q = <<1, n - 1>> <=> Date(s, n - 1))
    BY <2>2 DEF TicketPlace
  <2> QED
    BY <2>1, <2>3, <2>4
<1>3. \A n \in 0..4 : Number(t, n) <=>
                        \/ n = 0 /\ q = <<1, 9>> /\ ch = HYPHEN
                        \/ n > 0 /\ q = <<2, n - 1>> /\ ch \in DIGITS
  <2> TAKE n \in 0..4
  <2>1. Number(t, n) <=> \/ n = 0 /\ Date(s, 9) /\ ch = HYPHEN
                         \/ n > 0 /\ Number(s, n - 1) /\ ch \in DIGITS
    BY NumberGrown
  <2>2. n > 0 => n - 1 \in 0..4
    OBVIOUS
  <2>3. q = <<1, 9>> <=> Date(s, 9)
    BY DEF TicketPlace
  <2>4. n > 0 => (q = <<2, n - 1>> <=> Number(s, n - 1))
    BY <2>2 DEF TicketPlace
  <2> QED
    BY <2>1, <2>3, <2>4
<1>4. SUFFICES Moved
  BY <1>2, <1>3 DEF TicketPlace
<1>5. CASE q = Dead
  BY <1>5 DEF Advance, Dead
<1>6. CASE q = <<1, 0>>
  <2>1. new = IF ch = T THEN <<1, 1>> ELSE Dead
    BY <1>6 DEF Advance, Dead
  <2> HIDE DEF new
  <2>2. CASE ch = T
    BY <1>6, <2>1, <2>2
  <2>3. CASE ch # T
    BY <1>6, <2>1, <2>3 DEF Dead
  <2> QED
    BY <2>2, <2>3
<1>7. ASSUME NEW k \in 1..9, q = <<1, k>>
      PROVE  Moved
  <2>1. new = IF ch \in DIGITS /\ k < 9 THEN <<1, k + 1>>
              ELSE IF ch = HYPHEN /\ k >= 9 THEN <<2, 0>> ELSE Dead
    BY <1>7 DEF Advance, Read, Dead
  <2> HIDE DEF new
  <2>2. CASE ch \in DIGITS /\ k < 9
    BY <1>1, <1>7, <2>1, <2>2
  <2>3. CASE ch = HYPHEN /\ k >= 9
    BY <1>1, <1>7, <2>1, <2>3
  <2>4. CASE ~(ch \in DIGITS /\ k < 9) /\ ~(ch = HYPHEN /\ k >= 9)
    BY <1>1, <1>7, <2>1, <2>4 DEF Dead
  <2> QED
    BY <2>2, <2>3, <2>4
<1>8. ASSUME NEW k \in 0..4, q = <<2, k>>
      PROVE  Moved
  <2>1. new = IF ch \in DIGITS /\ k < 4 THEN <<2, k + 1>> ELSE Dead
    BY <1>8 DEF Advance, Read, Dead
  <2> HIDE DEF new
  <2> QED
    BY <1>1, <1>8, <2>1 DEF Dead
<1>9. \A n \in 0..9 : n = 0 \/ n \in 1..9
  OBVIOUS
<1> QED
  BY <1>5, <1>6, <1>7, <1>8, <1>9 DEF TicketPlace

\* The invariant of reading: every recogniser is where the text has brought it.
Placed ==
  /\ prefix \in Seq(Char)
  /\ DOMAIN place = Use
  /\ IdentifierPlace(place["identifier"], prefix)
  /\ PlatePlace(place["plate"], prefix)
  /\ TicketPlace(place["ticket"], prefix)

\* The empty text ends within the first group, having none of it.
LEMMA PlacedInit == FullmatchInit => Placed
<1> SUFFICES ASSUME FullmatchInit PROVE Placed
  OBVIOUS
<1>1. /\ prefix = << >> /\ DOMAIN place = Use
      /\ \A use \in Use : place[use] = <<1, 0>>
  BY DEF FullmatchInit
<1>2. /\ place["identifier"] = <<1, 0>> /\ place["plate"] = <<1, 0>> /\ place["ticket"] = <<1, 0>>
  BY <1>1 DEF Use
<1>3. \A A, B : \A n \in Nat :
        /\ n = 0 <=> First(<< >>, n, A)
        /\ ~Second(<< >>, n, A, B) /\ ~Third(<< >>, n, A)
  BY DEF First, Second, Third, Within
<1>4. \A n \in Nat : (n = 0 <=> Date(<< >>, n)) /\ ~Number(<< >>, n)
  <2>1. ASSUME NEW n \in Nat PROVE n = 0 <=> Date(<< >>, n)
    <3>1. Len(<< >>) = 0 /\ Within(<< >>, 2, 0, DIGITS)
      BY DEF Within
    <3> QED
      BY <3>1 DEF Date
  <2>2. ASSUME NEW n \in Nat PROVE ~Number(<< >>, n)
    BY DEF Number
  <2> QED
    BY <2>1, <2>2
<1>5. IdentifierPlace(<<1, 0>>, << >>)
  <2>1. \A n \in 0..4 : First(<< >>, n, UPPER) <=> n = 0
    BY <1>3
  <2>2. \A n \in 0..8 : ~Second(<< >>, n, UPPER, DIGITS)
    BY <1>3
  <2> QED
    BY <2>1, <2>2 DEF IdentifierPlace
<1>6. PlatePlace(<<1, 0>>, << >>)
  <2>1. \A n \in 0..4 : First(<< >>, n, ALNUM) <=> n = 0
    BY <1>3
  <2>2. \A n \in 0..4 : ~Second(<< >>, n, ALNUM, ALNUM) /\ ~Third(<< >>, n, ALNUM)
    BY <1>3
  <2> QED
    BY <2>1, <2>2 DEF PlatePlace
<1>7. TicketPlace(<<1, 0>>, << >>)
  BY <1>4 DEF TicketPlace
<1> QED
  BY <1>1, <1>2, <1>5, <1>6, <1>7 DEF Placed

\* Each rule's recogniser advances on its own.
LEMMA PlacedNext == Placed /\ [FullmatchNext]_fullmatchVars => Placed'
<1> SUFFICES ASSUME Placed, [FullmatchNext]_fullmatchVars PROVE Placed'
  OBVIOUS
<1>1. CASE UNCHANGED fullmatchVars
  BY <1>1 DEF Placed, fullmatchVars
<1>2. ASSUME NEW ch \in Char, ReadChar(ch)
      PROVE  Placed'
  <2>1. /\ prefix' = Append(prefix, ch) /\ DOMAIN place' = Use
        /\ \A use \in Use : place'[use] = Advance(use, place[use], ch)
    BY <1>2 DEF ReadChar
  <2>2. prefix' \in Seq(Char) /\ Grown(prefix, ch, prefix')
    BY <2>1, Growing DEF Placed
  <2>3. IdentifierPlace(place'["identifier"], prefix')
    BY <2>1, <2>2, IdentifierAdvances DEF Placed, Use
  <2>4. PlatePlace(place'["plate"], prefix')
    BY <2>1, <2>2, PlateAdvances DEF Placed, Use
  <2>5. TicketPlace(place'["ticket"], prefix')
    BY <2>1, <2>2, TicketAdvances DEF Placed, Use
  <2> QED
    BY <2>1, <2>2, <2>3, <2>4, <2>5 DEF Placed
<1> QED
  BY <1>1, <1>2 DEF FullmatchNext

\* defense/boundary.check allows exactly the texts that a recogniser of the rule's regular
\* expression accepts, for texts of any length over any alphabet.
THEOREM CheckIsFullmatchOfAll == FullmatchSpec => []CheckIsFullmatch
<1>1. ASSUME Placed, NEW use \in Use
      PROVE  Matches(use, prefix) <=> Recognised(use, place[use])
  <2>1. CASE use = "identifier"
    <3> DEFINE q == place["identifier"]
    <3>1. MatchesIdentifier(prefix) <=> \E d \in 4..8 : Second(prefix, d, UPPER, DIGITS)
      BY DEF MatchesIdentifier, Second
    <3>2. IdentifierPlace(q, prefix)
      BY <1>1 DEF Placed
    <3> HIDE DEF q
    <3>3. (\E d \in 4..8 : q = <<2, d>>) <=> q[1] = 2 /\ q[2] >= 4
      BY <3>2 DEF IdentifierPlace, Dead
    <3>4. \A d \in 4..8 : q = <<2, d>> <=> Second(prefix, d, UPPER, DIGITS)
      BY <3>2 DEF IdentifierPlace
    <3> QED
      BY <2>1, <3>1, <3>3, <3>4 DEF Matches, Recognised, q
  <2>2. CASE use = "plate"
    <3> DEFINE q == place["plate"]
    <3>1. MatchesPlate(prefix) <=> \/ \E b \in 1..4 : Second(prefix, b, ALNUM, ALNUM)
                                   \/ \E c \in 1..4 : Third(prefix, c, ALNUM)
      <4> DEFINE At(a, b, c) ==
            /\ Len(prefix) = a + 1 + b + (IF c = 0 THEN 0 ELSE 1 + c)
            /\ Within(prefix, 1, a, ALNUM)
            /\ prefix[a + 1] = HYPHEN
            /\ Within(prefix, a + 2, a + 1 + b, ALNUM)
            /\ c # 0 => prefix[a + b + 2] = HYPHEN
            /\ Within(prefix, a + b + 3, Len(prefix), ALNUM)
      <4>1. MatchesPlate(prefix) <=> \E a, b \in 1..4, c \in 0..4 : At(a, b, c)
        BY DEF MatchesPlate, ALNUM
      <4>2. \A b \in 1..4 : Second(prefix, b, ALNUM, ALNUM) <=> \E a \in 1..4 : At(a, b, 0)
        <5> TAKE b \in 1..4
        <5>1. ASSUME NEW a \in 1..4
              PROVE  At(a, b, 0) <=>
                       /\ Len(prefix) = a + 1 + b /\ Within(prefix, 1, a, ALNUM)
                       /\ prefix[a + 1] = HYPHEN /\ Within(prefix, a + 2, Len(prefix), ALNUM)
          BY DEF Within
        <5> HIDE DEF At
        <5> QED
          BY <5>1 DEF Second
      <4>3. \A c \in 1..4 : Third(prefix, c, ALNUM) <=> \E a, b \in 1..4 : At(a, b, c)
        <5> TAKE c \in 1..4
        <5>1. ASSUME NEW a \in 1..4, NEW b \in 1..4
              PROVE  At(a, b, c) <=>
                       /\ Len(prefix) = a + 1 + b + 1 + c /\ Within(prefix, 1, a, ALNUM)
                       /\ prefix[a + 1] = HYPHEN
                       /\ Within(prefix, a + 2, a + 1 + b, ALNUM) /\ prefix[a + b + 2] = HYPHEN
                       /\ Within(prefix, a + b + 3, Len(prefix), ALNUM)
          OBVIOUS
        <5> HIDE DEF At
        <5> QED
          BY <5>1 DEF Third
      <4> HIDE DEF At
      <4>4. \A c \in 0..4 : c = 0 \/ c \in 1..4
        OBVIOUS
      <4>5. 0 \in 0..4 /\ \A c \in 1..4 : c \in 0..4
        OBVIOUS
      <4> QED
        BY <4>1, <4>2, <4>3, <4>4, <4>5
    <3>2. PlatePlace(q, prefix)
      BY <1>1 DEF Placed
    <3> HIDE DEF q
    <3>3. (\E n \in 1..4 : q = <<2, n>> \/ q = <<3, n>>) <=> q[1] \in {2, 3} /\ q[2] >= 1
      BY <3>2 DEF PlatePlace, Dead
    <3>4. \A n \in 1..4 :
            /\ q = <<2, n>> <=> Second(prefix, n, ALNUM, ALNUM)
            /\ q = <<3, n>> <=> Third(prefix, n, ALNUM)
      BY <3>2 DEF PlatePlace
    <3>5. MatchesPlate(prefix) <=> q[1] \in {2, 3} /\ q[2] >= 1
      <4>1. (\E n \in 1..4 : q = <<2, n>>) <=> \E b \in 1..4 : Second(prefix, b, ALNUM, ALNUM)
        BY <3>4
      <4>2. (\E n \in 1..4 : q = <<3, n>>) <=> \E c \in 1..4 : Third(prefix, c, ALNUM)
        BY <3>4
      <4> QED
        BY <3>1, <3>3, <4>1, <4>2
    <3> QED
      BY <2>2, <3>5 DEF Matches, Recognised, q
  <2>3. CASE use = "ticket"
    <3> DEFINE q == place["ticket"]
    <3>1. MatchesTicket(prefix) <=> Number(prefix, 4)
      <4>1. Len(prefix) = 14 <=> Len(prefix) = 10 + 4
        OBVIOUS
      <4> QED
        BY <4>1 DEF MatchesTicket, Number
    <3>2. q = <<2, 4>> <=> Number(prefix, 4)
      BY <1>1 DEF Placed, TicketPlace
    <3> QED
      BY <2>3, <3>1, <3>2 DEF Matches, Recognised
  <2> QED
    BY <2>1, <2>2, <2>3 DEF Use
<1>2. Placed => CheckIsFullmatch
  BY <1>1, CheckIsThePattern DEF CheckIsFullmatch, Placed
<1> QED
  BY <1>2, PlacedInit, PlacedNext, PTL DEF FullmatchSpec

-----------------------------------------------------------------------------
(***************************************************************************)
(* The call.  A row is a function of the run, the run of what the tier had *)
(* said when the call returned, and the tier may go on after a call that   *)
(* returned loose: the invariant therefore says of each of the three what  *)
(* the next one is computed from.                                          *)
(***************************************************************************)

Active == payload.text = "active"
Right == IF Active THEN "true" ELSE "false"
Benign == payload.family = "benign"

\* The stages before the handler has decided, and those after it has answered
Early == {"absent", "boot", "check", "lookup"}
Late == {"hash", "print", "printed", "dead"}

\* Where the tier is: what it has done by then, and what was printed.
Way ==
  /\ at = "absent" => phase = "open"
  /\ at # "absent" => Delivered(payload.status)
  /\ at \in Early => sinks = {} /\ granted = "none" /\ ~secret
  /\ Validates(mode) /\ (at \in {"lookup", "audit"} \/ sinks # {}) => payload.reason = "ok"
  /\ answer = "torn" => at \in {"print", "dead"}
  /\ answer = "whole" => at \in {"printed", "dead"}
  /\ at = "printed" => answer = "whole"
  /\ at = "dead" /\ ~faulted => answer = "whole"
  /\ timedOut => faulted

\* The outcome: of this mode, blocked only by a check before any sink.
Told ==
  /\ outcome.mode = mode /\ ~outcome.gated
  /\ ~(outcome.blocked /\ outcome.error)
  /\ at \notin Late => ~outcome.blocked /\ ~outcome.error
  /\ outcome.blocked => Validates(mode) /\ sinks = {}

\* The canary files: left by a rewritten shell command only.
Left ==
  /\ effects # {} => "audit" \in sinks /\ ShellRuns
  /\ reported \subseteq effects

\* What a control in force leaves of the decision, and what a benign record gets.
Decided ==
  /\ mode # "off" => ~secret /\ (granted = "true" => Active)
  /\ table # "other"
  /\ Benign /\ ~faulted =>
       /\ ~outcome.blocked /\ ~outcome.error /\ ~secret
       /\ at \notin Early => granted = Right \/ (at = "dead" /\ answer # "whole")

\* What the call brought back.
Brought ==
  /\ run # NoRun <=> phase \in {"returned", "loose"}
  /\ run # NoRun =>
       /\ ValidOutcome(run.outcome)
       /\ run.crashed => run.outcome.error
       /\ ~run.crashed => answer = "whole"
       /\ run.table # "other"
       /\ mode # "off" => ~run.secret /\ ~run.own /\ (run.granted = "true" => Active)
       /\ phase = "returned" => (run.own <=> OwnName \in effects)
       /\ Benign /\ ~faulted =>
            /\ ~run.crashed /\ ~run.secret /\ ~run.own /\ run.granted = Right
            /\ ~run.outcome.error /\ ~run.outcome.blocked /\ ~run.outcome.gated

\* The row: of that run, or of the record alone.
Concluded ==
  row # NoRow =>
    IF Delivered(payload.status)
    THEN run # NoRun /\ row = DeliveredRow(payload.family, payload.status, Active, run)
    ELSE row = UndeliveredRow(payload.family, payload.status, mode)

IInv == TypeOK /\ Way /\ Told /\ Left /\ Decided /\ Brought /\ Concluded

-----------------------------------------------------------------------------
\* What PayloadAssumption says of the payload of this call.
LEMMA PayloadFacts ==
  ASSUME TypeOK
  PROVE  /\ payload.family \in {"malformed", "injection", "benign"}
         /\ payload.status \in DecodeStatus
         /\ payload.reason = "ok" => payload.sql = "literal" /\ payload.shell = "literal"
         /\ Benign => payload.reason = "ok"
         /\ payload.sql \in Sinks /\ payload.shell \in Sinks
BY PayloadAssumption DEF TypeOK, Benign

LEMMA ModeFacts ==
  ASSUME TypeOK
  PROVE  /\ mode \in {"off", "validate_only", "parameterise_only", "full"}
         /\ mode # "off" => Validates(mode) \/ Parameterises(mode)
         /\ Validates(mode) => mode \in VALIDATING_MODES
BY DEF TypeOK, VALID_MODES, Validates, Parameterises, VALIDATING_MODES

LEMMA NoRunIsNoRun == NoRun \notin Runs
<1>1. \A r \in Runs : DOMAIN r = {"outcome", "granted", "secret", "table", "own", "crashed"}
  BY DEF Runs
<1>2. DOMAIN NoRun = {"none"}
  BY DEF NoRun
<1> QED
  BY <1>1, <1>2

\* The outcomes the handler and main make of o are outcomes, and say what they say.
LEMMA HandledFacts ==
  ASSUME NEW o \in Outcomes
  PROVE  /\ Handled(o) \in Outcomes
         /\ Handled(o).mode = o.mode /\ Handled(o).gated = o.gated
         /\ Handled(o).blocked = o.blocked /\ Handled(o).error = o.error
<1> DEFINE d == Validates(mode)
<1>1. d \in BOOLEAN
  BY DEF Validates
<1>2. Handled(o) = [ o EXCEPT !.handle_ns = TRUE, !.defense_ns = d ]
  BY DEF Handled
<1> HIDE DEF d
<1>3. Handled(o) \in Outcomes
  BY <1>1, <1>2 DEF Outcomes
<1>4. Handled(o).mode = o.mode /\ Handled(o).gated = o.gated
  BY <1>1, <1>2 DEF Outcomes
<1>5. Handled(o).blocked = o.blocked /\ Handled(o).error = o.error
  BY <1>1, <1>2 DEF Outcomes
<1> QED
  BY <1>3, <1>4, <1>5

LEMMA FlagFacts ==
  ASSUME NEW o \in Outcomes
  PROVE  LET e == [ o EXCEPT !.error = TRUE ]
             b == [ o EXCEPT !.blocked = TRUE ]
         IN /\ e \in Outcomes /\ b \in Outcomes
            /\ e.error /\ e.mode = o.mode /\ e.gated = o.gated /\ e.blocked = o.blocked
            /\ b.blocked /\ b.mode = o.mode /\ b.gated = o.gated /\ b.error = o.error
<1> DEFINE e == [ o EXCEPT !.error = TRUE ]
           b == [ o EXCEPT !.blocked = TRUE ]
<1>1. e \in Outcomes /\ b \in Outcomes
  BY DEF Outcomes
<1>2. e.error = TRUE /\ e.mode = o.mode /\ e.gated = o.gated /\ e.blocked = o.blocked
  BY DEF Outcomes
<1>3. b.blocked = TRUE /\ b.mode = o.mode /\ b.gated = o.gated /\ b.error = o.error
  BY DEF Outcomes
<1> QED
  BY <1>1, <1>2, <1>3

LEMMA BareFacts ==
  ASSUME TypeOK
  PROVE  LET o == BareOutcome(mode) IN
         o \in Outcomes /\ o.mode = mode /\ ~o.gated /\ ~o.blocked /\ ~o.error
BY ModeFacts DEF BareOutcome, Outcomes, Mode

\* An outcome that is told as Told says is one the contract accepts.
LEMMA ValidFacts ==
  ASSUME TypeOK, NEW o \in Outcomes, o.mode = mode, ~o.gated, ~(o.blocked /\ o.error),
         o.blocked => Validates(mode)
  PROVE  ValidOutcome(o)
<1>1. o.tier = "tier1"
  BY DEF Outcomes
<1> QED
  BY <1>1, ModeFacts DEF ValidOutcome, TypeOK

-----------------------------------------------------------------------------
LEMMA InitIInv == Init => IInv
<1> SUFFICES ASSUME Init PROVE IInv
  OBVIOUS
<1>1. TypeOK
  <2>1. payload \in Payloads /\ mode \in VALID_MODES["tier1"]
    BY DEF Init
  <2>2. outcome \in Outcomes
    <3>1. mode \in Mode
      BY <2>1 DEF VALID_MODES, Mode
    <3> QED
      BY <3>1 DEF Init, BareOutcome, Outcomes
  <2> QED
    BY <2>1, <2>2 DEF Init, TypeOK, Box!Init, Stages, Grants, Tables
<1>2. Told
  BY <1>1, BareFacts DEF Told, Init
<1>3. Decided
  BY <1>1, BareFacts DEF Init, Decided, Early
<1> QED
  BY <1>1, <1>2, <1>3 DEF Init, IInv, Way, Left, Brought, Concluded, Box!Init, Early

-----------------------------------------------------------------------------
\* A step of the tier but for its shell: nothing of the call or of the host changes.
TierAlone ==
  \/ Boot \/ Check \/ LookupLiteral \/ LookupRewritten \/ LookupFails
  \/ AuditStarts \/ AuditEnds \/ AuditFails \/ HandleRaises
  \/ HashTable \/ PrintAnswer \/ Exit \/ Killed

LEMMA WorkKept == ASSUME Next PROVE UNCHANGED work
BY DEF Next, Tier, Boot, Check, LookupLiteral, LookupRewritten, LookupFails, ShellLeaves, AuditStarts,
       AuditEnds, AuditFails, HandleRaises, HashTable, PrintAnswer, Exit, Killed, RowWithoutCall,
       Invoke, DeadlinePasses, Stopped, JoinExpires, Return, Raise, Judge, Done, vars

LEMMA AloneKeeps ==
  ASSUME TierAlone
  PROVE  /\ UNCHANGED << timedOut, run, row, phase, effects, reported >>
         /\ faulted => faulted'
         /\ Alive
<1>1. CASE Boot \/ Check \/ LookupLiteral \/ LookupRewritten
  BY <1>1 DEF Boot, Check, LookupLiteral, LookupRewritten, host, call, Alive
<1>2. CASE LookupFails
  BY <1>2 DEF LookupFails, host, call, Alive
<1>3. CASE AuditStarts \/ AuditEnds \/ AuditFails \/ HandleRaises
  BY <1>3 DEF AuditStarts, AuditEnds, AuditFails, HandleRaises, host, call, Alive
<1>4. CASE HashTable \/ PrintAnswer \/ Exit \/ Killed
  BY <1>4 DEF HashTable, PrintAnswer, Exit, Killed, host, call, Alive
<1> QED
  BY <1>1, <1>2, <1>3, <1>4 DEF TierAlone

\* What a call reports is a run.
LEMMA RunFromFacts ==
  ASSUME TypeOK, NEW files
  PROVE  LET r == RunFrom(files) IN
         /\ r \in Runs
         /\ r.own <=> OwnName \in files
         /\ r.crashed <=> answer # "whole"
         /\ answer = "whole" => r.outcome = outcome /\ r.granted = granted /\ r.secret = secret
                                /\ r.table = table
         /\ answer # "whole" => r.outcome = [ BareOutcome(mode) EXCEPT !.error = TRUE ]
                                /\ r.granted = "none" /\ ~r.secret /\ r.table = "none"
<1> DEFINE o == IF answer = "whole" THEN outcome ELSE [ BareOutcome(mode) EXCEPT !.error = TRUE ]
<1>1. o \in Outcomes
  BY BareFacts, FlagFacts DEF TypeOK
<1> HIDE DEF o
<1>2. RunFrom(files) =
        [ outcome |-> o,
          granted |-> IF answer = "whole" THEN granted ELSE "none",
          secret |-> answer = "whole" /\ secret,
          table |-> IF answer = "whole" THEN table ELSE "none",
          own |-> OwnName \in files, crashed |-> answer # "whole" ]
  BY DEF RunFrom, o
<1>3. RunFrom(files) \in Runs
  <2> DEFINE g == IF answer = "whole" THEN granted ELSE "none"
             t == IF answer = "whole" THEN table ELSE "none"
             sec == answer = "whole" /\ secret
             own == OwnName \in files
             crashed == answer # "whole"
  <2>1. g \in Grants /\ t \in Tables /\ sec \in BOOLEAN
    BY DEF TypeOK, Grants, Tables
  <2>2. RunFrom(files) = [ outcome |-> o, granted |-> g, secret |-> sec, table |-> t,
                           own |-> own, crashed |-> crashed ]
    BY <1>2
  <2>3. own \in BOOLEAN /\ crashed \in BOOLEAN
    OBVIOUS
  <2> HIDE DEF g, t, sec, own, crashed
  <2> QED
    BY <1>1, <2>1, <2>2, <2>3 DEF Runs
<1>4. RunFrom(files).own = (OwnName \in files) /\ RunFrom(files).crashed = (answer # "whole")
      /\ RunFrom(files).secret = (answer = "whole" /\ secret)
  BY <1>2
<1>5. RunFrom(files).outcome = o
      /\ RunFrom(files).granted = (IF answer = "whole" THEN granted ELSE "none")
      /\ RunFrom(files).table = (IF answer = "whole" THEN table ELSE "none")
  BY <1>2
<1>6. secret \in BOOLEAN
  BY DEF TypeOK
<1> HIDE DEF o
<1> QED
  BY <1>3, <1>4, <1>5, <1>6 DEF o

LEMMA TypeKeeps == ASSUME IInv, Next PROVE TypeOK'
<1>1. TypeOK /\ Told /\ UNCHANGED work
  BY WorkKept DEF IInv
<1>2. CASE TierAlone
  <2>1. UNCHANGED << payload, mode, timedOut, run, row, phase, effects, reported >>
    BY <1>1, <1>2, AloneKeeps DEF work
  <2>2. outcome' \in Outcomes
    <3>1. \/ outcome' = outcome \/ outcome' = Handled(outcome)
          \/ outcome' = [ Handled(outcome) EXCEPT !.blocked = TRUE ]
          \/ outcome' = [ Handled(outcome) EXCEPT !.error = TRUE ]
          \/ outcome' = [ BareOutcome(mode) EXCEPT !.error = TRUE ]
      BY <1>2
      DEF TierAlone, Boot, Check, LookupLiteral, LookupRewritten, LookupFails, AuditStarts, AuditEnds,
          AuditFails, HandleRaises, HashTable, PrintAnswer, Exit, Killed, tier
    <3>2. outcome \in Outcomes
      BY <1>1 DEF TypeOK
    <3>3. Handled(outcome) \in Outcomes /\ BareOutcome(mode) \in Outcomes
      BY <1>1, <3>2, HandledFacts, BareFacts
    <3> QED
      BY <3>1, <3>2, <3>3, FlagFacts
  <2>3. at' \in Stages /\ answer' \in {"none", "torn", "whole"}
    BY <1>1, <1>2
    DEF TierAlone, Boot, Check, LookupLiteral, LookupRewritten, LookupFails, AuditStarts, AuditEnds,
        AuditFails, HandleRaises, HashTable, PrintAnswer, Exit, Killed, tier, TypeOK, Stages
  <2>4. granted' \in Grants /\ secret' \in BOOLEAN /\ table' \in Tables
    BY <1>1, <1>2
    DEF TierAlone, Boot, Check, LookupLiteral, LookupRewritten, LookupFails, AuditStarts, AuditEnds,
        AuditFails, HandleRaises, HashTable, PrintAnswer, Exit, Killed, tier, TypeOK, Grants, Tables
  <2>5. sinks' \subseteq {"lookup", "audit"} /\ faulted' \in BOOLEAN
    BY <1>1, <1>2
    DEF TierAlone, Boot, Check, LookupLiteral, LookupRewritten, LookupFails, AuditStarts, AuditEnds,
        AuditFails, HandleRaises, HashTable, PrintAnswer, Exit, Killed, tier, TypeOK
  <2> QED
    BY <1>1, <2>1, <2>2, <2>3, <2>4, <2>5 DEF TypeOK
<1>3. CASE \E n \in CanaryNames : ShellLeaves(n)
  BY <1>1, <1>3 DEF ShellLeaves, Box!Effect, TypeOK, work, tier, host
<1>4. CASE Return
  <2>1. run' \in Runs /\ UNCHANGED << at, tier, answer, faulted, timedOut, row >>
    BY <1>1, <1>4, RunFromFacts DEF Return
  <2> QED
    BY <1>1, <1>4, <2>1 DEF Return, Box!Return, Box!ReturnLoose, TypeOK, work, tier
<1>5. CASE RowWithoutCall \/ Invoke \/ DeadlinePasses \/ Stopped \/ JoinExpires \/ Raise \/ Judge \/ Done
  <2>1. UNCHANGED << payload, mode, tier, run, effects, reported >>
    BY <1>5 DEF RowWithoutCall, Invoke, DeadlinePasses, Stopped, JoinExpires, Raise, Judge, Done,
       Box!Raise, work, host, call, vars
  <2>2. at' \in Stages /\ answer' \in {"none", "torn", "whole"}
    BY <1>1, <1>5 DEF RowWithoutCall, Invoke, DeadlinePasses, Stopped, JoinExpires, Raise, Judge, Done,
       vars, host, TypeOK, Stages
  <2>3. phase' \in {"open", "returned", "loose", "raised"}
    BY <1>1, <1>5 DEF RowWithoutCall, Invoke, DeadlinePasses, Stopped, JoinExpires, Raise, Judge, Done,
       Box!Raise, call, vars, TypeOK
  <2>4. faulted' \in BOOLEAN /\ timedOut' \in BOOLEAN
    BY <1>1, <1>5 DEF RowWithoutCall, Invoke, DeadlinePasses, Stopped, JoinExpires, Raise, Judge, Done,
       vars, host, TypeOK
  <2>5. tier' = tier => UNCHANGED << outcome, granted, secret, table, sinks >>
    BY DEF tier
  <2>6. TypeOK
    BY <1>1
  <2> QED
    BY <2>1, <2>2, <2>3, <2>4, <2>5, <2>6 DEF TypeOK
<1> QED
  BY <1>2, <1>3, <1>4, <1>5 DEF Next, Tier, TierAlone

LEMMA WayKeeps == ASSUME IInv, Next PROVE Way'
<1>1. TypeOK /\ Way /\ UNCHANGED << payload, mode >>
  BY WorkKept DEF IInv, work
<1>2. CASE TierAlone
  <2>1. UNCHANGED << timedOut, phase >> /\ (faulted => faulted')
    BY <1>2, AloneKeeps
  <2>2. CASE Boot \/ Check
    BY <1>1, <2>1, <2>2 DEF Boot, Check, Way, Early, tier
  <2>3. CASE LookupLiteral \/ LookupRewritten \/ LookupFails
    BY <1>1, <2>1, <2>3 DEF LookupLiteral, LookupRewritten, LookupFails, Way, Early
  <2>4. CASE AuditStarts \/ AuditEnds \/ AuditFails
    BY <1>1, <2>1, <2>4 DEF AuditStarts, AuditEnds, AuditFails, Way, Early
  <2>5. CASE HandleRaises \/ HashTable
    BY <1>1, <2>1, <2>5 DEF HandleRaises, HashTable, Way, Early
  <2>6. CASE PrintAnswer
    BY <1>1, <2>1, <2>6 DEF PrintAnswer, Way, Early, tier, TypeOK
  <2>7. CASE Exit \/ Killed
    BY <1>1, <2>1, <2>7 DEF Exit, Killed, Way, Early, tier, Alive
  <2> QED
    BY <1>2, <2>2, <2>3, <2>4, <2>5, <2>6, <2>7 DEF TierAlone
<1>3. CASE \E n \in CanaryNames : ShellLeaves(n)
  BY <1>1, <1>3 DEF ShellLeaves, Box!Effect, Way, tier
<1>4. CASE Return \/ Raise
  BY <1>1, <1>4 DEF Return, Raise, Box!Return, Box!ReturnLoose, Box!Raise, Way, tier
<1>5. CASE RowWithoutCall \/ Invoke \/ Judge \/ Done
  BY <1>1, <1>5 DEF RowWithoutCall, Invoke, Judge, Done, vars, Way, Early, tier, call
<1>6. CASE DeadlinePasses \/ Stopped \/ JoinExpires
  BY <1>1, <1>6 DEF DeadlinePasses, Stopped, JoinExpires, Way, Early, tier, call, Alive
<1> QED
  BY <1>2, <1>3, <1>4, <1>5, <1>6 DEF Next, Tier, TierAlone

\* Only the tier changes what it has told and decided.
LEMMA OthersTellNothing ==
  ASSUME Next, ~TierAlone
  PROVE  /\ UNCHANGED << outcome, granted, secret, table, sinks >>
         /\ at' = at \/ at' = "dead" \/ (at = "absent" /\ at' = "boot")
         /\ faulted => faulted'
BY DEF Next, Tier, TierAlone, ShellLeaves, RowWithoutCall, Invoke, DeadlinePasses, Stopped, JoinExpires,
       Return, Raise, Judge, Done, vars, tier

LEMMA ToldKeeps == ASSUME IInv, Next PROVE Told'
<1>1. TypeOK /\ Told /\ Way /\ outcome \in Outcomes /\ UNCHANGED << payload, mode >>
  BY WorkKept DEF IInv, work, TypeOK
<1>2. CASE TierAlone
  <2> DEFINE h == Handled(outcome)
             bare == BareOutcome(mode)
  <2>1. /\ h \in Outcomes /\ h.mode = mode /\ ~h.gated
        /\ h.blocked = outcome.blocked /\ h.error = outcome.error
    BY <1>1, HandledFacts DEF Told
  <2>2. bare \in Outcomes /\ bare.mode = mode /\ ~bare.gated /\ ~bare.blocked /\ ~bare.error
    BY <1>1, BareFacts
  <2> HIDE DEF h, bare
  <2>3. CASE Check
    <3>1. CASE outcome' = outcome /\ at' = "lookup" /\ at = "check" /\ sinks' = sinks
      BY <1>1, <3>1 DEF Told, Late
    <3>2. CASE /\ outcome' = [ h EXCEPT !.blocked = TRUE ] /\ at' = "hash" /\ at = "check"
               /\ sinks' = sinks /\ Validates(mode)
      <4>1. outcome'.blocked /\ outcome'.mode = h.mode /\ outcome'.gated = h.gated
            /\ outcome'.error = h.error
        BY <2>1, <3>2, FlagFacts
      <4> QED
        BY <1>1, <2>1, <3>2, <4>1 DEF Told, Way, Late, Early, Validates
    <3> QED
      BY <2>3, <3>1, <3>2 DEF Check, h
  <2>4. CASE LookupFails \/ AuditFails
    <3>1. outcome' = [ h EXCEPT !.error = TRUE ] /\ at' = "hash" /\ at \notin Late
      BY <2>4 DEF LookupFails, AuditFails, h, Late
    <3>2. outcome'.error /\ outcome'.mode = h.mode /\ outcome'.gated = h.gated
          /\ outcome'.blocked = h.blocked
      BY <2>1, <3>1, FlagFacts
    <3> QED
      BY <1>1, <2>1, <3>1, <3>2 DEF Told, Late
  <2>5. CASE HandleRaises
    <3>1. outcome' = [ bare EXCEPT !.error = TRUE ] /\ at' = "hash"
      BY <2>5 DEF HandleRaises, bare
    <3>2. outcome'.error /\ outcome'.mode = bare.mode /\ outcome'.gated = bare.gated
          /\ outcome'.blocked = bare.blocked
      BY <2>2, <3>1, FlagFacts
    <3> QED
      BY <1>1, <2>2, <3>1, <3>2 DEF Told, Late
  <2>6. CASE AuditEnds
    <3>1. outcome' = h /\ at' = "hash" /\ at \notin Late
      BY <2>6 DEF AuditEnds, h, Late
    <3> QED
      BY <1>1, <2>1, <3>1 DEF Told, Late
  <2>7. CASE LookupLiteral \/ LookupRewritten \/ AuditStarts
    BY <1>1, <2>7 DEF LookupLiteral, LookupRewritten, AuditStarts, Told, Late
  <2>8. CASE Boot \/ HashTable \/ PrintAnswer \/ Exit \/ Killed
    BY <1>1, <2>8 DEF Boot, HashTable, PrintAnswer, Exit, Killed, Told, Late, tier
  <2> QED
    BY <1>2, <2>3, <2>4, <2>5, <2>6, <2>7, <2>8 DEF TierAlone
<1>3. CASE ~TierAlone
  <2>1. UNCHANGED << outcome, sinks >> /\ (at' = at \/ at' = "dead" \/ (at = "absent" /\ at' = "boot"))
    BY <1>3, OthersTellNothing
  <2> QED
    BY <1>1, <2>1 DEF Told, Late
<1> QED
  BY <1>2, <1>3

LEMMA LeftKeeps == ASSUME IInv, Next PROVE Left'
<1>1. TypeOK /\ Left /\ UNCHANGED << payload, mode >>
  BY WorkKept DEF IInv, work
<1>2. sinks \subseteq sinks' /\ ShellRuns' = ShellRuns
  BY <1>1 DEF Next, Tier, Boot, Check, LookupLiteral, LookupRewritten, LookupFails, ShellLeaves,
     AuditStarts, AuditEnds, AuditFails, HandleRaises, HashTable, PrintAnswer, Exit, Killed,
     RowWithoutCall, Invoke, DeadlinePasses, Stopped, JoinExpires, Return, Raise, Judge, Done, vars,
     tier, ShellRuns
<1>3. CASE TierAlone
  BY <1>1, <1>2, <1>3, AloneKeeps DEF Left
<1>4. CASE \E n \in CanaryNames : ShellLeaves(n)
  BY <1>1, <1>2, <1>4 DEF ShellLeaves, Box!Effect, Left
<1>5. CASE Return \/ Raise
  BY <1>1, <1>2, <1>5 DEF Return, Raise, Box!Return, Box!ReturnLoose, Box!Raise, Left
<1>6. CASE RowWithoutCall \/ Invoke \/ DeadlinePasses \/ Stopped \/ JoinExpires \/ Judge \/ Done
  BY <1>1, <1>2, <1>6 DEF RowWithoutCall, Invoke, DeadlinePasses, Stopped, JoinExpires, Judge, Done,
     vars, call, Left
<1> QED
  BY <1>3, <1>4, <1>5, <1>6 DEF Next, Tier, TierAlone

\* A control that is on keeps the text from the shell, and so does a benign text itself.
LEMMA NoFiles ==
  ASSUME TypeOK, Way, Left, mode # "off" \/ Benign
  PROVE  effects = {} /\ reported = {}
<1>1. sinks # {} => ~ShellRuns
  BY PayloadFacts, ModeFacts DEF Way, ShellRuns
<1> QED
  BY <1>1 DEF Left

LEMMA DecidedKeeps == ASSUME IInv, Next PROVE Decided'
<1>1. TypeOK /\ Way /\ Told /\ Decided /\ UNCHANGED << payload, mode >>
  BY WorkKept DEF IInv, work
<1>2. UNCHANGED << Active, Right, Benign >>
  BY <1>1 DEF Active, Right, Benign
<1>3. CASE TierAlone
  <2>1. faulted => faulted'
    BY <1>3, AloneKeeps
  <2>2. CASE Check
    <3>1. CASE outcome' = outcome /\ at' = "lookup" /\ granted' = granted
      BY <1>1, <1>2, <2>1, <2>2, <3>1 DEF Check, Decided, Early
    <3>2. CASE granted' = "false" /\ Validates(mode) /\ payload.reason # "ok"
      BY <1>1, <1>2, <2>1, <2>2, <3>2, PayloadFacts DEF Check, Decided
    <3> QED
      BY <2>2, <3>1, <3>2 DEF Check
  <2>3. CASE LookupLiteral
    BY <1>1, <1>2, <2>1, <2>3 DEF LookupLiteral, Decided, Active, Right
  <2>4. CASE LookupRewritten \/ LookupFails
    <3>1. ~Parameterises(mode) /\ payload.sql # "literal" /\ at = "lookup" /\ table' = table
      BY <2>4 DEF LookupRewritten, LookupFails
    <3>2. ~Benign /\ mode = "off"
      BY <1>1, <3>1, PayloadFacts, ModeFacts DEF Way
    <3> QED
      BY <1>1, <1>2, <3>1, <3>2 DEF Decided
  <2>5. CASE AuditEnds
    <3>1. /\ outcome'.blocked = outcome.blocked /\ outcome'.error = outcome.error
          /\ at = "audit" /\ at' = "hash" /\ UNCHANGED << granted, secret, table, faulted >>
      BY <1>1, <2>5, HandledFacts DEF AuditEnds, TypeOK
    <3> QED
      BY <1>1, <1>2, <3>1 DEF Decided, Early
  <2>6. CASE AuditFails \/ HandleRaises
    BY <1>1, <1>2, <2>6 DEF AuditFails, HandleRaises, Decided
  <2>7. CASE AuditStarts \/ Boot \/ HashTable
    BY <1>1, <1>2, <2>7 DEF AuditStarts, Boot, HashTable, Decided, Early, tier
  <2>8. CASE PrintAnswer \/ Exit \/ Killed
    BY <1>1, <1>2, <2>8 DEF PrintAnswer, Exit, Killed, Decided, Early, tier, Alive
  <2> QED
    BY <1>3, <2>2, <2>3, <2>4, <2>5, <2>6, <2>7, <2>8 DEF TierAlone
<1>4. CASE ~TierAlone
  <2>1. CASE Stopped \/ JoinExpires
    BY <1>1, <1>2, <2>1 DEF Stopped, JoinExpires, Decided, Way, tier
  <2>2. CASE RowWithoutCall \/ Invoke \/ DeadlinePasses \/ Judge \/ Done
    BY <1>1, <1>2, <2>2 DEF RowWithoutCall, Invoke, DeadlinePasses, Judge, Done, vars, tier, Decided, Early
  <2>3. CASE Return \/ Raise \/ \E n \in CanaryNames : ShellLeaves(n)
    BY <1>1, <1>2, <2>3 DEF Return, Raise, ShellLeaves, tier, Decided
  <2> QED
    BY <1>4, <2>1, <2>2, <2>3 DEF Next, Tier, TierAlone
<1> QED
  BY <1>3, <1>4

\* After the call has returned, nothing takes an answer back.
LEMMA AnswerStays ==
  ASSUME IInv, Next, answer = "whole", phase # "open"
  PROVE  answer' = "whole"
BY DEF IInv, Way, Next, Tier, Boot, Check, LookupLiteral, LookupRewritten, LookupFails, ShellLeaves,
       AuditStarts, AuditEnds, AuditFails, HandleRaises, HashTable, PrintAnswer, Exit, Killed,
       RowWithoutCall, Invoke, DeadlinePasses, Stopped, JoinExpires, Return, Box!Return,
       Box!ReturnLoose, Raise, Judge, Done, vars

\* The same run after a step of something else.
LEMMA RunStays ==
  ASSUME IInv, Next, UNCHANGED << run, phase >>, phase = "returned" => UNCHANGED effects
  PROVE  Brought'
<1>1. UNCHANGED << payload, mode, Active, Right, Benign >>
  BY WorkKept DEF work, Active, Right, Benign
<1>2. faulted => faulted'
  BY AloneKeeps, OthersTellNothing
<1>3. Brought /\ (answer = "whole" /\ phase # "open" => answer' = "whole")
  BY AnswerStays DEF IInv
<1> QED
  BY <1>1, <1>2, <1>3 DEF Brought

LEMMA BroughtKeeps == ASSUME IInv, Next PROVE Brought'
<1>1. TypeOK /\ Way /\ Told /\ Left /\ Decided /\ Brought
  BY DEF IInv
<1>2. CASE TierAlone
  BY <1>2, AloneKeeps, RunStays
<1>3. CASE \E n \in CanaryNames : ShellLeaves(n)
  BY <1>3, RunStays DEF ShellLeaves, Box!Effect, host
<1>4. CASE Return
  <2> DEFINE r == RunFrom(reported')
  <2>1. UNCHANGED << payload, mode, Active, Right, Benign >>
    BY WorkKept DEF work, Active, Right, Benign
  <2>2. /\ run' = r /\ phase' \in {"returned", "loose"} /\ reported' \subseteq effects
        /\ effects' = effects /\ UNCHANGED << answer, faulted >>
        /\ phase' = "returned" => reported' = effects
        /\ at = "dead" \/ timedOut
    BY <1>4 DEF Return, Box!Return, Box!ReturnLoose
  <2>3. /\ r \in Runs
        /\ r.own <=> OwnName \in reported'
        /\ r.crashed <=> answer # "whole"
        /\ answer = "whole" => r.outcome = outcome /\ r.granted = granted /\ r.secret = secret
                               /\ r.table = table
        /\ answer # "whole" => r.outcome = [ BareOutcome(mode) EXCEPT !.error = TRUE ]
                               /\ r.granted = "none" /\ ~r.secret /\ r.table = "none"
    BY <1>1, RunFromFacts
  <2> HIDE DEF r
  <2>4. r # NoRun
    BY <2>3, NoRunIsNoRun
  <2>5. ValidOutcome(r.outcome) /\ (r.crashed => r.outcome.error)
    <3>1. CASE answer = "whole"
      BY <1>1, <2>3, <3>1, ValidFacts DEF TypeOK, Told
    <3>2. CASE answer # "whole"
      <4> DEFINE bare == BareOutcome(mode)
                 o == [ bare EXCEPT !.error = TRUE ]
      <4>1. bare \in Outcomes /\ bare.mode = mode /\ ~bare.gated /\ ~bare.blocked
        BY <1>1, BareFacts
      <4> HIDE DEF bare
      <4>2. o \in Outcomes /\ o.error /\ o.mode = mode /\ ~o.gated /\ ~o.blocked
        BY <4>1, FlagFacts
      <4> HIDE DEF o
      <4>3. ValidOutcome(o)
        BY <1>1, <4>2, ValidFacts
      <4>4. r.outcome = o
        BY <2>3, <3>2 DEF o, bare
      <4> QED
        BY <4>2, <4>3, <4>4
    <3> QED
      BY <3>1, <3>2
  <2>6. mode # "off" => ~r.secret /\ ~r.own /\ (r.granted = "true" => Active)
    BY <1>1, <2>2, <2>3, NoFiles DEF Decided
  <2>7. ASSUME Benign, ~faulted
        PROVE  /\ ~r.crashed /\ ~r.secret /\ ~r.own /\ r.granted = Right
               /\ ~r.outcome.error /\ ~r.outcome.blocked /\ ~r.outcome.gated
    <3>1. at = "dead" /\ answer = "whole"
      BY <1>1, <2>2, <2>7 DEF Way
    <3>2. OwnName \notin reported'
      BY <1>1, <2>2, <2>7, NoFiles
    <3> QED
      BY <1>1, <2>3, <2>7, <3>1, <3>2 DEF Decided, Told, Early
  <2>8. r.table # "other"
    BY <1>1, <2>3 DEF Decided
  <2> QED
    BY <2>1, <2>2, <2>3, <2>4, <2>5, <2>6, <2>7, <2>8 DEF Brought
<1>5. CASE Raise
  BY <1>1, <1>5 DEF Raise, Box!Raise, Brought, host
<1>6. CASE RowWithoutCall \/ Invoke \/ DeadlinePasses \/ Stopped \/ JoinExpires \/ Judge \/ Done
  BY <1>6, RunStays DEF RowWithoutCall, Invoke, DeadlinePasses, Stopped, JoinExpires, Judge, Done,
     vars, call, host
<1> QED
  BY <1>2, <1>3, <1>4, <1>5, <1>6 DEF Next, Tier, TierAlone

LEMMA ConcludedKeeps == ASSUME IInv, Next PROVE Concluded'
<1>1. /\ TypeOK /\ Way /\ Brought /\ Concluded
      /\ UNCHANGED << payload, mode, Active >>
  BY WorkKept DEF IInv, work, Active
<1>2. CASE UNCHANGED << run, row >>
  BY <1>1, <1>2 DEF Concluded
<1>3. CASE Return
  \* a call that returns had not returned before, and a row without a call needs none
  <2>1. run = NoRun /\ row' = row /\ Delivered(payload.status)
    BY <1>1, <1>3 DEF Return, Box!Return, Box!ReturnLoose, Brought, Way
  <2>2. row = NoRow
    BY <1>1, <2>1 DEF Concluded
  <2> QED
    BY <2>1, <2>2 DEF Concluded
<1>4. CASE RowWithoutCall
  BY <1>1, <1>4 DEF RowWithoutCall, Concluded
<1>5. CASE Judge
  <2>1. run # NoRun /\ run' = run /\ row' = DeliveredRow(payload.family, payload.status, Active, run)
    BY <1>5 DEF Judge, Active
  <2>2. Delivered(payload.status)
    BY <1>1, <2>1 DEF Brought, Way
  <2> QED
    BY <1>1, <2>1, <2>2 DEF Concluded
<1>6. UNCHANGED << run, row >> \/ Return \/ RowWithoutCall \/ Judge
  BY DEF Next, Tier, Boot, Check, LookupLiteral, LookupRewritten, LookupFails, ShellLeaves, AuditStarts,
     AuditEnds, AuditFails, HandleRaises, HashTable, PrintAnswer, Exit, Killed, Invoke,
     DeadlinePasses, Stopped, JoinExpires, Raise, Done, vars, host
<1> QED
  BY <1>2, <1>3, <1>4, <1>5, <1>6

LEMMA StepIInv == IInv /\ [Next]_vars => IInv'
<1> SUFFICES ASSUME IInv, [Next]_vars PROVE IInv'
  OBVIOUS
<1>1. CASE Next
  BY <1>1, TypeKeeps, WayKeeps, ToldKeeps, LeftKeeps, DecidedKeeps, BroughtKeeps, ConcludedKeeps DEF IInv
<1>2. CASE UNCHANGED vars
  <2>1. UNCHANGED << payload, mode, at, outcome, granted, secret, table, answer, sinks, faulted, timedOut,
                     run, row, phase, effects, reported >>
    BY <1>2 DEF vars, work, tier, host, call
  <2>2. TypeOK' /\ Way' /\ Told' /\ Left'
    BY <2>1 DEF IInv, TypeOK, Way, Told, Left, ShellRuns
  <2>3. Decided' /\ Brought' /\ Concluded'
    BY <2>1 DEF IInv, Decided, Brought, Concluded, Active, Right, Benign
  <2> QED
    BY <2>2, <2>3 DEF IInv
<1> QED
  BY <1>1, <1>2

THEOREM Invariance == Spec => []IInv
BY InitIInv, StepIInv, PTL DEF Spec

-----------------------------------------------------------------------------
(***************************************************************************)
(* What follows of the row.                                                *)
(***************************************************************************)

\* A delivered record with a row has a run, and its row is judged by the signals of the run.
LEMMA RowFacts ==
  ASSUME IInv, row # NoRow
  PROVE  /\ run # NoRun => Delivered(payload.status)
         /\ Delivered(payload.status) =>
              /\ run # NoRun /\ run \in Runs
              /\ row = DeliveredRow(payload.family, payload.status, Active, run)
              /\ row.verdict = judge_tier1(payload.family, payload.status, Active, run)
              /\ row.signals = tier1_signals(Active, run)
         /\ ~Delivered(payload.status) => row.verdict = "not_delivered"
<1>1. TypeOK /\ Way /\ Brought /\ Concluded
  BY DEF IInv
<1>2. run # NoRun => Delivered(payload.status) /\ run \in Runs
  BY <1>1 DEF Brought, Way, TypeOK
<1>3. CASE Delivered(payload.status)
  BY <1>1, <1>2, <1>3 DEF Concluded, DeliveredRow, RowOf
<1>4. CASE ~Delivered(payload.status)
  BY <1>1, <1>2, <1>4 DEF Concluded, UndeliveredRow, RowOf, decide_verdict
<1> QED
  BY <1>2, <1>3, <1>4

\* With any control on, nothing crosses (tiers/tier1_rulebased.py under the four modes),
\* whatever the payloads are and wherever the call is cut off.
THEOREM Controlled == Spec => []ControlsHold
<1>1. ASSUME IInv, row # NoRow, mode # "off" PROVE row.verdict # "crossed"
  <2>1. CASE Delivered(payload.status)
    <3>1. ~run.secret /\ ~run.own /\ (run.granted = "true" => Active) /\ run.table # "other"
      BY <1>1, <2>1, RowFacts DEF IInv, Brought
    <3>2. tier1_signals(Active, run) = {}
      BY <3>1 DEF tier1_signals
    <3> QED
      BY <1>1, <2>1, <3>2, RowFacts DEF judge_tier1, decide_verdict
  <2> QED
    BY <1>1, <2>1, RowFacts
<1>2. IInv => ControlsHold
  BY <1>1 DEF ControlsHold
<1> QED
  BY Invariance, <1>2, PTL

\* No row that execute_one builds is rejected by ResultRow, so no call loses the run.
THEOREM EveryRowIsValid == Spec => []RowIsValid
<1>1. ASSUME IInv, row # NoRow PROVE ValidRow(row)
  <2>1. payload.family \in Tier1Families /\ payload.status \in DecodeStatus
    BY <1>1, PayloadFacts DEF IInv, Tier1Families, Family, APPLICABLE_PAIRS, TierId
  <2>2. CASE Delivered(payload.status)
    <3>1. /\ run \in Runs /\ row = DeliveredRow(payload.family, payload.status, Active, run)
          /\ ValidOutcome(run.outcome) /\ (run.crashed => run.outcome.error)
      BY <1>1, <2>2, RowFacts DEF IInv, Brought
    <3> QED
      BY <2>1, <2>2, <3>1, DeliveredRowIsValid DEF Delivered, Active
  <2>3. CASE ~Delivered(payload.status)
    <3>1. row = UndeliveredRow(payload.family, payload.status, mode) /\ mode \in VALID_MODES["tier1"]
      BY <1>1, <2>3 DEF IInv, Concluded, TypeOK
    <3> QED
      BY <2>1, <2>3, <3>1, UndeliveredRowIsValid DEF Delivered
  <2> QED
    BY <2>2, <2>3
<1>2. IInv => RowIsValid
  BY <1>1 DEF RowIsValid
<1> QED
  BY Invariance, <1>2, PTL

\* A call reported as blocked has handed its text to no sink (tier1_rulebased.handle).
THEOREM BlockedIsInert == Spec => []BlockedTouchesNothing
<1>1. IInv => BlockedTouchesNothing
  BY DEF IInv, Told, Left, BlockedTouchesNothing
<1> QED
  BY Invariance, <1>1, PTL

\* No control costs a benign record its answer, unless the environment failed the call.
THEOREM BenignServed == Spec => []BenignIsServed
<1>1. ASSUME IInv, row # NoRow, Benign, Delivered(payload.status), ~faulted
      PROVE  row.verdict = "benign_ok"
  <2>1. /\ ~run.crashed /\ ~run.secret /\ ~run.own /\ run.granted = Right
        /\ ~run.outcome.error /\ ~run.outcome.blocked /\ ~run.outcome.gated /\ run.table # "other"
    BY <1>1, RowFacts DEF IInv, Brought
  <2>2. tier1_signals(Active, run) = {}
    BY <2>1 DEF tier1_signals, Right
  <2> QED
    BY <1>1, <2>1, <2>2, RowFacts DEF judge_tier1, decide_verdict, Benign, Right
<1>2. IInv => BenignIsServed
  BY <1>1 DEF BenignIsServed, Benign
<1> QED
  BY Invariance, <1>2, PTL

\* Of a call that did not answer in full no verdict is guessed (run_tier1, judge_tier1).
THEOREM NothingGuessed == Spec => []NothingIsGuessed
<1>1. ASSUME IInv, row # NoRow, run # NoRun, row.verdict \in {"blocked", "no_effect", "benign_ok"}
      PROVE  answer = "whole"
  <2>1. SUFFICES ASSUME run.crashed PROVE FALSE
    BY <1>1 DEF IInv, Brought
  <2>2. Delivered(payload.status)
        /\ row.verdict = judge_tier1(payload.family, payload.status, Active, run)
    BY <1>1, RowFacts
  <2>3. run.outcome.error /\ ~run.outcome.blocked /\ ~run.outcome.gated
    BY <1>1, <2>1 DEF IInv, Brought, ValidOutcome
  <2> QED
    BY <1>1, <2>1, <2>2, <2>3 DEF judge_tier1, decide_verdict
<1>2. IInv => NothingIsGuessed
  BY <1>1 DEF NothingIsGuessed
<1> QED
  BY Invariance, <1>2, PTL

\* The canary file outlives the tier that left it (oracles.tier1_signals, signal D).
THEOREM EvidenceKept == Spec => []EvidenceSurvives
<1>1. ASSUME IInv, row # NoRow, ~Benign, phase = "returned", OwnName \in effects
      PROVE  row.verdict = "crossed" /\ "D" \in row.signals
  <2>1. run # NoRun /\ run.own
    BY <1>1 DEF IInv, Brought
  <2>2. "D" \in tier1_signals(Active, run)
    BY <2>1 DEF tier1_signals, SignalCode
  <2> QED
    BY <1>1, <2>1, <2>2, RowFacts DEF judge_tier1, decide_verdict, Benign
<1>2. IInv => EvidenceSurvives
  BY <1>1 DEF EvidenceSurvives, Benign
<1> QED
  BY Invariance, <1>2, PTL

\* Every variable of a unit of work keeps its type.
THEOREM TypeCorrect == Spec => []TypeOK
<1>1. IInv => TypeOK
  BY DEF IInv
<1> QED
  BY Invariance, <1>1, PTL

=============================================================================
