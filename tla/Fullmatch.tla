------------------------------ MODULE Fullmatch ------------------------------
(***************************************************************************)
(* A text is read one character at a time by a recogniser written for each *)
(* rule's regular expression, as re.fullmatch reads it; `check` of the     *)
(* whole text is compared with it after every character.                   *)
(***************************************************************************)
EXTENDS Boundary

VARIABLES
  prefix,           \* the characters read so far
  place             \* per rule: << group, characters of it read >>, or Dead

fullmatchVars == << prefix, place >>

ALNUM == UPPER \union DIGITS
Dead == <<0, 0>>

\* One more character of a group of at most `most` characters of `set`; a hyphen
\* after at least `least` of them opens the next group, if there is one.
Read(q, ch, set, least, most, last) ==
  IF ch \in set /\ q[2] < most THEN <<q[1], q[2] + 1>>
  ELSE IF ch = HYPHEN /\ q[2] >= least /\ q[1] < last THEN <<q[1] + 1, 0>>
  ELSE Dead

Advance(use, q, ch) ==
  CASE q = Dead -> Dead
    [] use = "identifier" /\ q[1] = 1 -> Read(q, ch, UPPER, 1, 4, 2)
    [] use = "identifier" /\ q[1] = 2 -> Read(q, ch, DIGITS, 4, 8, 2)
    [] use = "plate" /\ q[1] \in 1..3 -> Read(q, ch, ALNUM, 1, 4, 3)
    [] use = "ticket" /\ q = <<1, 0>> -> IF ch = T THEN <<1, 1>> ELSE Dead
    [] use = "ticket" /\ q[1] = 1 /\ q[2] > 0 -> Read(q, ch, DIGITS, 9, 9, 2)
    [] use = "ticket" /\ q[1] = 2 -> Read(q, ch, DIGITS, 4, 4, 2)

Recognised(use, q) ==
  CASE use = "identifier" -> q[1] = 2 /\ q[2] >= 4
    [] use = "plate" -> q[1] \in {2, 3} /\ q[2] >= 1
    [] use = "ticket" -> q = <<2, 4>>

FullmatchInit ==
  /\ prefix = << >>
  /\ place = [ use \in Use |-> <<1, 0>> ]

ReadChar(ch) ==
  /\ prefix' = Append(prefix, ch)
  /\ place' = [ use \in Use |-> Advance(use, place[use], ch) ]

FullmatchNext == \E ch \in Char : ReadChar(ch)

FullmatchSpec == FullmatchInit /\ [][FullmatchNext]_fullmatchVars

\* check says "ok" of exactly the texts the regular expression of the rule
\* matches in full: defense/boundary.check with defense/grammar.RULES.
CheckIsFullmatch ==
  \A use \in Use : check(use, prefix) = "ok" <=> Recognised(use, place[use])

=============================================================================
