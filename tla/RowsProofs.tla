----------------------------- MODULE RowsProofs -----------------------------
(***************************************************************************)
(* From a payload's specification to a row, from the row to results.csv    *)
(* and back.                                                               *)
(*                                                                         *)
(* Inputs: whatever config.yaml and payloads.yaml hold, however many       *)
(* payloads are listed or derived, and whatever each image decodes to: if  *)
(* the files are accepted, every row built from them is one ResultRow      *)
(* accepts.  AlgorithmProofs has the step from a record, a family, a mode  *)
(* and an answer to the row; here is why no other family, mode or record   *)
(* gets that far.                                                          *)
(*                                                                         *)
(* Results: whatever accepted rows two runs have to write, and wherever a  *)
(* kill cuts their files.  A file that can be read is the header and the   *)
(* first rows in the order of their keys, of the last perhaps less than    *)
(* all signals; so equal sets of keys are equal lists of keys, and a       *)
(* comparison key by key is one row by row.                                *)
(***************************************************************************)
EXTENDS Inputs, Results, AlgorithmProofs

\* What has been checked by the time the run is at a stage
Configured == stage \in {"payloads", "decode", "plan", "execute"} => ValidConfig(config)
Specified == stage \in {"decode", "plan", "execute"} => \A s \in specs : ValidSpec(s)
Decoded ==
  /\ mode \in DecoderMode
  /\ stage \in {"plan", "execute"} => \A s \in specs : records[s] \in Decodings(s, mode)

IInv == Configured /\ Specified /\ Decoded /\ RowsAreAccepted

-----------------------------------------------------------------------------
\* A payload that applies is of a family that is run against Tier 1.
LEMMA AppliesToTier1 ==
  ASSUME NEW s, ValidSpec(s), Applies(s)
  PROVE  s.family \in Tier1Families
BY DEF ValidSpec, Applies, Tier1Families

\* The modes of an accepted configuration are modes of Tier 1.
LEMMA ModesOfTier1 ==
  ASSUME ValidConfig(config), NEW m \in Elements(config.tiers["tier1"].modes)
  PROVE  m \in VALID_MODES["tier1"]
<1>1. "tier1" \in TierId
  BY DEF TierId
<1> QED
  BY <1>1 DEF ValidConfig

\* Every answer is one a tier can give, and a crash is reported as an error.
LEMMA AnswersAreRuns ==
  ASSUME NEW m \in Mode, NEW run \in Answers[m]
  PROVE  run \in Runs /\ ValidOutcome(run.outcome) /\ (run.crashed => run.outcome.error)
BY DEF Answers

\* What a decode returns is one of the four statuses.
LEMMA DecodingsHaveAStatus ==
  ASSUME NEW s, ValidSpec(s), NEW m \in DecoderMode, NEW r \in Decodings(s, m)
  PROVE  r.decode_status \in DecodeStatus
<1> DEFINE c == content_bytes(s)
<1>1. CASE s.damage # "none"
  BY <1>1 DEF Decodings, Record, DecodeStatus
<1>2. CASE s.damage = "none" /\ c = "not_utf8"
  BY <1>2 DEF Decodings, Record, Ok, DecodeStatus
<1>3. CASE s.damage = "none" /\ c = "non_ascii"
  BY <1>3 DEF Decodings, Record, Ok, DecodeStatus
<1>4. CASE s.damage = "none" /\ c \notin {"not_utf8", "non_ascii"}
  BY <1>4 DEF Decodings, Record, Ok, DecodeStatus
<1> QED
  BY <1>1, <1>2, <1>3, <1>4

\* execute_one builds an accepted row of any record, mode and answer.
LEMMA ExecutedIsAccepted ==
  ASSUME NEW s, s.family \in Tier1Families, records[s].decode_status \in DecodeStatus,
         NEW m \in VALID_MODES["tier1"], NEW run \in Answers[m], NEW active \in BOOLEAN
  PROVE  ValidRow(Executed(s, m, run, active))
<1> DEFINE status == records[s].decode_status
<1>1. m \in Mode
  BY DEF VALID_MODES, Mode
<1>2. CASE Delivered(status)
  <2>1. status \in DELIVERED_STATUSES
    BY <1>2 DEF Delivered
  <2>2. run \in Runs /\ ValidOutcome(run.outcome) /\ (run.crashed => run.outcome.error)
    BY <1>1, AnswersAreRuns
  <2>3. ValidRow(DeliveredRow(s.family, status, active, run))
    BY <2>1, <2>2, DeliveredRowIsValid
  <2> QED
    BY <1>2, <2>3 DEF Executed
<1>3. CASE ~Delivered(status)
  <2>1. status \in DecodeStatus \ DELIVERED_STATUSES
    BY <1>3 DEF Delivered
  <2>2. ValidRow(UndeliveredRow(s.family, status, m))
    BY <2>1, UndeliveredRowIsValid
  <2> QED
    BY <1>3, <2>2 DEF Executed
<1> QED
  BY <1>2, <1>3

\* A benign text that the default decoder would rewrite applies in raw only, and there
\* it is read as it was encoded.
LEMMA BenignIsReadAsEncoded ==
  ASSUME NEW s, ValidSpec(s), s.family = "benign", Applies(s), mode \in DecoderMode,
         records[s] \in Decodings(s, mode)
  PROVE  records[s].seen # "rewritten"
<1> DEFINE c == content_bytes(s)
<1>1. CASE s.damage # "none"
  BY <1>1 DEF Decodings, Record
<1>2. CASE s.damage = "none" /\ c \in {"not_utf8", "non_ascii"}
  <2>1. s.decoder_modes = << "raw" >>
    BY <1>2 DEF ValidSpec, RawOnly
  <2>2. mode = "raw"
    BY <2>1 DEF Applies, Elements
  <2> QED
    BY <1>2, <2>2 DEF Decodings, Record, Ok
<1>3. CASE s.damage = "none" /\ c \notin {"not_utf8", "non_ascii"}
  BY <1>3 DEF Decodings, Record, Ok
<1> QED
  BY <1>1, <1>2, <1>3

-----------------------------------------------------------------------------
LEMMA InitIInv == Init => IInv
BY DEF Init, IInv, Configured, Specified, Decoded, RowsAreAccepted, DecoderMode

LEMMA StepIInv == IInv /\ [Next]_vars => IInv'
<1> SUFFICES ASSUME IInv, [Next]_vars PROVE IInv'
  OBVIOUS
<1> USE DEF IInv, Configured, Specified, Decoded
<1>1. CASE LoadConfig
  BY <1>1 DEF LoadConfig, RowsAreAccepted
<1>2. CASE LoadPayloads
  BY <1>2 DEF LoadPayloads, RowsAreAccepted
<1>3. ASSUME NEW m \in DecoderMode, Decode(m) PROVE IInv'
  <2>1. stage = "decode" /\ stage' = "plan" /\ mode' = m /\ UNCHANGED << config, specs, row >>
    BY <1>3 DEF Decode
  <2>2. \A s \in specs : records'[s] \in Decodings(s, m)
    BY <1>3 DEF Decode
  <2> QED
    BY <2>1, <2>2 DEF RowsAreAccepted
<1>4. CASE PlanWork
  BY <1>4 DEF PlanWork, RowsAreAccepted
<1>5. CASE ExecuteOne
  <2>1. stage = "execute" /\ UNCHANGED << stage, config, specs, mode, records >>
    BY <1>5 DEF ExecuteOne
  <2>2. PICK s \in { t \in specs : Applies(t) }, m \in Elements(config.tiers["tier1"].modes) :
          \E run \in Answers[m], active \in BOOLEAN : row' = Executed(s, m, run, active)
    BY <1>5 DEF ExecuteOne
  <2>3. s.family \in Tier1Families /\ records[s].decode_status \in DecodeStatus
    BY <2>1, AppliesToTier1, DecodingsHaveAStatus
  <2>4. m \in VALID_MODES["tier1"]
    BY <2>1, ModesOfTier1
  <2>5. ValidRow(row')
    BY <2>2, <2>3, <2>4, ExecutedIsAccepted
  <2> QED
    BY <2>1, <2>5 DEF RowsAreAccepted
<1>6. CASE UNCHANGED vars
  BY <1>6 DEF vars, RowsAreAccepted
<1> QED
  BY <1>1, <1>2, <1>3, <1>4, <1>5, <1>6 DEF Next

\* No row of an accepted pair of files is one that ResultRow rejects (contracts.py,
\* execute_one), for files of any content and length.
THEOREM RowsAccepted == Spec => []RowsAreAccepted
<1>1. IInv => RowsAreAccepted
  BY DEF IInv
<1> QED
  BY InitIInv, StepIInv, <1>1, PTL DEF Spec

\* Nothing the decoder does to a text is counted against a benign payload (the rule of
\* PayloadSpec._check_spec), whatever texts and decoder modes the files name.
THEOREM BenignIntact == Spec => []BenignIsIntact
<1>1. IInv => BenignIsIntact
  <2> SUFFICES ASSUME IInv, stage = "execute", NEW s \in specs, s.family = "benign", Applies(s)
               PROVE  records[s].seen # "rewritten"
    BY DEF BenignIsIntact
  <2>1. ValidSpec(s) /\ mode \in DecoderMode /\ records[s] \in Decodings(s, mode)
    BY DEF IInv, Specified, Decoded
  <2> QED
    BY <2>1, BenignIsReadAsEncoded
<1> QED
  BY InitIInv, StepIInv, <1>1, PTL DEF Spec

-----------------------------------------------------------------------------
(***************************************************************************)
(* Results.                                                                *)
(***************************************************************************)
\* The order of the rows is one of their keys.
KeyLess(a, b) ==
  \/ ModeRank[a[1]] < ModeRank[b[1]]
  \/ a[1] = b[1] /\ a[2] < b[2]
  \/ a[1] = b[1] /\ a[2] = b[2] /\ a[3] < b[3]

\* The rows a run has to write: in the order of their keys, which are all different
GoodRows(rs) ==
  /\ Len(rs) \in Nat /\ DOMAIN rs = 1..Len(rs) /\ rs \in Seq(ToSet(rs))
  /\ \A k \in DOMAIN rs : IsRow(rs[k])
  /\ \A j, k \in DOMAIN rs : j < k => KeyLess(Key(rs[j]), Key(rs[k]))

LEMMA RanksAreNumbers ==
  /\ DOMAIN ModeRank = VALID_MODES["tier1"]
  /\ \A m, n \in DOMAIN ModeRank : ModeRank[m] \in Int /\ (ModeRank[m] = ModeRank[n] => m = n)
BY DEF ModeRank, VALID_MODES

\* What a row is made of
LEMMA RowFacts ==
  ASSUME NEW r, IsRow(r)
  PROVE  /\ DOMAIN r = COLUMNS /\ r = [ c \in COLUMNS |-> r[c] ]
         /\ r.mode \in VALID_MODES["tier1"] /\ r.id \in Nat /\ r.rep \in Nat
         /\ r.signals \in Seq(SignalCode)
<1>1. /\ r = [ c \in COLUMNS |-> r[c] ]
      /\ r.mode \in VALID_MODES["tier1"] /\ r.id \in Nat /\ r.rep \in Nat
      /\ r.signals \in Seq(SignalCode)
  BY DEF IsRow
<1>2. DOMAIN r = COLUMNS
  BY <1>1
<1> QED
  BY <1>1, <1>2

LEMMA SetsToSequences ==
  ASSUME NEW S, IsFiniteSet(S)
  PROVE  Enumerates(SetToSeq(S), S)
<1> DEFINE n == Cardinality(S)
           s == SetToSeq(S)
<1>1. n \in Nat /\ IsFiniteSet(1..n) /\ Cardinality(1..n) = n
  <2>1. n \in Nat
    BY FS_CardinalityType
  <2> QED
    BY <2>1, FS_Interval
<1>2. PICK f : f \in Bijection(1..n, S)
  <2>1. ExistsBijection(1..n, S)
    BY FS_CardinalityType
  <2> QED
    BY <2>1 DEF ExistsBijection
<1>3. f \in [ 1..n -> S ] /\ IsInjective(f)
  BY <1>2 DEF Bijection, Injection
<1>4. s \in [ 1..n -> S ] /\ IsInjective(s)
  <2>1. s = CHOOSE g \in [ 1..n -> S ] : IsInjective(g)
    BY DEF SetToSeq
  <2> HIDE DEF s
  <2> QED
    BY <1>3, <2>1
<1>5. s \in Injection(1..n, S)
  BY <1>4, Fun_IsInj DEF IsInjective
<1>6. s \in Surjection(1..n, S)
  BY <1>1, <1>5, FS_Injection
<1> HIDE DEF s, n
<1>7. s \in Seq(S) /\ DOMAIN s = 1..n
  BY <1>1, <1>4
<1>8. Injective(s)
  BY <1>4 DEF Injective, IsInjective
<1>9. \A x \in S : \E k \in DOMAIN s : s[k] = x
  BY <1>6, <1>7 DEF Surjection
<1> QED
  BY <1>7, <1>8, <1>9 DEF Enumerates, s

LEMMA RowsAreGood ==
  ASSUME NEW S \in RowSets
  PROVE  GoodRows(Sorted(SetToSeq(S)))
<1> DEFINE rs == Sorted(SetToSeq(S))
<1>1. IsFiniteSet(S) /\ \A r \in S : IsRow(r)
  BY RowSetsAssumption
<1>2. \A r \in S : r.mode \in DOMAIN ModeRank /\ r.id \in Int /\ r.rep \in Int
  BY <1>1, RanksAreNumbers, RowFacts
<1>3. /\ Enumerates(rs, S)
      /\ \A j, k \in DOMAIN rs : j < k => ~RowBefore(rs[k], rs[j])
  BY <1>1, <1>2, SetsToSequences, SortedLists
<1> HIDE DEF rs
<1>4. rs \in Seq(S) /\ Len(rs) \in Nat /\ DOMAIN rs = 1..Len(rs) /\ ToSet(rs) = S
  BY <1>3, ListsCount DEF Enumerates
<1>5. \A k \in DOMAIN rs : rs[k] \in S
  BY <1>4
<1>6. ASSUME NEW j \in DOMAIN rs, NEW k \in DOMAIN rs, j < k
      PROVE  KeyLess(Key(rs[j]), Key(rs[k]))
  <2>1. rs[j] # rs[k]
    <3>1. j # k
      BY <1>4, <1>6
    <3> QED
      BY <3>1, <1>3 DEF Enumerates, Injective
  <2>2. Key(rs[j]) # Key(rs[k])
    BY <1>5, <2>1, RowSetsAssumption
  <2>3. ~RowBefore(rs[k], rs[j])
    BY <1>3, <1>6
  <2>4. /\ rs[j].mode \in DOMAIN ModeRank /\ rs[j].id \in Int /\ rs[j].rep \in Int
        /\ rs[k].mode \in DOMAIN ModeRank /\ rs[k].id \in Int /\ rs[k].rep \in Int
    BY <1>2, <1>5
  <2> QED
    BY <2>2, <2>3, <2>4, RanksAreNumbers DEF RowBefore, KeyLess, Key
<1> QED
  BY <1>1, <1>4, <1>5, <1>6 DEF GoodRows, rs

-----------------------------------------------------------------------------
Clean(lines) == \A k \in DOMAIN lines : lines[k] # Broken
Torn(lines) == \E k \in 2..Len(lines) : lines[k] = Broken

\* None of the first n rows is split where its line has a carriage return.
Unsplit(f, rs, n) == \A k \in 1..n : ~Splits(f, rs[k])

\* What a line has of a row: its cells, or those with the signals cut
LineOf(line, r, cut) ==
  \/ line = Cells(r)
  \/ cut /\ \E n \in 0..Len(r.signals) : line = [ Cells(r) EXCEPT !.signals = SubSeq(@, 1, n) ]

\* The header and the first rows, of which a kill can have cut the last
IsText(lines, rs, w) ==
  /\ Len(lines) - 1 \in 0..Len(rs)
  /\ lines[1] = Header
  /\ \A k \in 1..(Len(lines) - 1) :
       LineOf(lines[k + 1], rs[k], w = "killed" /\ k = Len(lines) - 1)

\* What is in the file f of the rows rs when its writer is at w and has written n
FileOf(f, rs, lines, w, n) ==
  /\ n \in 0..Len(rs)
  /\ lines \in Seq(ToSet(lines))
  /\ w = "none" => lines = << >>
  /\ w \in {"none", "open"} /\ lines = << >> => n = 0
  /\ w = "closed" => lines # << >> /\ n = Len(rs)
  /\ w # "killed" /\ Unsplit(f, rs, n) => Clean(lines)
  /\ w # "killed" /\ ~Unsplit(f, rs, n) => Torn(lines)
  /\ Clean(lines) /\ lines # << >> => IsText(lines, rs, w) /\ (w # "killed" => Len(lines) = n + 1)

LEMMA Extended ==
  ASSUME NEW old, old \in Seq(ToSet(old)), NEW add, add \in Seq(ToSet(add))
  PROVE  LET new == old \o add IN
         /\ new \in Seq(ToSet(new)) /\ Len(new) = Len(old) + Len(add) /\ Len(new) \in Nat
         /\ Len(old) \in Nat /\ Len(add) \in Nat
         /\ \A k \in 1..Len(old) : new[k] = old[k]
         /\ \A k \in 1..Len(add) : new[Len(old) + k] = add[k]
         /\ Clean(new) => Clean(old) /\ Clean(add)
         /\ Clean(old) /\ Clean(add) => Clean(new)
<1> DEFINE new == old \o add
           S == ToSet(old) \union ToSet(add)
<1>1. old \in Seq(S) /\ add \in Seq(S)
  OBVIOUS
<1>2. /\ new \in Seq(S) /\ Len(new) = Len(old) + Len(add)
      /\ Len(old) \in Nat /\ Len(add) \in Nat /\ Len(new) \in Nat
      /\ DOMAIN old = 1..Len(old) /\ DOMAIN add = 1..Len(add) /\ DOMAIN new = 1..Len(new)
      /\ \A k \in 1..(Len(old) + Len(add)) : new[k] = IF k <= Len(old) THEN old[k] ELSE add[k - Len(old)]
  <2> HIDE DEF S
  <2> QED
    BY <1>1, ConcatProperties
<1> HIDE DEF new, S
<1>3. \A k \in 1..Len(old) : k \in 1..Len(new) /\ new[k] = old[k]
  BY <1>2
<1>4. ASSUME NEW k \in 1..Len(add)
      PROVE  Len(old) + k \in 1..Len(new) /\ new[Len(old) + k] = add[k]
  <2>1. Len(old) + k \in 1..(Len(old) + Len(add)) /\ ~(Len(old) + k <= Len(old)) /\ (Len(old) + k) - Len(old) = k
    BY <1>2
  <2>2. new[Len(old) + k] = add[(Len(old) + k) - Len(old)]
    BY <1>2, <2>1
  <2> QED
    BY <1>2, <2>1, <2>2
<1>5. \A k \in 1..Len(new) : \/ k \in 1..Len(old)
                             \/ k - Len(old) \in 1..Len(add) /\ new[k] = add[k - Len(old)]
  BY <1>2
<1>6. Clean(new) => Clean(old) /\ Clean(add)
  BY <1>2, <1>3, <1>4 DEF Clean
<1>7. Clean(old) /\ Clean(add) => Clean(new)
  BY <1>2, <1>3, <1>5 DEF Clean
<1>8. new \in Seq(ToSet(new))
  <2>1. \A k \in 1..Len(new) : new[k] \in ToSet(new)
    BY <1>2 DEF ToSet
  <2>2. new = [ k \in 1..Len(new) |-> new[k] ]
    BY <1>2
  <2> DEFINE Elems == ToSet(new)
  <2> HIDE DEF Elems
  <2>3. \A k \in 1..Len(new) : new[k] \in Elems
    BY <2>1 DEF Elems
  <2>4. [ k \in 1..Len(new) |-> new[k] ] \in [ 1..Len(new) -> Elems ]
    BY <2>3
  <2>5. new \in Seq(Elems)
    BY <1>2, <2>2, <2>4
  <2> QED
    BY <2>5 DEF Elems
<1> QED
  BY <1>2, <1>3, <1>4, <1>6, <1>7, <1>8 DEF new

\* The header goes out with the first row, or when the file is closed.
LEMMA Headed ==
  ASSUME NEW f, NEW rs, GoodRows(rs), NEW lines, NEW n, FileOf(f, rs, lines, "open", n)
  PROVE  LET head == WithHeader(lines) IN
         /\ head \in Seq(ToSet(head)) /\ head # << >> /\ Len(head) \in Nat
         /\ Unsplit(f, rs, n) => Clean(head)
         /\ ~Unsplit(f, rs, n) => Torn(head)
         /\ Clean(head) => IsText(head, rs, "open") /\ Len(head) = n + 1
<1>1. CASE lines = << >>
  <2>1. WithHeader(lines) = << Header >> /\ n = 0 /\ Len(rs) \in Nat
    BY <1>1 DEF WithHeader, FileOf, GoodRows
  <2>2. << Header >> \in Seq(ToSet(<< Header >>)) /\ Len(<< Header >>) = 1 /\ << Header >>[1] = Header
    BY DEF ToSet
  <2>3. Clean(<< Header >>)
    BY DEF Clean, Header, Broken
  <2>4. IsText(<< Header >>, rs, "open")
    BY <2>1, <2>2 DEF IsText
  <2>5. Unsplit(f, rs, n)
    BY <2>1 DEF Unsplit
  <2> QED
    BY <2>1, <2>2, <2>3, <2>4, <2>5
<1>2. CASE lines # << >>
  <2>1. WithHeader(lines) = lines
    BY <1>2 DEF WithHeader
  <2> QED
    BY <1>2, <2>1 DEF FileOf
<1> QED
  BY <1>1, <1>2

\* A row's line goes to the end of a file.
LEMMA WriteFile ==
  ASSUME NEW f, NEW rs, GoodRows(rs), NEW lines, NEW n, FileOf(f, rs, lines, "open", n), n < Len(rs)
  PROVE  FileOf(f, rs, WithHeader(lines) \o Line(f, rs[n + 1]), "open", n + 1)
<1> DEFINE head == WithHeader(lines)
           r == rs[n + 1]
           new == head \o Line(f, r)
<1>1. /\ head \in Seq(ToSet(head)) /\ head # << >> /\ Len(head) \in Nat
      /\ Unsplit(f, rs, n) => Clean(head)
      /\ ~Unsplit(f, rs, n) => Torn(head)
      /\ Clean(head) => IsText(head, rs, "open") /\ Len(head) = n + 1
  BY Headed
<1>2. n \in Nat /\ n + 1 \in 1..Len(rs) /\ Len(rs) \in Nat
  BY DEF FileOf, GoodRows
<1>3. /\ Line(f, r) \in Seq(ToSet(Line(f, r)))
      /\ ~Splits(f, r) => Line(f, r) = << Cells(r) >>
      /\ Splits(f, r) => Line(f, r) = << Broken, Broken >>
  <2>1. \/ ~Splits(f, r) /\ Line(f, r) = << Cells(r) >>
        \/ Splits(f, r) /\ Line(f, r) = << Broken, Broken >>
    BY DEF Line
  <2>2. \A x : << x >> \in Seq(ToSet(<< x >>))
    BY DEF ToSet
  <2>3. \A x : << x, x >> \in Seq(ToSet(<< x, x >>))
    BY DEF ToSet
  <2> QED
    BY <2>1, <2>2, <2>3
<1>4. Cells(r) # Broken
  <2>1. IsRow(r)
    BY <1>2 DEF GoodRows
  <2>2. DOMAIN Cells(r) = COLUMNS
    BY <2>1, RowFacts DEF Cells
  <2>3. DOMAIN Broken = {"broken"} /\ "mode" \in COLUMNS
    BY DEF Broken, COLUMNS
  <2> QED
    BY <2>2, <2>3
<1> HIDE DEF head, r
<1>5. Clean(<< Cells(r) >>) /\ ~Clean(<< Broken, Broken >>)
  BY <1>4 DEF Clean
<1>6. /\ new \in Seq(ToSet(new)) /\ Len(new) = Len(head) + Len(Line(f, r)) /\ Len(new) \in Nat
      /\ Len(Line(f, r)) \in Nat
      /\ \A k \in 1..Len(head) : new[k] = head[k]
      /\ \A k \in 1..Len(Line(f, r)) : new[Len(head) + k] = Line(f, r)[k]
      /\ Clean(new) => Clean(head) /\ Clean(Line(f, r))
      /\ Clean(head) /\ Clean(Line(f, r)) => Clean(new)
  BY <1>1, <1>3, Extended
<1> HIDE DEF new
<1>7. Unsplit(f, rs, n + 1) => Clean(new)
  <2>1. Unsplit(f, rs, n + 1) => Unsplit(f, rs, n) /\ ~Splits(f, r)
    BY <1>2 DEF Unsplit, r
  <2> QED
    BY <1>1, <1>3, <1>5, <1>6, <2>1
<1>8. Len(head) # 0 /\ new # << >>
  <2>1. Len(head) # 0
    BY <1>1
  <2>2. Len(new) # 0
    BY <1>1, <1>6, <2>1
  <2> QED
    BY <2>1, <2>2
<1>9. ASSUME Clean(new)
      PROVE  IsText(new, rs, "open") /\ Len(new) = n + 2
  <2>1. Line(f, r) = << Cells(r) >> /\ Len(Line(f, r)) = 1 /\ Line(f, r)[1] = Cells(r)
    <3>1. Line(f, r) = << Cells(r) >>
      BY <1>3, <1>5, <1>6, <1>9
    <3> QED
      BY <3>1
  <2>2. IsText(head, rs, "open") /\ Len(head) = n + 1
    BY <1>1, <1>6, <1>9
  <2>3. Len(new) = n + 2 /\ new[n + 2] = Cells(r)
    <3>1. 1 \in 1..Len(Line(f, r))
      BY <2>1
    <3>2. new[Len(head) + 1] = Line(f, r)[1]
      BY <1>6, <3>1
    <3> QED
      BY <1>2, <1>6, <2>1, <2>2, <3>2
  <2>4. new[1] = Header
    BY <1>2, <1>6, <2>2 DEF IsText
  <2>5. \A k \in 1..n : LineOf(new[k + 1], rs[k], FALSE)
    <3>1. \A k \in 1..n : k + 1 \in 1..Len(head) /\ new[k + 1] = head[k + 1]
      BY <1>2, <1>6, <2>2
    <3>2. \A k \in 1..n : head[k + 1] = Cells(rs[k])
      BY <1>2, <2>2 DEF IsText, LineOf
    <3> QED
      BY <3>1, <3>2 DEF LineOf
  <2>6. LineOf(new[n + 2], rs[n + 1], FALSE)
    BY <2>3 DEF LineOf, r
  <2>7. \A k \in 1..(n + 1) : LineOf(new[k + 1], rs[k], FALSE)
    <3>1. \A k \in 1..(n + 1) : k \in 1..n \/ (k = n + 1 /\ k + 1 = n + 2)
      BY <1>2
    <3> QED
      BY <2>5, <2>6, <3>1
  <2>8. Len(new) - 1 = n + 1 /\ n + 1 \in 0..Len(rs)
    BY <1>2, <2>3
  <2>9. \A k \in 1..(Len(new) - 1) : LineOf(new[k + 1], rs[k], "open" = "killed" /\ k = Len(new) - 1)
    BY <2>7, <2>8 DEF LineOf
  <2> QED
    BY <2>3, <2>4, <2>8, <2>9 DEF IsText
<1>10. ~Unsplit(f, rs, n + 1) => Torn(new)
  <2>1. ~Unsplit(f, rs, n + 1) => ~Unsplit(f, rs, n) \/ Splits(f, r)
    <3>1. \A k \in 1..(n + 1) : k \in 1..n \/ k = n + 1
      BY <1>2
    <3> QED
      BY <3>1 DEF Unsplit, r
  <2>2. CASE ~Unsplit(f, rs, n)
    <3>1. PICK k \in 2..Len(head) : head[k] = Broken
      BY <1>1, <2>2 DEF Torn
    <3>2. k \in 1..Len(head) /\ k \in 2..Len(new)
      BY <1>1, <1>6, <3>1
    <3> QED
      BY <1>6, <3>1, <3>2 DEF Torn
  <2>3. CASE Splits(f, r)
    <3>1. Len(Line(f, r)) = 2 /\ Line(f, r)[1] = Broken
      BY <1>3, <2>3
    <3>2. 1 \in 1..Len(Line(f, r)) /\ Len(head) + 1 \in 2..Len(new)
      BY <1>1, <1>6, <1>8, <3>1
    <3>3. new[Len(head) + 1] = Broken
      BY <1>6, <3>1, <3>2
    <3> QED
      BY <3>2, <3>3 DEF Torn
  <2> QED
    BY <2>1, <2>2, <2>3
<1> QED
  BY <1>2, <1>6, <1>7, <1>8, <1>9, <1>10 DEF FileOf, new, head, r

LEMMA CloseFile ==
  ASSUME NEW f, NEW rs, GoodRows(rs), NEW lines, FileOf(f, rs, lines, "open", Len(rs))
  PROVE  FileOf(f, rs, WithHeader(lines), "closed", Len(rs))
<1> DEFINE head == WithHeader(lines)
<1>1. /\ head \in Seq(ToSet(head)) /\ head # << >> /\ Len(head) \in Nat
      /\ Unsplit(f, rs, Len(rs)) => Clean(head)
      /\ ~Unsplit(f, rs, Len(rs)) => Torn(head)
      /\ Clean(head) => IsText(head, rs, "open") /\ Len(head) = Len(rs) + 1
  BY Headed
<1>2. Len(rs) \in Nat
  BY DEF GoodRows
<1> HIDE DEF head
<1>3. Clean(head) => IsText(head, rs, "closed")
  BY <1>1 DEF IsText
<1> QED
  BY <1>1, <1>2, <1>3 DEF FileOf, head

\* A kill leaves what is there, or part of the line of the row that was written.
LEMMA KillFile ==
  ASSUME NEW f, NEW rs, GoodRows(rs), NEW lines, NEW n, FileOf(f, rs, lines, "open", n)
  PROVE  /\ FileOf(f, rs, lines, "killed", n)
         /\ \A left \in IF n < Len(rs) THEN CutLine(f, rs[n + 1]) ELSE {} :
              FileOf(f, rs, WithHeader(lines) \o left, "killed", n)
<1> DEFINE head == WithHeader(lines)
<1>1. /\ head \in Seq(ToSet(head)) /\ head # << >> /\ Len(head) \in Nat
      /\ Clean(head) => IsText(head, rs, "open") /\ Len(head) = n + 1
  BY Headed
<1>2. Len(rs) \in Nat /\ n \in Nat /\ n <= Len(rs)
  BY DEF GoodRows, FileOf
<1>3. ASSUME NEW text, IsText(text, rs, "open")
      PROVE  IsText(text, rs, "killed")
  <2>1. \A k \in 1..(Len(text) - 1) : text[k + 1] = Cells(rs[k])
    BY <1>3 DEF IsText, LineOf
  <2> QED
    BY <1>3, <2>1 DEF IsText, LineOf
<1>4. FileOf(f, rs, lines, "killed", n)
  BY <1>3 DEF FileOf
<1> HIDE DEF head
<1>5. ASSUME n < Len(rs), NEW left \in CutLine(f, rs[n + 1])
      PROVE  FileOf(f, rs, head \o left, "killed", n)
  <2> DEFINE new == head \o left
  <2>1. \/ left = << >> \/ left = << Broken >> \/ left = << Broken, Broken >>
        \/ \E m \in 0..Len(rs[n + 1].signals) :
             left = << [ Cells(rs[n + 1]) EXCEPT !.signals = SubSeq(@, 1, m) ] >>
    BY <1>5 DEF CutLine
  <2>2. \/ left = << >> \/ left = << Broken, Broken >>
        \/ \E x : left = << x >> /\ (x = Broken \/ LineOf(x, rs[n + 1], TRUE))
    BY <2>1 DEF LineOf
  <2>3. left \in Seq(ToSet(left))
    <3>1. \A x : << x >> \in Seq(ToSet(<< x >>))
      BY DEF ToSet
    <3>2. << >> \in Seq(ToSet(<< >>))
      OBVIOUS
    <3>3. \A x : << x, x >> \in Seq(ToSet(<< x, x >>))
      BY DEF ToSet
    <3> QED
      BY <2>2, <3>1, <3>2, <3>3
  <2>4. /\ new \in Seq(ToSet(new)) /\ Len(new) = Len(head) + Len(left) /\ Len(new) \in Nat
        /\ Len(head) \in Nat /\ Len(left) \in Nat
        /\ \A k \in 1..Len(head) : new[k] = head[k]
        /\ \A k \in 1..Len(left) : new[Len(head) + k] = left[k]
        /\ Clean(new) => Clean(head) /\ Clean(left)
    BY <1>1, <2>3, Extended
  <2> HIDE DEF new
  <2>5. ASSUME Clean(new)
        PROVE  IsText(new, rs, "killed")
    <3>1. IsText(head, rs, "open") /\ Len(head) = n + 1
      BY <1>1, <2>4, <2>5
    <3>2. \A k \in 1..n : head[k + 1] = Cells(rs[k])
      BY <1>2, <3>1 DEF IsText, LineOf
    <3>3. new[1] = Header /\ \A k \in 1..n : new[k + 1] = Cells(rs[k])
      <4>1. 1 \in 1..Len(head) /\ \A k \in 1..n : k + 1 \in 1..Len(head)
        BY <1>2, <3>1
      <4>2. head[1] = Header
        BY <3>1 DEF IsText
      <4> QED
        BY <2>4, <3>2, <4>1, <4>2
    <3>4. CASE left = << >>
      <4>1. Len(new) = n + 1
        BY <2>4, <3>1, <3>4
      <4> QED
        BY <1>2, <3>3, <4>1 DEF IsText, LineOf
    <3>5. CASE left # << >>
      <4>1. PICK x : left = << x >> /\ (x = Broken \/ LineOf(x, rs[n + 1], TRUE))
        <5>1. left # << Broken, Broken >>
          BY <2>4, <2>5 DEF Clean
        <5> QED
          BY <2>2, <3>5, <5>1
      <4>2. x # Broken
        <5>1. DOMAIN << x >> = {1} /\ << x >>[1] = x
          OBVIOUS
        <5> QED
          BY <2>4, <2>5, <4>1, <5>1 DEF Clean
      <4>3. Len(new) = n + 2 /\ new[n + 2] = x
        <5>1. Len(left) = 1 /\ left[1] = x /\ 1 \in 1..Len(left)
          BY <4>1
        <5>2. new[Len(head) + 1] = x
          BY <2>4, <5>1
        <5> QED
          BY <1>2, <2>4, <3>1, <5>1, <5>2
      <4>4. LineOf(new[n + 2], rs[n + 1], TRUE)
        BY <4>1, <4>2, <4>3
      <4>5. Len(new) - 1 = n + 1 /\ n + 1 \in 0..Len(rs)
        BY <1>2, <1>5, <4>3
      <4>6. ASSUME NEW k \in 1..(n + 1)
            PROVE  LineOf(new[k + 1], rs[k], "killed" = "killed" /\ k = n + 1)
        <5>1. CASE k = n + 1
          <6>1. k + 1 = n + 2
            BY <1>2, <5>1
          <6> QED
            BY <4>4, <5>1, <6>1 DEF LineOf
        <5>2. CASE k # n + 1
          <6>1. k \in 1..n
            BY <1>2, <5>2
          <6> QED
            BY <3>3, <6>1 DEF LineOf
        <5> QED
          BY <5>1, <5>2
      <4>7. \A k \in 1..(Len(new) - 1) : LineOf(new[k + 1], rs[k], "killed" = "killed" /\ k = Len(new) - 1)
        BY <4>5, <4>6
      <4> QED
        BY <3>3, <4>5, <4>7 DEF IsText
    <3> QED
      BY <3>4, <3>5
  <2> QED
    BY <1>2, <2>4, <2>5 DEF FileOf, new
<1> QED
  BY <1>4, <1>5 DEF head

-----------------------------------------------------------------------------
\* A column that may hold None is written empty and read back as None.
LEMMA CellBack ==
  ASSUME NEW r, IsRow(r)
  PROVE  Cell(Cells(r)) = r
<1>1. DOMAIN r = COLUMNS /\ r = [ c \in COLUMNS |-> r[c] ]
  BY RowFacts
<1>2. DOMAIN Cells(r) = COLUMNS /\ DOMAIN Cell(Cells(r)) = COLUMNS
  BY <1>1 DEF Cells, Cell
<1>3. ASSUME NEW c \in COLUMNS
      PROVE  Cell(Cells(r))[c] = r[c]
  <2>1. c \in Optional => r[c] # ""
    BY DEF IsRow
  <2>2. Cells(r)[c] = IF c \in Optional /\ r[c] = "None" THEN "" ELSE r[c]
    BY <1>1 DEF Cells
  <2>3. Cell(Cells(r))[c] = IF c \in Optional /\ Cells(r)[c] = "" THEN "None" ELSE Cells(r)[c]
    BY <1>2 DEF Cell, NULLABLE, Optional
  <2> QED
    BY <2>1, <2>2, <2>3
<1>4. Cell(Cells(r)) = [ c \in COLUMNS |-> Cell(Cells(r))[c] ]
  BY <1>1, <1>2 DEF Cell
<1>5. [ c \in COLUMNS |-> Cell(Cells(r))[c] ] = [ c \in COLUMNS |-> r[c] ]
  BY <1>3
<1> QED
  BY <1>1, <1>4, <1>5

\* A cut of the signals leaves the other columns as they are.
LEMMA CutBack ==
  ASSUME NEW r, IsRow(r), NEW sig
  PROVE  LET line == [ Cells(r) EXCEPT !.signals = sig ] IN
         /\ DOMAIN Cell(line) = COLUMNS
         /\ \A c \in COLUMNS \ {"signals"} : Cell(line)[c] = r[c]
<1> DEFINE line == [ Cells(r) EXCEPT !.signals = sig ]
<1>1. DOMAIN r = COLUMNS
  BY RowFacts
<1>2. DOMAIN Cells(r) = COLUMNS /\ DOMAIN line = COLUMNS /\ DOMAIN Cell(line) = COLUMNS
  BY <1>1 DEF Cells, Cell
<1>3. ASSUME NEW c \in COLUMNS \ {"signals"}
      PROVE  Cell(line)[c] = r[c]
  <2>1. line[c] = Cells(r)[c]
    BY <1>2
  <2>2. Cell(line)[c] = Cell(Cells(r))[c]
    <3> HIDE DEF line
    <3> QED
      BY <1>2, <2>1 DEF Cell
  <2> QED
    BY <2>2, CellBack
<1> QED
  BY <1>2, <1>3

\* What a file is read as: rows in the order of their keys, which are all different
IsRead(read) ==
  /\ read \in Seq(ToSet(read)) /\ Len(read) \in Nat /\ DOMAIN read = 1..Len(read)
  /\ \A k \in DOMAIN read :
       /\ DOMAIN read[k] = COLUMNS
       /\ read[k].mode \in VALID_MODES["tier1"] /\ read[k].id \in Nat /\ read[k].rep \in Nat
  /\ \A j, k \in DOMAIN read : j < k => KeyLess(Key(read[j]), Key(read[k]))

LEMMA GoodIsRead ==
  ASSUME NEW rs, GoodRows(rs)
  PROVE  IsRead(rs)
BY RowFacts DEF GoodRows, IsRead

\* A read file is as long as its lines, and none of these is broken.
LEMMA Readable ==
  ASSUME NEW lines, lines \in Seq(ToSet(lines)), read_results(lines) # Raises
  PROVE  /\ lines # << >> /\ Clean(lines) /\ Len(lines) \in Nat
         /\ read_results(lines) = [ k \in 1..(Len(lines) - 1) |-> Cell(lines[k + 1]) ]
<1>1. /\ lines # << >> /\ Head(lines) = Header
      /\ \A k \in 2..Len(lines) : lines[k] # Broken
      /\ read_results(lines) = [ k \in 1..(Len(lines) - 1) |-> Cell(lines[k + 1]) ]
  BY DEF read_results
<1>2. lines[1] = Header /\ DOMAIN lines = 1..Len(lines) /\ Len(lines) \in Nat
  BY <1>1
<1>3. Header # Broken
  BY DEF Header, Broken
<1>4. \A k \in 1..Len(lines) : k = 1 \/ k \in 2..Len(lines)
  BY <1>2
<1> QED
  BY <1>1, <1>2, <1>3, <1>4 DEF Clean

\* What is read of a file are the rows that were written, but for the signals of the
\* last when a kill cut it.
LEMMA Reading ==
  ASSUME NEW f, NEW rs, GoodRows(rs), NEW lines, NEW w, NEW n, FileOf(f, rs, lines, w, n),
         read_results(lines) # Raises
  PROVE  LET read == read_results(lines) IN
         /\ IsRead(read) /\ Len(read) <= Len(rs)
         /\ w = "closed" => Len(read) = Len(rs)
         /\ \A k \in DOMAIN read :
              \/ read[k] = rs[k]
              \/ /\ w = "killed" /\ k = Len(read)
                 /\ \A c \in COLUMNS \ {"signals"} : read[k][c] = rs[k][c]
<1> DEFINE read == read_results(lines)
           N == Len(lines) - 1
<1>1. /\ lines # << >> /\ Clean(lines) /\ Len(lines) \in Nat
      /\ read = [ k \in 1..N |-> Cell(lines[k + 1]) ]
  BY Readable DEF FileOf
<1>2. IsText(lines, rs, w) /\ (w # "killed" => Len(lines) = n + 1) /\ n \in 0..Len(rs)
      /\ (w = "closed" => n = Len(rs))
  BY <1>1 DEF FileOf
<1>3. Len(rs) \in Nat /\ DOMAIN rs = 1..Len(rs)
  BY DEF GoodRows
<1>4. N \in Nat /\ N <= Len(rs) /\ (w = "closed" => N = Len(rs))
  <2>1. Len(lines) - 1 \in 0..Len(rs)
    BY <1>2 DEF IsText
  <2>2. w = "closed" => Len(lines) = Len(rs) + 1
    BY <1>2
  <2> QED
    BY <1>1, <1>3, <2>1, <2>2
<1>5. \A k \in 1..N : LineOf(lines[k + 1], rs[k], w = "killed" /\ k = N)
  BY <1>2 DEF IsText
<1> HIDE DEF read, N
<1>6. DOMAIN read = 1..N /\ \A k \in 1..N : read[k] = Cell(lines[k + 1])
  BY <1>1
<1>7. \A k \in 1..N : k \in DOMAIN rs /\ IsRow(rs[k])
  <2>1. ASSUME NEW k \in 1..N PROVE k \in 1..Len(rs)
    <3>1. N \in Nat /\ Len(rs) \in Nat /\ N <= Len(rs)
      BY <1>3, <1>4
    <3> QED
      BY <3>1
  <2>2. \A k \in DOMAIN rs : IsRow(rs[k])
    BY DEF GoodRows
  <2> QED
    BY <1>3, <2>1, <2>2
<1>8. ASSUME NEW k \in 1..N
      PROVE  /\ DOMAIN read[k] = COLUMNS
             /\ \A c \in COLUMNS \ {"signals"} : read[k][c] = rs[k][c]
             /\ read[k] = rs[k] \/ (w = "killed" /\ k = N)
  <2>1. CASE lines[k + 1] = Cells(rs[k])
    <3>1. read[k] = rs[k]
      BY <1>6, <1>7, <2>1, CellBack
    <3> QED
      BY <1>7, <3>1, RowFacts
  <2>2. CASE lines[k + 1] # Cells(rs[k])
    <3>1. w = "killed" /\ k = N
      BY <1>5, <2>2 DEF LineOf
    <3>2. PICK sig : lines[k + 1] = [ Cells(rs[k]) EXCEPT !.signals = sig ]
      <4>1. PICK m \in 0..Len(rs[k].signals) :
              lines[k + 1] = [ Cells(rs[k]) EXCEPT !.signals = SubSeq(@, 1, m) ]
        BY <1>5, <2>2 DEF LineOf
      <4>2. lines[k + 1] = [ Cells(rs[k]) EXCEPT !.signals = SubSeq(Cells(rs[k]).signals, 1, m) ]
        BY <4>1
      <4> QED
        BY <4>2
    <3>3. /\ DOMAIN Cell(lines[k + 1]) = COLUMNS
          /\ \A c \in COLUMNS \ {"signals"} : Cell(lines[k + 1])[c] = rs[k][c]
      <4> DEFINE r == rs[k]
                 line == [ Cells(r) EXCEPT !.signals = sig ]
      <4>1. IsRow(r)
        BY <1>7
      <4> HIDE DEF r
      <4>2. DOMAIN Cell(line) = COLUMNS /\ \A c \in COLUMNS \ {"signals"} : Cell(line)[c] = r[c]
        BY <4>1, CutBack
      <4>3. lines[k + 1] = line
        BY <3>2 DEF r
      <4> QED
        BY <4>2, <4>3 DEF r
    <3> QED
      BY <1>6, <3>1, <3>3
  <2> QED
    BY <2>1, <2>2
<1>9. \A k \in 1..N : read[k].mode = rs[k].mode /\ read[k].id = rs[k].id /\ read[k].rep = rs[k].rep
  <2>1. {"mode", "id", "rep"} \subseteq COLUMNS \ {"signals"}
    BY DEF COLUMNS
  <2> QED
    BY <1>8, <2>1
<1>10. read \in Seq(ToSet(read)) /\ Len(read) = N
  <2>1. \A k \in 1..N : read[k] \in ToSet(read)
    BY <1>6 DEF ToSet
  <2> DEFINE Elems == ToSet(read)
  <2> HIDE DEF Elems
  <2>2. \A k \in 1..N : read[k] \in Elems
    BY <2>1 DEF Elems
  <2>3. read = [ k \in 1..N |-> read[k] ]
    BY <1>1, <1>6
  <2>4. read \in [ 1..N -> Elems ]
    BY <2>2, <2>3
  <2>5. read \in Seq(Elems) /\ Len(read) = N
    BY <1>4, <1>6, <2>4
  <2> QED
    BY <2>5 DEF Elems
<1>11. \A j, k \in 1..N : j < k => KeyLess(Key(read[j]), Key(read[k]))
  <2>1. \A k \in 1..N : Key(read[k]) = Key(rs[k])
    BY <1>9 DEF Key
  <2> QED
    BY <1>7, <2>1 DEF GoodRows
<1>12. \A k \in 1..N : read[k].mode \in VALID_MODES["tier1"] /\ read[k].id \in Nat /\ read[k].rep \in Nat
  BY <1>7, <1>9, RowFacts
<1>13. IsRead(read)
  BY <1>4, <1>6, <1>8, <1>10, <1>11, <1>12 DEF IsRead
<1> QED
  BY <1>4, <1>6, <1>8, <1>10, <1>13 DEF read

\* A file that is closed is read as its rows, unless one of them is split.
LEMMA ReadBack ==
  ASSUME NEW f, NEW rs, GoodRows(rs), NEW lines, NEW n, FileOf(f, rs, lines, "closed", n),
         Unsplit(f, rs, n)
  PROVE  read_results(lines) = rs
<1>1. /\ Clean(lines) /\ lines # << >> /\ lines \in Seq(ToSet(lines))
      /\ Len(lines) = Len(rs) + 1 /\ IsText(lines, rs, "closed")
  BY DEF FileOf
<1>2. /\ Len(rs) \in Nat /\ DOMAIN rs = 1..Len(rs) /\ rs \in Seq(ToSet(rs))
      /\ \A k \in 1..Len(rs) : IsRow(rs[k])
  BY DEF GoodRows
<1>3. Len(lines) - 1 = Len(rs) /\ DOMAIN lines = 1..Len(lines) /\ Head(lines) = Header
  BY <1>1, <1>2 DEF IsText
<1>4. \A k \in 1..Len(rs) : Cell(lines[k + 1]) = rs[k]
  BY <1>1, <1>2, <1>3, CellBack DEF IsText, LineOf
<1>5. ASSUME NEW k \in 2..Len(lines)
      PROVE  lines[k] # Broken /\ Validates(Cell(lines[k]))
  <2>1. k \in DOMAIN lines /\ k - 1 \in 1..Len(rs) /\ (k - 1) + 1 = k
    BY <1>1, <1>2, <1>3
  <2>2. Cell(lines[k]) = rs[k - 1]
    BY <1>4, <2>1
  <2> QED
    BY <1>1, <1>2, <2>1, <2>2 DEF Clean, IsRow
<1>6. read_results(lines) = [ k \in 1..(Len(lines) - 1) |-> Cell(lines[k + 1]) ]
  BY <1>1, <1>3, <1>5 DEF read_results
<1>7. read_results(lines) = [ k \in 1..Len(rs) |-> rs[k] ]
  BY <1>3, <1>4, <1>6
<1> QED
  BY <1>2, <1>7

\* A closed file of which a row is split cannot be read.
LEMMA NotReadBack ==
  ASSUME NEW f, NEW rs, NEW lines, NEW n, FileOf(f, rs, lines, "closed", n), ~Unsplit(f, rs, n)
  PROVE  read_results(lines) = Raises
<1>1. PICK k \in 2..Len(lines) : lines[k] = Broken
  BY DEF FileOf, Torn
<1> QED
  BY <1>1 DEF read_results

-----------------------------------------------------------------------------
KeyBefore(S) == { ab \in S \X S : KeyLess(ab[1], ab[2]) }

\* The keys in the order of the rows
KeysOf(read) == [ k \in DOMAIN read |-> Key(read[k]) ]

LEMMA KeysInOrder ==
  ASSUME NEW read, IsRead(read)
  PROVE  /\ IsFiniteSet(Keyed(read)) /\ Ordered(Keyed(read), KeyBefore(Keyed(read)))
         /\ KeysOf(read) = Ranked(Keyed(read), KeyBefore(Keyed(read)))
<1> DEFINE S == Keyed(read)
           s == KeysOf(read)
           N == Len(read)
<1>1. /\ N \in Nat /\ DOMAIN read = 1..N /\ DOMAIN s = 1..N /\ \A k \in 1..N : s[k] = Key(read[k])
      /\ \A k \in 1..N : read[k].mode \in DOMAIN ModeRank /\ read[k].id \in Int /\ read[k].rep \in Int
      /\ \A j, k \in 1..N : j < k => KeyLess(Key(read[j]), Key(read[k]))
  <2>1. /\ N \in Nat /\ DOMAIN read = 1..N
        /\ \A k \in 1..N : read[k].mode \in VALID_MODES["tier1"] /\ read[k].id \in Nat /\ read[k].rep \in Nat
        /\ \A j, k \in 1..N : j < k => KeyLess(Key(read[j]), Key(read[k]))
    BY DEF IsRead
  <2>2. DOMAIN s = 1..N /\ \A k \in 1..N : s[k] = Key(read[k])
    BY <2>1 DEF KeysOf
  <2> QED
    BY <2>1, <2>2, RanksAreNumbers
<1>2. S = { s[k] : k \in 1..N }
  BY <1>1 DEF Keyed, ToSet
<1>3. \A k \in 1..N : s[k][1] \in DOMAIN ModeRank /\ s[k][2] \in Int /\ s[k][3] \in Int
  BY <1>1 DEF Key
<1> HIDE DEF S, s, N
<1>4. \A x \in S : x[1] \in DOMAIN ModeRank /\ x[2] \in Int /\ x[3] \in Int
  BY <1>2, <1>3
<1>5. \A j, k \in 1..N : j < k => KeyLess(s[j], s[k])
  BY <1>1
<1>6. \A x \in S : ~KeyLess(x, x)
  BY <1>4, RanksAreNumbers DEF KeyLess
<1>7. \A x, y, z \in S : KeyLess(x, y) /\ KeyLess(y, z) => KeyLess(x, z)
  BY <1>4, RanksAreNumbers DEF KeyLess
<1>8. \A x, y \in S : x # y => KeyLess(x, y) \/ KeyLess(y, x)
  <2> TAKE x, y \in S
  <2>1. PICK j \in 1..N, k \in 1..N : x = s[j] /\ y = s[k]
    BY <1>2
  <2>2. j < k \/ k < j \/ j = k
    BY <1>1
  <2> QED
    BY <1>5, <2>1, <2>2
<1>9. Ordered(S, KeyBefore(S))
  BY <1>6, <1>7, <1>8 DEF Ordered, KeyBefore
<1>10. \A j, k \in 1..N : s[j] = s[k] => j = k
  <2> TAKE j, k \in 1..N
  <2>1. j < k \/ k < j \/ j = k
    BY <1>1
  <2>2. s[j] \in S /\ s[k] \in S
    BY <1>2
  <2> QED
    BY <1>5, <1>6, <2>1, <2>2
<1>11. s \in [ 1..N -> S ]
  <2>1. s = [ k \in 1..N |-> s[k] ]
    BY <1>1 DEF s, KeysOf
  <2>2. \A k \in 1..N : s[k] \in S
    BY <1>2
  <2> QED
    BY <2>1, <2>2
<1>12. Enumerates(s, S)
  <2>1. s \in Seq(S)
    BY <1>1, <1>11
  <2>2. \A x \in S : \E k \in DOMAIN s : s[k] = x
    BY <1>1, <1>2
  <2> QED
    BY <1>1, <1>10, <2>1, <2>2 DEF Enumerates, Injective
<1>13. Increasing(s, KeyBefore(S))
  <2>1. \A k \in 1..N : s[k] \in S
    BY <1>2
  <2> QED
    BY <1>1, <1>5, <2>1 DEF Increasing, KeyBefore
<1>14. IsFiniteSet(S)
  <2>1. s \in Surjection(1..N, S)
    BY <1>2, <1>11 DEF Surjection
  <2>2. IsFiniteSet(1..N)
    BY <1>1, FS_Interval
  <2> QED
    BY <2>1, <2>2, FS_Surjection
<1>15. s = Ranked(S, KeyBefore(S))
  BY <1>9, <1>12, <1>13, <1>14, OnlyOrder
<1> QED
  BY <1>9, <1>14, <1>15 DEF S, s

\* Files with the same keys have them at the same places.
LEMMA SameKeys ==
  ASSUME NEW left, IsRead(left), NEW right, IsRead(right), Keyed(left) = Keyed(right)
  PROVE  /\ Len(left) = Len(right)
         /\ \A k \in 1..Len(left) : Key(left[k]) = Key(right[k])
<1>1. KeysOf(left) = KeysOf(right)
  BY KeysInOrder
<1>2. /\ DOMAIN left = 1..Len(left) /\ DOMAIN right = 1..Len(right)
      /\ Len(left) \in Nat /\ Len(right) \in Nat
  BY DEF IsRead
<1>3. DOMAIN left = DOMAIN right
  BY <1>1 DEF KeysOf
<1>4. Len(left) = Len(right)
  <2> DEFINE m == Len(left)
             n == Len(right)
  <2>1. m \in Nat /\ n \in Nat /\ 1..m = 1..n
    BY <1>2, <1>3
  <2> HIDE DEF m, n
  <2>2. (m > 0 => m \in 1..n) /\ (n > 0 => n \in 1..m)
    BY <2>1
  <2>3. m = n
    BY <2>1, <2>2
  <2> QED
    BY <2>3 DEF m, n
<1>5. ASSUME NEW k \in 1..Len(left)
      PROVE  Key(left[k]) = Key(right[k])
  <2>1. KeysOf(left)[k] = Key(left[k]) /\ KeysOf(right)[k] = Key(right[k])
    BY <1>2, <1>3 DEF KeysOf
  <2> QED
    BY <1>1, <2>1
<1> QED
  BY <1>4, <1>5

\* The row of a key is where the key is.
LEMMA RowOfKey ==
  ASSUME NEW read, IsRead(read), NEW k \in 1..Len(read)
  PROVE  Key(read[k]) \in Keyed(read) /\ Row(read, Key(read[k])) = read[k]
<1>1. k \in DOMAIN read /\ read[k] \in ToSet(read)
  BY DEF IsRead, ToSet
<1>2. \A q \in ToSet(read) : Key(q) = Key(read[k]) => q = read[k]
  <2> TAKE q \in ToSet(read)
  <2>1. PICK j \in DOMAIN read : q = read[j]
    BY DEF ToSet
  <2>2. KeysOf(read)[j] = Key(read[j]) /\ KeysOf(read)[k] = Key(read[k])
    BY <1>1 DEF KeysOf
  <2>3. Key(read[j]) = Key(read[k]) => j = k
    <3>1. j < k \/ k < j \/ j = k
      BY <1>1, <2>1 DEF IsRead
    <3>2. /\ read[k].mode \in DOMAIN ModeRank /\ read[k].id \in Int /\ read[k].rep \in Int
      BY <1>1, RanksAreNumbers DEF IsRead
    <3>3. ~KeyLess(Key(read[k]), Key(read[k]))
      BY <3>2, RanksAreNumbers DEF KeyLess, Key
    <3>4. (j < k => KeyLess(Key(read[j]), Key(read[k]))) /\ (k < j => KeyLess(Key(read[k]), Key(read[j])))
      BY <1>1 DEF IsRead
    <3> QED
      BY <3>1, <3>3, <3>4
  <2> QED
    BY <2>1, <2>3
<1>3. Row(read, Key(read[k])) \in ToSet(read) /\ Key(Row(read, Key(read[k]))) = Key(read[k])
  BY <1>1 DEF Row
<1> QED
  BY <1>1, <1>2, <1>3 DEF Keyed

\* What two runs must have in common
Told == COLUMNS \ (TIMING \union PER_RUN)

\* Two files without a difference have as many rows, which tell the same.
LEMMA Alike ==
  ASSUME NEW left, IsRead(left), NEW right, IsRead(right), compare_results(left, right) = {}
  PROVE  /\ Keyed(left) = Keyed(right) /\ Len(left) = Len(right)
         /\ \A k \in 1..Len(left) : \A c \in Told : left[k][c] = right[k][c]
<1>1. Keyed(left) \subseteq Keyed(right)
  <2> SUFFICES ASSUME NEW key \in Keyed(left), key \notin Keyed(right) PROVE FALSE
    OBVIOUS
  <2>1. << key, "only in the first file" >> \in compare_results(left, right)
    BY DEF compare_results
  <2> QED
    BY <2>1
<1>2. Keyed(right) \subseteq Keyed(left)
  <2> SUFFICES ASSUME NEW key \in Keyed(right), key \notin Keyed(left) PROVE FALSE
    OBVIOUS
  <2>1. << key, "only in the second file" >> \in compare_results(left, right)
    BY DEF compare_results
  <2> QED
    BY <2>1
<1>3. \A key \in Keyed(left) \intersect Keyed(right) : Differing(left, right, key) = {}
  <2> SUFFICES ASSUME NEW key \in Keyed(left) \intersect Keyed(right), Differing(left, right, key) # {}
               PROVE FALSE
    OBVIOUS
  <2>1. << key, "differs" >> \in compare_results(left, right)
    BY DEF compare_results
  <2> QED
    BY <2>1
<1>4. /\ Keyed(left) = Keyed(right) /\ Len(left) = Len(right)
      /\ \A k \in 1..Len(left) : Key(left[k]) = Key(right[k])
  <2>1. Keyed(left) = Keyed(right)
    BY <1>1, <1>2
  <2> QED
    BY <2>1, SameKeys
<1>5. ASSUME NEW k \in 1..Len(left), NEW c \in Told
      PROVE  left[k][c] = right[k][c]
  <2> DEFINE key == Key(left[k])
  <2>1. key \in Keyed(left) /\ Row(left, key) = left[k]
    BY RowOfKey
  <2>2. k \in 1..Len(right) /\ Key(right[k]) = key
    BY <1>4
  <2>3. Row(right, key) = right[k]
    BY <2>2, RowOfKey
  <2>4. Differing(left, right, key) = {}
    BY <1>3, <1>4, <2>1
  <2>5. c \in DOMAIN Row(left, key) \ (TIMING \union PER_RUN)
    BY <2>1 DEF IsRead, Told
  <2> HIDE DEF key
  <2>6. Row(left, key)[c] = Row(right, key)[c]
    BY <2>4, <2>5 DEF Differing
  <2> QED
    BY <2>1, <2>3, <2>6
<1> QED
  BY <1>4, <1>5

-----------------------------------------------------------------------------
LEMMA LastExists ==
  ASSUME NEW N \in Nat, NEW at, at \subseteq 1..N, at # {}
  PROVE  \E k \in at : \A j \in at : j <= k
<1> DEFINE before == { ab \in at \X at : ab[1] < ab[2] }
           s == Ranked(at, before)
<1>1. IsFiniteSet(at)
  <2>1. IsFiniteSet(1..N)
    BY FS_Interval
  <2> QED
    BY <2>1, FS_Subset
<1>2. Ordered(at, before)
  <2>1. \A x \in at : x \in Int
    OBVIOUS
  <2>2. \A x, y \in at : << x, y >> \in before <=> x < y
    OBVIOUS
  <2> HIDE DEF before
  <2> QED
    BY <2>1, <2>2 DEF Ordered
<1>3. Enumerates(s, at) /\ Increasing(s, before)
  <2> HIDE DEF before
  <2> QED
    BY <1>1, <1>2, RankedLists
<1> HIDE DEF s
<1> DEFINE n == Len(s)
<1>4. s \in Seq(at) /\ n \in Nat /\ DOMAIN s = 1..n /\ \A k \in 1..n : s[k] \in at
  BY <1>3 DEF Enumerates
<1> HIDE DEF n
<1>5. \A x \in at : \E k \in 1..n : s[k] = x
  BY <1>3, <1>4 DEF Enumerates
<1>6. n \in 1..n
  <2>1. PICK k \in 1..n : TRUE
    BY <1>5
  <2> QED
    BY <1>4, <2>1
<1>7. ASSUME NEW j \in at PROVE j <= s[n]
  <2>1. PICK k \in 1..n : s[k] = j
    BY <1>5
  <2>2. s[n] \in Int /\ j \in Int
    <3>1. \A x \in at : x \in Int
      OBVIOUS
    <3>2. s[n] \in at
      BY <1>4, <1>6
    <3> QED
      BY <3>1, <3>2
  <2>3. k = n \/ k < n
    BY <1>4
  <2>4. CASE k < n
    <3>1. << s[k], s[n] >> \in before
      BY <1>3, <1>4, <1>6, <2>4 DEF Increasing
    <3>2. s[k] < s[n]
      BY <3>1
    <3> QED
      BY <2>1, <2>2, <3>2
  <2> QED
    BY <2>1, <2>2, <2>3, <2>4
<1>8. s[n] \in at
  BY <1>4, <1>6
<1> QED
  BY <1>7, <1>8

\* Two files with a row for a row, which tell the same
Twins(left, right) ==
  /\ IsRead(left) /\ IsRead(right) /\ Len(left) = Len(right)
  /\ \A k \in 1..Len(left) : \A c \in Told : left[k][c] = right[k][c]

LEMMA TwinFacts ==
  ASSUME NEW left, NEW right, Twins(left, right)
  PROVE  LET N == Len(left) IN
         /\ N \in Nat /\ DOMAIN left = 1..N /\ DOMAIN right = 1..N /\ Len(right) = N
         /\ ToSet(left) = { left[k] : k \in 1..N } /\ ToSet(right) = { right[k] : k \in 1..N }
         /\ \A k \in 1..N :
              /\ left[k].mode = right[k].mode /\ left[k].id = right[k].id
              /\ left[k].blocked = right[k].blocked /\ left[k].error = right[k].error
              /\ left[k].detail = right[k].detail /\ left[k].family = right[k].family
              /\ left[k].verdict = right[k].verdict /\ left[k].signals = right[k].signals
<1>1. { "mode", "id", "blocked", "error", "detail", "family", "verdict", "signals" } \subseteq Told
  BY DEF Told, COLUMNS, TIMING, PER_RUN
<1>2. /\ Len(left) \in Nat /\ DOMAIN left = 1..Len(left) /\ Len(right) = Len(left)
      /\ DOMAIN right = 1..Len(left)
  BY DEF Twins, IsRead
<1>3. \A k \in 1..Len(left) : \A c \in Told : left[k][c] = right[k][c]
  BY DEF Twins
<1>4. ToSet(left) = { left[k] : k \in 1..Len(left) } /\ ToSet(right) = { right[k] : k \in 1..Len(left) }
  BY <1>2 DEF ToSet
<1> QED
  BY <1>1, <1>2, <1>3, <1>4

\* What a summary says of one payload in one mode
LEMMA SameLast ==
  ASSUME NEW left, NEW right, Twins(left, right), NEW id, NEW m, m \in Modes(left, id)
  PROVE  LET l == LastRow(left, id, m)
             r == LastRow(right, id, m)
         IN  l.verdict = r.verdict /\ l.signals = r.signals /\ l.error = r.error /\ l.family = r.family
<1> DEFINE N == Len(left)
           at == { k \in 1..N : left[k].id = id /\ left[k].mode = m }
           last == CHOOSE k \in at : \A j \in at : j <= k
<1>1. /\ N \in Nat /\ DOMAIN left = 1..N /\ DOMAIN right = 1..N
      /\ ToSet(left) = { left[k] : k \in 1..N }
      /\ \A k \in 1..N :
              /\ left[k].mode = right[k].mode /\ left[k].id = right[k].id
              /\ left[k].error = right[k].error /\ left[k].family = right[k].family
              /\ left[k].verdict = right[k].verdict /\ left[k].signals = right[k].signals
  BY TwinFacts
<1>2. at # {}
  <2>1. PICK q \in ToSet(left) : q.id = id /\ q.mode = m
    BY DEF Modes
  <2> QED
    BY <1>1, <2>1
<1>3. { k \in 1..N : right[k].id = id /\ right[k].mode = m } = at
  BY <1>1
<1> HIDE DEF N
<1>4. LastRow(left, id, m) = left[last] /\ LastRow(right, id, m) = right[last]
  BY <1>1, <1>3 DEF LastRow
<1>5. \E k \in at : \A j \in at : j <= k
  BY <1>1, <1>2, LastExists
<1> HIDE DEF at
<1>6. last \in at
  BY <1>5
<1>7. last \in 1..N
  BY <1>6 DEF at
<1> HIDE DEF last
<1> QED
  BY <1>1, <1>4, <1>7

\* What a summary says of a payload or of a mode does not depend on a column of timing
\* or of the run.
LEMMA SameSummary ==
  ASSUME NEW left, NEW right, Twins(left, right)
  PROVE  summarize(left) = summarize(right)
<1> DEFINE N == Len(left)
           D == 1..N
<1>1. /\ N \in Nat /\ DOMAIN left = D /\ DOMAIN right = D /\ Len(right) = N
      /\ ToSet(left) = { left[k] : k \in D } /\ ToSet(right) = { right[k] : k \in D }
      /\ \A k \in D :
              /\ left[k].mode = right[k].mode /\ left[k].id = right[k].id
              /\ left[k].blocked = right[k].blocked /\ left[k].error = right[k].error
              /\ left[k].detail = right[k].detail /\ left[k].family = right[k].family
              /\ left[k].verdict = right[k].verdict /\ left[k].signals = right[k].signals
  BY TwinFacts
<1> HIDE DEF D, N
<1>2. { r.id : r \in ToSet(left) } = { r.id : r \in ToSet(right) }
  <2>1. { r.id : r \in ToSet(left) } = { left[k].id : k \in D }
    BY <1>1
  <2>2. { r.id : r \in ToSet(right) } = { right[k].id : k \in D }
    BY <1>1
  <2>3. { left[k].id : k \in D } = { right[k].id : k \in D }
    BY <1>1
  <2> QED
    BY <2>1, <2>2, <2>3
<1> DEFINE ids == { r.id : r \in ToSet(left) }
<1>3. ASSUME NEW id PROVE Modes(left, id) = Modes(right, id)
  <2>1. Modes(left, id) = { left[k].mode : k \in { j \in D : left[j].id = id } }
    BY <1>1 DEF Modes
  <2>2. Modes(right, id) = { right[k].mode : k \in { j \in D : right[j].id = id } }
    BY <1>1 DEF Modes
  <2> QED
    BY <1>1, <2>1, <2>2
<1> DEFINE Complete == \A id \in ids : "off" \in Modes(left, id)
<1>4. ASSUME Complete PROVE AttackIds(left) = AttackIds(right)
  <2>1. \A id \in ids : LastRow(left, id, "off").family = LastRow(right, id, "off").family
    BY <1>4, SameLast
  <2> QED
    BY <1>2, <2>1 DEF AttackIds
<1>5. ASSUME NEW m, NEW v
      PROVE  Cardinality({ k \in DOMAIN left : left[k].mode = m /\ left[k].verdict = v })
               = Cardinality({ k \in DOMAIN right : right[k].mode = m /\ right[k].verdict = v })
  <2>1. { k \in DOMAIN left : left[k].mode = m /\ left[k].verdict = v }
               = { k \in DOMAIN right : right[k].mode = m /\ right[k].verdict = v }
    BY <1>1
  <2> QED
    BY <2>1
<1> DEFINE
  Number(read, m, v) == Cardinality({ k \in DOMAIN read : read[k].mode = m /\ read[k].verdict = v })
  Counts(read) == { << r.mode, r.verdict, Number(read, r.mode, r.verdict) >> : r \in ToSet(read) }
  Refused(read) == { r \in ToSet(read) : r.mode = "validate_only" /\ r.blocked = "True" }
  Given(read, d) == Cardinality({ k \in DOMAIN read : read[k] \in Refused(read) /\ read[k].detail = d })
  Reasons(read) == { << r.detail, Given(read, r.detail) >> : r \in Refused(read) }
  Fine(read) == Cardinality({ k \in DOMAIN read : read[k].family = "benign" })
  Hurt(read) == Cardinality({ k \in DOMAIN read : read[k].family = "benign" /\ read[k].blocked = "True" })
<1>6. Counts(left) = Counts(right)
  <2>1. \A m, v : Number(left, m, v) = Number(right, m, v)
    BY <1>5
  <2> HIDE DEF Number
  <2>2. Counts(left) = { << left[k].mode, left[k].verdict, Number(left, left[k].mode, left[k].verdict) >> : k \in D }
    BY <1>1
  <2>3. Counts(right) = { << right[k].mode, right[k].verdict, Number(right, right[k].mode, right[k].verdict) >> : k \in D }
    BY <1>1
  <2>4. ASSUME NEW k \in D
        PROVE  << left[k].mode, left[k].verdict, Number(left, left[k].mode, left[k].verdict) >>
                 = << right[k].mode, right[k].verdict, Number(right, right[k].mode, right[k].verdict) >>
    BY <1>1, <2>1
  <2> QED
    BY <2>2, <2>3, <2>4
<1>7. Reasons(left) = Reasons(right)
  <2>1. \A k \in D : left[k] \in Refused(left) <=> right[k] \in Refused(right)
    BY <1>1
  <2>2. Refused(left) = { left[k] : k \in { j \in D : left[j] \in Refused(left) } }
    BY <1>1
  <2>3. Refused(right) = { right[k] : k \in { j \in D : left[j] \in Refused(left) } }
    BY <1>1, <2>1
  <2> DEFINE K == { j \in D : left[j] \in Refused(left) }
  <2> HIDE DEF Refused
  <2>4. ASSUME NEW d PROVE Given(left, d) = Given(right, d)
    <3>1. { k \in DOMAIN left : left[k] \in Refused(left) /\ left[k].detail = d }
            = { k \in DOMAIN right : right[k] \in Refused(right) /\ right[k].detail = d }
      BY <1>1, <2>1
    <3> QED
      BY <3>1
  <2> HIDE DEF Given
  <2>5. \A k \in K : left[k].detail = right[k].detail
    BY <1>1
  <2> HIDE DEF K
  <2>6. Refused(left) = { left[k] : k \in K } /\ Refused(right) = { right[k] : k \in K }
    BY <2>2, <2>3 DEF K
  <2>7. /\ Reasons(left) = { << left[k].detail, Given(left, left[k].detail) >> : k \in K }
        /\ Reasons(right) = { << right[k].detail, Given(right, right[k].detail) >> : k \in K }
    BY <2>6
  <2> QED
    BY <2>4, <2>5, <2>7
<1>8. Fine(left) = Fine(right)
  <2>1. { k \in DOMAIN left : left[k].family = "benign" } = { k \in DOMAIN right : right[k].family = "benign" }
    BY <1>1
  <2> QED
    BY <2>1
<1>9. Hurt(left) = Hurt(right)
  <2>1. { k \in DOMAIN left : left[k].family = "benign" /\ left[k].blocked = "True" }
          = { k \in DOMAIN right : right[k].family = "benign" /\ right[k].blocked = "True" }
    BY <1>1
  <2> QED
    BY <2>1
<1> DEFINE
  Off(read, id) == LET r == LastRow(read, id, "off") IN << r.verdict, r.signals, r.error >>
  Fails(read) == \/ \E id \in { r.id : r \in ToSet(read) } : "off" \notin Modes(read, id)
                 \/ \E id \in AttackIds(read) : ~(VALID_MODES["tier1"] \subseteq Modes(read, id))
  Report(read) ==
    [ payloads |-> { r.id : r \in ToSet(read) }, rows |-> Len(read),
      off     |-> [ id \in AttackIds(read) |-> Off(read, id) ],
      table   |-> [ id \in AttackIds(read) |->
                      [ m \in VALID_MODES["tier1"] |-> LastRow(read, id, m).verdict ] ],
      counts  |-> Counts(read), reasons |-> Reasons(read), benign  |-> << Fine(read), Hurt(read) >> ]
<1>10. \A read \in {left, right} : summarize(read) = IF Fails(read) THEN [ raises |-> "KeyError" ] ELSE Report(read)
  BY DEF summarize
<1> HIDE DEF Counts, Reasons, Fine, Hurt
<1>11. Fails(left) <=> Fails(right)
  <2>1. CASE Complete
    BY <1>2, <1>3, <1>4, <2>1
  <2>2. CASE ~Complete
    BY <1>2, <1>3, <2>2
  <2> QED
    BY <2>1, <2>2
<1>12. ASSUME ~Fails(left)
       PROVE  Report(left) = Report(right)
  <2> DEFINE A == AttackIds(left)
  <2>1. Complete /\ \A id \in A : VALID_MODES["tier1"] \subseteq Modes(left, id)
    BY <1>12
  <2>2. A \subseteq ids /\ AttackIds(right) = A
    BY <1>4, <2>1 DEF AttackIds
  <2>3. ASSUME NEW id \in A PROVE Off(left, id) = Off(right, id)
    BY <2>1, <2>2, SameLast
  <2>4. ASSUME NEW id \in A, NEW m \in VALID_MODES["tier1"]
        PROVE  LastRow(left, id, m).verdict = LastRow(right, id, m).verdict
    BY <2>1, SameLast
  <2> HIDE DEF A, Off
  <2>5. [ id \in A |-> Off(left, id) ] = [ id \in A |-> Off(right, id) ]
    BY <2>3
  <2>6. [ id \in A |-> [ m \in VALID_MODES["tier1"] |-> LastRow(left, id, m).verdict ] ]
          = [ id \in A |-> [ m \in VALID_MODES["tier1"] |-> LastRow(right, id, m).verdict ] ]
    <3>1. \A id \in A : [ m \in VALID_MODES["tier1"] |-> LastRow(left, id, m).verdict ]
                       = [ m \in VALID_MODES["tier1"] |-> LastRow(right, id, m).verdict ]
      BY <2>4
    <3> QED
      BY <3>1
  <2>7. A = AttackIds(left)
    BY DEF A
  <2>8. Len(left) = Len(right)
    BY DEF Twins
  <2> QED
    BY <1>2, <1>6, <1>7, <1>8, <1>9, <2>2, <2>5, <2>6, <2>7, <2>8
<1> HIDE DEF Fails, Report
<1> QED
  BY <1>10, <1>11, <1>12

-----------------------------------------------------------------------------
Ended == {"closed", "killed"}

Written ==
  /\ writer \in [ Files -> {"none", "open"} \union Ended ]
  /\ file = [ f \in Files |-> file[f] ] /\ written \in [ Files -> Nat ]
  /\ \A f \in Files : GoodRows(rows[f]) /\ FileOf(f, rows[f], file[f], writer[f], written[f])

Found(left, right) ==
  << IF Raises \in {left, right} THEN "raises" ELSE "compared",
     IF Raises \in {left, right} THEN {} ELSE compare_results(left, right) >>

\* The files are compared when nothing writes to them any more.
Compared ==
  problems # << >> =>
    /\ \A f \in Files : writer[f] \in Ended
    /\ problems = Found(read_results(file["first"]), read_results(file["second"]))

FilesIInv == Written /\ Compared

LEMMA FilesInit ==
  ASSUME ResultsInit
  PROVE  FilesIInv
<1>1. \A f \in Files : GoodRows(rows[f])
  <2> TAKE f \in Files
  <2>1. rows[f] \in { Sorted(SetToSeq(r)) : r \in RowSets }
    BY DEF ResultsInit
  <2>2. PICK S \in RowSets : rows[f] = Sorted(SetToSeq(S))
    BY <2>1
  <2> QED
    BY <2>2, RowsAreGood
<1>2. \A f \in Files : Len(rows[f]) \in Nat
  BY <1>1 DEF GoodRows
<1>3. \A f \in Files : file[f] = << >> /\ writer[f] = "none" /\ written[f] = 0
  BY DEF ResultsInit
<1>4. \A f \in Files : FileOf(f, rows[f], file[f], writer[f], written[f])
  <2> TAKE f \in Files
  <2>1. << >> \in Seq(ToSet(<< >>)) /\ Clean(<< >>) /\ 0 \in 0..Len(rows[f]) /\ Unsplit(f, rows[f], 0)
    BY <1>2 DEF Clean, Unsplit
  <2>2. FileOf(f, rows[f], << >>, "none", 0)
    BY <2>1 DEF FileOf
  <2> QED
    BY <1>3, <2>2
<1>5. writer \in [ Files -> {"none", "open"} \union Ended ] /\ written \in [ Files -> Nat ]
      /\ file = [ f \in Files |-> file[f] ]
  BY DEF ResultsInit
<1> QED
  BY <1>1, <1>4, <1>5 DEF ResultsInit, FilesIInv, Written, Compared

\* A step of one writer leaves the other file as it is.
LEMMA OneFile ==
  ASSUME Written, NEW f \in Files, NEW lines, NEW w \in {"none", "open"} \union Ended, NEW n,
         FileOf(f, rows[f], lines, w, n), rows' = rows,
         file' = [ file EXCEPT ![f] = lines ], writer' = [ writer EXCEPT ![f] = w ],
         written' = [ written EXCEPT ![f] = n ]
  PROVE  Written'
<1>1. DOMAIN file = Files /\ DOMAIN written = Files /\ DOMAIN writer = Files
      /\ writer \in [ Files -> {"none", "open"} \union Ended ] /\ written \in [ Files -> Nat ]
  BY DEF Written
<1>2. /\ file' = [ g \in Files |-> file'[g] ] /\ written' \in [ Files -> Nat ]
      /\ writer' \in [ Files -> {"none", "open"} \union Ended ]
  <2>1. n \in Nat
    BY DEF FileOf
  <2>2. written' \in [ Files -> Nat ] /\ writer' \in [ Files -> {"none", "open"} \union Ended ]
    BY <1>1, <2>1
  <2>3. file' = [ g \in Files |-> file'[g] ]
    BY <1>1
  <2> QED
    BY <2>2, <2>3
<1>3. ASSUME NEW g \in Files
      PROVE  GoodRows(rows'[g]) /\ FileOf(g, rows'[g], file'[g], writer'[g], written'[g])
  <2>1. CASE g = f
    <3>1. file'[g] = lines /\ writer'[g] = w /\ written'[g] = n
      BY <1>1, <2>1
    <3> QED
      BY <2>1, <3>1 DEF Written
  <2>2. CASE g # f
    <3>1. file'[g] = file[g] /\ writer'[g] = writer[g] /\ written'[g] = written[g]
      BY <1>1, <2>2
    <3> QED
      BY <3>1 DEF Written
  <2> QED
    BY <2>1, <2>2
<1> QED
  BY <1>2, <1>3 DEF Written

LEMMA FilesNext ==
  ASSUME FilesIInv, [ResultsNext]_resultsVars
  PROVE  FilesIInv'
<1>1. CASE UNCHANGED resultsVars
  BY <1>1 DEF resultsVars, FilesIInv, Written, Compared
<1>2. ASSUME NEW f \in Files, writer[f] \in {"none", "open"}, UNCHANGED problems, Written'
      PROVE  FilesIInv'
  <2>1. problems = << >>
    BY <1>2 DEF FilesIInv, Compared, Ended
  <2> QED
    BY <1>2, <2>1 DEF FilesIInv, Compared
<1>3. ASSUME NEW f \in Files
      PROVE  /\ file[f] = file[f] /\ file = [ file EXCEPT ![f] = file[f] ]
             /\ written = [ written EXCEPT ![f] = written[f] ]
             /\ writer = [ writer EXCEPT ![f] = writer[f] ]
             /\ GoodRows(rows[f]) /\ FileOf(f, rows[f], file[f], writer[f], written[f])
             /\ written[f] \in 0..Len(rows[f]) /\ Len(rows[f]) \in Nat
  <2>1. /\ writer \in [ Files -> {"none", "open"} \union Ended ]
        /\ file = [ g \in Files |-> file[g] ] /\ written \in [ Files -> Nat ]
    BY DEF FilesIInv, Written
  <2>2. GoodRows(rows[f]) /\ FileOf(f, rows[f], file[f], writer[f], written[f])
    BY DEF FilesIInv, Written
  <2>3. written[f] \in 0..Len(rows[f]) /\ Len(rows[f]) \in Nat
    BY <2>2 DEF FileOf, GoodRows
  <2> QED
    BY <2>1, <2>2, <2>3
<1>4. ASSUME NEW f \in Files, Create(f)
      PROVE  FilesIInv'
  <2>1. writer[f] = "none" /\ writer' = [ writer EXCEPT ![f] = "open" ]
        /\ UNCHANGED << rows, file, written, problems >>
    BY <1>4 DEF Create
  <2>2. FileOf(f, rows[f], file[f], "none", written[f])
    BY <1>3, <2>1
  <2>3. FileOf(f, rows[f], file[f], "open", written[f])
    <3>1. /\ file[f] = << >> /\ written[f] = 0 /\ written[f] \in 0..Len(rows[f])
          /\ << >> \in Seq(ToSet(<< >>)) /\ Clean(<< >>) /\ Unsplit(f, rows[f], 0)
      BY <2>2, <1>3 DEF FileOf, Clean, Unsplit
    <3> QED
      BY <3>1 DEF FileOf
  <2>4. /\ file' = [ file EXCEPT ![f] = file[f] ] /\ rows' = rows
        /\ written' = [ written EXCEPT ![f] = written[f] ]
        /\ writer' = [ writer EXCEPT ![f] = "open" ]
    BY <1>3, <2>1
  <2>5. Written'
    BY <2>3, <2>4, OneFile DEF FilesIInv
  <2> QED
    BY <1>2, <2>1, <2>5
<1>5. ASSUME NEW f \in Files, Write(f)
      PROVE  FilesIInv'
  <2> DEFINE n == written[f]
             lines == WithHeader(file[f]) \o Line(f, rows[f][n + 1])
  <2>1. writer[f] = "open" /\ n < Len(rows[f]) /\ UNCHANGED << rows, writer, problems >>
    BY <1>5 DEF Write, Unwritten
  <2>2. file' = [ file EXCEPT ![f] = lines ] /\ written' = [ written EXCEPT ![f] = n + 1 ]
    BY <1>5, <2>1 DEF Write, Unwritten
  <2>3. FileOf(f, rows[f], lines, "open", n + 1)
    BY <1>3, <2>1, WriteFile
  <2>4. writer' = [ writer EXCEPT ![f] = "open" ]
    BY <1>3, <2>1
  <2> HIDE DEF lines, n
  <2>5. Written'
    BY <2>1, <2>2, <2>3, <2>4, OneFile DEF FilesIInv
  <2> QED
    BY <1>2, <2>1, <2>5
<1>6. ASSUME NEW f \in Files, Close(f)
      PROVE  FilesIInv'
  <2>1. writer[f] = "open" /\ Unwritten(f) = {} /\ writer' = [ writer EXCEPT ![f] = "closed" ]
        /\ file' = [ file EXCEPT ![f] = WithHeader(file[f]) ] /\ UNCHANGED << rows, written, problems >>
    BY <1>6 DEF Close
  <2>2. written[f] = Len(rows[f])
    <3>1. ~(written[f] < Len(rows[f]))
      BY <2>1 DEF Unwritten
    <3> QED
      BY <1>3, <3>1
  <2>3. FileOf(f, rows[f], file[f], "open", Len(rows[f]))
    BY <1>3, <2>1, <2>2
  <2>4. FileOf(f, rows[f], WithHeader(file[f]), "closed", written[f])
    BY <1>3, <2>2, <2>3, CloseFile
  <2>5. Written'
    BY <1>3, <2>1, <2>4, OneFile DEF FilesIInv, Ended
  <2> QED
    BY <1>2, <2>1, <2>5
<1>7. ASSUME NEW f \in Files, Kill(f)
      PROVE  FilesIInv'
  <2>1. writer[f] = "open" /\ writer' = [ writer EXCEPT ![f] = "killed" ]
        /\ UNCHANGED << rows, written, problems >>
    BY <1>7 DEF Kill
  <2>2. FileOf(f, rows[f], file[f], "open", written[f])
    BY <1>3, <2>1
  <2>3. CASE UNCHANGED file
    <3>1. FileOf(f, rows[f], file[f], "killed", written[f])
      BY <1>3, <2>2, KillFile
    <3>2. /\ file' = [ file EXCEPT ![f] = file[f] ] /\ rows' = rows
          /\ written' = [ written EXCEPT ![f] = written[f] ]
          /\ writer' = [ writer EXCEPT ![f] = "killed" ]
      BY <1>3, <2>1, <2>3
    <3>3. Written'
      BY <3>1, <3>2, OneFile DEF FilesIInv, Ended
    <3> QED
      BY <1>2, <2>1, <3>3
  <2>4. ASSUME NEW r \in Unwritten(f), NEW left \in CutLine(f, r),
               file' = [ file EXCEPT ![f] = WithHeader(file[f]) \o left ]
        PROVE  FilesIInv'
    <3>1. written[f] < Len(rows[f]) /\ r = rows[f][written[f] + 1]
      BY <2>4 DEF Unwritten
    <3>2. FileOf(f, rows[f], WithHeader(file[f]) \o left, "killed", written[f])
      BY <1>3, <2>2, <2>4, <3>1, KillFile
    <3>3. Written'
      BY <1>3, <2>1, <2>4, <3>2, OneFile DEF FilesIInv, Ended
    <3> QED
      BY <1>2, <2>1, <3>3
  <2> QED
    BY <1>7, <2>3, <2>4 DEF Kill
<1>8. ASSUME Compare
      PROVE  FilesIInv'
  <2>1. /\ \A f \in Files : writer[f] \in Ended
        /\ problems' = Found(read_results(file["first"]), read_results(file["second"]))
        /\ UNCHANGED << rows, file, written, writer >>
    BY <1>8 DEF Compare, Found, Ended
  <2> QED
    BY <2>1 DEF FilesIInv, Written, Compared
<1> QED
  BY <1>1, <1>4, <1>5, <1>6, <1>7, <1>8 DEF ResultsNext

LEMMA FilesInvariant == ResultsSpec => []FilesIInv
<1>1. ResultsInit => FilesIInv
  BY FilesInit
<1>2. FilesIInv /\ [ResultsNext]_resultsVars => FilesIInv'
  BY FilesNext
<1> QED
  BY <1>1, <1>2, PTL DEF ResultsSpec

\* harness/metrics.py:4: a closed results.csv is read back row by row and cell by cell as
\* it was written, whatever the rows are; if the csv module left a carriage return in a
\* detail unquoted it is not read at all.
THEOREM WhatWasWritten == ResultsSpec => []RoundTrip
<1>1. ASSUME FilesIInv, NEW f \in Files, writer[f] = "closed"
      PROVE  read_results(file[f]) =
               IF \E k \in DOMAIN rows[f] : Splits(f, rows[f][k]) THEN Raises ELSE rows[f]
  <2>1. GoodRows(rows[f]) /\ FileOf(f, rows[f], file[f], "closed", written[f])
    BY <1>1 DEF FilesIInv, Written
  <2>2. DOMAIN rows[f] = 1..written[f]
    BY <2>1 DEF GoodRows, FileOf
  <2>3. (\E k \in DOMAIN rows[f] : Splits(f, rows[f][k])) <=> ~Unsplit(f, rows[f], written[f])
    BY <2>2 DEF Unsplit
  <2>4. CASE Unsplit(f, rows[f], written[f])
    BY <2>1, <2>3, <2>4, ReadBack
  <2>5. CASE ~Unsplit(f, rows[f], written[f])
    BY <2>1, <2>3, <2>5, NotReadBack
  <2> QED
    BY <2>4, <2>5
<1>2. FilesIInv => RoundTrip
  BY <1>1 DEF RoundTrip
<1> QED
  BY <1>2, FilesInvariant, PTL

\* What is read of one of the two files.
LEMMA ReadingOf ==
  ASSUME FilesIInv, NEW f \in Files, read_results(file[f]) # Raises
  PROVE  LET read == read_results(file[f]) IN
         /\ Len(read) <= Len(rows[f]) /\ (writer[f] = "closed" => Len(read) = Len(rows[f]))
         /\ \A k \in DOMAIN read :
              \/ read[k] = rows[f][k]
              \/ /\ writer[f] = "killed" /\ k = Len(read)
                 /\ \A c \in COLUMNS \ {"signals"} : read[k][c] = rows[f][k][c]
<1> DEFINE rs == rows[f]
           lines == file[f]
           w == writer[f]
           n == written[f]
<1>1. GoodRows(rs) /\ FileOf(f, rs, lines, w, n) /\ read_results(lines) # Raises
  BY DEF FilesIInv, Written
<1> HIDE DEF rs, lines, w, n
<1>2. LET read == read_results(lines) IN
      /\ IsRead(read) /\ Len(read) <= Len(rs)
      /\ w = "closed" => Len(read) = Len(rs)
      /\ \A k \in DOMAIN read :
           \/ read[k] = rs[k]
           \/ /\ w = "killed" /\ k = Len(read)
              /\ \A c \in COLUMNS \ {"signals"} : read[k][c] = rs[k][c]
  BY <1>1, Reading
<1> QED
  BY <1>2 DEF rs, lines, w

\* What compare found nothing in are two files without a difference.
LEMMA NothingFound ==
  ASSUME FilesIInv, NoProblems
  PROVE  LET left == read_results(file["first"])
             right == read_results(file["second"])
         IN /\ left # Raises /\ right # Raises /\ compare_results(left, right) = {}
            /\ IsRead(left) /\ IsRead(right)
            /\ \A f \in Files : writer[f] \in Ended
<1> DEFINE left == read_results(file["first"])
           right == read_results(file["second"])
<1>1. problems # << >> /\ problems[1] = "compared" /\ problems[2] = {}
  BY DEF NoProblems
<1>2. problems = Found(left, right) /\ \A f \in Files : writer[f] \in Ended
  BY <1>1 DEF FilesIInv, Compared
<1> HIDE DEF left, right
<1>3. Raises \notin {left, right}
  BY <1>1, <1>2 DEF Found
<1>4. compare_results(left, right) = {}
  BY <1>1, <1>2, <1>3 DEF Found
<1>5. IsRead(left) /\ IsRead(right)
  BY <1>3, Reading DEF FilesIInv, Written, left, right, Files
<1> QED
  BY <1>2, <1>3, <1>4, <1>5 DEF left, right

\* Files between which compare_results found no difference, cut ones included, have the
\* same summary: what summarize counts and lists depends on no column of timing or run_id.
THEOREM OneSummary == ResultsSpec => []EqualMeansSameSummary
<1>1. ASSUME FilesIInv, NoProblems
      PROVE  summarize(read_results(file["first"])) = summarize(read_results(file["second"]))
  <2> DEFINE left == read_results(file["first"])
             right == read_results(file["second"])
  <2>1. IsRead(left) /\ IsRead(right) /\ compare_results(left, right) = {}
    BY <1>1, NothingFound
  <2> HIDE DEF left, right
  <2>2. Twins(left, right)
    BY <2>1, Alike DEF Twins
  <2>3. summarize(left) = summarize(right)
    BY <2>2, SameSummary
  <2> QED
    BY <2>3 DEF left, right
<1>2. FilesIInv => EqualMeansSameSummary
  BY <1>1 DEF EqualMeansSameSummary
<1> QED
  BY <1>2, FilesInvariant, PTL

\* If compare_results found no difference between two whole files, or between a whole file
\* and a cut one of the same keys, the runs produced the same rows but for timing and
\* run_id; only the signals of the last row of a cut file can differ unnoticed.
THEOREM OnlyTheLastSignals == ResultsSpec => []EqualMeansReproduced
<1> DEFINE a == rows["first"]
           b == rows["second"]
           Whole(r) == [ r EXCEPT !.run_id = "", !.handle_ns = "", !.defense_ns = "" ]
           Cut(r) == [ Whole(r) EXCEPT !.signals = << >> ]
           whole == { f \in Files : writer[f] = "closed" }
           left == read_results(file["first"])
           right == read_results(file["second"])
<1>1. ASSUME FilesIInv, NoProblems, whole = Files \/ (whole # {} /\ Keyed(a) = Keyed(b))
      PROVE  /\ Len(a) = Len(b)
             /\ \A k \in DOMAIN a : \/ Whole(a[k]) = Whole(b[k])
                                   \/ /\ Cut(a[k]) = Cut(b[k]) /\ k = Len(a)
                                      /\ whole # Files
  <2>1. /\ left # Raises /\ right # Raises /\ compare_results(left, right) = {}
        /\ IsRead(left) /\ IsRead(right) /\ \A f \in Files : writer[f] \in Ended
    BY <1>1, NothingFound
  <2>2. GoodRows(a) /\ GoodRows(b)
    BY <1>1 DEF FilesIInv, Written, Files
  <2>3. /\ Len(left) <= Len(a) /\ (writer["first"] = "closed" => Len(left) = Len(a))
        /\ \A k \in DOMAIN left :
             \/ left[k] = a[k]
             \/ /\ writer["first"] = "killed" /\ k = Len(left)
                /\ \A c \in COLUMNS \ {"signals"} : left[k][c] = a[k][c]
    BY <1>1, <2>1, ReadingOf DEF Files
  <2>4. /\ Len(right) <= Len(b) /\ (writer["second"] = "closed" => Len(right) = Len(b))
        /\ \A k \in DOMAIN right :
             \/ right[k] = b[k]
             \/ /\ writer["second"] = "killed" /\ k = Len(right)
                /\ \A c \in COLUMNS \ {"signals"} : right[k][c] = b[k][c]
    BY <1>1, <2>1, ReadingOf DEF Files
  <2>5. /\ Len(left) = Len(right)
        /\ \A k \in 1..Len(left) : \A c \in Told : left[k][c] = right[k][c]
    BY <2>1, Alike
  <2>6. IsRead(a) /\ IsRead(b)
    BY <2>2, GoodIsRead
  <2>7. whole = Files \/ Len(a) = Len(b)
    BY <1>1, <2>6, SameKeys
  <2>8. \A f \in whole : writer[f] = "closed"
    OBVIOUS
  <2>9. whole = Files => writer["first"] = "closed" /\ writer["second"] = "closed"
    BY <2>8 DEF Files
  <2>10. whole # {} => writer["first"] = "closed" \/ writer["second"] = "closed"
    BY DEF Files
  <2>11. whole # {}
    BY <1>1 DEF Files
  <2> HIDE DEF left, right, a, b, whole
  <2>12. Len(a) = Len(b) /\ Len(left) = Len(a) /\ Len(right) = Len(b)
    BY <2>3, <2>4, <2>5, <2>7, <2>9, <2>10, <2>11
  <2>13. /\ DOMAIN left = 1..Len(a) /\ DOMAIN right = 1..Len(a) /\ DOMAIN a = 1..Len(a)
         /\ DOMAIN b = 1..Len(a) /\ Len(a) \in Nat
    BY <2>1, <2>6, <2>12 DEF IsRead
  <2>14. ASSUME NEW k \in DOMAIN a
         PROVE  \/ Whole(a[k]) = Whole(b[k])
                \/ Cut(a[k]) = Cut(b[k]) /\ k = Len(a) /\ whole # Files
    <3>1. /\ IsRow(a[k]) /\ IsRow(b[k])
          /\ a[k] = [ c \in COLUMNS |-> a[k][c] ] /\ b[k] = [ c \in COLUMNS |-> b[k][c] ]
      BY <2>2, <2>13, RowFacts DEF GoodRows
    <3>2. \A c \in Told : left[k][c] = right[k][c]
      BY <2>5, <2>12, <2>13
    <3>3. \A c \in COLUMNS \ {"signals"} : left[k][c] = a[k][c] /\ right[k][c] = b[k][c]
      BY <2>3, <2>4, <2>13
    <3>4. CASE left[k] = a[k] /\ right[k] = b[k]
      <4>1. \A c \in Told : a[k][c] = b[k][c]
        BY <3>2, <3>4
      <4>2. Whole(a[k]) = Whole(b[k])
        BY <3>1, <4>1 DEF Told, TIMING, PER_RUN
      <4> QED
        BY <4>2
    <3>5. CASE ~(left[k] = a[k] /\ right[k] = b[k])
      <4>1. (writer["first"] = "killed" \/ writer["second"] = "killed") /\ k = Len(a)
        BY <2>3, <2>4, <2>12, <2>13, <3>5
      <4>2. whole # Files
        BY <2>9, <4>1
      <4>3. \A c \in Told \ {"signals"} : a[k][c] = b[k][c]
        BY <3>2, <3>3 DEF Told
      <4>4. Cut(a[k]) = Cut(b[k])
        BY <3>1, <4>3 DEF Told, TIMING, PER_RUN
      <4> QED
        BY <4>1, <4>2, <4>4
    <3> QED
      BY <3>4, <3>5
  <2> QED
    BY <2>12, <2>14
<1>2. FilesIInv => EqualMeansReproduced
  BY <1>1 DEF EqualMeansReproduced
<1> QED
  BY <1>2, FilesInvariant, PTL


=============================================================================
