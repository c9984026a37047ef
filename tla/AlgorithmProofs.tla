-------------------------- MODULE AlgorithmProofs --------------------------
(***************************************************************************)
(* What holds of the pure functions the components share, for every input: *)
(* the oracle and the order of the work.                                   *)
(***************************************************************************)
EXTENDS Oracle, Plan, FiniteSetTheorems, FunctionTheorems, SequenceTheorems, TLAPS

-----------------------------------------------------------------------------
(***************************************************************************)
(* The judge and the row contract agree: whatever a tier answered, the row *)
(* execute_one builds is one ResultRow accepts.  A rejected row would      *)
(* raise in the thread pool and lose every row of the run.                 *)
(***************************************************************************)

\* The families that are run against Tier 1 (contracts.APPLICABLE_PAIRS).
Tier1Families == { f \in Family : <<f, "tier1">> \in APPLICABLE_PAIRS }

\* What a delivered call is judged to be is never "not_delivered", and agrees
\* with the family's verdicts and with the flags of the outcome.
LEMMA VerdictFacts ==
  ASSUME NEW family \in Family, NEW status \in DELIVERED_STATUSES,
         NEW refused \in BOOLEAN, NEW errored \in BOOLEAN,
         NEW fired \in BOOLEAN, NEW ok \in BOOLEAN,
         ok => ~fired /\ ~errored, errored => ~refused
  PROVE  LET v == decide_verdict(family, status, refused, errored, fired, ok) IN
         /\ v # "not_delivered"
         /\ v \in (IF family = "benign" THEN BENIGN_VERDICTS ELSE ATTACK_VERDICTS)
         /\ v = "blocked" => refused
         /\ refused => v \in {"blocked", "crossed"}
         /\ errored => v \in {"fault", "crossed"}
         /\ v = "crossed" => fired
         /\ v \in {"no_effect", "benign_ok"} => ~fired
BY DEF decide_verdict, Delivered, BENIGN_VERDICTS, ATTACK_VERDICTS


\* The row of every delivered call is a row the contract accepts, for every
\* family run against Tier 1, every answer and every combination of signals.
\* An answer is one run_tier1 returns: a valid outcome, and an error whenever
\* it crashed.
THEOREM DeliveredRowIsValid ==
  ASSUME NEW family \in Tier1Families, NEW status \in DELIVERED_STATUSES,
         NEW active \in BOOLEAN, NEW run \in Runs,
         ValidOutcome(run.outcome), run.crashed => run.outcome.error
  PROVE  ValidRow(DeliveredRow(family, status, active, run))
<1> DEFINE o == run.outcome
           S == tier1_signals(active, run)
           fired == S # {}
           refused == o.blocked \/ o.gated
           errored == o.error \/ run.crashed
           ok == run.granted = (IF active THEN "true" ELSE "false")
                 /\ ~fired /\ ~errored
           v == decide_verdict(family, status, refused, errored, fired, ok)
           r == DeliveredRow(family, status, active, run)
<1>1. o \in Outcomes
  BY DEF Runs
<1>2. refused \in BOOLEAN /\ errored \in BOOLEAN /\ fired \in BOOLEAN /\ ok \in BOOLEAN
  OBVIOUS
<1>3. (ok => ~fired /\ ~errored) /\ (errored => ~refused)
  BY <1>1 DEF ValidOutcome, Outcomes
<1>4. family \in Family /\ <<family, "tier1">> \in APPLICABLE_PAIRS
  BY DEF Tier1Families
<1>5. r = RowOf(o, family, status, v, S)
  BY DEF DeliveredRow, judge_tier1
<1> HIDE DEF S, ok, refused, errored, fired
<1>6. /\ v # "not_delivered"
      /\ v \in (IF family = "benign" THEN BENIGN_VERDICTS ELSE ATTACK_VERDICTS)
      /\ v = "blocked" => refused
      /\ refused => v \in {"blocked", "crossed"}
      /\ errored => v \in {"fault", "crossed"}
      /\ v = "crossed" => fired
      /\ v \in {"no_effect", "benign_ok"} => ~fired
  BY <1>2, <1>3, <1>4, VerdictFacts
<1> SUFFICES ValidRow(r)
  OBVIOUS
<1> HIDE DEF v, r
<1>7. /\ r.tier = "tier1" /\ r.mode = o.mode /\ r.blocked = o.blocked /\ r.gated = o.gated
      /\ r.error = o.error /\ r.family = family /\ r.decode_status = status
      /\ r.verdict = v /\ r.signals = S
  BY <1>1, <1>5 DEF RowOf, Outcomes
<1>8. ValidOutcome(r)
  BY <1>1, <1>7 DEF ValidOutcome, Outcomes
<1>9. Delivered(r.decode_status)
  BY <1>7 DEF Delivered
<1> QED
  BY <1>4, <1>6, <1>7, <1>8, <1>9 DEF ValidRow, refused, errored, fired

\* So is the row of a record that was not delivered.
THEOREM UndeliveredRowIsValid ==
  ASSUME NEW family \in Tier1Families, NEW status \in DecodeStatus \ DELIVERED_STATUSES,
         NEW mode \in VALID_MODES["tier1"]
  PROVE  ValidRow(UndeliveredRow(family, status, mode))
<1> DEFINE r == UndeliveredRow(family, status, mode)
<1>1. /\ r.tier = "tier1" /\ r.mode = mode /\ ~r.blocked /\ ~r.gated /\ ~r.error
      /\ ~r.handle_ns /\ ~r.defense_ns /\ r.family = family /\ r.decode_status = status
      /\ r.verdict = "not_delivered" /\ r.signals = {}
  BY DEF UndeliveredRow, RowOf, BareOutcome, decide_verdict, Delivered
<1>2. <<r.family, r.tier>> \in APPLICABLE_PAIRS
  BY <1>1 DEF Tier1Families
<1> SUFFICES ValidRow(r)
  OBVIOUS
<1> HIDE DEF r
<1>3. ValidOutcome(r)
  BY <1>1 DEF ValidOutcome
<1>4. "not_delivered" \in BENIGN_VERDICTS /\ "not_delivered" \in ATTACK_VERDICTS
  BY DEF BENIGN_VERDICTS, ATTACK_VERDICTS
<1> QED
  BY <1>1, <1>2, <1>3, <1>4 DEF ValidRow, Delivered

-----------------------------------------------------------------------------
(***************************************************************************)
(* The loops of plan_work, the sort of execute and that of replay_records: *)
(* each lists a finite set in an order, every element once.                *)
(***************************************************************************)

\* before is an order of S from first to last.
Ordered(S, before) ==
  /\ \A x \in S : << x, x >> \notin before
  /\ \A x, y, z \in S : << x, y >> \in before /\ << y, z >> \in before => << x, z >> \in before
  /\ \A x, y \in S : x # y => << x, y >> \in before \/ << y, x >> \in before

Injective(f) == \A j, k \in DOMAIN f : f[j] = f[k] => j = k

\* A sequence has every element of S, once.
Enumerates(s, S) ==
  /\ s \in Seq(S)
  /\ Injective(s)
  /\ \A x \in S : \E k \in DOMAIN s : s[k] = x

\* Its length is the number of the elements.
LEMMA ListsCount ==
  ASSUME NEW S, NEW s, Enumerates(s, S)
  PROVE  ToSet(s) = S /\ Len(s) = Cardinality(S)
<1>1. s \in Seq(S)
  BY DEF Enumerates
<1>2. Len(s) \in Nat /\ DOMAIN s = 1..Len(s) /\ s \in [ 1..Len(s) -> S ]
  BY <1>1
<1>3. s \in Bijection(1..Len(s), S)
  BY <1>2, Fun_IsBij DEF Enumerates, Injective
<1>4. IsFiniteSet(1..Len(s)) /\ Cardinality(1..Len(s)) = Len(s)
  BY <1>2, FS_Interval
<1>5. Cardinality(S) = Len(s)
  BY <1>3, <1>4, FS_Bijection DEF ExistsBijection
<1>6. ToSet(s) = S
  BY <1>2 DEF Enumerates, ToSet
<1> QED
  BY <1>5, <1>6

\* No element of s comes before an earlier one.
Increasing(s, before) == \A j, k \in DOMAIN s : j < k => << s[j], s[k] >> \in before

\* InOrder of an order that is given by its pairs.
Ranked(S, before) ==
  [ k \in 1..Cardinality(S) |->
      CHOOSE x \in S : Cardinality({ y \in S : << y, x >> \in before }) = k - 1 ]

\* It lists every element of a set once, in order.
LEMMA RankedLists ==
  ASSUME NEW S, IsFiniteSet(S), NEW before, Ordered(S, before)
  PROVE  Enumerates(Ranked(S, before), S) /\ Increasing(Ranked(S, before), before)
<1> DEFINE Below(x) == { y \in S : << y, x >> \in before }
           rank == [ x \in S |-> Cardinality(Below(x)) ]
           N == Cardinality(S)
<1>1. N \in Nat
  BY FS_CardinalityType
<1>2. ASSUME NEW x \in S PROVE IsFiniteSet(Below(x)) /\ rank[x] \in Nat /\ rank[x] < N
  <2>1. Below(x) \in SUBSET S /\ x \notin Below(x)
    BY DEF Ordered
  <2>2. IsFiniteSet(Below(x)) /\ Cardinality(Below(x)) <= N /\ (N = Cardinality(Below(x)) => S = Below(x))
    BY <2>1, FS_Subset
  <2>3. Cardinality(Below(x)) \in Nat
    BY <2>2, FS_CardinalityType
  <2> HIDE DEF N, Below
  <2> QED
    BY <1>1, <2>1, <2>2, <2>3
<1>3. ASSUME NEW x \in S, NEW y \in S, << x, y >> \in before
      PROVE  rank[x] < rank[y]
  <2>1. Below(x) \in SUBSET Below(y) /\ x \in Below(y) /\ x \notin Below(x)
    BY <1>3 DEF Ordered
  <2>2. IsFiniteSet(Below(y)) /\ rank[x] \in Nat /\ rank[y] \in Nat
    BY <1>2
  <2>3. rank[x] = Cardinality(Below(x)) /\ rank[y] = Cardinality(Below(y))
    OBVIOUS
  <2> HIDE DEF Below, rank
  <2>4. rank[x] <= rank[y] /\ rank[x] # rank[y]
    BY <2>1, <2>2, <2>3, FS_Subset
  <2> QED
    BY <2>2, <2>4
<1>4. ASSUME NEW x \in S, NEW y \in S, rank[x] = rank[y] PROVE x = y
  <2>1. rank[x] \in Nat /\ rank[y] \in Nat
    BY <1>2
  <2>2. ~(rank[x] < rank[y]) /\ ~(rank[y] < rank[x])
    <3> HIDE DEF rank
    <3> QED
      BY <1>4, <2>1
  <2>3. << x, y >> \notin before /\ << y, x >> \notin before
    <3> HIDE DEF rank
    <3> QED
      BY <1>3, <2>2
  <2> QED
    BY <2>3 DEF Ordered
<1>5. rank \in [ S -> 0..(N - 1) ]
  <2>1. \A x \in S : rank[x] \in Nat /\ rank[x] < N
    BY <1>2
  <2>2. \A x \in S : rank[x] \in 0..(N - 1)
    <3> HIDE DEF rank, N
    <3> QED
      BY <1>1, <2>1
  <2> HIDE DEF N
  <2> QED
    BY <2>2
<1>6. rank \in Injection(S, 0..(N - 1))
  <2> HIDE DEF rank, N
  <2> QED
    BY <1>4, <1>5, Fun_IsInj
<1>7. IsFiniteSet(0..(N - 1)) /\ Cardinality(0..(N - 1)) = N
  <2> HIDE DEF N
  <2> QED
    BY <1>1, FS_Interval
<1>8. rank \in Surjection(S, 0..(N - 1))
  <2> HIDE DEF rank
  <2> QED
    BY <1>6, <1>7, FS_Injection
<1>9. \A n \in 0..(N - 1) : \E x \in S : rank[x] = n
  <2> HIDE DEF rank, N
  <2> QED
    BY <1>8, Fun_SurjectionProperties
<1> DEFINE list == Ranked(S, before)
<1>10. list = [ k \in 1..N |-> CHOOSE x \in S : Cardinality(Below(x)) = k - 1 ]
  BY DEF Ranked
<1>11. ASSUME NEW k \in 1..N PROVE list[k] \in S /\ rank[list[k]] = k - 1
  <2>1. k - 1 \in 0..(N - 1)
    <3> HIDE DEF N
    <3> QED
      BY <1>1
  <2>2. \E x \in S : Cardinality(Below(x)) = k - 1
    BY <1>9, <2>1
  <2> QED
    BY <1>10, <2>2
<1>12. DOMAIN list = 1..N
  BY <1>10
<1>13. ASSUME NEW x \in S PROVE \E k \in 1..N : list[k] = x
  <2> DEFINE k == rank[x] + 1
  <2>0. rank[x] \in Nat /\ rank[x] < N
    BY <1>2
  <2>1. k \in 1..N /\ k - 1 = rank[x]
    <3> HIDE DEF rank, N
    <3> QED
      BY <1>1, <2>0
  <2>2. list[k] \in S /\ rank[list[k]] = rank[x]
    <3> HIDE DEF rank, N, k, list
    <3> QED
      BY <2>1, <1>11
  <2> HIDE DEF rank, N, k, list
  <2> QED
    BY <2>1, <2>2, <1>4
<1>14. ASSUME NEW j \in 1..N, NEW k \in 1..N, list[j] = list[k] PROVE j = k
  <2> HIDE DEF rank, N, list
  <2>1. j - 1 = k - 1
    BY <1>11, <1>14
  <2> QED
    BY <1>1, <2>1
<1>15. list \in Seq(S)
  <2> HIDE DEF list, N
  <2>1. list = [ k \in 1..N |-> list[k] ]
    BY <1>10 DEF list
  <2>2. list \in [ 1..N -> S ]
    BY <1>11, <2>1
  <2> QED
    BY <1>1, <2>2
<1>16. Injective(list)
  <2> HIDE DEF list, N
  <2> QED
    BY <1>12, <1>14 DEF Injective
<1>17. \A x \in S : \E k \in DOMAIN list : list[k] = x
  <2> HIDE DEF list, N
  <2> QED
    BY <1>12, <1>13
<1>18. ASSUME NEW j \in 1..N, NEW k \in 1..N, j < k PROVE << list[j], list[k] >> \in before
  <2> HIDE DEF rank, N, list
  <2>1. list[j] # list[k]
    BY <1>1, <1>14, <1>18
  <2>2. ~(rank[list[k]] < rank[list[j]])
    BY <1>1, <1>11, <1>18
  <2>3. << list[k], list[j] >> \notin before
    BY <1>3, <1>11, <2>2
  <2> QED
    BY <1>11, <2>1, <2>3 DEF Ordered
<1>19. Increasing(list, before)
  <2> HIDE DEF list, N
  <2> QED
    BY <1>12, <1>18 DEF Increasing
<1> HIDE DEF list
<1> QED
  BY <1>15, <1>16, <1>17, <1>19 DEF Enumerates, list

\* There is no other such list: two of one set are the same.
LEMMA OnlyOrder ==
  ASSUME NEW S, IsFiniteSet(S), NEW before, Ordered(S, before),
         NEW s, Enumerates(s, S), Increasing(s, before)
  PROVE  s = Ranked(S, before)
<1> DEFINE n == Len(s)
           Below(x) == { y \in S : << y, x >> \in before }
           list == Ranked(S, before)
<1>1. s \in Seq(S) /\ n \in Nat /\ DOMAIN s = 1..n /\ Cardinality(S) = n /\ s = [ k \in 1..n |-> s[k] ]
  BY ListsCount DEF Enumerates
<1>2. list = [ k \in 1..n |-> CHOOSE x \in S : Cardinality(Below(x)) = k - 1 ]
  BY <1>1 DEF Ranked
<1>3. ASSUME NEW k \in 1..n
      PROVE  s[k] \in S /\ Cardinality(Below(s[k])) = k - 1
  <2> DEFINE B == Below(s[k])
             g == [ j \in 1..(k - 1) |-> s[j] ]
  <2>1. \A j \in 1..n : s[j] \in S
    BY <1>1
  <2>2. k - 1 \in Nat /\ \A j \in 1..(k - 1) : j \in 1..n /\ j < k
    <3> HIDE DEF n
    <3> QED
      BY <1>1
  <2>3. \A j \in 1..(k - 1) : s[j] \in B
    BY <1>1, <2>1, <2>2 DEF Increasing
  <2>4. ASSUME NEW y \in B
        PROVE  \E j \in 1..(k - 1) : g[j] = y
    <3>1. PICK j \in 1..n : s[j] = y
      BY <1>1 DEF Enumerates
    <3>2. << s[j], s[k] >> \in before
      BY <3>1
    <3>3. << s[k], s[j] >> \notin before /\ j # k
      BY <2>1, <3>2 DEF Ordered
    <3>4. ~(k < j)
      BY <1>1, <3>3 DEF Increasing
    <3>5. j \in 1..(k - 1)
      <4> HIDE DEF n
      <4> QED
        BY <1>1, <3>3, <3>4
    <3> QED
      BY <3>1, <3>5
  <2> HIDE DEF B
  <2>5. g \in [ 1..(k - 1) -> B ]
    BY <2>3
  <2>6. \A i, j \in 1..(k - 1) : g[i] = g[j] => i = j
    BY <1>1, <2>2 DEF Enumerates, Injective
  <2> HIDE DEF g
  <2>7. g \in Bijection(1..(k - 1), B)
    BY <2>4, <2>5, <2>6, Fun_IsBij
  <2>8. IsFiniteSet(1..(k - 1)) /\ Cardinality(1..(k - 1)) = k - 1
    <3>1. 1 \in Int /\ k - 1 \in Int /\ (1 > k - 1 => k - 1 = 0)
      BY <2>2
    <3> QED
      BY <2>2, <3>1, FS_Interval
  <2>9. Cardinality(B) = k - 1
    BY <2>7, <2>8, FS_Bijection DEF ExistsBijection
  <2> QED
    BY <2>1, <2>9 DEF B
<1> HIDE DEF n, Below
<1>4. ASSUME NEW k \in 1..n
      PROVE  Cardinality(Below(list[k])) = k - 1
  <2>1. \E x \in S : Cardinality(Below(x)) = k - 1
    BY <1>3
  <2>2. list[k] = CHOOSE x \in S : Cardinality(Below(x)) = k - 1
    BY <1>2
  <2> HIDE DEF list
  <2> QED
    BY <2>1, <2>2
<1>5. Enumerates(list, S)
  BY RankedLists
<1>6. DOMAIN list = 1..n
  BY <1>2
<1>7. list = [ k \in 1..n |-> list[k] ]
  BY <1>2
<1> HIDE DEF list
<1>8. ASSUME NEW k \in 1..n
      PROVE  list[k] = s[k]
  <2>1. PICK i \in 1..n : list[i] = s[k]
    BY <1>3, <1>5, <1>6 DEF Enumerates
  <2>2. i - 1 = k - 1
    BY <1>3, <1>4, <2>1
  <2>3. i = k
    BY <1>1, <2>2
  <2> QED
    BY <2>1, <2>3
<1>9. s = list
  BY <1>1, <1>7, <1>8
<1> QED
  BY <1>9 DEF list

Combinations(specs, modes, reps) ==
  { [ id |-> s.id, mode |-> m, rep |-> n ] : s \in specs, m \in modes, n \in 0..(reps - 1) }

\* The loops make each combination once.
LEMMA LoopsList ==
  ASSUME NEW specs, specs \in Seq(ToSet(specs)),
         \A j, k \in DOMAIN specs : specs[j].id = specs[k].id => j = k,
         NEW chosen, chosen \subseteq ToSet(specs),
         NEW M, NEW modes \in Seq(M),
         \A j, k \in DOMAIN modes : modes[j] = modes[k] => j = k,
         NEW reps \in Nat
  PROVE  Enumerates(Loops(chosen, specs, modes, reps),
               Combinations(chosen, ToSet(modes), reps))
<1> DEFINE A == { j \in DOMAIN specs : specs[j] \in chosen }
           B == DOMAIN modes
           C == 0..(reps - 1)
           places == A \X B \X C
           before == { pq \in places \X places : LoopBefore(pq[1], pq[2]) }
           order == Ranked(places, before)
           row(p) == [ id |-> specs[p[1]].id, mode |-> modes[p[2]], rep |-> p[3] ]
           work == [ k \in DOMAIN order |-> row(order[k]) ]
           keys == { [ id |-> s.id, mode |-> m, rep |-> n ] :
                       s \in chosen, m \in ToSet(modes), n \in 0..(reps - 1) }
<1>1. A \subseteq Int /\ B \subseteq Int /\ C \subseteq Int
  BY LenProperties
<1>2. IsFiniteSet(A) /\ IsFiniteSet(B) /\ IsFiniteSet(C)
  <2>1. Len(specs) \in Nat /\ A \in SUBSET (1..Len(specs)) /\ Len(modes) \in Nat /\ B = 1..Len(modes)
    OBVIOUS
  <2>2. IsFiniteSet(1..Len(specs)) /\ IsFiniteSet(1..Len(modes)) /\ IsFiniteSet(C)
    BY <2>1, FS_Interval
  <2> QED
    BY <2>1, <2>2, FS_Subset
<1>3. IsFiniteSet(places)
  <2> HIDE DEF A, B, C
  <2>1. IsFiniteSet(A \X B)
    BY <1>2, FS_Product
  <2>2. IsFiniteSet((A \X B) \X C)
    BY <1>2, <2>1, FS_Product
  <2> DEFINE f == [ q \in (A \X B) \X C |-> << q[1][1], q[1][2], q[2] >> ]
  <2>3. f \in [ (A \X B) \X C -> places ]
    OBVIOUS
  <2>4. ASSUME NEW p \in places PROVE \E q \in (A \X B) \X C : f[q] = p
    <3>1. << << p[1], p[2] >>, p[3] >> \in (A \X B) \X C /\ p = << p[1], p[2], p[3] >>
      OBVIOUS
    <3>2. f[<< << p[1], p[2] >>, p[3] >>] = p
      BY <3>1
    <3> QED
      BY <3>1, <3>2
  <2> HIDE DEF f, places
  <2>5. f \in Surjection((A \X B) \X C, places)
    BY <2>3, <2>4, Fun_IsSurj
  <2> QED
    BY <2>2, <2>5, FS_Surjection
<1>4. Ordered(places, before)
  <2> HIDE DEF A, B, C
  <2>1. \A p, q \in places : << p, q >> \in before <=> LoopBefore(p, q)
    OBVIOUS
  <2>a. \A p \in places : p = << p[1], p[2], p[3] >> /\ p[1] \in A /\ p[2] \in B /\ p[3] \in C
    OBVIOUS
  <2>2. \A p \in places : p[1] \in Int /\ p[2] \in Int /\ p[3] \in Int /\ p = << p[1], p[2], p[3] >>
    <3> HIDE DEF places
    <3> QED
      BY <1>1, <2>a
  <2> HIDE DEF places, before
  <2>3. \A p \in places : ~LoopBefore(p, p)
    BY <2>2 DEF LoopBefore
  <2>4. \A p, q, u \in places : LoopBefore(p, q) /\ LoopBefore(q, u) => LoopBefore(p, u)
    BY <2>2 DEF LoopBefore
  <2>5. \A p, q \in places : p # q => LoopBefore(p, q) \/ LoopBefore(q, p)
    BY <2>2 DEF LoopBefore
  <2> QED
    BY <2>1, <2>3, <2>4, <2>5 DEF Ordered
<1>5. Enumerates(order, places)
  <2> HIDE DEF places, before
  <2> QED
    BY <1>3, <1>4, RankedLists
<1>6. Loops(chosen, specs, modes, reps) = work
  <2>1. \A p \in places : { q \in places : LoopBefore(q, p) } = { q \in places : << q, p >> \in before }
    <3> HIDE DEF A, B, C
    <3> QED
      OBVIOUS
  <2> DEFINE list == [ k \in 1..Cardinality(places) |->
                        CHOOSE p \in places : Cardinality({ q \in places : LoopBefore(q, p) }) = k - 1 ]
  <2>2. list = order
    <3> HIDE DEF places, before
    <3> DEFINE L(k) == CHOOSE x \in places : Cardinality({ y \in places : LoopBefore(y, x) }) = k - 1
               R(k) == CHOOSE x \in places : Cardinality({ y \in places : << y, x >> \in before }) = k - 1
    <3>1. ASSUME NEW k \in 1..Cardinality(places) PROVE L(k) = R(k)
      <4>1. \A x : (x \in places /\ Cardinality({ y \in places : LoopBefore(y, x) }) = k - 1)
                   <=> (x \in places /\ Cardinality({ y \in places : << y, x >> \in before }) = k - 1)
        BY <2>1
      <4> QED
        BY <4>1
    <3>2. list = [ k \in 1..Cardinality(places) |-> L(k) ] /\ order = [ k \in 1..Cardinality(places) |-> R(k) ]
      BY DEF Ranked
    <3> HIDE DEF L, R, list, order
    <3> QED
      BY <3>1, <3>2
  <2>3. Loops(chosen, specs, modes, reps) = [ k \in DOMAIN list |-> row(list[k]) ]
    BY DEF Loops, InOrder
  <2> HIDE DEF list, order
  <2> QED
    BY <2>2, <2>3
<1>7. \A p \in places : p = << p[1], p[2], p[3] >> /\ p[1] \in A /\ p[2] \in B /\ p[3] \in C
  OBVIOUS
<1>8. ASSUME NEW p \in places PROVE row(p) \in keys
  <2>1. specs[p[1]] \in chosen /\ modes[p[2]] \in ToSet(modes) /\ p[3] \in 0..(reps - 1)
    BY <1>7 DEF ToSet
  <2> QED
    BY <2>1
<1>9. ASSUME NEW p \in places, NEW q \in places, row(p) = row(q) PROVE p = q
  <2>1. specs[p[1]].id = specs[q[1]].id /\ modes[p[2]] = modes[q[2]] /\ p[3] = q[3]
    BY <1>9
  <2>2. p[1] = q[1] /\ p[2] = q[2]
    BY <1>7, <2>1
  <2> QED
    BY <1>7, <2>1, <2>2
<1>10. ASSUME NEW x \in keys PROVE \E p \in places : row(p) = x
  <2>1. PICK s \in chosen, m \in ToSet(modes), n \in C : x = [ id |-> s.id, mode |-> m, rep |-> n ]
    OBVIOUS
  <2>2. PICK j \in DOMAIN specs : specs[j] = s
    BY DEF ToSet
  <2>3. PICK k \in DOMAIN modes : modes[k] = m
    BY DEF ToSet
  <2>4. << j, k, n >> \in places
    BY <2>2
  <2>5. row(<< j, k, n >>) = x
    BY <2>1, <2>2, <2>3
  <2> QED
    BY <2>4, <2>5
<1> HIDE DEF places, before, order, row, keys
<1>11. Enumerates(work, keys)
  <2>1. order \in Seq(places) /\ Len(order) \in Nat /\ DOMAIN order = 1..Len(order)
    BY <1>5 DEF Enumerates
  <2>2. \A k \in DOMAIN order : order[k] \in places
    BY <2>1
  <2>3. \A k \in DOMAIN order : work[k] \in keys
    BY <1>8, <2>2
  <2>4. work \in Seq(keys)
    BY <2>1, <2>3
  <2>5. ASSUME NEW j \in DOMAIN work, NEW k \in DOMAIN work, work[j] = work[k] PROVE j = k
    <3>1. order[j] = order[k]
      BY <1>9, <2>2, <2>5
    <3> QED
      BY <1>5, <3>1 DEF Enumerates, Injective
  <2>6. ASSUME NEW x \in keys PROVE \E k \in DOMAIN work : work[k] = x
    BY <1>5, <1>10 DEF Enumerates
  <2> QED
    BY <2>4, <2>5, <2>6 DEF Enumerates, Injective
<1> QED
  BY <1>6, <1>11 DEF keys, Combinations

\* Sorting keeps every row, once, and rows of other keys are in the order of their keys.
LEMMA SortedLists ==
  ASSUME NEW S, NEW rows, Enumerates(rows, S),
         \A x \in S : x.mode \in DOMAIN ModeRank /\ x.id \in Int /\ x.rep \in Int
  PROVE  /\ Enumerates(Sorted(rows), S)
         /\ \A j, k \in DOMAIN Sorted(rows) : j < k => ~RowBefore(Sorted(rows)[k], Sorted(rows)[j])
<1> DEFINE D == DOMAIN rows
           Before1(i, j) == \/ RowBefore(rows[i], rows[j])
                            \/ ~RowBefore(rows[j], rows[i]) /\ i < j
           before == { ij \in D \X D : Before1(ij[1], ij[2]) }
           order == Ranked(D, before)
           sorted == [ k \in DOMAIN order |-> rows[order[k]] ]
<1>1. rows \in Seq(S) /\ Len(rows) \in Nat /\ D = 1..Len(rows)
  BY DEF Enumerates
<1>2. \A i \in D : rows[i] \in S /\ i \in Int
  BY <1>1
<1>3. \A i \in D : rows[i].mode \in DOMAIN ModeRank /\ rows[i].id \in Int /\ rows[i].rep \in Int
  BY <1>2
<1>4. \A m, n \in DOMAIN ModeRank : ModeRank[m] \in Int /\ (ModeRank[m] = ModeRank[n] => m = n)
  BY DEF ModeRank
<1>5. IsFiniteSet(D)
  BY <1>1, FS_Interval
<1>6. Ordered(D, before)
  <2>1. \A i, j \in D : << i, j >> \in before <=> Before1(i, j)
    OBVIOUS
  <2> HIDE DEF D, before
  <2>2. \A i \in D : ~Before1(i, i)
    BY <1>2, <1>3, <1>4 DEF RowBefore
  <2>3. ASSUME NEW i \in D, NEW j \in D, NEW k \in D, Before1(i, j), Before1(j, k) PROVE Before1(i, k)
    BY <1>2, <1>3, <1>4, <2>3 DEF RowBefore
  <2>4. \A i, j \in D : i # j => Before1(i, j) \/ Before1(j, i)
    BY <1>2, <1>3, <1>4 DEF RowBefore
  <2> QED
    BY <2>1, <2>2, <2>3, <2>4 DEF Ordered
<1>7. Sorted(rows) = sorted
  <2>1. \A j \in D : { i \in D : Before1(i, j) } = { i \in D : << i, j >> \in before }
    <3> HIDE DEF D
    <3> QED
      OBVIOUS
  <2> DEFINE list == [ k \in 1..Cardinality(D) |->
                        CHOOSE j \in D : Cardinality({ i \in D : Before1(i, j) }) = k - 1 ]
  <2>2. list = order
    <3> HIDE DEF D, before
    <3> DEFINE L(k) == CHOOSE x \in D : Cardinality({ y \in D : Before1(y, x) }) = k - 1
               R(k) == CHOOSE x \in D : Cardinality({ y \in D : << y, x >> \in before }) = k - 1
    <3>1. ASSUME NEW k \in 1..Cardinality(D) PROVE L(k) = R(k)
      <4>1. \A x : (x \in D /\ Cardinality({ y \in D : Before1(y, x) }) = k - 1)
                   <=> (x \in D /\ Cardinality({ y \in D : << y, x >> \in before }) = k - 1)
        BY <2>1
      <4> QED
        BY <4>1
    <3>2. list = [ k \in 1..Cardinality(D) |-> L(k) ] /\ order = [ k \in 1..Cardinality(D) |-> R(k) ]
      BY DEF Ranked
    <3> HIDE DEF L, R, list, order
    <3> QED
      BY <3>1, <3>2
  <2>3. Sorted(rows) = [ k \in DOMAIN list |-> rows[list[k]] ]
    BY DEF Sorted, InOrder
  <2> HIDE DEF list, order
  <2> QED
    BY <2>2, <2>3
<1> HIDE DEF D, before, order
<1>8. Enumerates(order, D) /\ Increasing(order, before)
  BY <1>5, <1>6, RankedLists DEF order
<1>9. Enumerates(sorted, S)
  <2>1. order \in Seq(D) /\ Len(order) \in Nat /\ DOMAIN order = 1..Len(order)
    BY <1>8 DEF Enumerates
  <2>2. \A k \in DOMAIN order : order[k] \in D
    BY <2>1
  <2>3. \A k \in DOMAIN order : sorted[k] \in S
    BY <1>2, <2>2
  <2>4. sorted \in Seq(S)
    BY <2>1, <2>3
  <2>5. ASSUME NEW j \in DOMAIN sorted, NEW k \in DOMAIN sorted, sorted[j] = sorted[k] PROVE j = k
    <3>1. order[j] = order[k]
      BY <2>2, <2>5 DEF Enumerates, Injective, D
    <3> QED
      BY <1>8, <3>1 DEF Enumerates, Injective
  <2>6. ASSUME NEW x \in S PROVE \E k \in DOMAIN sorted : sorted[k] = x
    BY <1>8 DEF Enumerates, D
  <2> QED
    BY <2>4, <2>5, <2>6 DEF Enumerates, Injective
<1>10. ASSUME NEW j \in DOMAIN sorted, NEW k \in DOMAIN sorted, j < k
       PROVE  ~RowBefore(sorted[k], sorted[j])
  <2>1. << order[j], order[k] >> \in before
    BY <1>8, <1>10 DEF Increasing
  <2>2. order[j] \in D /\ order[k] \in D /\ Before1(order[j], order[k])
    BY <2>1 DEF before
  <2>3. ~RowBefore(rows[order[k]], rows[order[j]])
    BY <1>2, <1>3, <1>4, <2>2 DEF RowBefore
  <2> QED
    BY <2>3
<1> QED
  BY <1>7, <1>9, <1>10

=============================================================================
