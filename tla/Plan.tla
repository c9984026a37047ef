-------------------------------- MODULE Plan --------------------------------
(***************************************************************************)
(* plan_work and the order of the rows (harness/run_experiments.py): pure  *)
(* functions of the records file, the payload set and the configuration.   *)
(*                                                                         *)
(*   a record  [ run, id, decoder, delivered ]; id 0 stands for None       *)
(*   a spec    [ id, tier1, decoders, expect ]: does it target tier1, under *)
(*             which decoder modes, is it expected to decode               *)
(*   a config  [ enabled, decoders, modes, reps ] of tier1; modes is a     *)
(*             sequence, without duplicates (TierConfig)                   *)
(***************************************************************************)
EXTENDS SequencesExt, Integers, FiniteSets, TLC

\* The specs of the payload set that this decoder condition runs through tier1.
Applicable(specs, decoder) == { s \in ToSet(specs) : s.tier1 /\ decoder \in s.decoders }

\* plan_work that does not look for missing records
AcceptsIncomplete(records, specs, config) ==
  /\ records # << >>
  /\ \A r, q \in ToSet(records) : r.run = q.run /\ r.decoder = q.decoder
  /\ config.enabled /\ records[1].decoder \in config.decoders
  /\ \A r \in ToSet(records) : \E s \in ToSet(specs) : s.id = r.id
  /\ \A j, k \in DOMAIN records : records[j].id = records[k].id => j = k

\* plan_work goes through: every other input is a RunError, and nothing is run.
Accepts(records, specs, config) ==
  /\ records # << >>
  /\ \A r, q \in ToSet(records) : r.run = q.run /\ r.decoder = q.decoder
  /\ config.enabled /\ records[1].decoder \in config.decoders
  /\ \A r \in ToSet(records) : \E s \in ToSet(specs) : s.id = r.id
  /\ \A j, k \in DOMAIN records : records[j].id = records[k].id => j = k
  /\ \A s \in Applicable(specs, records[1].decoder) :
       \E r \in ToSet(records) : r.id = s.id

\* by_record, or what stands for no record at all
RecordOf(records, id) ==
  IF \E r \in ToSet(records) : r.id = id
  THEN CHOOSE r \in ToSet(records) : r.id = id
  ELSE [ id |-> id, delivered |-> FALSE ]

\* Mismatches that only looks at payloads expected to decode
MissingDecodes(records, specs) ==
  { s.id : s \in { t \in Applicable(specs, records[1].decoder) :
                     t.expect /\ ~RecordOf(records, t.id).delivered } }

\* The elements of S in the order of Before.
InOrder(S, Before(_, _)) ==
  [ k \in 1..Cardinality(S) |->
      CHOOSE x \in S : Cardinality({ y \in S : Before(y, x) }) = k - 1 ]

\* A payload, a mode and a repetition come before others as the nested loops have them.
LoopBefore(p, q) ==
  \/ p[1] < q[1]
  \/ p[1] = q[1] /\ p[2] < q[2]
  \/ p[1] = q[1] /\ p[2] = q[2] /\ p[3] < q[3]

\* Payload by payload, mode by mode, repetition by repetition.
Loops(chosen, specs, modes, reps) ==
  LET places == { j \in DOMAIN specs : specs[j] \in chosen } \X (DOMAIN modes) \X (0..(reps - 1))
      order == InOrder(places, LoopBefore)
  IN [ k \in DOMAIN order |->
         [ id |-> specs[order[k][1]].id, mode |-> modes[order[k][2]], rep |-> order[k][3] ] ]

\* The work with one repetition whatever the configuration says
MatrixOfOneRep(records, specs, config) ==
  Loops(Applicable(specs, records[1].decoder), specs, config.modes, 1)

\* The work, in order.
Matrix(records, specs, config) ==
  Loops(Applicable(specs, records[1].decoder), specs, config.modes, config.reps)

\* Payloads that decoded, or did not, against the expectation of their spec
Mismatches(records, specs) ==
  { s.id : s \in { t \in Applicable(specs, records[1].decoder) :
                     t.expect # RecordOf(records, t.id).delivered } }

\* The alphabetical order of the mode names
ModeRank == [ full |-> 1, off |-> 2, parameterise_only |-> 3, validate_only |-> 4 ]

\* row_key: run, tier and decoder mode are the same in all rows of a run.
RowBefore(a, b) ==
  \/ ModeRank[a.mode] < ModeRank[b.mode]
  \/ a.mode = b.mode /\ a.id < b.id
  \/ a.mode = b.mode /\ a.id = b.id /\ a.rep < b.rep

\* sorted(rows, key=row_key), which leaves rows of one key as they were
Sorted(rows) ==
  LET Before(i, j) == \/ RowBefore(rows[i], rows[j])
                      \/ ~RowBefore(rows[j], rows[i]) /\ i < j
      order == InOrder(DOMAIN rows, Before)
  IN [ k \in DOMAIN order |-> rows[order[k]] ]

=============================================================================
