------------------------------- MODULE Results -------------------------------
(***************************************************************************)
(* The result files of two runs and what is read from them: ResultWriter   *)
(* and read_results (harness/metrics.py), the comparison of a run with its *)
(* re-run (harness/compare.py) and the summary of one run                  *)
(* (harness/summarize.py).  A run may be killed while it writes; neither   *)
(* reader looks for the metadata that mark a whole file (Runner), so what  *)
(* they say of a cut file is all there is.                                 *)
(*                                                                         *)
(* A file is the sequence of its lines: the header, then for each row the  *)
(* cells, or Broken where no row can be made of what stands there.  A cell *)
(* is a string but for id and rep, numbers, and signals, a sequence of     *)
(* codes, which is the last column.  The detail "cr" is a text with a      *)
(* carriage return in it and nothing else that a csv module would quote    *)
(* it for.  The columns that are the same in all rows of both runs (tier,  *)
(* decoder mode, decode status) are left out.                              *)
(***************************************************************************)
EXTENDS Contracts, Plan

CONSTANTS
  RowSets,          \* the row sets a run can produce
  QuotesLoneCR      \* the files whose writer's csv module quotes a carriage return

Files == {"first", "second"}

\* Earlier patch releases of Python 3.11 quote what is in lineterminator only, "\n" here.
ASSUME QuotesLoneCRAssumption == QuotesLoneCR \subseteq Files

VARIABLES
  rows,             \* the rows each run has to write
  file,             \* what is in its results.csv
  written,          \* how many of them it has written
  writer,           \* "none", "open", "closed" or "killed"
  problems          \* what compare_results found, << >> before it was called

resultsVars == << rows, file, written, writer, problems >>

Header == [ header |-> TRUE ]
Broken == [ broken |-> TRUE ]
Raises == << Broken >>
COLUMNS ==
  { "mode", "id", "rep", "blocked", "error", "detail", "handle_ns", "defense_ns",
    "run_id", "family", "verdict", "signals" }
Optional == {"error", "handle_ns", "defense_ns"}   \* the columns that may hold None

-----------------------------------------------------------------------------
(***************************************************************************)
(* Writing.  Every row is flushed; the header goes out with the first.     *)
(***************************************************************************)

\* A carriage return that is not quoted ends the line for the one who reads it.
Splits(f, row) == row.detail = "cr" /\ f \notin QuotesLoneCR

\* writerow: None is an empty cell.
Cells(row) == [ c \in DOMAIN row |-> IF c \in Optional /\ row[c] = "None" THEN "" ELSE row[c] ]
Line(f, row) == IF Splits(f, row) THEN << Broken, Broken >> ELSE << Cells(row) >>

\* What a kill can leave of a line: nothing, a line that lacks a cell or holds half a
\* verdict, or one whose last cell, the signals, was cut short (in the middle of a
\* quoted cell too: the reader takes the end of the file for the end of the cell).
CutLine(f, row) ==
  { << >>, << Broken >> }
    \union IF Splits(f, row)
           THEN { << Broken, Broken >> }
           ELSE { << [ Cells(row) EXCEPT !.signals = SubSeq(@, 1, n) ] >> : n \in 0..Len(row.signals) }

ResultsInit ==
  /\ rows \in [ Files -> { Sorted(SetToSeq(r)) : r \in RowSets } ]
  /\ file = [ f \in Files |-> << >> ]
  /\ writer = [ f \in Files |-> "none" ]
  /\ written = [ f \in Files |-> 0 ]
  /\ problems = << >>

\* A re-run follows the run.
Create(f) ==
  /\ writer[f] = "none" /\ (f = "second" => writer["first"] \in {"closed", "killed"})
  /\ writer' = [ writer EXCEPT ![f] = "open" ]
  /\ UNCHANGED << rows, file, written, problems >>

Unwritten(f) == IF written[f] < Len(rows[f]) THEN { rows[f][written[f] + 1] } ELSE {}
WithHeader(lines) == IF lines = << >> THEN << Header >> ELSE lines

Write(f) ==
  /\ writer[f] = "open"
  /\ \E row \in Unwritten(f) : file' = [ file EXCEPT ![f] = WithHeader(@) \o Line(f, row) ]
  /\ written' = [ written EXCEPT ![f] = @ + 1 ]
  /\ UNCHANGED << rows, writer, problems >>

Close(f) ==
  /\ writer[f] = "open" /\ Unwritten(f) = {}
  /\ writer' = [ writer EXCEPT ![f] = "closed" ]
  /\ file' = [ file EXCEPT ![f] = WithHeader(@) ]
  /\ UNCHANGED << rows, written, problems >>

Kill(f) ==
  /\ writer[f] = "open"
  /\ writer' = [ writer EXCEPT ![f] = "killed" ]
  /\ \/ UNCHANGED file
     \/ \E row \in Unwritten(f) : \E left \in CutLine(f, row) :
          file' = [ file EXCEPT ![f] = WithHeader(@) \o left ]
  /\ UNCHANGED << rows, written, problems >>

-----------------------------------------------------------------------------
(***************************************************************************)
(* Reading.                                                                *)
(***************************************************************************)
NullableTimes == {"handle_ns", "defense_ns"}         \* a list that forgets one
NULLABLE == {"error", "handle_ns", "defense_ns"}

Cell(line) == [ c \in DOMAIN line |-> IF c \in NULLABLE /\ line[c] = "" THEN "None" ELSE line[c] ]

\* ResultRow.model_validate: a time is a number, and the row is one Contracts accepts.
Validates(r) ==
  /\ r.handle_ns # "" /\ r.defense_ns # ""
  /\ ValidRow([ tier |-> "tier1", mode |-> r.mode, family |-> r.family, decode_status |-> "ok",
                blocked |-> r.blocked = "True", gated |-> FALSE, error |-> r.error # "None",
                handle_ns |-> r.handle_ns # "None", defense_ns |-> r.defense_ns # "None",
                verdict |-> r.verdict, signals |-> ToSet(r.signals) ])

\* read_results: all rows of the file, or an exception
read_results(lines) ==
  IF /\ lines # << >> /\ Head(lines) = Header
     /\ \A k \in 2..Len(lines) : lines[k] # Broken /\ Validates(Cell(lines[k]))
  THEN [ k \in 1..(Len(lines) - 1) |-> Cell(lines[k + 1]) ]
  ELSE Raises

\* a list of what differs that has the detail, too
TimingAndDetail == {"handle_ns", "defense_ns", "detail"}

TIMING == {"handle_ns", "defense_ns"}
PER_RUN == {"run_id"}

Key(row) == << row.mode, row.id, row.rep >>
Keyed(read) == { Key(r) : r \in ToSet(read) }

\* A row that ResultRow accepted.  An error is the name of an exception, or why there is no
\* answer, and a time a number: a column that may hold None is not empty otherwise.
IsRow(r) ==
  /\ r = [ c \in COLUMNS |-> r[c] ]
  /\ r.mode \in VALID_MODES["tier1"] /\ r.id \in Nat /\ r.rep \in Nat
  /\ r.signals \in Seq(SignalCode)
  /\ Validates(r)
  /\ \A c \in Optional : r[c] # ""

\* The rows of a run are of different keys, or ResultWriter.write raises.
ASSUME RowSetsAssumption ==
  \A S \in RowSets :
    /\ IsFiniteSet(S) /\ \A r \in S : IsRow(r)
    /\ \A r, q \in S : Key(r) = Key(q) => r = q

Row(read, key) == CHOOSE r \in ToSet(read) : Key(r) = key

Differing(left, right, key) ==
  { column \in DOMAIN Row(left, key) \ (TIMING \union PER_RUN) :
      Row(left, key)[column] # Row(right, key)[column] }

\* a comparison that looks for the rows of the first file only
CompareWithFirst(left, right) ==
  { << key, "only in the first file" >> : key \in Keyed(left) \ Keyed(right) }
    \union { << key, "differs" >> : key \in { k \in Keyed(left) \intersect Keyed(right) :
                                              Differing(left, right, k) # {} } }

\* compare_results: keys in one file only, and keys with columns that differ
compare_results(left, right) ==
  { << key, "only in the first file" >> : key \in Keyed(left) \ Keyed(right) }
    \union { << key, "only in the second file" >> : key \in Keyed(right) \ Keyed(left) }
    \union { << key, "differs" >> : key \in { k \in Keyed(left) \intersect Keyed(right) :
                                              Differing(left, right, k) # {} } }

Compare ==
  LET left == read_results(file["first"])
      right == read_results(file["second"])
  IN /\ \A f \in Files : writer[f] \in {"closed", "killed"}
     /\ problems = << >>
     /\ problems' = << IF Raises \in {left, right} THEN "raises" ELSE "compared",
                       IF Raises \in {left, right} THEN {} ELSE compare_results(left, right) >>
     /\ UNCHANGED << rows, file, written, writer >>

\* by_payload[id]: the modes it has, and of each the last such row of the file
Modes(read, id) == { r.mode : r \in { q \in ToSet(read) : q.id = id } }
LastRow(read, id, mode) ==
  LET at == { k \in DOMAIN read : read[k].id = id /\ read[k].mode = mode }
  IN read[CHOOSE k \in at : \A j \in at : j <= k]
AttackIds(read) == { id \in { r.id : r \in ToSet(read) } : LastRow(read, id, "off").family # "benign" }

\* summarize: the table of attack payloads, the counts, and why validation blocked; a
\* KeyError if a payload has no row in mode off, or an attack none in another mode.
summarize(read) ==
  LET ids == { r.id : r \in ToSet(read) }
      Count(P(_)) == Cardinality({ k \in DOMAIN read : P(read[k]) })
      Off(id) == LET r == LastRow(read, id, "off") IN << r.verdict, r.signals, r.error >>
      refused == { r \in ToSet(read) : r.mode = "validate_only" /\ r.blocked = "True" }
  IN IF \/ \E id \in ids : "off" \notin Modes(read, id)
        \/ \E id \in AttackIds(read) : ~(VALID_MODES["tier1"] \subseteq Modes(read, id))
     THEN [ raises |-> "KeyError" ]
     ELSE [ payloads |-> ids, rows |-> Len(read),
            off     |-> [ id \in AttackIds(read) |-> Off(id) ],
            table   |-> [ id \in AttackIds(read) |->
                          [ m \in VALID_MODES["tier1"] |-> LastRow(read, id, m).verdict ] ],
            counts  |-> { << r.mode, r.verdict, Count(LAMBDA q : q.mode = r.mode /\ q.verdict = r.verdict) >> :
                            r \in ToSet(read) },
            reasons |-> { << r.detail, Count(LAMBDA q : q \in refused /\ q.detail = r.detail) >> : r \in refused },
            benign  |-> << Count(LAMBDA q : q.family = "benign"),
                           Count(LAMBDA q : q.family = "benign" /\ q.blocked = "True") >> ]

ResultsNext == \E f \in Files : Create(f) \/ Write(f) \/ Close(f) \/ Kill(f) \/ Compare

ResultsSpec == ResultsInit /\ [][ResultsNext]_resultsVars

-----------------------------------------------------------------------------
(***************************************************************************)
(* Properties.                                                             *)
(***************************************************************************)
NoProblems == problems = << "compared", {} >>

\* harness/metrics.py:4, "written exactly as observed": what was written is read back, cell by
\* cell, and no accepted row is refused when it comes back.  The one exception is a file
\* with a carriage return that a csv module left unquoted: no row of it can be read, and
\* none is read as something else.
RoundTrip ==
  \A f \in Files :
    writer[f] = "closed" =>
      read_results(file[f]) = IF \E k \in DOMAIN rows[f] : Splits(f, rows[f][k]) THEN Raises ELSE rows[f]

\* compare says "no differences" of two whole files, or of a whole file and one of the
\* same work that a kill cut anywhere, only if both runs produced the same rows, in every
\* column but those of timing and the run.  Only the signals of the last row of a cut
\* file, its last cell, can have been lost without notice.
EqualMeansReproduced ==
  LET a == rows["first"]  b == rows["second"]
      Whole(r) == [ r EXCEPT !.run_id = "", !.handle_ns = "", !.defense_ns = "" ]
      Cut(r) == [ Whole(r) EXCEPT !.signals = << >> ]
      whole == { f \in Files : writer[f] = "closed" }
  IN NoProblems /\ (whole = Files \/ (whole # {} /\ Keyed(a) = Keyed(b))) =>
       /\ Len(a) = Len(b)
       /\ \A k \in DOMAIN a : \/ Whole(a[k]) = Whole(b[k])
                             \/ /\ Cut(a[k]) = Cut(b[k]) /\ k = Len(a)
                                /\ whole # Files

\* Files between which compare finds no difference have one summary, cut ones included:
\* nothing that is reported of a run depends on a column the comparison ignores.
EqualMeansSameSummary ==
  NoProblems => summarize(read_results(file["first"])) = summarize(read_results(file["second"]))

=============================================================================
