------------------------------ MODULE Tier1Call ------------------------------
(***************************************************************************)
(* One unit of work of the experiment, from record to result row: inside   *)
(* the container tiers/sandbox_entry.main runs tier1_rulebased.handle;     *)
(* on the host run_tier1 calls DockerSandbox.run, takes what came back and *)
(* execute_one has it judged.  The sandbox call is module SandboxCall (the *)
(* specification module Sandbox implements): it can end at any step of the *)
(* container, and reports the canary files.                                *)
(*                                                                         *)
(* A payload is a record of what the code can tell of it:                  *)
(*   family, status   the label and the record's decode_status             *)
(*   text    "active", "inactive", "unknown" badge id, "none": not UTF-8   *)
(*   reason  what boundary.check says of it                                *)
(*   sql     the text within the concatenated query: "literal",            *)
(*           "special" (it ends the string) or "nul"                       *)
(*   shell   the text within the concatenated command, in the same way     *)
(***************************************************************************)
EXTENDS Oracle

CONSTANTS
  Payloads,         \* the payloads to run
  OwnName,          \* a canary file name that contains the payload's id
  OtherName         \* one that does not

CanaryNames == {OwnName, OtherName}
Sinks == {"literal", "special", "nul"}

\* What the payload set and the grammar guarantee: a text the boundary allows is
\* literal to both sinks (Tier1CallProofs!AllowedTextIsInert), badge ids are
\* well formed, and the benign set is made of well-formed ids.
ASSUME PayloadAssumption ==
  /\ Payloads \subseteq
       [ family : {"malformed", "injection", "benign"}, status : DecodeStatus,
         text : {"active", "inactive", "unknown", "none"},
         reason : Reason \ {"unapproved"}, sql : Sinks, shell : Sinks ]
  /\ \A p \in Payloads :
       /\ p.reason = "ok" => (p.sql = "literal" /\ p.shell = "literal")
       /\ p.text \in {"active", "inactive"} => p.reason = "ok"
       /\ p.family = "benign" => p.reason = "ok"
       /\ (p.text = "none") <=> (p.reason = "encoding")
       /\ (p.text = "none") <=> (p.status # "ok")
  /\ OwnName # OtherName

VARIABLES
  payload, mode,    \* the work: the record and the mode it is run in
  at,               \* where the tier is: see Stages
  outcome,          \* the TierOutcome as far as the tier has got
  granted, secret,  \* the Observation: the decision; the secret is in its text
  table,            \* state.badges_sha256
  answer,           \* what reached stdout of the one answer line
  sinks,            \* history: the sinks the tier has handed the text to
  faulted,          \* history: the environment made the call go wrong
  timedOut,         \* the caller's deadline has passed
  run,              \* the Tier1Run, or NoRun
  row,              \* the ResultRow, or NoRow
  phase, effects, reported   \* the sandbox call

work == << payload, mode >>
tier == << outcome, granted, secret, table, sinks >>
host == << run, row >>
call == << phase, effects, reported >>
vars == << work, at, tier, answer, faulted, timedOut, host, call >>

Box == INSTANCE SandboxCall WITH Names <- CanaryNames

Stages == {"absent", "boot", "check", "lookup", "audit", "hash", "print",
           "printed", "dead"}
Alive == at \notin {"absent", "dead"}
NoRun == [ none |-> "no run" ]
NoRow == [ none |-> "no row" ]

Validates(m) == m \in {"validate_only", "full"}
\* taken for the modes that validate
ParameterisesWhenValidating(m) == m \in {"validate_only", "full"}
Parameterises(m) == m \in {"parameterise_only", "full"}

Init ==
  /\ payload \in Payloads
  /\ mode \in VALID_MODES["tier1"]
  /\ at = "absent"
  /\ outcome = BareOutcome(mode)
  /\ granted = "none" /\ secret = FALSE /\ table = "none"
  /\ answer = "none" /\ sinks = {} /\ faulted = FALSE /\ timedOut = FALSE
  /\ run = NoRun /\ row = NoRow
  /\ Box!Init

(***************************************************************************)
(* In the container.                                                       *)
(***************************************************************************)

\* sandbox_entry.main reads the request and builds the badges
Boot ==
  /\ at = "boot"
  /\ at' = "check"
  /\ UNCHANGED << work, tier, answer, faulted, timedOut, host, call >>

\* Every outcome the handler makes carries handle_ns, and defense_ns if it checked.
Handled(o) == [ o EXCEPT !.handle_ns = TRUE, !.defense_ns = Validates(mode) ]

\* A check whose refusal does not end the call
CheckWithoutReturn ==
  /\ at = "check"
  /\ at' = "lookup"
  /\ IF Validates(mode) /\ payload.reason # "ok"
     THEN outcome' = [ Handled(outcome) EXCEPT !.blocked = TRUE ]
     ELSE outcome' = outcome
  /\ UNCHANGED << work, granted, secret, table, sinks, answer, faulted, timedOut, host, call >>

\* handle: the boundary, in the modes that validate
Check ==
  /\ at = "check"
  /\ IF Validates(mode) /\ payload.reason # "ok"
     THEN /\ outcome' = [ Handled(outcome) EXCEPT !.blocked = TRUE ]
          /\ granted' = "false"
          /\ at' = "hash"
     ELSE /\ at' = "lookup"
          /\ UNCHANGED << outcome, granted >>
  /\ UNCHANGED << work, secret, table, sinks, answer, faulted, timedOut, host, call >>

\* handle with granted = "a row was found"
LookupRevokedToo ==
  /\ at = "lookup"
  /\ (Parameterises(mode) \/ payload.sql = "literal")
  /\ at' = "audit"
  /\ granted' = IF payload.text \in {"active", "inactive"} THEN "true" ELSE "false"
  /\ sinks' = sinks \union {"lookup"}
  /\ UNCHANGED << work, outcome, secret, table, answer, faulted, timedOut, host, call >>

\* _lookup finds the row of exactly that id: bound as a parameter, or
\* concatenated and literal.
LookupLiteral ==
  /\ at = "lookup"
  /\ (Parameterises(mode) \/ payload.sql = "literal")
  /\ at' = "audit"
  /\ granted' = IF payload.text = "active" THEN "true" ELSE "false"
  /\ sinks' = sinks \union {"lookup"}
  /\ UNCHANGED << work, outcome, secret, table, answer, faulted, timedOut, host, call >>

\* _lookup of a text that rewrites the query: any row, real or made up, or none
LookupRewritten ==
  /\ at = "lookup"
  /\ ~Parameterises(mode) /\ payload.sql = "special"
  /\ at' = "audit"
  /\ granted' \in {"true", "false"}
  /\ secret' \in BOOLEAN
  /\ sinks' = sinks \union {"lookup"}
  /\ UNCHANGED << work, outcome, table, answer, faulted, timedOut, host, call >>

\* ... or a query SQLite rejects: reported, and the audit is never reached.  What an
\* error says is shown, and a query that ran can have put anything into it.
LookupFails ==
  /\ at = "lookup"
  /\ ~Parameterises(mode) /\ payload.sql # "literal"
  /\ at' = "hash"
  /\ outcome' = [ Handled(outcome) EXCEPT !.error = TRUE ]
  /\ secret' \in IF payload.sql = "special" THEN BOOLEAN ELSE {FALSE}
  /\ sinks' = sinks \union {"lookup"}
  /\ UNCHANGED << work, granted, table, answer, faulted, timedOut, host, call >>

ShellRuns == ~Parameterises(mode) /\ payload.shell = "special"

\* What a rewritten audit command does, and leaves running after it: files in
\* /canary, from the start of the audit to the end of the container.
ShellLeaves(n) ==
  /\ ShellRuns /\ "audit" \in sinks /\ Alive
  /\ Box!Effect(n)
  /\ UNCHANGED << work, at, tier, answer, faulted, timedOut, host >>

\* _audit gets the text: a JSON line, or a shell command
AuditStarts ==
  /\ at = "audit" /\ "audit" \notin sinks
  /\ (Parameterises(mode) \/ payload.shell # "nul")
  /\ sinks' = sinks \union {"audit"}
  /\ UNCHANGED << work, at, outcome, granted, secret, table, answer, faulted, timedOut, host, call >>

AuditEnds ==
  /\ at = "audit" /\ "audit" \in sinks
  /\ at' = "hash"
  /\ outcome' = Handled(outcome)
  /\ UNCHANGED << work, granted, secret, table, sinks, answer, faulted, timedOut, host, call >>

\* The decision is made and kept; the audit failed: the shell ran for longer than
\* 5 s, the file could not be written, or the text cannot be an argument.
AuditFails ==
  /\ at = "audit"
  /\ \/ "audit" \in sinks
     \/ payload.shell = "nul" /\ ~Parameterises(mode)
  /\ at' = "hash"
  /\ outcome' = [ Handled(outcome) EXCEPT !.error = TRUE ]
  /\ faulted' = TRUE
  /\ UNCHANGED << work, granted, secret, table, sinks, answer, timedOut, host, call >>

\* Any other exception out of handle is caught in main: no observation is left.
HandleRaises ==
  /\ at \in {"check", "lookup", "audit"}
  /\ at' = "hash"
  /\ outcome' = [ BareOutcome(mode) EXCEPT !.error = TRUE ]
  /\ granted' = "none" /\ secret' = FALSE
  /\ faulted' = TRUE
  /\ UNCHANGED << work, table, sinks, answer, timedOut, host, call >>

\* main that reports the reason where it has no hash
HashOrReason ==
  /\ at = "hash"
  /\ at' = "print"
  /\ table' \in {"golden", "database is locked"}
  /\ UNCHANGED << work, outcome, granted, secret, sinks, answer, faulted, timedOut, host, call >>

\* The table's hash, or None if it cannot be read.  No sink writes the table:
\* execute takes one statement, and that is a SELECT.
HashTable ==
  /\ at = "hash"
  /\ at' = "print"
  /\ table' \in {"golden", "none"}
  /\ UNCHANGED << work, outcome, granted, secret, sinks, answer, faulted, timedOut, host, call >>

\* The answer line, which can reach the pipe in pieces
PrintAnswer ==
  /\ at = "print"
  /\ answer' = IF answer = "none" THEN "torn" ELSE "whole"
  /\ at' = IF answer = "none" THEN "print" ELSE "printed"
  /\ UNCHANGED << work, tier, faulted, timedOut, host, call >>

Exit ==
  /\ at = "printed"
  /\ at' = "dead"
  /\ UNCHANGED << work, tier, answer, faulted, timedOut, host, call >>

\* The memory limit, or the kernel
Killed ==
  /\ Alive
  /\ at' = "dead"
  /\ faulted' = TRUE
  /\ UNCHANGED << work, tier, answer, timedOut, host, call >>

(***************************************************************************)
(* On the host.                                                            *)
(***************************************************************************)

\* execute_one of a record that was not delivered: no tier is invoked
RowWithoutCall ==
  /\ row = NoRow /\ ~Delivered(payload.status)
  /\ row' = UndeliveredRow(payload.family, payload.status, mode)
  /\ UNCHANGED << work, at, tier, answer, faulted, timedOut, run, call >>

\* run_tier1 of one that was
Invoke ==
  /\ at = "absent" /\ phase = "open" /\ Delivered(payload.status)
  /\ at' = "boot"
  /\ UNCHANGED << work, tier, answer, faulted, timedOut, host, call >>

\* DockerSandbox.run sees the deadline pass; the tier may still end by itself
DeadlinePasses ==
  /\ at # "absent" /\ phase = "open" /\ ~timedOut
  /\ timedOut' = TRUE
  /\ faulted' = TRUE
  /\ UNCHANGED << work, at, tier, answer, host, call >>

Stopped ==
  /\ timedOut /\ Alive
  /\ at' = "dead"
  /\ UNCHANGED << work, tier, answer, faulted, timedOut, host, call >>

\* The reader of stdout is not joined in time: the answer was printed, and run
\* returns without the end of it.
JoinExpires ==
  /\ at = "dead" /\ phase = "open" /\ answer = "whole"
  /\ answer' = "torn"
  /\ faulted' = TRUE
  /\ UNCHANGED << work, at, tier, timedOut, host, call >>

\* run_tier1 with an empty outcome where no answer can be parsed
GuessedRun(files) ==
  [ outcome |-> IF answer = "whole" THEN outcome ELSE BareOutcome(mode),
    granted |-> IF answer = "whole" THEN granted ELSE "none",
    secret  |-> answer = "whole" /\ secret,
    table   |-> IF answer = "whole" THEN table ELSE "none",
    own     |-> OwnName \in files,
    crashed |-> FALSE ]

\* run_tier1 that keeps the canary files of an answered call only
FilesOfAnswered(files) ==
  [ outcome |-> IF answer = "whole" THEN outcome
                ELSE [ BareOutcome(mode) EXCEPT !.error = TRUE ],
    granted |-> IF answer = "whole" THEN granted ELSE "none",
    secret  |-> answer = "whole" /\ secret,
    table   |-> IF answer = "whole" THEN table ELSE "none",
    own     |-> answer = "whole" /\ OwnName \in files,
    crashed |-> answer # "whole" ]

\* The Tier1Run: the answer if the last line parses, else "Timeout" or
\* "NoAnswer"; the canary files in either case.
RunFrom(files) ==
  [ outcome |-> IF answer = "whole" THEN outcome
                ELSE [ BareOutcome(mode) EXCEPT !.error = TRUE ],
    granted |-> IF answer = "whole" THEN granted ELSE "none",
    secret  |-> answer = "whole" /\ secret,
    table   |-> IF answer = "whole" THEN table ELSE "none",
    own     |-> OwnName \in files,
    crashed |-> answer # "whole" ]

\* run returns: with the container gone, or "loose" after a stop that failed.
Return ==
  /\ at # "absent"
  /\ \/ at = "dead" /\ Box!Return
     \/ timedOut /\ Box!ReturnLoose
  /\ run' = RunFrom(reported')
  /\ UNCHANGED << work, at, tier, answer, faulted, timedOut, row >>

\* run raises (docker cannot be started, the container cannot be stopped): the
\* exception goes through execute_one, and there is no row
Raise ==
  /\ at # "absent"
  /\ Box!Raise
  /\ UNCHANGED << work, at, tier, answer, faulted, timedOut, host >>

\* execute_one that writes a row for an answered call only
JudgeAnswered ==
  /\ run # NoRun /\ row = NoRow
  /\ ~run.crashed
  /\ row' = DeliveredRow(payload.family, payload.status, payload.text = "active", run)
  /\ UNCHANGED << work, at, tier, answer, faulted, timedOut, run, call >>

Judge ==
  /\ run # NoRun /\ row = NoRow
  /\ row' = DeliveredRow(payload.family, payload.status, payload.text = "active", run)
  /\ UNCHANGED << work, at, tier, answer, faulted, timedOut, run, call >>

Tier ==
  \/ Boot \/ Check
  \/ LookupLiteral \/ LookupRewritten \/ LookupFails
  \/ AuditStarts \/ AuditEnds \/ AuditFails
  \/ \E n \in CanaryNames : ShellLeaves(n)
  \/ HandleRaises \/ HashTable \/ PrintAnswer \/ Exit \/ Killed

Over == row # NoRow \/ phase = "raised"

Done == Over /\ UNCHANGED vars

Next ==
  \/ Tier
  \/ RowWithoutCall \/ Invoke \/ DeadlinePasses \/ Stopped \/ JoinExpires
  \/ Return \/ Raise \/ Judge
  \/ Done

\* The calling thread goes on, the clock advances, and a call past its deadline
\* is stopped and returns (Sandbox!CallEnds).  Nothing is assumed of the tier.
Fairness ==
  /\ WF_vars(RowWithoutCall) /\ WF_vars(Invoke) /\ WF_vars(Judge)
  /\ WF_vars(DeadlinePasses) /\ WF_vars(Stopped) /\ WF_vars(Return)

Spec == Init /\ [][Next]_vars /\ Fairness

-----------------------------------------------------------------------------
(***************************************************************************)
(* Properties.                                                             *)
(***************************************************************************)

TypeOK ==
  /\ payload \in Payloads /\ mode \in VALID_MODES["tier1"]
  /\ at \in Stages
  /\ outcome \in Outcomes /\ granted \in Grants /\ secret \in BOOLEAN /\ table \in Tables
  /\ answer \in {"none", "torn", "whole"} /\ sinks \subseteq {"lookup", "audit"}
  /\ faulted \in BOOLEAN /\ timedOut \in BOOLEAN
  /\ run \in Runs \union {NoRun}
  /\ phase \in {"open", "returned", "loose", "raised"}
  /\ effects \subseteq CanaryNames /\ reported \subseteq CanaryNames

\* The claim the testbed exists to measure: with any control on, nothing
\* crosses, whatever the payload is and wherever the call is cut off.
ControlsHold ==
  (row # NoRow /\ mode # "off") => row.verdict # "crossed"

\* Every row execute_one builds is one ResultRow accepts: a rejected row would
\* raise in the pool and lose the whole run.
RowIsValid == row # NoRow => ValidRow(row)

\* A call that reports "blocked" has handed the text to no sink.
BlockedTouchesNothing == outcome.blocked => (sinks = {} /\ effects = {})

\* No control costs a legitimate badge anything: a benign record is answered
\* with the ground truth in every mode, unless the environment failed the call.
BenignIsServed ==
  row # NoRow /\ payload.family = "benign" /\ Delivered(payload.status) /\ ~faulted
    => row.verdict = "benign_ok"

\* Nothing is guessed: a call that did not answer in full is a fault, or crossed
\* on the evidence of the canary, and never blocked, no_effect or benign_ok.
NothingIsGuessed ==
  row # NoRow /\ run # NoRun /\ row.verdict \in {"blocked", "no_effect", "benign_ok"}
    => answer = "whole"

\* Evidence outlives the tier: an attack that left its canary file is crossed
\* although the tier was killed, timed out or claimed an error afterwards.
EvidenceSurvives ==
  row # NoRow /\ payload.family # "benign" /\ phase = "returned" /\ OwnName \in effects
    => row.verdict = "crossed" /\ "D" \in row.signals

\* Every piece of work comes to a row or stops the run with an exception.
WorkEnds == <>Over

\* docs/oracles.md, section 2, precedence rule 4: the tier "timed out" gives fault
\* (if nothing crossed and nothing was refused).
TimeoutIsFault ==
  row # NoRow /\ timedOut => row.verdict \in {"fault", "crossed", "blocked"}

=============================================================================
