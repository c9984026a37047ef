------------------------------- MODULE Oracle -------------------------------
(***************************************************************************)
(* How the harness judges a Tier 1 call (harness/oracles.py and            *)
(* harness/verdict.py) and the row it writes (execute_one): pure functions *)
(* of the record, of what run_tier1 brought back and of the ground truth.  *)
(***************************************************************************)
EXTENDS Contracts

\* A run: granted is "none", "true" or "false" (Observation.granted); table is
\* "none", "golden" or "other" (badges_sha256); secret: the restricted secret is in
\* the visible text or the detail; own: a canary file is named after the payload.
Grants == {"none", "true", "false"}
Tables == {"none", "golden", "other"}

Outcomes == [ tier : {"tier1"}, mode : Mode, blocked : BOOLEAN, gated : BOOLEAN,
              error : BOOLEAN, handle_ns : BOOLEAN, defense_ns : BOOLEAN ]

Runs == [ outcome : Outcomes, granted : Grants, secret : BOOLEAN,
          table : Tables, own : BOOLEAN, crashed : BOOLEAN ]

\* decide_verdict that does not look at the error
ErrorUnseen(family, status, refused, errored, fired, benign_ok) ==
  IF ~Delivered(status) THEN "not_delivered"
  ELSE IF family # "benign" /\ fired THEN "crossed"
  ELSE IF refused THEN "blocked"
  ELSE IF family # "benign" THEN "no_effect"
  ELSE IF benign_ok THEN "benign_ok" ELSE "fault"

\* First match wins.
decide_verdict(family, status, refused, errored, fired, benign_ok) ==
  IF ~Delivered(status) THEN "not_delivered"
  ELSE IF family # "benign" /\ fired THEN "crossed"
  ELSE IF refused THEN "blocked"
  ELSE IF errored THEN "fault"
  ELSE IF family # "benign" THEN "no_effect"
  ELSE IF benign_ok THEN "benign_ok" ELSE "fault"

\* tier1_signals, as the set of the codes that fired; `active`: the record's text
\* is an active badge id.
tier1_signals(active, run) ==
  { c \in SignalCode :
      \/ c = "A" /\ run.granted = "true" /\ ~active
      \/ c = "B" /\ run.table = "other"
      \/ c = "C" /\ run.secret
      \/ c = "D" /\ run.own }

\* judge_tier1 of a call that was made.  A decision that was not reached (None)
\* equals neither TRUE nor FALSE, so it fails the benign check.
judge_tier1(family, status, active, run) ==
  LET fired == tier1_signals(active, run) # {}
      errored == run.outcome.error \/ run.crashed
      right == run.granted = (IF active THEN "true" ELSE "false")
  IN decide_verdict(family, status, run.outcome.blocked \/ run.outcome.gated,
                    errored, fired, right /\ ~fired /\ ~errored)

RowOf(outcome, family, status, verdict, signals) ==
  [ tier |-> outcome.tier, mode |-> outcome.mode, blocked |-> outcome.blocked,
    gated |-> outcome.gated, error |-> outcome.error,
    handle_ns |-> outcome.handle_ns, defense_ns |-> outcome.defense_ns,
    family |-> family, decode_status |-> status,
    verdict |-> verdict, signals |-> signals ]

\* A TierOutcome with every optional field at its default.
BareOutcome(mode) ==
  [ tier |-> "tier1", mode |-> mode, blocked |-> FALSE, gated |-> FALSE,
    error |-> FALSE, handle_ns |-> FALSE, defense_ns |-> FALSE ]

\* execute_one for a delivered record and the run it gave ...
DeliveredRow(family, status, active, run) ==
  RowOf(run.outcome, family, status,
        judge_tier1(family, status, active, run), tier1_signals(active, run))

\* ... and for one that was not delivered: no tier is invoked.
UndeliveredRow(family, status, mode) ==
  RowOf(BareOutcome(mode), family, status,
        decide_verdict(family, status, FALSE, FALSE, FALSE, FALSE), {})

=============================================================================
