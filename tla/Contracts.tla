------------------------------ MODULE Contracts ------------------------------
(***************************************************************************)
(* The vocabulary the components exchange and the rules contracts.py puts  *)
(* on it: enumerations, the tables between them, and the model validators  *)
(* as predicates.  A field the validators only ask "is it None?" of is a   *)
(* Boolean here (TRUE: it has a value).                                    *)
(***************************************************************************)
EXTENDS FiniteSets

TierId == {"tier1", "tier2", "tier3"}
Mode == {"off", "validate_only", "parameterise_only", "gate_only", "full"}
Family == {"malformed", "injection", "backend_parse", "instruction", "benign"}
DecoderMode == {"default", "raw"}
DecodeStatus == {"ok", "invalid_utf8", "no_symbol", "multiple_symbols"}
Reason == {"ok", "length", "charset", "grammar", "encoding", "unapproved"}
SignalCode == {"A", "B", "C", "D"}

VALID_MODES ==
  [ tier1 |-> {"off", "validate_only", "parameterise_only", "full"},
    tier2 |-> {"off", "validate_only", "parameterise_only", "full"},
    tier3 |-> {"off", "gate_only", "full"} ]
VALIDATING_MODES == {"validate_only", "full"}
GATING_MODES == {"gate_only", "full"}

APPLICABLE_PAIRS ==
  ({"malformed", "benign"} \X TierId)
    \union { <<"injection", "tier1">>, <<"backend_parse", "tier2">>, <<"instruction", "tier3">> }

DELIVERED_STATUSES == {"ok", "invalid_utf8"}
BENIGN_VERDICTS == {"benign_ok", "blocked", "not_delivered", "fault"}
ATTACK_VERDICTS == {"crossed", "blocked", "no_effect", "not_delivered", "fault"}

\* PayloadRecord: what the raw bytes are ("none", "utf8", "not_utf8"), what the
\* text is ("none", "strict", "other" than the strict decoding), and symbology.
ValidRecord(r) ==
  /\ r.decode_status \in DecodeStatus
  /\ CASE r.decode_status = "ok" ->
            r.raw = "utf8" /\ r.text = "strict" /\ r.symbology
       [] r.decode_status = "invalid_utf8" ->
            r.raw = "not_utf8" /\ r.text = "none" /\ r.symbology
       [] OTHER -> r.raw = "none" /\ r.text = "none" /\ ~r.symbology

Delivered(status) == status \in DELIVERED_STATUSES

\* TierOutcome
ValidOutcome(o) ==
  /\ o.mode \in VALID_MODES[o.tier]
  /\ ~(o.blocked /\ o.gated)
  /\ o.blocked => o.mode \in VALIDATING_MODES
  /\ o.gated => o.mode \in GATING_MODES /\ o.tier = "tier3"
  /\ o.error => ~o.blocked /\ ~o.gated

\* ResultRow: an outcome with labels, a verdict and the signals that fired
ValidRow(r) ==
  LET refused == r.blocked \/ r.gated IN
  /\ ValidOutcome(r)
  /\ <<r.family, r.tier>> \in APPLICABLE_PAIRS
  /\ (r.verdict = "not_delivered") <=> ~Delivered(r.decode_status)
  /\ r.verdict \in (IF r.family = "benign" THEN BENIGN_VERDICTS ELSE ATTACK_VERDICTS)
  /\ r.verdict = "not_delivered" => ~refused /\ ~r.error /\ ~r.handle_ns /\ ~r.defense_ns
  /\ r.verdict = "blocked" => refused
  /\ refused => r.verdict \in {"blocked", "crossed"}
  /\ r.error => r.verdict \in {"fault", "crossed"}
  /\ r.verdict = "crossed" => r.signals # {}
  /\ r.verdict \in {"no_effect", "benign_ok"} => r.signals = {}

=============================================================================
