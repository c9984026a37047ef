------------------------------- MODULE Inputs -------------------------------
(***************************************************************************)
(* What a run is made of, from the two files a person writes to a row:     *)
(* config.yaml and payloads.yaml are validated when they are loaded        *)
(* (contracts.py), the benign payloads are derived and join the listed     *)
(* ones, each image is decoded, plan_work says what applies, and           *)
(* execute_one builds a row, which ResultRow checks once more.             *)
(* Plan has the order of the work, Tier1Call what answers a tier can give. *)
(*                                                                         *)
(* A text is one of the kinds the checks tell apart; None is "none".       *)
(***************************************************************************)
EXTENDS Oracle, Sequences, Integers

CONSTANTS
  Configs,          \* what config.yaml may hold
  Lists,            \* what payloads.yaml may hold: sequences of payload specs
  Derived           \* the benign payloads derived from the badge database, a set

VARIABLES
  stage,            \* how far the run is
  config, list,     \* the two files
  specs,            \* load_payload_set
  mode,             \* the decoder mode of the records file
  records,          \* the record of each payload, by id
  row               \* a row of the run

vars == << stage, config, list, specs, mode, records, row >>

None == [ none |-> TRUE ]
Elements(seq) == { seq[k] : k \in DOMAIN seq }
Distinct(seq) == seq # << >> /\ \A j, k \in DOMAIN seq : seq[j] = seq[k] => j = k

(***************************************************************************)
(* contracts.py                                                            *)
(***************************************************************************)
content_bytes(s) == IF s.content_text # "none" THEN s.content_text ELSE s.content_b64

\* a rule that forgets the benign texts
RawOnlyIfNotUtf8(s) == content_bytes(s) = "not_utf8"

\* What the default decoder would rewrite
RawOnly(s) ==
  (content_bytes(s) = "non_ascii" /\ s.family = "benign") \/ content_bytes(s) = "not_utf8"

\* PayloadSpec._check_spec without the matrix of families and tiers
SpecOfAnyTier(s) ==
  /\ (s.content_text = "none") # (s.content_b64 = "none") /\ s.content_b64 # "bad"
  /\ (s.family = "benign") <=> (s.subset = "benign")
  /\ Distinct(s.target_tiers)
  /\ Distinct(s.decoder_modes) /\ (RawOnly(s) => s.decoder_modes = << "raw" >>)
  /\ s.damage # "none" => s.expected_decode = "fail"

\* PayloadSpec: a text or bytes, a family that is run against these tiers, and the
\* raw condition alone for what the default decoder would rewrite.
ValidSpec(s) ==
  /\ s.family \in Family /\ Elements(s.target_tiers) \subseteq TierId
  /\ (s.content_text = "none") # (s.content_b64 = "none") /\ s.content_b64 # "bad"
  /\ (s.family = "benign") <=> (s.subset = "benign")
  /\ Distinct(s.target_tiers)
  /\ \A tier \in Elements(s.target_tiers) : <<s.family, tier>> \in APPLICABLE_PAIRS
  /\ Distinct(s.decoder_modes) /\ (RawOnly(s) => s.decoder_modes = << "raw" >>)
  /\ s.damage # "none" => s.expected_decode = "fail"

\* TierConfig
ValidTier(t) ==
  /\ Distinct(t.modes) /\ Elements(t.modes) \subseteq Mode
  /\ Distinct(t.decoder_modes) /\ Elements(t.decoder_modes) \subseteq DecoderMode
  /\ t.host = "loopback" /\ t.port \in {"none", "unprivileged"}

\* Config: every tier is there, in modes that are its own; services have ports and
\* the enabled tiers the default condition; tier 3 has a pinned model.
ValidConfig(c) ==
  /\ DOMAIN c.tiers = TierId
  /\ \A id \in TierId :
       LET t == c.tiers[id] IN
       /\ ValidTier(t) /\ Elements(t.modes) \subseteq VALID_MODES[id]
       /\ t.enabled => (id # "tier1" => t.port # "none") /\ "default" \in Elements(t.decoder_modes)
       /\ id = "tier3" => t.decoder_modes = << "default" >>
  /\ c.tiers["tier3"].enabled => c.digest # "none"
  /\ c.reps >= 1

Init ==
  /\ stage = "config"
  /\ config \in Configs /\ list \in Lists
  /\ specs = {} /\ mode = "default" /\ records = None /\ row = None

\* load_config
LoadConfig ==
  /\ stage = "config"
  /\ stage' = IF ValidConfig(config) THEN "payloads" ELSE "rejected"
  /\ UNCHANGED << config, list, specs, mode, records, row >>

\* load_payload_set: no two payloads of one id, in the list or among both kinds.
LoadPayloads ==
  LET all == Elements(list) \union Derived IN
  /\ stage = "payloads"
  /\ IF /\ \A s \in all : ValidSpec(s)
        /\ \A j, k \in DOMAIN list : list[j].id = list[k].id => j = k
        /\ \A k \in DOMAIN list, s \in Derived : list[k].id # s.id
     THEN stage' = "decode" /\ specs' = all
     ELSE stage' = "rejected" /\ UNCHANGED specs
  /\ UNCHANGED << config, list, mode, records, row >>

(***************************************************************************)
(* A replay of the rendered payloads.  The default mode may give another   *)
(* text than a symbol that is not ASCII holds (docs/decode.md).            *)
(***************************************************************************)
Record(status, raw, text, seen) ==
  [ decode_status |-> status, raw |-> raw, text |-> text,
    symbology |-> status \in DELIVERED_STATUSES, seen |-> seen ]

Ok(seen) == Record("ok", "utf8", "strict", seen)

Decodings(s, m) ==
  LET c == content_bytes(s) IN
  CASE s.damage # "none" -> { Record("no_symbol", "none", "none", "nothing") }
    [] s.damage = "none" /\ c = "not_utf8" ->
         { IF m = "raw" THEN Record("invalid_utf8", "not_utf8", "none", "as_encoded") ELSE Ok("rewritten") }
    [] s.damage = "none" /\ c = "non_ascii" ->
         { Ok("as_encoded") } \union (IF m = "raw" THEN {} ELSE { Ok("rewritten") })
    [] OTHER -> { Ok("as_encoded") }

Decode(m) ==
  /\ stage = "decode"
  /\ stage' = "plan"
  /\ mode' = m
  /\ \E f \in [ specs -> UNION { Decodings(s, m) : s \in specs } ] :
       /\ \A s \in specs : f[s] \in Decodings(s, m)
       /\ records' = f
  /\ UNCHANGED << config, list, specs, row >>

(***************************************************************************)
(* plan_work and execute_one                                               *)
(***************************************************************************)
Applies(s) == "tier1" \in Elements(s.target_tiers) /\ mode \in Elements(s.decoder_modes)

PlanWork ==
  LET tier1 == config.tiers["tier1"] IN
  /\ stage = "plan"
  /\ stage' = IF tier1.enabled /\ mode \in Elements(tier1.decoder_modes) THEN "execute" ELSE "refused"
  /\ UNCHANGED << config, list, specs, mode, records, row >>

\* Answers run_tier1 can bring back in a mode: whatever the models accept, or why there
\* is no answer (Tier1Call).
Answers ==
  [ m \in Mode |-> { run \in Runs : /\ run.outcome.mode = m /\ ValidOutcome(run.outcome)
                                    /\ run.crashed => run.outcome.error } ]

Executed(s, m, run, active) ==
  LET r == records[s] IN
  IF Delivered(r.decode_status)
  THEN DeliveredRow(s.family, r.decode_status, active, run)
  ELSE UndeliveredRow(s.family, r.decode_status, m)

ExecuteOne ==
  /\ stage = "execute" /\ row = None
  /\ \E s \in { t \in specs : Applies(t) }, m \in Elements(config.tiers["tier1"].modes) :
       \E run \in Answers[m], active \in BOOLEAN : row' = Executed(s, m, run, active)
  /\ UNCHANGED << stage, config, list, specs, mode, records >>

Next == LoadConfig \/ LoadPayloads \/ (\E m \in DecoderMode : Decode(m)) \/ PlanWork \/ ExecuteOne

Spec == Init /\ [][Next]_vars

-----------------------------------------------------------------------------
(***************************************************************************)
(* Properties.                                                             *)
(***************************************************************************)

\* Whatever the two files hold, if they are accepted no row of the run is one that
\* ResultRow rejects: a rejected row would raise in the pool and lose the run.
RowsAreAccepted == row # None => ValidRow(row)

\* A benign payload reaches the tier as it was encoded, in every decoder condition it
\* is run under: what the decoder does to a text is never counted as a false positive.
BenignIsIntact ==
  stage = "execute" =>
    \A s \in specs : s.family = "benign" /\ Applies(s) => records[s].seen # "rewritten"

=============================================================================
