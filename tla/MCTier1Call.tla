---------------------------- MODULE MCTier1Call ----------------------------
(***************************************************************************)
(* The payloads Tier1Call is checked with: one of every kind there is in   *)
(* attacks/payloads.yaml and in the benign set.                            *)
(***************************************************************************)
EXTENDS Tier1Call

P(family, status, text, reason, sql, shell) ==
  [ family |-> family, status |-> status, text |-> text,
    reason |-> reason, sql |-> sql, shell |-> shell ]

Everyday ==
  { P("benign", "ok", t, "ok", "literal", "literal") : t \in {"active", "inactive", "unknown"} }

Attacks ==
  { P("injection", "ok", "unknown", "length",  "special", "literal"),   \* inj-sql, inj-union
    P("injection", "ok", "unknown", "length",  "literal", "special"),   \* inj-shell, inj-sleep
    P("injection", "ok", "unknown", "charset", "special", "special"),
    P("malformed", "ok", "unknown", "charset", "nul",     "nul"),       \* mal-nul
    P("malformed", "ok", "unknown", "grammar", "literal", "literal"),
    P("malformed", "ok", "inactive", "ok",     "literal", "literal"),   \* a restricted id
    P("malformed", "invalid_utf8", "none", "encoding", "literal", "literal"),
    P("malformed", "no_symbol", "none", "encoding", "literal", "literal") } \* mal-trunc

MCPayloads == Everyday \union Attacks

=============================================================================
