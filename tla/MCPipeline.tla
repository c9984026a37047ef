----------------------------- MODULE MCPipeline -----------------------------
(***************************************************************************)
(* The payload sets Pipeline is checked with: a damaged attack, a derived  *)
(* payload, and one for the raw condition only.  In the second version the *)
(* attack has left the set and the last payload has another text; in the   *)
(* third the last payload is run in both conditions.                       *)
(***************************************************************************)
EXTENDS Pipeline

SpecOf(id, decoders, derived, damage, text) ==
  [ id |-> id, tier1 |-> TRUE, decoders |-> decoders, derived |-> derived,
    damage |-> damage, expect |-> ~damage, text |-> text ]

Both == {"default", "raw"}

MCSets == <<
  << SpecOf(1, Both, FALSE, TRUE, 10), SpecOf(2, Both, TRUE, FALSE, 0),
     SpecOf(3, {"raw"}, FALSE, FALSE, 11) >>,
  << SpecOf(2, Both, TRUE, FALSE, 0), SpecOf(3, {"raw"}, FALSE, FALSE, 12) >>,
  << SpecOf(1, Both, FALSE, TRUE, 10), SpecOf(2, Both, TRUE, FALSE, 0),
     SpecOf(3, Both, FALSE, FALSE, 11) >> >>

MCConfig == [ enabled |-> TRUE, decoders |-> Both, modes |-> << "off", "full" >>, reps |-> 1 ]

=============================================================================
