------------------------------- MODULE MCRows -------------------------------
(***************************************************************************)
(* The two halves of a row's way, checked with one configuration: to the   *)
(* row from the files a person writes (Inputs), and from the row to        *)
(* results.csv and back (Results).  They share no state, so each behavior  *)
(* is one of either half while the other rests.                            *)
(*                                                                         *)
(* Inputs: every payload spec over small values of its fields, beside one  *)
(* derived payload, and configurations that break each rule.               *)
(* Results: one attack payload in four modes, and with a benign one, two   *)
(* repetitions, other times, other answers, fewer rows.  Every pair of     *)
(* them is a run and its re-run, on machines of which one quotes a         *)
(* carriage return.                                                        *)
(***************************************************************************)
EXTENDS Inputs, Results

-----------------------------------------------------------------------------
SpecOf(id, family, tiers, text, modes) ==
  [ id |-> id, family |-> family, subset |-> IF family = "benign" THEN "benign" ELSE "naive",
    target_tiers |-> tiers, content_text |-> text, content_b64 |-> "none",
    expected_decode |-> "ok", decoder_modes |-> modes, damage |-> "none" ]

MCDerived == { SpecOf("ben", "benign", << "tier1" >>, "ascii", << "default", "raw" >>) }

MCSpecs ==
  [ id : {"p"}, family : Family, subset : {"naive", "benign"},
    target_tiers : { << >>, << "tier1" >>, << "tier2" >>, << "tier1", "tier2" >>, << "tier1", "tier1" >> },
    content_text : {"none", "ascii", "non_ascii"}, content_b64 : {"none", "not_utf8", "bad"},
    expected_decode : {"ok", "fail"},
    decoder_modes : { << "default", "raw" >>, << "raw" >>, << "raw", "raw" >> },
    damage : {"none", "truncate"} ]

Injected(id) == SpecOf(id, "injection", << "tier1" >>, "ascii", << "default" >>)

MCLists ==
  { << s >> : s \in MCSpecs }
    \union { << >>, << Injected("p"), Injected("q") >>, << Injected("p"), Injected("p") >>,
             << Injected("ben") >> }

Tier(modes, decoders, port) ==
  [ enabled |-> TRUE, modes |-> modes, decoder_modes |-> decoders, host |-> "loopback", port |-> port ]

Good ==
  [ tiers |-> [ tier1 |-> Tier(<< "off", "validate_only", "parameterise_only", "full" >>, << "default", "raw" >>, "none"),
                tier2 |-> Tier(<< "off", "full" >>, << "default", "raw" >>, "unprivileged"),
                tier3 |-> [ Tier(<< "off", "full" >>, << "default" >>, "unprivileged") EXCEPT !.enabled = FALSE ] ],
    digest |-> "none", reps |-> 1 ]

MCConfigs == {
  Good,
  [ Good EXCEPT !.tiers["tier1"].enabled = FALSE ],
  [ Good EXCEPT !.tiers["tier1"].modes = << "gate_only" >> ],
  [ Good EXCEPT !.tiers["tier1"].decoder_modes = << "default" >> ],
  [ Good EXCEPT !.tiers["tier2"].port = "none" ],
  [ Good EXCEPT !.tiers["tier3"].enabled = TRUE ] }

-----------------------------------------------------------------------------
Attack(m, rep) ==
  [ mode |-> m, id |-> 1, rep |-> rep, blocked |-> "False", error |-> "None", detail |-> "",
    handle_ns |-> "5", defense_ns |-> "None", run_id |-> "r1", family |-> "injection",
    verdict |-> "no_effect", signals |-> << >> ]

Blocked(r, detail) ==
  [ r EXCEPT !.blocked = "True", !.verdict = "blocked", !.detail = detail, !.defense_ns = "2" ]

Crossed(r, signals) == [ r EXCEPT !.verdict = "crossed", !.signals = signals ]

Benign(r) == [ r EXCEPT !.id = 2, !.family = "benign", !.verdict = "benign_ok" ]

Base == {
  Crossed(Attack("off", 0), << "A", "C" >>), Blocked(Attack("validate_only", 0), "charset"),
  Attack("parameterise_only", 0), Blocked(Attack("full", 0), "charset") }

With(r, run) == { q \in run : Key(q) # Key(r) } \union { r }

MCRowSets == {
  Base,
  { [ r EXCEPT !.handle_ns = "7", !.run_id = "r2" ] : r \in Base },
  With(Crossed(Attack("off", 0), << "A" >>), Base),
  With([ Attack("off", 0) EXCEPT !.verdict = "fault", !.error = "OperationalError", !.detail = "cr" ], Base),
  With(Blocked(Attack("validate_only", 0), "length"), Base),
  With(Blocked(Attack("validate_only", 0), ""), Base),
  Base \ { Attack("parameterise_only", 0) },
  Base \union { Attack("parameterise_only", 1) },
  Base \union { Crossed(Attack("validate_only", 1), << "A", "C" >>) },
  Base \union { Crossed(Attack("validate_only", 1), << "A" >>) },
  Base \union { Benign(Attack("off", 0)), Blocked(Benign(Attack("full", 0)), "charset") },
  { [ r EXCEPT !.verdict = "fault", !.signals = << "C", "D" >> ] : r \in { Benign(Attack("off", 0)) } },
  { [ r EXCEPT !.verdict = "fault" ] : r \in { Benign(Attack("off", 0)) } },
  { Benign(Attack("off", 0)) } }

-----------------------------------------------------------------------------
InputsRest ==
  /\ stage = "rejected" /\ config = Good /\ list = << >>
  /\ specs = {} /\ mode = "default" /\ records = None /\ row = None

ResultsRest ==
  /\ rows = [ f \in Files |-> << >> ] /\ file = [ f \in Files |-> << >> ]
  /\ writer = [ f \in Files |-> "killed" ] /\ written = [ f \in Files |-> 0 ]
  /\ problems = << "raises", {} >>

RowsInit == (Init /\ ResultsRest) \/ (ResultsInit /\ InputsRest)

RowsNext ==
  \/ Next /\ UNCHANGED resultsVars
  \/ ResultsNext /\ UNCHANGED vars

RowsSpec == RowsInit /\ [][RowsNext]_<< vars, resultsVars >>

=============================================================================
