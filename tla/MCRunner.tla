------------------------------ MODULE MCRunner ------------------------------
(***************************************************************************)
(* The inputs Runner is checked with: a payload set in which the decoder   *)
(* conditions differ and the order of the rows is not that of the work,    *)
(* good and bad records files, and two configurations.                     *)
(***************************************************************************)
EXTENDS Runner

Both == {"default", "raw"}

MCSpecs == <<
  [ id |-> 2, tier1 |-> TRUE,  decoders |-> Both,    expect |-> TRUE ],
  [ id |-> 1, tier1 |-> TRUE,  decoders |-> {"raw"}, expect |-> TRUE ],
  [ id |-> 3, tier1 |-> FALSE, decoders |-> Both,    expect |-> TRUE ] >>

Rec(id, decoder, delivered) ==
  [ run |-> "r1", id |-> id, decoder |-> decoder, delivered |-> delivered ]

In(file, flag) == [ records |-> file, allow |-> flag ]

MCGoodInputs == {
  In(<< Rec(2, "default", TRUE), Rec(3, "default", TRUE) >>, FALSE),
  In(<< Rec(2, "default", FALSE), Rec(3, "default", TRUE) >>, TRUE),
  In(<< Rec(1, "raw", TRUE), Rec(2, "raw", FALSE), Rec(3, "raw", TRUE) >>, FALSE) }

MCBadFiles == {
  << >>,
  << Rec(1, "raw", TRUE) >>,                                            \* a payload is missing
  << Rec(2, "default", TRUE), Rec(2, "default", FALSE) >>,              \* one appears twice
  << Rec(2, "default", TRUE), Rec(0, "default", TRUE) >>,               \* a live capture
  << Rec(2, "default", TRUE), Rec(3, "raw", TRUE) >>,                   \* two decoder modes
  << Rec(2, "default", TRUE), [ Rec(3, "default", TRUE) EXCEPT !.run = "r2" ] >> }

MCInputs == MCGoodInputs \union { In(file, FALSE) : file \in MCBadFiles }

Conf(decoders, modes, reps) ==
  [ enabled |-> TRUE, decoders |-> decoders, modes |-> modes, reps |-> reps ]

MCConfigs == <<
  Conf(Both, << "off", "full" >>, 1),
  Conf({"default"}, << "off" >>, 2) >>

=============================================================================
