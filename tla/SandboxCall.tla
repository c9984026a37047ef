----------------------------- MODULE SandboxCall -----------------------------
(***************************************************************************)
(* What DockerSandbox.run promises its caller, whatever happens inside: a  *)
(* payload leaves effects (files in /canary) while the call is open; the   *)
(* call ends by returning a report or by raising; a report is the whole    *)
(* list of effects, and nothing is added to them afterwards.  The one way  *)
(* out of the promise is a return after a stop command that reported an    *)
(* error, which the code ignores: the call is then "loose", the report may *)
(* be partial and the payload may go on.                                   *)
(* Module Sandbox is shown to implement this one.                          *)
(***************************************************************************)

CONSTANT Names      \* the names a payload may leave in /canary

VARIABLES
  phase,            \* "open", "returned", "loose" or "raised"
  effects,          \* every name the payload has left so far
  reported          \* the names the caller was told about

vars == << phase, effects, reported >>

Init ==
  /\ phase = "open"
  /\ effects = {}
  /\ reported = {}

\* The payload acts: never after a return that keeps the promise.
Effect(n) ==
  /\ phase # "returned"
  /\ effects' = effects \union {n}
  /\ UNCHANGED << phase, reported >>

Return ==
  /\ phase = "open"
  /\ phase' = "returned"
  /\ reported' = effects
  /\ UNCHANGED effects

ReturnLoose ==
  /\ phase = "open"
  /\ phase' = "loose"
  /\ reported' \in SUBSET effects
  /\ UNCHANGED effects

Raise ==
  /\ phase = "open"
  /\ phase' = "raised"
  /\ UNCHANGED << effects, reported >>

Next ==
  \/ \E n \in Names : Effect(n)
  \/ Return
  \/ ReturnLoose
  \/ Raise

Spec == Init /\ [][Next]_vars

=============================================================================
