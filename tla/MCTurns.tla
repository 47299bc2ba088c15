------------------------------ MODULE MCTurns ------------------------------
EXTENDS Turns, TLC

CONSTANTS a1, a2, live, woken, other

(* An agent, the turn that stands in for it, and another agent. *)
Agents == (live :> a1) @@ (woken :> a1) @@ (other :> a2)
=============================================================================
