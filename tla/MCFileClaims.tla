---------------------------- MODULE MCFileClaims ----------------------------
EXTENDS FileClaims, TLC

CONSTANTS a1, a2, h1, h2, t1, MaxTime

Agents2   == {a1, a2}
Handlers1 == {h1}
Handlers2 == {h1, h2}
Instants  == 0..MaxTime

Symmetry == Permutations(Agents2) \cup Permutations(Handler)
(* What the claims depend on: idle agents count as active ones do, the      *)
(* heartbeat of an agent that is not alive is never read again, nor is a   *)
(* promise that is over.                                                   *)
Liveliness(a) == IF Dead(a) THEN agents[a].status ELSE agents[a].beat
Unexpired(e)  == IF e > clock THEN e ELSE 0

Relevant ==
  <<clock, claims, tx, calls, janitor,
    [a \in Agent |-> <<Dead(a), Liveliness(a)>>],
    [a \in Agent |-> [p \in Path |-> Unexpired(promised[a][p])]]>>
=============================================================================
