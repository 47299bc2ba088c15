------------------------------- MODULE MCRoom -------------------------------
EXTENDS Room, TLC

CONSTANTS a1, a2, h1, h2

OneAgent  == {a1}
TwoAgents == {a1, a2}
Hooks2    == {h1, h2}

Symmetry == Permutations(Agent) \cup Permutations(Hook)
=============================================================================
