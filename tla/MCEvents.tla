------------------------------ MODULE MCEvents ------------------------------
EXTENDS Events, TLC

CONSTANTS e1, e2, e3, d1, c1, p1, p2, a1, a2

Names    == [c \in Channel |-> a1]
FollowP1 == [r \in Reader |-> p1]

(* An event that addresses the channel's agent, one by that agent, and    *)
(* one of another project.                                                 *)
ToAgent == [project |-> p1, to |-> {a1}, by |-> a2]
OfAgent == [project |-> p1, to |-> {"ALL"}, by |-> a1]
Foreign == [project |-> p2, to |-> {a1}, by |-> a2]
Kinds   == {ToAgent, OfAgent, Foreign}

Symmetry == Permutations(Emitter)
=============================================================================
