------------------------------ MODULE MCTasks ------------------------------
EXTENDS Tasks, TLC

CONSTANTS a1, a2, h1, h2, t1, t2, t3

NoAgents  == {}
Agents2   == {a1, a2}
Handlers1 == {h1}
Handlers2 == {h1, h2}
Tasks1    == {t1}
Tasks2    == {t1, t2}
Tasks3    == {t1, t2, t3}

(* What callers change: the column, the assignee, anything else. *)
Columns == {[status |-> s, assignee |-> Keep] : s \in Status \ {"in_progress"}}
Edits   == {[status |-> Keep, assignee |-> Keep]}
Gifts   == {[status |-> Keep, assignee |-> a] : a \in Agent}
Patches == Columns \cup Edits \cup Gifts
NoPatches == {}

Symmetry == Permutations(Agent) \cup Permutations(Task) \cup Permutations(Handler)
=============================================================================
