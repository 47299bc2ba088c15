------------------------------- MODULE Lease -------------------------------
(***************************************************************************)
(* What the file claims of internal/store promise, seen from outside the   *)
(* daemon: one lease per path, every change of the table atomic, every     *)
(* comparison made with the true time.  FileClaims.tla is the code (row by *)
(* row transactions, timestamps taken before the wait for the connection,  *)
(* sweeps of several statements) and is shown to implement this module.    *)
(***************************************************************************)
EXTENDS Naturals

CONSTANTS
  Agent,      \* agent ids
  Path,       \* normalised paths of the project
  Task,       \* task ids
  Nobody,     \* agent of a path that is free
  NoTask,     \* task of a claim taken for no task
  Instant     \* the instants at which a lease may end

VARIABLES
  clock,      \* the time
  claims,     \* the lease on each path
  gone        \* agents considered dead: their leases do not count

vars == <<clock, claims, gone>>

Claim     == [agent: Agent, task: Task \cup {NoTask}, expires: Instant]
FreeClaim == [agent |-> Nobody, task |-> NoTask, expires |-> 0]

TypeOK ==
  /\ clock \in Nat
  /\ claims \in [Path -> Claim \cup {FreeClaim}]
  /\ gone \subseteq Agent

(* A lease counts while it is not over and its holder is not gone. *)
Held(p) ==
  /\ claims[p].agent # Nobody
  /\ claims[p].expires > clock
  /\ claims[p].agent \notin gone

OwnedBy(a) == {p \in Path : claims[p].agent = a}

Free(S) == claims' = [p \in Path |-> IF p \in S THEN FreeClaim ELSE claims[p]]
-----------------------------------------------------------------------------
(* No agent has come yet. *)
Init ==
  /\ clock = 0
  /\ claims = [p \in Path |-> FreeClaim]
  /\ gone = Agent

(* An agent takes a whole batch of paths, or nothing. *)
Take(a, P, t, e) ==
  /\ \A p \in P : Held(p) => claims[p].agent = a
  /\ claims' = [p \in Path |->
                  IF p \in P THEN [agent |-> a, task |-> t, expires |-> e]
                             ELSE claims[p]]
  /\ UNCHANGED <<clock, gone>>

(* The leases an agent holds get a new end; those that are over may. *)
Renew(a, S, e) ==
  /\ {p \in OwnedBy(a) : claims[p].expires > clock} \subseteq S
  /\ S \subseteq OwnedBy(a)
  /\ claims' = [p \in Path |->
                  IF p \in S THEN [claims[p] EXCEPT !.expires = e] ELSE claims[p]]
  /\ UNCHANGED <<clock, gone>>

(* Paths an agent holds are given back. *)
Release(a, S) ==
  /\ S \subseteq OwnedBy(a)
  /\ Free(S)
  /\ UNCHANGED <<clock, gone>>

(* A task ends and the paths claimed for it are given back. *)
Finish(t) ==
  /\ Free({p \in Path : claims[p].task = t})
  /\ UNCHANGED <<clock, gone>>

(* Leases that are over are taken off the table. *)
Lapse(S) ==
  /\ \A p \in S : claims[p].agent # Nobody /\ claims[p].expires <= clock
  /\ Free(S)
  /\ UNCHANGED <<clock, gone>>

Leave(a)  == gone' = gone \cup {a} /\ UNCHANGED <<clock, claims>>
Return(a) == gone' = gone \ {a} /\ UNCHANGED <<clock, claims>>
Tick      == clock' = clock + 1 /\ UNCHANGED <<claims, gone>>

Next ==
  \/ \E a \in Agent :
       \/ \E P \in SUBSET Path, t \in Task \cup {NoTask}, e \in Instant : Take(a, P, t, e)
       \/ \E S \in SUBSET Path, e \in Instant : Renew(a, S, e)
       \/ \E S \in SUBSET Path : Release(a, S)
       \/ Leave(a)
       \/ Return(a)
  \/ \E t \in Task \ {NoTask} : Finish(t)
  \/ \E S \in SUBSET Path : Lapse(S)
  \/ Tick

Spec == Init /\ [][Next]_vars
-----------------------------------------------------------------------------
(* A lease that counts never passes straight to another agent: the path is *)
(* given back first, or the lease is over, or its holder is gone.          *)
NoSteal ==
  [][\A p \in Path :
       Held(p) /\ claims'[p].agent # claims[p].agent => claims'[p].agent = Nobody]_vars
=============================================================================
