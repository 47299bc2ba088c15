----------------------------- MODULE FileClaims -----------------------------
(***************************************************************************)
(* The file claims and the agents of one project as the daemon runs them:  *)
(* internal/store/claims.go, agents.go and the janitor of mode/daemon.go.  *)
(*                                                                         *)
(* HTTP handlers are goroutines.  All their writes go through one          *)
(* connection: a statement is one step, statements of different handlers   *)
(* interleave, and an open transaction keeps every other write waiting.    *)
(* A handler reads the clock before it waits for the connection, so a      *)
(* statement that runs now carries a reading ts of any earlier instant;    *)
(* a call that is one statement is one step here, whoever serves it.       *)
(***************************************************************************)
EXTENDS Naturals

CONSTANTS
  Agent,       \* agent ids
  Path,        \* normalised paths, numbered in the order sort.Strings gives them
  Task,        \* the task_id arguments of callers: task ids, NoTask
  Handler,     \* goroutines that serve HTTP calls
  Nobody,      \* no agent: a free path, no victim
  NoTask,      \* a claim taken for no task
  NoHandler,   \* no transaction is open
  TTL,         \* lease lengths a caller may ask for
  IdleAfter,   \* ActiveToIdleMS
  DeadAfter,   \* IdleToDeadMS
  Instant      \* the instants the model reaches (Nat in the code)

ASSUME NamesDistinct ==
  Nobody \notin Agent /\ NoHandler \notin Handler
ASSUME TimeAssumption ==
  /\ Instant \subseteq Nat /\ 0 \in Instant
  /\ TTL \subseteq Nat \ {0}
  /\ IdleAfter \in Nat /\ DeadAfter \in Nat
ASSUME PathAssumption == Path \subseteq Nat

VARIABLES
  clock,       \* now()
  agents,      \* the table agents: status and last_heartbeat_at
  claims,      \* the table file_claims: the committed rows
  tx,          \* the transaction ClaimFiles has open, with the rows it sees
  calls,       \* the call each handler is serving
  janitor,     \* the janitor goroutine: ExpireClaims, then SweepAgents
  promised     \* history: until when each agent was told a path is its own

vars == <<clock, agents, claims, tx, calls, janitor, promised>>
-----------------------------------------------------------------------------
(* Rows.  A row that was released matters to no statement, so it is the    *)
(* same as no row: both are FreeClaim.                                     *)
Claim     == [agent: Agent, task: Task \cup {NoTask}, expires: Instant]
FreeClaim == [agent |-> Nobody, task |-> NoTask, expires |-> 0]
Rows      == [Path -> Claim \cup {FreeClaim}]
NoTx      == [owner |-> NoHandler, rows |-> [p \in Path |-> FreeClaim]]

AgentRow == [status: {"absent", "active", "idle", "dead"}, beat: Nat]

(* Mutant of Free: a release that keeps the task of the claim. *)
FreeKeepingTask(rows, S) ==
  [p \in Path |-> IF p \in S THEN [rows[p] EXCEPT !.agent = Nobody] ELSE rows[p]]

Free(rows, S) == [p \in Path |-> IF p \in S THEN FreeClaim ELSE rows[p]]

Dead(a) == agents[a].status \in {"dead", "absent"}

(* Mutant of MayTake: an idle agent counts as gone. *)
MayTakeFromIdle(row, a, ts) ==
  \/ row = FreeClaim
  \/ row.expires <= ts
  \/ row.agent = a
  \/ agents[row.agent].status # "active"

(* The WHERE of claimUpsert: agent a, reading the clock at ts, may take    *)
(* the row over.                                                           *)
MayTake(row, a, ts) ==
  \/ row = FreeClaim
  \/ row.expires <= ts
  \/ row.agent = a
  \/ Dead(row.agent)

(* liveClaimPredicate: the claim is honoured by CheckFiles and shown by    *)
(* ActiveClaims.                                                           *)
LiveClaim(row, ts) == row # FreeClaim /\ row.expires > ts /\ ~Dead(row.agent)

(* What CheckFiles answers agent a: the paths another agent holds.         *)
Conflicts(a, P, ts) == {p \in P : LiveClaim(claims[p], ts) /\ claims[p].agent # a}

(* Mutant of Lapsed: only claims of agents that left are cleaned up. *)
LapsedOfGone(ts) ==
  {p \in Path : claims[p] # FreeClaim /\ claims[p].expires <= ts /\ Dead(claims[p].agent)}

HeldBy(a)  == {p \in Path : claims[p].agent = a}
ForTask(t) == {p \in Path : claims[p].task = t}
Lapsed(ts) == {p \in Path : claims[p] # FreeClaim /\ claims[p].expires <= ts}
-----------------------------------------------------------------------------
(* Calls of several statements, between two of them.                       *)
NoCall == [pc |-> "idle", agent |-> Nobody, task |-> NoTask, ends |-> 0, ts |-> 0,
           batch |-> {}, todo |-> {}, denied |-> FALSE]

Pending == [pc: {"upsert", "release", "dropAll"}, agent: Agent,
            task: Task \cup {NoTask}, ends: Instant, ts: Instant,
            batch: SUBSET Path, todo: SUBSET Path, denied: BOOLEAN]

Grant(c) == [agent |-> c.agent, task |-> c.task, expires |-> c.ends]

At(h, pc) == calls[h].pc = pc
Answer(h) == calls' = [calls EXCEPT ![h] = NoCall]

(* Mutant of ConnectionFree: more than one connection in the pool. *)
PooledConnections == TRUE

(* No statement of another goroutine runs while a transaction is open. *)
ConnectionFree == tx.owner = NoHandler

(* now(), read by a statement that runs at the present instant or later. *)
Readings == {ts \in Instant : ts <= clock}

Registered == {a \in Agent : agents[a].status # "absent"}

(* Agent a is no longer promised the paths S. *)
Forget(a, S) ==
  promised' = [promised EXCEPT
                 ![a] = [p \in Path |-> IF p \in S THEN 0 ELSE promised[a][p]]]
-----------------------------------------------------------------------------
Init ==
  /\ clock = 0
  /\ agents = [a \in Agent |-> [status |-> "absent", beat |-> 0]]
  /\ claims = [p \in Path |-> FreeClaim]
  /\ tx = NoTx
  /\ calls = [h \in Handler |-> NoCall]
  /\ janitor = [pc |-> "wait", ts |-> 0, doomed |-> {}, victim |-> Nobody]
  /\ promised = [a \in Agent |-> [p \in Path |-> 0]]

Tick ==
  /\ clock + 1 \in Instant
  /\ clock' = clock + 1
  /\ UNCHANGED <<agents, claims, tx, calls, janitor, promised>>
-----------------------------------------------------------------------------
(* ClaimFiles: one transaction, row by row in sorted order, rolled back    *)
(* when a path is held by another agent.                                   *)
BeginClaim(h, a, t, P, ttl, ts) ==
  /\ At(h, "idle")
  /\ ConnectionFree
  /\ a \in Registered
  /\ P # {}
  /\ ts + ttl \in Instant
  /\ tx' = [owner |-> h, rows |-> claims]
  /\ calls' = [calls EXCEPT ![h] =
                 [NoCall EXCEPT !.pc = "upsert", !.agent = a, !.task = t, !.ts = ts,
                                !.ends = ts + ttl, !.batch = P, !.todo = P]]
  /\ UNCHANGED <<clock, agents, claims, promised, janitor>>

UpsertPath(h) ==
  /\ At(h, "upsert")
  /\ \E p \in calls[h].todo :
       /\ \A q \in calls[h].todo : p <= q
       /\ IF MayTake(tx.rows[p], calls[h].agent, calls[h].ts)
            THEN /\ tx' = [tx EXCEPT !.rows[p] = Grant(calls[h])]
                 /\ calls' = [calls EXCEPT ![h].todo = @ \ {p}]
            ELSE /\ tx' = tx
                 /\ calls' = [calls EXCEPT ![h].todo = @ \ {p}, ![h].denied = TRUE]
  /\ UNCHANGED <<clock, agents, claims, promised, janitor>>

(* Mutant of RollbackClaim: the early return leaves the transaction open. *)
ReturnWithoutRollback(h) ==
  /\ At(h, "upsert")
  /\ calls[h].todo = {}
  /\ calls[h].denied
  /\ Answer(h)
  /\ UNCHANGED <<clock, agents, claims, tx, promised, janitor>>

RollbackClaim(h) ==
  /\ At(h, "upsert")
  /\ calls[h].todo = {}
  /\ calls[h].denied
  /\ tx' = NoTx
  /\ Answer(h)
  /\ UNCHANGED <<clock, agents, claims, promised, janitor>>

(* A dead agent is answered "granted" too; promised leaves it out, see     *)
(* GrantIsVisible.                                                         *)
CommitClaim(h) ==
  LET c == calls[h] IN
  /\ At(h, "upsert")
  /\ c.todo = {}
  /\ ~c.denied
  /\ claims' = tx.rows
  /\ tx' = NoTx
  /\ promised' = IF Dead(c.agent) THEN promised
                 ELSE [promised EXCEPT ![c.agent] =
                         [p \in Path |-> IF p \in c.batch THEN c.ends
                                                          ELSE promised[c.agent][p]]]
  /\ Answer(h)
  /\ UNCHANGED <<clock, agents, janitor>>
-----------------------------------------------------------------------------
(* ReleaseFiles: one statement per path; a path held by another agent is   *)
(* left alone.                                                             *)
CallReleaseFiles(h, a, P) ==
  /\ At(h, "idle")
  /\ a \in Registered
  /\ P # {}
  /\ calls' = [calls EXCEPT ![h] = [NoCall EXCEPT !.pc = "release", !.agent = a, !.todo = P]]
  /\ UNCHANGED <<clock, agents, claims, tx, promised, janitor>>

ReleasePath(h) ==
  LET c == calls[h] IN
  /\ At(h, "release")
  /\ ConnectionFree
  /\ \E p \in c.todo :
       /\ claims' = Free(claims, {p} \cap HeldBy(c.agent))
       /\ Forget(c.agent, {p})
       /\ IF c.todo = {p} THEN Answer(h)
                          ELSE calls' = [calls EXCEPT ![h].todo = @ \ {p}]
  /\ UNCHANGED <<clock, agents, tx, janitor>>

(* ReleaseAllForAgent: one statement. *)
FreeAll(a) ==
  /\ claims' = Free(claims, HeldBy(a))
  /\ Forget(a, Path)

ReleaseAllForAgent(a) ==
  /\ ConnectionFree
  /\ a \in Registered
  /\ FreeAll(a)
  /\ UNCHANGED <<clock, agents, tx, calls, janitor>>

(* UpdateTask calls it when a task ends.  It frees the paths of the task   *)
(* whoever holds them.                                                     *)
ReleaseClaimsForTask(t) ==
  LET S == ForTask(t) IN
  /\ ConnectionFree
  /\ claims' = Free(claims, S)
  /\ promised' = [a \in Agent |->
                    [p \in Path |-> IF p \in S /\ claims[p].agent = a
                                      THEN 0 ELSE promised[a][p]]]
  /\ UNCHANGED <<clock, agents, tx, calls, janitor>>

(* Mutant of Renewable: the agent is missing from the WHERE. *)
RenewableByAnyone(a, ts) == {p \in Path : claims[p] # FreeClaim /\ claims[p].expires > ts}

(* RenewClaims sets the end of every lease of the agent that was not over  *)
(* at ts; the agent's promise moves with it, backwards too: RenewExtends.  *)
Renewable(a, ts) == {p \in HeldBy(a) : claims[p].expires > ts}

RenewClaims(a, ttl, ts) ==
  /\ ConnectionFree
  /\ a \in Registered
  /\ ts + ttl \in Instant
  /\ claims' = [p \in Path |-> IF p \in Renewable(a, ts)
                                 THEN [claims[p] EXCEPT !.expires = ts + ttl]
                                 ELSE claims[p]]
  /\ promised' = [promised EXCEPT ![a] =
                    [p \in Path |-> IF p \in Renewable(a, ts) /\ promised[a][p] > clock
                                      THEN ts + ttl ELSE promised[a][p]]]
  /\ UNCHANGED <<clock, agents, tx, calls, janitor>>
-----------------------------------------------------------------------------
(* Agents.  Names, tools and sessions are left out here.                   *)
Beat(a, ts) ==
  /\ ConnectionFree
  /\ agents' = [agents EXCEPT ![a] = [status |-> "active", beat |-> ts]]
  /\ UNCHANGED <<clock, claims, tx, promised, calls, janitor>>

(* A first registration inserts the row, a later one for the same session  *)
(* revives it; one transaction that no other statement splits.             *)
RegisterAgent(a, ts) == Beat(a, ts)

(* Heartbeat makes any agent active again, a dead one too. *)
Heartbeat(a, ts) == a \in Registered /\ Beat(a, ts)

(* UnregisterAgent: the agent is marked dead by one statement, its claims  *)
(* are released by the next.                                               *)
MarkLeft(h, a) ==
  /\ At(h, "idle")
  /\ ConnectionFree
  /\ a \in Registered
  /\ agents' = [agents EXCEPT ![a].status = "dead"]
  /\ Forget(a, Path)
  /\ calls' = [calls EXCEPT ![h] = [NoCall EXCEPT !.pc = "dropAll", !.agent = a]]
  /\ UNCHANGED <<clock, claims, tx, janitor>>

DropLeft(h) ==
  /\ At(h, "dropAll")
  /\ ConnectionFree
  /\ FreeAll(calls[h].agent)
  /\ Answer(h)
  /\ UNCHANGED <<clock, agents, tx, janitor>>
-----------------------------------------------------------------------------
(* The janitor: at every tick ExpireClaims and then SweepAgents, each with *)
(* one reading of the clock; janitor.ts is that reading, or before Demote  *)
(* the earliest it can be.                                                 *)
JanitorPC == {"wait", "lapsed", "expire", "demote", "silent", "kill"}

JanitorType ==
  [pc: JanitorPC, ts: Nat, doomed: SUBSET Agent, victim: {Nobody}]
  \cup [pc: {"drop"}, ts: Nat, doomed: SUBSET Agent, victim: Agent]

StartExpire ==
  /\ janitor.pc = "wait"
  /\ janitor' = [janitor EXCEPT !.pc = "lapsed", !.ts = clock]
  /\ UNCHANGED <<clock, agents, claims, tx, promised, calls>>

(* ExpireClaims returns early when its SELECT finds no row. *)
SelectLapsed ==
  /\ janitor.pc = "lapsed"
  /\ ConnectionFree
  /\ janitor' = IF Lapsed(janitor.ts) = {}
                  THEN [janitor EXCEPT !.pc = "demote", !.ts = clock]
                  ELSE [janitor EXCEPT !.pc = "expire"]
  /\ UNCHANGED <<clock, agents, claims, tx, promised, calls>>

ExpireClaims ==
  /\ janitor.pc = "expire"
  /\ ConnectionFree
  /\ claims' = Free(claims, Lapsed(janitor.ts))
  /\ janitor' = [janitor EXCEPT !.pc = "demote", !.ts = clock]
  /\ UNCHANGED <<clock, agents, tx, promised, calls>>

(* SweepAgents reads the clock when ExpireClaims has returned. *)
Demote ==
  /\ janitor.pc = "demote"
  /\ ConnectionFree
  /\ \E ts \in Readings :
       /\ ts >= janitor.ts
       /\ agents' = [a \in Agent |->
                       IF agents[a].status = "active" /\ agents[a].beat + IdleAfter < ts
                         THEN [agents[a] EXCEPT !.status = "idle"] ELSE agents[a]]
       /\ janitor' = [janitor EXCEPT !.pc = "silent", !.ts = ts]
  /\ UNCHANGED <<clock, claims, tx, promised, calls>>

Silent(ts) == {a \in Agent : /\ agents[a].status \in {"active", "idle"}
                             /\ agents[a].beat + DeadAfter < ts}

SelectSilent ==
  /\ janitor.pc = "silent"
  /\ ConnectionFree
  /\ janitor' = [janitor EXCEPT !.pc = IF Silent(janitor.ts) = {} THEN "wait" ELSE "kill",
                                !.ts = 0, !.doomed = Silent(janitor.ts)]
  /\ UNCHANGED <<clock, agents, claims, tx, promised, calls>>

(* UPDATE agents SET status='dead' WHERE id=?, whatever happened to the    *)
(* agent since the SELECT.                                                 *)
Kill ==
  /\ janitor.pc = "kill"
  /\ ConnectionFree
  /\ \E a \in janitor.doomed :
       /\ agents' = [agents EXCEPT ![a].status = "dead"]
       /\ Forget(a, Path)
       /\ janitor' = [janitor EXCEPT !.pc = "drop", !.doomed = @ \ {a}, !.victim = a]
  /\ UNCHANGED <<clock, claims, tx, calls>>

Drop ==
  /\ janitor.pc = "drop"
  /\ ConnectionFree
  /\ FreeAll(janitor.victim)
  /\ janitor' = [janitor EXCEPT !.pc = IF janitor.doomed = {} THEN "wait" ELSE "kill",
                                !.victim = Nobody]
  /\ UNCHANGED <<clock, agents, tx, calls>>

Janitor ==
  StartExpire \/ SelectLapsed \/ ExpireClaims \/ Demote \/ SelectSilent \/ Kill \/ Drop
-----------------------------------------------------------------------------
(* The daemon dies and is started again: the goroutines are gone, SQLite   *)
(* rolls the open transaction back, committed rows stay.                   *)
Restart ==
  /\ calls' = [h \in Handler |-> NoCall]
  /\ janitor' = [pc |-> "wait", ts |-> 0, doomed |-> {}, victim |-> Nobody]
  /\ tx' = NoTx
  /\ UNCHANGED <<clock, agents, claims, promised>>

Request(h) ==
  \E a \in Agent :
    \/ \E t \in Task, P \in SUBSET Path, ttl \in TTL, ts \in Readings :
         BeginClaim(h, a, t, P, ttl, ts)
    \/ \E P \in SUBSET Path : CallReleaseFiles(h, a, P)
    \/ MarkLeft(h, a)

Serve(h) ==
  UpsertPath(h) \/ RollbackClaim(h) \/ CommitClaim(h) \/ ReleasePath(h) \/ DropLeft(h)

Statement ==
  \/ \E a \in Agent, ts \in Readings :
       \/ \E ttl \in TTL : RenewClaims(a, ttl, ts)
       \/ RegisterAgent(a, ts)
       \/ Heartbeat(a, ts)
  \/ \E a \in Agent : ReleaseAllForAgent(a)
  \/ \E t \in Task \ {NoTask} : ReleaseClaimsForTask(t)

Next ==
  \/ Tick
  \/ \E h \in Handler : Request(h) \/ Serve(h)
  \/ Statement
  \/ Janitor
  \/ Restart

Spec == Init /\ [][Next]_vars

(* database/sql hands the one connection to the waiting goroutines so that *)
(* none starves (strong fairness), the ticker fires again and again, and   *)
(* the daemon is not restarted for ever.                                   *)
Fairness ==
  /\ <>[][~Restart]_vars
  /\ WF_vars(Tick)
  /\ SF_vars(Janitor)
  /\ \A h \in Handler : SF_vars(Serve(h))

FairSpec == Spec /\ Fairness
-----------------------------------------------------------------------------
TypeOK ==
  /\ clock \in Instant
  /\ agents \in [Agent -> AgentRow]
  /\ claims \in Rows
  /\ tx \in [owner: Handler \cup {NoHandler}, rows: Rows]
  /\ calls \in [Handler -> Pending \cup {NoCall}]
  /\ janitor \in JanitorType
  /\ promised \in [Agent -> [Path -> Nat]]

(* An agent that was granted a path holds it until the end it was told:    *)
(* the row is its own, ends no earlier, and the agent counts as alive.  A  *)
(* release, the end of the task and being declared dead end the promise.   *)
(* (claimUpsert against every other statement that writes file_claims.)    *)
PromiseKept ==
  \A a \in Agent, p \in Path :
    promised[a][p] > clock =>
      /\ claims[p].agent = a
      /\ claims[p].expires >= promised[a][p]
      /\ ~Dead(a)

(* What makes PromiseKept inductive.  A statement compares with a clock    *)
(* that is late, never early; and while ClaimFiles has its transaction     *)
(* open, the rows it did not take over are still those of the table, those *)
(* it took over are its grants, and it might take them over again now.     *)
ReadingsPast ==
  /\ \A h \in Handler : calls[h].ts <= clock
  /\ janitor.ts <= clock

TxRows(h) ==
  LET c == calls[h] IN
  ~c.denied =>
    \A p \in Path :
      IF p \in c.batch \ c.todo
        THEN tx.rows[p] = Grant(c) /\ MayTake(claims[p], c.agent, c.ts)
        ELSE tx.rows[p] = claims[p]

TxInv ==
  \A h \in Handler :
    /\ At(h, "upsert") <=> tx.owner = h
    /\ At(h, "upsert") => calls[h].todo \subseteq calls[h].batch /\ TxRows(h)

IInv == TypeOK /\ ReadingsPast /\ TxInv /\ PromiseKept

(* The code implements the abstract leases: row-by-row transactions and    *)
(* stale clocks are not observable (ClaimFiles: all or nothing).           *)
L == INSTANCE Lease WITH gone <- {a \in Agent : Dead(a)}

LeaseSpec == L!Spec
LeaseNoSteal == L!NoSteal

(* No transaction keeps the connection for ever, and every call returns:   *)
(* batches claimed in opposite orders, rollbacks, a release in pieces.     *)
CallsReturn == \A h \in Handler : ~At(h, "idle") ~> At(h, "idle")

(* "nothing stays locked forever": once calls cease (Instant is bounded)   *)
(* every lease ends and the janitor takes it off the table.                *)
LeasesEnd == \A p \in Path : claims[p] # FreeClaim ~> claims[p] = FreeClaim
-----------------------------------------------------------------------------
(* What comments and documents say that the code does not do.              *)

(* "RenewClaims extends the lease on everything the agent currently holds" *)
RenewExtends ==
  [][\A p \in Path :
       /\ tx.owner = NoHandler
       /\ claims[p] # FreeClaim
       /\ claims'[p].agent = claims[p].agent
       => claims'[p].expires >= claims[p].expires]_vars

(* "Another agent asking for the same path is told who holds it": a path   *)
(* granted until a later time is held for everyone who asks.               *)
GrantIsVisible ==
  [][\A p \in Path :
       /\ tx.owner # NoHandler
       /\ claims'[p] # claims[p]
       /\ claims'[p].expires > clock
       => \A b \in Agent \ {claims'[p].agent} : p \in Conflicts(b, {p}, clock)']_vars

(* "marked dead after five minutes without a heartbeat": whoever the       *)
(* janitor marks has been silent that long.                                *)
DeadOnlyAfterSilence ==
  [][\A a \in Agent :
       /\ janitor.pc = "kill" /\ janitor'.victim = a
       => agents[a].beat + DeadAfter < clock]_vars
=============================================================================
