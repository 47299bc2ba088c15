-------------------------- MODULE FileClaimsProofs --------------------------
(***************************************************************************)
(* Proofs about FileClaims for every set of agents, paths, tasks and       *)
(* handlers, every set of lease lengths and an unbounded clock.            *)
(***************************************************************************)
EXTENDS FileClaims, TLAPS

(* Type correctness.                                                       *)
LEMMA TypeInit == Init => TypeOK
BY NamesDistinct, TimeAssumption
   DEF Init, TypeOK, AgentRow, Rows, NoTx, NoCall, Pending, JanitorType, JanitorPC

LEMMA FreeTyped ==
  ASSUME NEW rows \in Rows, NEW S PROVE Free(rows, S) \in Rows
BY DEF Free, Rows

LEMMA ForgetTyped ==
  ASSUME TypeOK, NEW a, NEW S, Forget(a, S)
  PROVE  promised' \in [Agent -> [Path -> Nat]]
BY DEF TypeOK, Forget

(* What an open call keeps while its statements run. *)
LEMMA AnswerTyped ==
  ASSUME TypeOK, NEW h \in Handler, Answer(h)
  PROVE  calls' \in [Handler -> Pending \cup {NoCall}]
BY TimeAssumption DEF TypeOK, Answer, NoCall, Pending

LEMMA NoTxTyped == NoTx \in [owner: Handler \cup {NoHandler}, rows: Rows]
BY DEF NoTx, Rows

LEMMA TodoTyped ==
  ASSUME TypeOK, NEW h \in Handler, ~At(h, "idle"), NEW S,
         \/ calls' = [calls EXCEPT ![h].todo = @ \ S]
         \/ calls' = [calls EXCEPT ![h].todo = @ \ S, ![h].denied = TRUE]
  PROVE  calls' \in [Handler -> Pending \cup {NoCall}]
<1>1. calls[h] \in Pending
  BY DEF TypeOK, At, NoCall
<1>2. /\ [calls[h] EXCEPT !.todo = @ \ S] \in Pending
      /\ [calls[h] EXCEPT !.todo = @ \ S, !.denied = TRUE] \in Pending
  BY <1>1 DEF Pending
<1>3. \/ calls' = [calls EXCEPT ![h] = [calls[h] EXCEPT !.todo = @ \ S]]
      \/ calls' = [calls EXCEPT ![h] = [calls[h] EXCEPT !.todo = @ \ S, !.denied = TRUE]]
  BY <1>1 DEF TypeOK, Pending
<1>4. QED
  BY <1>2, <1>3 DEF TypeOK

LEMMA StatusTyped ==
  ASSUME TypeOK, NEW a, NEW s \in {"active", "idle", "dead"}
  PROVE  [agents EXCEPT ![a].status = s] \in [Agent -> AgentRow]
BY DEF TypeOK, AgentRow

LEMMA GrantTyped ==
  ASSUME NEW c \in Pending
  PROVE  Grant(c) \in Claim
BY DEF Grant, Claim, Pending

LEMMA RequestTyped ==
  ASSUME TypeOK, NEW h \in Handler, Request(h) PROVE TypeOK'
<1>1. PICK a \in Agent :
        \/ \E t \in Task, P \in SUBSET Path, ttl \in TTL, ts \in Readings :
             BeginClaim(h, a, t, P, ttl, ts)
        \/ \E P \in SUBSET Path : CallReleaseFiles(h, a, P)
        \/ MarkLeft(h, a)
  BY DEF Request
<1>2. ASSUME NEW t \in Task, NEW P \in SUBSET Path, NEW ttl \in TTL, NEW ts \in Readings,
             BeginClaim(h, a, t, P, ttl, ts)
      PROVE  TypeOK'
  BY <1>2, TimeAssumption DEF BeginClaim, TypeOK, Readings, NoCall, Pending
<1>3. ASSUME NEW P \in SUBSET Path, CallReleaseFiles(h, a, P) PROVE TypeOK'
  BY <1>3, TimeAssumption DEF CallReleaseFiles, TypeOK, NoCall, Pending
<1>4. ASSUME MarkLeft(h, a) PROVE TypeOK'
  <2>1. promised' \in [Agent -> [Path -> Nat]]
    BY <1>4, ForgetTyped DEF MarkLeft
  <2>2. agents' \in [Agent -> AgentRow]
    BY <1>4, StatusTyped DEF MarkLeft
  <2>3. calls' \in [Handler -> Pending \cup {NoCall}]
    BY <1>4, TimeAssumption DEF MarkLeft, TypeOK, NoCall, Pending
  <2>4. QED
    BY <1>4, <2>1, <2>2, <2>3 DEF MarkLeft, TypeOK
<1>5. QED
  BY <1>1, <1>2, <1>3, <1>4

LEMMA ServeTyped ==
  ASSUME TypeOK, NEW h \in Handler, Serve(h) PROVE TypeOK'
<1>1. ASSUME UpsertPath(h) PROVE TypeOK'
  <2>1. PICK p \in calls[h].todo :
          IF MayTake(tx.rows[p], calls[h].agent, calls[h].ts)
            THEN /\ tx' = [tx EXCEPT !.rows[p] = Grant(calls[h])]
                 /\ calls' = [calls EXCEPT ![h].todo = @ \ {p}]
            ELSE /\ tx' = tx
                 /\ calls' = [calls EXCEPT ![h].todo = @ \ {p}, ![h].denied = TRUE]
    BY <1>1 DEF UpsertPath
  <2>2. calls' \in [Handler -> Pending \cup {NoCall}]
    <3>1. ~At(h, "idle")
      BY <1>1 DEF UpsertPath, At
    <3>2. QED
      BY <2>1, <3>1, TodoTyped
  <2>3. Grant(calls[h]) \in Claim
    BY <1>1, GrantTyped DEF UpsertPath, At, TypeOK, NoCall
  <2>4. tx' \in [owner: Handler \cup {NoHandler}, rows: Rows]
    <3>1. tx \in [owner: Handler \cup {NoHandler}, rows: Rows]
      BY DEF TypeOK
    <3>2. [tx.rows EXCEPT ![p] = Grant(calls[h])] \in Rows
      BY <2>3, <3>1 DEF Rows
    <3>3. tx' = tx \/ tx' = [tx EXCEPT !.rows = [tx.rows EXCEPT ![p] = Grant(calls[h])]]
      BY <2>1
    <3>4. QED
      BY <3>1, <3>2, <3>3
  <2>5. QED
    BY <1>1, <2>2, <2>4 DEF UpsertPath, TypeOK
<1>2. ASSUME RollbackClaim(h) PROVE TypeOK'
  BY <1>2, AnswerTyped, NoTxTyped DEF RollbackClaim, TypeOK
<1>3. ASSUME CommitClaim(h) PROVE TypeOK'
  <2>1. calls[h].ends \in Nat
    <3>1. calls[h] \in Pending
      BY <1>3 DEF CommitClaim, At, TypeOK, NoCall
    <3>2. calls[h].ends \in Instant
      BY <3>1 DEF Pending
    <3>3. QED
      BY <3>2, TimeAssumption
  <2>2. promised' \in [Agent -> [Path -> Nat]]
    BY <1>3, <2>1 DEF CommitClaim, TypeOK
  <2>3. QED
    BY <1>3, <2>2, AnswerTyped, NoTxTyped DEF CommitClaim, TypeOK
<1>4. ASSUME ReleasePath(h) PROVE TypeOK'
  <2>1. PICK p \in calls[h].todo :
          /\ claims' = Free(claims, {p} \cap HeldBy(calls[h].agent))
          /\ Forget(calls[h].agent, {p})
          /\ IF calls[h].todo = {p} THEN Answer(h)
                                    ELSE calls' = [calls EXCEPT ![h].todo = @ \ {p}]
    BY <1>4 DEF ReleasePath
  <2>2. claims' \in Rows
    BY <2>1, FreeTyped DEF TypeOK
  <2>3. promised' \in [Agent -> [Path -> Nat]]
    BY <2>1, ForgetTyped
  <2>4. calls' \in [Handler -> Pending \cup {NoCall}]
    <3>1. ~At(h, "idle")
      BY <1>4 DEF ReleasePath, At
    <3>2. QED
      BY <2>1, <3>1, AnswerTyped, TodoTyped
  <2>5. QED
    BY <1>4, <2>2, <2>3, <2>4 DEF ReleasePath, TypeOK
<1>5. ASSUME DropLeft(h) PROVE TypeOK'
  <2>1. claims' \in Rows /\ promised' \in [Agent -> [Path -> Nat]]
    BY <1>5, FreeTyped, ForgetTyped DEF DropLeft, FreeAll, TypeOK
  <2>2. QED
    BY <1>5, <2>1, AnswerTyped DEF DropLeft, TypeOK
<1>6. QED
  BY <1>1, <1>2, <1>3, <1>4, <1>5 DEF Serve

LEMMA StatementTyped ==
  ASSUME TypeOK, Statement PROVE TypeOK'
<1>1. ASSUME NEW a \in Agent, NEW ts \in Readings, NEW ttl \in TTL, RenewClaims(a, ttl, ts)
      PROVE  TypeOK'
  <2>1. ts + ttl \in Instant /\ ts + ttl \in Nat
    BY <1>1, TimeAssumption DEF RenewClaims
  <2>2. claims' \in Rows
    <3>1. ASSUME NEW p \in Renewable(a, ts)
          PROVE  [claims[p] EXCEPT !.expires = ts + ttl] \in Claim
      <4>1. claims[p] \in Claim
        BY NamesDistinct DEF Renewable, HeldBy, TypeOK, Rows, FreeClaim
      <4>2. QED
        BY <2>1, <4>1 DEF Claim
    <3>2. QED
      BY <1>1, <3>1 DEF RenewClaims, TypeOK, Rows
  <2>3. promised' \in [Agent -> [Path -> Nat]]
    BY <1>1, <2>1 DEF RenewClaims, TypeOK
  <2>4. QED
    BY <1>1, <2>2, <2>3 DEF RenewClaims, TypeOK
<1>2. ASSUME NEW a \in Agent, NEW ts \in Readings, Beat(a, ts) PROVE TypeOK'
  BY <1>2, TimeAssumption DEF Beat, TypeOK, AgentRow, Readings
<1>3. ASSUME NEW a \in Agent, ReleaseAllForAgent(a) PROVE TypeOK'
  <2>1. claims' \in Rows /\ promised' \in [Agent -> [Path -> Nat]]
    BY <1>3, FreeTyped, ForgetTyped DEF ReleaseAllForAgent, FreeAll, TypeOK
  <2>2. QED
    BY <1>3, <2>1 DEF ReleaseAllForAgent, TypeOK
<1>4. ASSUME NEW t \in Task, ReleaseClaimsForTask(t) PROVE TypeOK'
  <2>1. claims' \in Rows
    BY <1>4, FreeTyped DEF ReleaseClaimsForTask, TypeOK
  <2>2. QED
    BY <1>4, <2>1 DEF ReleaseClaimsForTask, TypeOK
<1>5. QED
  BY <1>1, <1>2, <1>3, <1>4 DEF Statement, RegisterAgent, Heartbeat

LEMMA JanitorTyped ==
  ASSUME TypeOK, Janitor PROVE TypeOK'
<1> USE TimeAssumption DEF TypeOK, JanitorType, JanitorPC
<1>1. CASE StartExpire
  BY <1>1 DEF StartExpire
<1>2. CASE SelectLapsed
  BY <1>2 DEF SelectLapsed
<1>3. CASE ExpireClaims
  BY <1>3, FreeTyped DEF ExpireClaims
<1>4. CASE Demote
  <2>1. agents' \in [Agent -> AgentRow]
    BY <1>4 DEF Demote, AgentRow
  <2>2. PICK ts \in Readings : janitor' = [janitor EXCEPT !.pc = "silent", !.ts = ts]
    BY <1>4 DEF Demote
  <2>3. janitor.pc = "demote" /\ ts \in Nat
    BY <1>4 DEF Demote, Readings
  <2>4. janitor' \in JanitorType
    BY <2>2, <2>3
  <2>5. QED
    BY <1>4, <2>1, <2>4 DEF Demote
<1>5. CASE SelectSilent
  BY <1>5 DEF SelectSilent, Silent
<1>6. CASE Kill
  <2>1. promised' \in [Agent -> [Path -> Nat]]
    BY <1>6, ForgetTyped DEF Kill
  <2>2. PICK a \in janitor.doomed : agents' = [agents EXCEPT ![a].status = "dead"]
                                  /\ janitor' = [janitor EXCEPT !.pc = "drop",
                                                   !.doomed = @ \ {a}, !.victim = a]
    BY <1>6 DEF Kill
  <2>3. agents' \in [Agent -> AgentRow]
    BY <2>2, StatusTyped
  <2>4. janitor' \in JanitorType
    BY <2>2
  <2>5. QED
    BY <1>6, <2>1, <2>3, <2>4 DEF Kill
<1>7. CASE Drop
  <2>1. claims' \in Rows /\ promised' \in [Agent -> [Path -> Nat]]
    BY <1>7, FreeTyped, ForgetTyped DEF Drop, FreeAll
  <2>2. QED
    BY <1>7, <2>1 DEF Drop
<1>8. QED
  BY <1>1, <1>2, <1>3, <1>4, <1>5, <1>6, <1>7 DEF Janitor

LEMMA TypeStep == TypeOK /\ [Next]_vars => TypeOK'
<1> SUFFICES ASSUME TypeOK, [Next]_vars PROVE TypeOK'
  OBVIOUS
<1>1. CASE Tick
  BY <1>1 DEF Tick, TypeOK
<1>2. CASE Restart
  BY <1>2, NoTxTyped, TimeAssumption
     DEF Restart, TypeOK, NoCall, Pending, JanitorType, JanitorPC
<1>3. CASE UNCHANGED vars
  BY <1>3 DEF vars, TypeOK
<1>4. QED
  BY <1>1, <1>2, <1>3, RequestTyped, ServeTyped, StatementTyped, JanitorTyped DEF Next

(* Every table row, call, transaction and local variable keeps its type.   *)
THEOREM TypeCorrect == Spec => []TypeOK
BY TypeInit, TypeStep, PTL DEF Spec
-----------------------------------------------------------------------------
(* The inductive invariant, one conjunct at a time.                        *)
LEMMA InvInit == Init => IInv
<1> SUFFICES ASSUME Init PROVE IInv
  OBVIOUS
<1>1. TypeOK
  BY TypeInit
<1>2. ReadingsPast
  <2>1. clock = 0 /\ janitor.ts = 0 /\ \A h \in Handler : calls[h].ts = 0
    BY DEF Init, NoCall
  <2>2. QED
    BY <2>1 DEF ReadingsPast
<1>3. TxInv
  BY NamesDistinct DEF Init, TxInv, At, NoCall, NoTx
<1>4. PromiseKept
  BY DEF Init, PromiseKept
<1>5. QED
  BY <1>1, <1>2, <1>3, <1>4 DEF IInv

LEMMA Numbers ==
  ASSUME TypeOK
  PROVE  /\ clock \in Nat /\ janitor.ts \in Nat
         /\ \A h \in Handler : calls[h].ts \in Nat /\ calls[h].ends \in Nat
         /\ \A p \in Path : claims[p].expires \in Nat
         /\ \A a \in Agent, p \in Path : promised[a][p] \in Nat
<1>1. clock \in Nat /\ janitor.ts \in Nat
  BY TimeAssumption DEF TypeOK, JanitorType
<1>2. ASSUME NEW h \in Handler PROVE calls[h].ts \in Nat /\ calls[h].ends \in Nat
  <2>1. CASE calls[h] = NoCall
    BY <2>1 DEF NoCall
  <2>2. CASE calls[h] \in Pending
    <3>1. calls[h].ts \in Instant /\ calls[h].ends \in Instant
      BY <2>2 DEF Pending
    <3>2. QED
      BY <3>1, TimeAssumption
  <2>3. QED
    BY <2>1, <2>2 DEF TypeOK
<1>3. ASSUME NEW p \in Path PROVE claims[p].expires \in Nat
  <2>1. CASE claims[p] = FreeClaim
    BY <2>1 DEF FreeClaim
  <2>2. CASE claims[p] \in Claim
    <3>1. claims[p].expires \in Instant
      BY <2>2 DEF Claim
    <3>2. QED
      BY <3>1, TimeAssumption
  <2>3. QED
    BY <2>1, <2>2 DEF TypeOK, Rows
<1>4. ASSUME NEW a \in Agent, NEW p \in Path PROVE promised[a][p] \in Nat
  BY DEF TypeOK
<1>5. QED
  BY <1>1, <1>2, <1>3, <1>4

(* No transaction is open, so no handler is inside ClaimFiles. *)
LEMMA NoneInside ==
  ASSUME TxInv, ConnectionFree, NEW h \in Handler PROVE ~At(h, "upsert")
BY NamesDistinct DEF TxInv, ConnectionFree

(* A statement outside transactions that opens no call of ClaimFiles. *)
LEMMA OutsideTx ==
  ASSUME tx'.owner = NoHandler, \A h \in Handler : calls'[h].pc # "upsert"
  PROVE  TxInv'
BY NamesDistinct DEF TxInv, At

(* A step that leaves the tables alone. *)
LEMMA TablesAlone ==
  ASSUME PromiseKept, TypeOK, clock' = clock \/ clock' = clock + 1,
         UNCHANGED <<agents, claims, promised>>
  PROVE  PromiseKept'
<1> SUFFICES ASSUME NEW a \in Agent, NEW p \in Path, promised[a][p] > clock'
             PROVE  (claims[p].agent = a /\ claims[p].expires >= promised[a][p] /\ ~Dead(a))'
  BY DEF PromiseKept
<1>1. promised[a][p] > clock
  BY Numbers
<1>2. QED
  BY <1>1 DEF PromiseKept, Dead

(* Freeing paths and forgetting what their holders were promised. *)
LEMMA FreeingKeeps ==
  ASSUME PromiseKept, TypeOK, NEW S, claims' = Free(claims, S),
         agents' = agents, clock' = clock,
         \A a \in Agent, p \in Path :
           promised'[a][p] > clock =>
             /\ promised'[a][p] = promised[a][p]
             /\ claims[p].agent = a => p \notin S
  PROVE  PromiseKept'
BY DEF PromiseKept, Free, TypeOK, Rows, Dead

(* Freeing all paths of one agent. *)
LEMMA FreeAllKeeps ==
  ASSUME PromiseKept, TypeOK, NEW a \in Agent, FreeAll(a), agents' = agents, clock' = clock
  PROVE  PromiseKept'
<1>1. ASSUME NEW b \in Agent, NEW q \in Path, promised'[b][q] > clock
      PROVE  /\ promised'[b][q] = promised[b][q]
             /\ claims[q].agent = b => q \notin HeldBy(a)
  BY <1>1, Numbers DEF FreeAll, Forget, TypeOK, HeldBy
<1>2. QED
  BY <1>1, FreeingKeeps DEF FreeAll

(* An agent that is put on the dead list is promised nothing. *)
LEMMA LeavingKeeps ==
  ASSUME PromiseKept, TypeOK, NEW a \in Agent, agents' = [agents EXCEPT ![a].status = "dead"],
         Forget(a, Path), claims' = claims, clock' = clock
  PROVE  PromiseKept'
<1> SUFFICES ASSUME NEW b \in Agent, NEW p \in Path, promised'[b][p] > clock
             PROVE  claims[p].agent = b /\ claims[p].expires >= promised'[b][p] /\ ~Dead(b)'
  BY DEF PromiseKept
<1>1. b # a /\ promised'[b][p] = promised[b][p]
  BY Numbers DEF Forget, TypeOK
<1>2. Dead(b)' = Dead(b)
  BY <1>1 DEF Dead, TypeOK
<1>3. QED
  BY <1>1, <1>2 DEF PromiseKept

(* Calls that begin. *)
LEMMA RequestSafe ==
  ASSUME IInv, NEW h \in Handler, Request(h) PROVE ReadingsPast' /\ TxInv' /\ PromiseKept'
<1> USE DEF IInv
<1>1. PICK a \in Agent :
        \/ \E t \in Task, P \in SUBSET Path, ttl \in TTL, ts \in Readings :
             BeginClaim(h, a, t, P, ttl, ts)
        \/ \E P \in SUBSET Path : CallReleaseFiles(h, a, P)
        \/ MarkLeft(h, a)
  BY DEF Request
<1>2. CASE \E t \in Task, P \in SUBSET Path, ttl \in TTL, ts \in Readings :
             BeginClaim(h, a, t, P, ttl, ts)
  <2>1. PICK t \in Task, P \in SUBSET Path, ttl \in TTL, ts \in Readings :
             BeginClaim(h, a, t, P, ttl, ts)
    BY <1>2
  <2> DEFINE c == [NoCall EXCEPT !.pc = "upsert", !.agent = a, !.task = t, !.ts = ts,
                                 !.ends = ts + ttl, !.batch = P, !.todo = P]
  <2>2. /\ calls' = [calls EXCEPT ![h] = c]
        /\ tx' = [owner |-> h, rows |-> claims]
        /\ UNCHANGED <<clock, agents, claims, promised, janitor>>
        /\ ConnectionFree
    BY <2>1 DEF BeginClaim
  <2>3. c.ts = ts /\ c.pc = "upsert" /\ c.batch = P /\ c.todo = P
    BY DEF NoCall
  <2>4. calls'[h] = c /\ \A g \in Handler \ {h} : calls'[g] = calls[g]
    BY <2>2 DEF TypeOK
  <2> HIDE DEF c
  <2>5. ReadingsPast'
    BY <2>2, <2>3, <2>4 DEF ReadingsPast, Readings
  <2>6. \A g \in Handler \ {h} : ~At(g, "upsert") /\ ~At(g, "upsert")'
    BY <2>2, <2>4, NoneInside DEF At
  <2>7. At(h, "upsert")' /\ (calls[h].todo \subseteq calls[h].batch)' /\ TxRows(h)'
    BY <2>2, <2>3, <2>4 DEF At, TxRows
  <2>8. tx'.owner = h
    BY <2>2
  <2>9. TxInv'
    BY <2>6, <2>7, <2>8 DEF TxInv
  <2>10. PromiseKept'
    BY <2>2, TablesAlone
  <2>11. QED
    BY <2>5, <2>9, <2>10
<1>3. CASE \E P \in SUBSET Path : CallReleaseFiles(h, a, P)
  <2>1. PICK P \in SUBSET Path : CallReleaseFiles(h, a, P)
    BY <1>3
  <2> DEFINE c == [NoCall EXCEPT !.pc = "release", !.agent = a, !.todo = P]
  <2>2. /\ At(h, "idle")
        /\ calls' = [calls EXCEPT ![h] = c]
        /\ UNCHANGED <<clock, agents, claims, tx, promised, janitor>>
    BY <2>1 DEF CallReleaseFiles
  <2>3. c.ts = 0 /\ c.pc = "release"
    BY DEF NoCall
  <2>4. calls'[h] = c /\ \A g \in Handler \ {h} : calls'[g] = calls[g]
    BY <2>2 DEF TypeOK
  <2> HIDE DEF c
  <2>5. ReadingsPast'
    BY <2>2, <2>3, <2>4, Numbers DEF ReadingsPast
  <2>6. ~At(h, "upsert") /\ ~At(h, "upsert")' /\ tx.owner # h
    BY <2>2, <2>3, <2>4 DEF At, TxInv
  <2>7. ASSUME NEW g \in Handler \ {h}, At(g, "upsert")' PROVE TxRows(g)'
    <3>1. TxRows(g)
      BY <2>4, <2>7 DEF At, TxInv
    <3>2. QED
      BY <2>2, <2>4, <2>7, <3>1 DEF TxRows, MayTake, Dead, Grant
  <2>8. TxInv'
    BY <2>2, <2>4, <2>6, <2>7 DEF TxInv, At
  <2>9. PromiseKept'
    BY <2>2, TablesAlone
  <2>10. QED
    BY <2>5, <2>8, <2>9
<1>4. CASE MarkLeft(h, a)
  <2> DEFINE c == [NoCall EXCEPT !.pc = "dropAll", !.agent = a]
  <2>1. /\ ConnectionFree
        /\ agents' = [agents EXCEPT ![a].status = "dead"]
        /\ Forget(a, Path)
        /\ calls' = [calls EXCEPT ![h] = c]
        /\ UNCHANGED <<clock, claims, tx, janitor>>
    BY <1>4 DEF MarkLeft
  <2>2. c.ts = 0 /\ c.pc = "dropAll"
    BY DEF NoCall
  <2>3. calls'[h] = c /\ \A g \in Handler \ {h} : calls'[g] = calls[g]
    BY <2>1 DEF TypeOK
  <2> HIDE DEF c
  <2>4. ReadingsPast'
    BY <2>1, <2>2, <2>3, Numbers DEF ReadingsPast
  <2>5. \A g \in Handler : calls'[g].pc # "upsert"
    BY <2>1, <2>2, <2>3, NoneInside DEF At
  <2>6. TxInv'
    BY <2>1, <2>5, OutsideTx DEF ConnectionFree
  <2>7. PromiseKept'
    BY <2>1, LeavingKeeps
  <2>8. QED
    BY <2>4, <2>6, <2>7
<1>5. QED
  BY <1>1, <1>2, <1>3, <1>4

(* Calls that go on. *)
LEMMA AnswerFacts ==
  ASSUME TypeOK, NEW h \in Handler, Answer(h)
  PROVE  calls'[h] = NoCall /\ \A g \in Handler \ {h} : calls'[g] = calls[g]
BY DEF TypeOK, Answer

LEMMA AnswerPast ==
  ASSUME TypeOK, ReadingsPast, NEW h \in Handler, Answer(h), UNCHANGED <<clock, janitor>>
  PROVE  ReadingsPast'
<1>1. NoCall.ts = 0
  BY DEF NoCall
<1>2. QED
  BY <1>1, AnswerFacts, Numbers DEF ReadingsPast

LEMMA UpsertSafe ==
  ASSUME IInv, NEW h \in Handler, UpsertPath(h) PROVE ReadingsPast' /\ TxInv' /\ PromiseKept'
<1> USE DEF IInv
<1> DEFINE c == calls[h]
           d == calls'[h]
<1>1. PICK p \in c.todo :
        IF MayTake(tx.rows[p], c.agent, c.ts)
          THEN /\ tx' = [tx EXCEPT !.rows[p] = Grant(c)]
               /\ calls' = [calls EXCEPT ![h].todo = @ \ {p}]
          ELSE /\ tx' = tx
               /\ calls' = [calls EXCEPT ![h].todo = @ \ {p}, ![h].denied = TRUE]
  BY DEF UpsertPath
<1>2. At(h, "upsert") /\ UNCHANGED <<clock, agents, claims, promised, janitor>>
  BY DEF UpsertPath
<1>3. c \in Pending
  BY <1>2 DEF At, TypeOK, NoCall
<1>4. /\ d.pc = c.pc /\ d.agent = c.agent /\ d.task = c.task /\ d.ends = c.ends
      /\ d.ts = c.ts /\ d.batch = c.batch /\ d.todo = c.todo \ {p}
  BY <1>1, <1>3 DEF TypeOK, Pending
<1>5. ASSUME ~d.denied
      PROVE  ~c.denied /\ MayTake(tx.rows[p], c.agent, c.ts)
             /\ tx' = [tx EXCEPT !.rows[p] = Grant(c)]
  BY <1>1, <1>3, <1>5 DEF TypeOK, Pending
<1>6. tx'.owner = tx.owner
  BY <1>1 DEF TypeOK
<1>7. \A g \in Handler \ {h} : calls'[g] = calls[g]
  BY <1>1 DEF TypeOK
<1>8. tx.owner = h /\ c.todo \subseteq c.batch /\ TxRows(h)
  BY <1>2 DEF TxInv
<1>9. TxRows(h)'
  <2> SUFFICES ASSUME ~d.denied, NEW q \in Path
               PROVE  IF q \in d.batch \ d.todo
                        THEN tx'.rows[q] = Grant(d) /\ MayTake(claims[q], c.agent, c.ts)
                        ELSE tx'.rows[q] = claims[q]
    BY <1>2, <1>4 DEF TxRows, MayTake, Dead
  <2>1. Grant(d) = Grant(c)
    BY <1>4 DEF Grant
  <2>2. IF q \in c.batch \ c.todo
          THEN tx.rows[q] = Grant(c) /\ MayTake(claims[q], c.agent, c.ts)
          ELSE tx.rows[q] = claims[q]
    BY <1>5, <1>8 DEF TxRows
  <2>3. CASE q = p
    <3>1. tx.rows[q] = claims[q] /\ q \in d.batch \ d.todo
      BY <2>2, <2>3, <1>4, <1>8
    <3>2. tx'.rows[q] = Grant(c)
      BY <1>5, <2>3 DEF TypeOK, Rows
    <3>3. QED
      BY <3>1, <3>2, <2>1, <2>3, <1>5
  <2>4. CASE q # p
    <3>1. tx'.rows[q] = tx.rows[q]
      BY <1>5, <2>4 DEF TypeOK, Rows
    <3>2. q \in d.batch \ d.todo <=> q \in c.batch \ c.todo
      BY <2>4, <1>4
    <3>3. QED
      BY <3>1, <3>2, <2>1, <2>2
  <2>5. QED
    BY <2>3, <2>4
<1>10. TxInv'
  BY <1>2, <1>4, <1>6, <1>7, <1>8, <1>9 DEF TxInv, At
<1>11. ReadingsPast'
  BY <1>2, <1>4, <1>7 DEF ReadingsPast
<1>12. PromiseKept'
  BY <1>2, TablesAlone
<1>13. QED
  BY <1>10, <1>11, <1>12

LEMMA CommitSafe ==
  ASSUME IInv, NEW h \in Handler, CommitClaim(h) PROVE ReadingsPast' /\ TxInv' /\ PromiseKept'
<1> USE DEF IInv
<1> DEFINE c == calls[h]
<1>1. /\ At(h, "upsert") /\ c.todo = {} /\ ~c.denied
      /\ claims' = tx.rows /\ tx' = NoTx /\ Answer(h)
      /\ UNCHANGED <<clock, agents, janitor>>
  BY DEF CommitClaim
<1>2. c \in Pending
  BY <1>1 DEF At, TypeOK, NoCall
<1>3. c.agent \in Agent /\ c.batch \subseteq Path
  BY <1>2 DEF Pending
<1>4. tx.owner = h
  BY <1>1 DEF TxInv
<1>5. \A p \in Path : IF p \in c.batch THEN claims'[p] = Grant(c) /\ MayTake(claims[p], c.agent, c.ts)
                                       ELSE claims'[p] = claims[p]
  BY <1>1 DEF TxInv, TxRows
<1>6. \A g \in Handler : calls'[g].pc # "upsert"
  <2>1. calls'[h].pc = "idle"
    BY <1>1, AnswerFacts DEF NoCall
  <2>2. \A g \in Handler \ {h} : calls'[g].pc # "upsert"
    BY <1>1, <1>4, AnswerFacts DEF TxInv, At
  <2>3. QED
    BY <2>1, <2>2
<1>7. TxInv'
  BY <1>1, <1>6, OutsideTx DEF NoTx
<1>8. ReadingsPast'
  BY <1>1, AnswerPast
<1>9. PromiseKept'
  <2> SUFFICES ASSUME NEW a \in Agent, NEW p \in Path, promised'[a][p] > clock
               PROVE  claims'[p].agent = a /\ claims'[p].expires >= promised'[a][p] /\ ~Dead(a)
    BY <1>1 DEF PromiseKept, Dead
  <2>1. CASE a = c.agent /\ p \in c.batch /\ ~Dead(a)
    <3>1. promised'[a][p] = c.ends
      BY <1>3, <2>1 DEF CommitClaim, TypeOK
    <3>2. claims'[p].agent = a /\ claims'[p].expires = c.ends
      BY <1>5, <2>1 DEF Grant
    <3>3. QED
      BY <2>1, <3>1, <3>2, Numbers
  <2>2. CASE ~(a = c.agent /\ p \in c.batch /\ ~Dead(a))
    <3>1. promised'[a][p] = promised[a][p]
      BY <1>3, <2>2 DEF CommitClaim, TypeOK
    <3>2. claims[p].agent = a /\ claims[p].expires >= promised[a][p] /\ ~Dead(a)
      BY <3>1 DEF PromiseKept
    <3>3. c.ts <= clock /\ c.ts \in Nat /\ clock \in Nat
      BY Numbers DEF ReadingsPast
    <3>4. claims[p].expires > c.ts /\ claims[p] # FreeClaim
      BY <3>1, <3>2, <3>3, NamesDistinct, Numbers DEF FreeClaim
    <3>5. p \notin c.batch
      BY <1>5, <2>2, <3>2, <3>3, <3>4, Numbers DEF MayTake
    <3>6. QED
      BY <1>5, <3>1, <3>2, <3>5
  <2>3. QED
    BY <2>1, <2>2
<1>10. QED
  BY <1>7, <1>8, <1>9

LEMMA ServeSafe ==
  ASSUME IInv, NEW h \in Handler, Serve(h) PROVE ReadingsPast' /\ TxInv' /\ PromiseKept'
<1> USE DEF IInv
<1>1. CASE RollbackClaim(h)
  <2>1. /\ At(h, "upsert") /\ tx' = NoTx /\ Answer(h)
        /\ UNCHANGED <<clock, agents, claims, promised, janitor>>
    BY <1>1 DEF RollbackClaim
  <2>2. \A g \in Handler : calls'[g].pc # "upsert"
    BY <2>1, AnswerFacts DEF TxInv, At, NoCall
  <2>3. QED
    BY <2>1, <2>2, OutsideTx, AnswerPast, TablesAlone DEF NoTx
<1>2. CASE ReleasePath(h)
  <2> DEFINE c == calls[h]
  <2>1. PICK p \in c.todo :
          /\ claims' = Free(claims, {p} \cap HeldBy(c.agent))
          /\ Forget(c.agent, {p})
          /\ IF c.todo = {p} THEN Answer(h)
                             ELSE calls' = [calls EXCEPT ![h].todo = @ \ {p}]
    BY <1>2 DEF ReleasePath
  <2>2. At(h, "release") /\ ConnectionFree /\ UNCHANGED <<clock, agents, tx, janitor>>
    BY <1>2 DEF ReleasePath
  <2>3. c \in Pending
    BY <2>2 DEF At, TypeOK, NoCall
  <2>4. \/ Answer(h)
        \/ /\ calls'[h].pc = "release" /\ calls'[h].ts = c.ts
           /\ \A g \in Handler \ {h} : calls'[g] = calls[g]
    BY <2>1, <2>2, <2>3 DEF At, TypeOK, Pending
  <2>5. ReadingsPast'
    BY <2>2, <2>4, AnswerPast DEF ReadingsPast
  <2>6. \A g \in Handler : calls'[g].pc # "upsert"
    BY <2>2, <2>4, AnswerFacts, NoneInside DEF At, NoCall
  <2>7. TxInv'
    BY <2>2, <2>6, OutsideTx DEF ConnectionFree
  <2>8. PromiseKept'
    <3>1. c.agent \in Agent
      BY <2>3 DEF Pending
    <3>2. ASSUME NEW b \in Agent, NEW q \in Path, promised'[b][q] > clock
          PROVE  /\ promised'[b][q] = promised[b][q]
                 /\ claims[q].agent = b => q \notin {p} \cap HeldBy(c.agent)
      BY <2>1, <3>1, <3>2, Numbers DEF Forget, TypeOK, HeldBy
    <3>3. QED
      BY <2>1, <2>2, <3>2, FreeingKeeps
  <2>9. QED
    BY <2>5, <2>7, <2>8
<1>3. CASE DropLeft(h)
  <2>1. /\ At(h, "dropAll") /\ ConnectionFree /\ FreeAll(calls[h].agent) /\ Answer(h)
        /\ UNCHANGED <<clock, agents, tx, janitor>>
    BY <1>3 DEF DropLeft
  <2>2. calls[h].agent \in Agent
    BY <2>1 DEF At, TypeOK, NoCall, Pending
  <2>3. \A g \in Handler : calls'[g].pc # "upsert"
    BY <2>1, AnswerFacts, NoneInside DEF At, NoCall
  <2>4. QED
    BY <2>1, <2>2, <2>3, AnswerPast, OutsideTx, FreeAllKeeps DEF ConnectionFree
<1>4. QED
  BY <1>1, <1>2, <1>3, UpsertSafe, CommitSafe DEF Serve

(* Statements of calls that have no other. *)
LEMMA StatementSafe ==
  ASSUME IInv, Statement PROVE ReadingsPast' /\ TxInv' /\ PromiseKept'
<1> USE DEF IInv
<1>1. ConnectionFree /\ UNCHANGED <<clock, tx, calls, janitor>>
  BY DEF Statement, RenewClaims, RegisterAgent, Heartbeat, Beat, ReleaseAllForAgent,
         ReleaseClaimsForTask
<1>2. ReadingsPast'
  BY <1>1 DEF ReadingsPast
<1>3. TxInv'
  BY <1>1, NoneInside, OutsideTx DEF ConnectionFree, At
<1>4. ASSUME NEW a \in Agent, NEW ts \in Readings, NEW ttl \in TTL, RenewClaims(a, ttl, ts)
      PROVE  PromiseKept'
  <2>1. /\ claims' = [p \in Path |-> IF p \in Renewable(a, ts)
                                       THEN [claims[p] EXCEPT !.expires = ts + ttl]
                                       ELSE claims[p]]
        /\ promised' = [promised EXCEPT ![a] =
             [p \in Path |-> IF p \in Renewable(a, ts) /\ promised[a][p] > clock
                               THEN ts + ttl ELSE promised[a][p]]]
        /\ agents' = agents
    BY <1>4 DEF RenewClaims
  <2>2. ts \in Nat /\ ts <= clock /\ ts + ttl \in Nat /\ clock \in Nat
    BY TimeAssumption, Numbers DEF Readings
  <2> SUFFICES ASSUME NEW b \in Agent, NEW p \in Path, promised'[b][p] > clock
               PROVE  claims'[p].agent = b /\ claims'[p].expires >= promised'[b][p] /\ ~Dead(b)
    BY <1>1, <2>1 DEF PromiseKept, Dead
  <2>3. promised[b][p] > clock
    <3>1. CASE b = a /\ p \in Renewable(a, ts) /\ promised[a][p] > clock
      BY <3>1
    <3>2. CASE ~(b = a /\ p \in Renewable(a, ts) /\ promised[a][p] > clock)
      BY <2>1, <3>2 DEF TypeOK
    <3>3. QED
      BY <3>1, <3>2
  <2>4. claims[p].agent = b /\ claims[p].expires >= promised[b][p] /\ ~Dead(b)
    BY <2>3 DEF PromiseKept
  <2>5. CASE b = a
    <3>1. p \in Renewable(a, ts)
      BY <2>2, <2>3, <2>4, <2>5, Numbers DEF Renewable, HeldBy
    <3>2. claims'[p] = [claims[p] EXCEPT !.expires = ts + ttl]
      BY <2>1, <3>1
    <3>3. promised'[b][p] = ts + ttl
      BY <2>1, <2>3, <2>5, <3>1 DEF TypeOK
    <3>4. claims[p] \in Claim
      BY <2>4, NamesDistinct DEF TypeOK, Rows, FreeClaim
    <3>5. claims'[p].agent = b /\ claims'[p].expires = ts + ttl
      BY <2>4, <3>2, <3>4 DEF Claim
    <3>6. QED
      BY <2>2, <2>4, <3>3, <3>5
  <2>6. CASE b # a
    <3>1. claims'[p] = claims[p]
      BY <2>1, <2>4, <2>6 DEF Renewable, HeldBy
    <3>2. promised'[b][p] = promised[b][p]
      BY <2>1, <2>6 DEF TypeOK
    <3>3. QED
      BY <2>4, <3>1, <3>2
  <2>7. QED
    BY <2>5, <2>6
<1>5. ASSUME NEW a \in Agent, NEW ts, Beat(a, ts) PROVE PromiseKept'
  <2>1. \A b \in Agent : Dead(b)' => Dead(b)
    BY <1>5 DEF Beat, Dead, TypeOK
  <2>2. QED
    BY <1>1, <1>5, <2>1 DEF Beat, PromiseKept
<1>6. ASSUME NEW a \in Agent, ReleaseAllForAgent(a) PROVE PromiseKept'
  BY <1>1, <1>6, FreeAllKeeps DEF ReleaseAllForAgent
<1>7. ASSUME NEW t \in Task, ReleaseClaimsForTask(t) PROVE PromiseKept'
  <2>1. /\ claims' = Free(claims, ForTask(t))
        /\ agents' = agents
        /\ promised' = [a \in Agent |->
             [p \in Path |-> IF p \in ForTask(t) /\ claims[p].agent = a
                               THEN 0 ELSE promised[a][p]]]
    BY <1>7 DEF ReleaseClaimsForTask
  <2>2. ASSUME NEW b \in Agent, NEW q \in Path, promised'[b][q] > clock
        PROVE  /\ promised'[b][q] = promised[b][q]
               /\ claims[q].agent = b => q \notin ForTask(t)
    BY <2>1, <2>2, Numbers
  <2>3. QED
    BY <1>1, <2>1, <2>2, FreeingKeeps
<1>8. PromiseKept'
  BY <1>4, <1>5, <1>6, <1>7 DEF Statement, RegisterAgent, Heartbeat
<1>9. QED
  BY <1>2, <1>3, <1>8

(* The janitor. *)
LEMMA JanitorSafe ==
  ASSUME IInv, Janitor PROVE ReadingsPast' /\ TxInv' /\ PromiseKept'
<1> USE DEF IInv
<1>1. UNCHANGED <<clock, tx, calls>>
  BY DEF Janitor, StartExpire, SelectLapsed, ExpireClaims, Demote, SelectSilent, Kill, Drop
<1>2. ReadingsPast'
  <2>1. janitor'.ts \in {janitor.ts, clock, 0} \/ janitor'.ts \in Readings
    <3>1. CASE Demote
      BY <3>1 DEF Demote, TypeOK, JanitorType
    <3>2. CASE ~Demote
      BY <3>2 DEF Janitor, StartExpire, SelectLapsed, ExpireClaims, SelectSilent, Kill, Drop,
                  TypeOK, JanitorType
    <3>3. QED
      BY <3>1, <3>2
  <2>2. QED
    BY <1>1, <2>1, Numbers DEF ReadingsPast, Readings
<1>3. TxInv'
  <2>1. CASE StartExpire
    BY <1>1, <2>1 DEF StartExpire, TxInv, TxRows, At, MayTake, Dead, Grant
  <2>2. CASE ConnectionFree
    BY <1>1, <2>2, NoneInside, OutsideTx DEF ConnectionFree, At
  <2>3. QED
    BY <2>1, <2>2
       DEF Janitor, SelectLapsed, ExpireClaims, Demote, SelectSilent, Kill, Drop
<1>4. PromiseKept'
  <2>1. CASE UNCHANGED <<agents, claims, promised>>
    BY <1>1, <2>1, TablesAlone
  <2>2. CASE ExpireClaims
    <3>1. claims' = Free(claims, Lapsed(janitor.ts)) /\ UNCHANGED <<agents, promised>>
      BY <2>2 DEF ExpireClaims
    <3>2. ASSUME NEW b \in Agent, NEW q \in Path, promised'[b][q] > clock
          PROVE  /\ promised'[b][q] = promised[b][q]
                 /\ claims[q].agent = b => q \notin Lapsed(janitor.ts)
      <4>1. claims[q].expires >= promised[b][q] /\ janitor.ts <= clock
        BY <3>1, <3>2 DEF PromiseKept, ReadingsPast
      <4>2. ~(claims[q].expires <= janitor.ts)
        BY <3>1, <3>2, <4>1, Numbers
      <4>3. QED
        BY <3>1, <4>2 DEF Lapsed
    <3>3. QED
      BY <1>1, <3>1, <3>2, FreeingKeeps
  <2>3. CASE Demote
    <3>1. \A b \in Agent : Dead(b)' = Dead(b)
      BY <2>3 DEF Demote, Dead, TypeOK, AgentRow
    <3>2. QED
      BY <1>1, <2>3, <3>1 DEF Demote, PromiseKept
  <2>4. CASE Kill
    <3>1. PICK a \in janitor.doomed : agents' = [agents EXCEPT ![a].status = "dead"]
                                      /\ Forget(a, Path)
      BY <2>4 DEF Kill
    <3>2. a \in Agent
      BY DEF TypeOK, JanitorType
    <3>3. QED
      BY <1>1, <2>4, <3>1, <3>2, LeavingKeeps DEF Kill
  <2>5. CASE Drop
    <3>1. FreeAll(janitor.victim) /\ agents' = agents
      BY <2>5 DEF Drop
    <3>2. janitor.victim \in Agent
      BY <2>5 DEF Drop, TypeOK, JanitorType, JanitorPC
    <3>3. QED
      BY <1>1, <3>1, <3>2, FreeAllKeeps
  <2>6. QED
    BY <2>1, <2>2, <2>3, <2>4, <2>5 DEF Janitor, StartExpire, SelectLapsed, SelectSilent
<1>5. QED
  BY <1>2, <1>3, <1>4

LEMMA InvStep == IInv /\ [Next]_vars => IInv'
<1> SUFFICES ASSUME IInv, [Next]_vars PROVE IInv'
  OBVIOUS
<1> USE DEF IInv
<1>1. TypeOK'
  BY TypeStep
<1>2. CASE Tick
  <2>1. clock' = clock + 1 /\ UNCHANGED <<agents, claims, tx, calls, janitor, promised>>
    BY <1>2 DEF Tick
  <2>2. ReadingsPast'
    BY <2>1, Numbers DEF ReadingsPast
  <2>3. TxInv'
    BY <2>1 DEF TxInv, TxRows, At, MayTake, Dead, Grant
  <2>4. QED
    BY <1>1, <2>1, <2>2, <2>3, TablesAlone
<1>3. CASE Restart
  <2>1. /\ tx' = NoTx /\ calls' = [h \in Handler |-> NoCall] /\ janitor'.ts = 0
        /\ UNCHANGED <<clock, agents, claims, promised>>
    BY <1>3 DEF Restart
  <2>2. \A h \in Handler : calls'[h].ts = 0 /\ calls'[h].pc = "idle"
    BY <2>1 DEF NoCall
  <2>3. ReadingsPast'
    BY <2>1, <2>2, Numbers DEF ReadingsPast
  <2>4. TxInv'
    BY <2>1, <2>2, OutsideTx DEF NoTx
  <2>5. QED
    BY <1>1, <2>1, <2>3, <2>4, TablesAlone
<1>4. CASE UNCHANGED vars
  <2>1. ReadingsPast'
    BY <1>4 DEF vars, ReadingsPast
  <2>2. TxInv'
    BY <1>4 DEF vars, TxInv, TxRows, At, MayTake, Dead, Grant
  <2>3. QED
    BY <1>1, <1>4, <2>1, <2>2, TablesAlone DEF vars
<1>5. QED
  BY <1>1, <1>2, <1>3, <1>4, RequestSafe, ServeSafe, StatementSafe, JanitorSafe DEF Next

(* The inductive invariant: late clocks only, and an open transaction that *)
(* differs from the table by grants it could make again.                   *)
THEOREM InvCorrect == Spec => []IInv
BY InvInit, InvStep, PTL DEF Spec

(* Whoever was granted a path keeps it until the end it was told.          *)
THEOREM PromiseCorrect == Spec => []PromiseKept
<1>1. IInv => PromiseKept
  BY DEF IInv
<1>2. QED
  BY <1>1, InvCorrect, PTL
-----------------------------------------------------------------------------
(* The code implements Lease.                                              *)
LEMMA RefineInit == Init => L!Init
<1> SUFFICES ASSUME Init PROVE L!Init
  OBVIOUS
<1>1. clock = 0 /\ claims = [p \in Path |-> L!FreeClaim]
  BY DEF Init, FreeClaim, L!FreeClaim
<1>2. {a \in Agent : Dead(a)} = Agent
  BY DEF Init, Dead
<1>3. QED
  BY <1>1, <1>2 DEF L!Init

(* A step that shows nothing. *)
LEMMA Unseen ==
  ASSUME UNCHANGED <<clock, claims>>, \A a \in Agent : Dead(a)' = Dead(a)
  PROVE  UNCHANGED L!vars
BY DEF L!vars

LEMMA RefineRelease ==
  ASSUME NEW a \in Agent, NEW S \in SUBSET HeldBy(a), claims' = Free(claims, S),
         UNCHANGED <<clock, agents>>
  PROVE  L!Next
<1>1. S \in SUBSET Path
  BY DEF HeldBy
<1>2. {b \in Agent : Dead(b)}' = {b \in Agent : Dead(b)}
  BY DEF Dead
<1>3. L!Release(a, S)
  BY <1>1, <1>2 DEF L!Release, L!OwnedBy, L!Free, L!FreeClaim, HeldBy, Free, FreeClaim
<1>4. QED
  BY <1>1, <1>3 DEF L!Next

LEMMA RefineLeave ==
  ASSUME TypeOK, NEW a \in Agent, agents' = [agents EXCEPT ![a].status = "dead"],
         UNCHANGED <<clock, claims>>
  PROVE  L!Next
<1>1. \A b \in Agent : Dead(b)' <=> Dead(b) \/ b = a
  BY DEF TypeOK, AgentRow, Dead
<1>2. {b \in Agent : Dead(b)}' = {b \in Agent : Dead(b)} \cup {a}
  BY <1>1
<1>3. L!Leave(a)
  BY <1>2 DEF L!Leave
<1>4. QED
  BY <1>3 DEF L!Next

LEMMA RefineCommit ==
  ASSUME IInv, NEW h \in Handler, CommitClaim(h) PROVE L!Next
<1> USE DEF IInv
<1> DEFINE c == calls[h]
<1>1. /\ At(h, "upsert") /\ c.todo = {} /\ ~c.denied /\ claims' = tx.rows
      /\ UNCHANGED <<clock, agents>>
  BY DEF CommitClaim
<1>2. c \in Pending
  BY <1>1 DEF At, TypeOK, NoCall
<1>3. /\ c.agent \in Agent /\ c.batch \in SUBSET Path
      /\ c.task \in Task \cup {NoTask} /\ c.ends \in Instant
  BY <1>2 DEF Pending
<1>4. \A p \in Path : IF p \in c.batch THEN claims'[p] = Grant(c) /\ MayTake(claims[p], c.agent, c.ts)
                                       ELSE claims'[p] = claims[p]
  BY <1>1 DEF TxInv, TxRows
<1>5. claims' = [p \in Path |->
                   IF p \in c.batch
                     THEN [agent |-> c.agent, task |-> c.task, expires |-> c.ends]
                     ELSE claims[p]]
  BY <1>1, <1>4 DEF Grant, TypeOK, Rows
<1>6. ASSUME NEW p \in c.batch, L!Held(p) PROVE claims[p].agent = c.agent
  <2>1. /\ claims[p].agent # Nobody /\ claims[p].expires > clock
        /\ claims[p].agent \notin {a \in Agent : Dead(a)}
    BY <1>6 DEF L!Held
  <2>2. claims[p] # FreeClaim /\ claims[p].agent \in Agent
    BY <2>1, <1>3 DEF FreeClaim, TypeOK, Rows, Claim
  <2>3. ~Dead(claims[p].agent)
    BY <2>1, <2>2
  <2>4. ~(claims[p].expires <= c.ts)
    BY <1>3, <2>1, Numbers DEF ReadingsPast
  <2>5. QED
    BY <1>3, <1>4, <2>2, <2>3, <2>4 DEF MayTake
<1>7. {a \in Agent : Dead(a)}' = {a \in Agent : Dead(a)}
  BY <1>1 DEF Dead
<1>8. L!Take(c.agent, c.batch, c.task, c.ends)
  BY <1>1, <1>5, <1>6, <1>7 DEF L!Take
<1>9. QED
  BY <1>3, <1>8 DEF L!Next

LEMMA RefineRenew ==
  ASSUME IInv, NEW a \in Agent, NEW ts \in Readings, NEW ttl \in TTL, RenewClaims(a, ttl, ts)
  PROVE  L!Next
<1> USE DEF IInv
<1>1. /\ claims' = [p \in Path |-> IF p \in Renewable(a, ts)
                                     THEN [claims[p] EXCEPT !.expires = ts + ttl]
                                     ELSE claims[p]]
      /\ ts + ttl \in Instant /\ UNCHANGED <<clock, agents>>
  BY DEF RenewClaims
<1>2. ts \in Nat /\ ts <= clock /\ clock \in Nat
  BY TimeAssumption, Numbers DEF Readings
<1>3. /\ {p \in L!OwnedBy(a) : claims[p].expires > clock} \subseteq Renewable(a, ts)
      /\ Renewable(a, ts) \subseteq L!OwnedBy(a)
  BY <1>2, Numbers DEF L!OwnedBy, Renewable, HeldBy
<1>4. {b \in Agent : Dead(b)}' = {b \in Agent : Dead(b)}
  BY <1>1 DEF Dead
<1>5. L!Renew(a, Renewable(a, ts), ts + ttl)
  BY <1>1, <1>3, <1>4 DEF L!Renew
<1>6. Renewable(a, ts) \in SUBSET Path
  BY DEF Renewable, HeldBy
<1>7. QED
  BY <1>1, <1>5, <1>6 DEF L!Next

LEMMA RefineServe ==
  ASSUME IInv, NEW h \in Handler, Serve(h) PROVE L!Next \/ UNCHANGED L!vars
<1> USE DEF IInv
<1>1. CASE UpsertPath(h) \/ RollbackClaim(h)
  BY <1>1, Unseen DEF UpsertPath, RollbackClaim, Dead
<1>2. CASE ReleasePath(h)
  <2>1. calls[h].agent \in Agent
    BY <1>2 DEF ReleasePath, At, TypeOK, NoCall, Pending
  <2>2. PICK p \in calls[h].todo : claims' = Free(claims, {p} \cap HeldBy(calls[h].agent))
    BY <1>2 DEF ReleasePath
  <2>3. UNCHANGED <<clock, agents>>
    BY <1>2 DEF ReleasePath
  <2>4. QED
    BY <2>1, <2>2, <2>3, RefineRelease
<1>3. CASE DropLeft(h)
  <2>1. calls[h].agent \in Agent
    BY <1>3 DEF DropLeft, At, TypeOK, NoCall, Pending
  <2>2. QED
    BY <1>3, <2>1, RefineRelease DEF DropLeft, FreeAll
<1>4. QED
  BY <1>1, <1>2, <1>3, RefineCommit DEF Serve

LEMMA RefineRequest ==
  ASSUME IInv, NEW h \in Handler, Request(h) PROVE L!Next \/ UNCHANGED L!vars
<1> USE DEF IInv
<1>1. PICK a \in Agent :
        \/ \E t \in Task, P \in SUBSET Path, ttl \in TTL, ts \in Readings :
             BeginClaim(h, a, t, P, ttl, ts)
        \/ \E P \in SUBSET Path : CallReleaseFiles(h, a, P)
        \/ MarkLeft(h, a)
  BY DEF Request
<1>2. CASE MarkLeft(h, a)
  BY <1>2, RefineLeave DEF MarkLeft
<1>3. CASE ~MarkLeft(h, a)
  BY <1>1, <1>3, Unseen DEF BeginClaim, CallReleaseFiles, Dead
<1>4. QED
  BY <1>2, <1>3

LEMMA RefineStatement ==
  ASSUME IInv, Statement PROVE L!Next
<1> USE DEF IInv
<1>1. ASSUME NEW a \in Agent, NEW ts, Beat(a, ts) PROVE L!Next
  <2>1. \A b \in Agent : Dead(b)' <=> Dead(b) /\ b # a
    BY <1>1 DEF Beat, TypeOK, AgentRow, Dead
  <2>2. {b \in Agent : Dead(b)}' = {b \in Agent : Dead(b)} \ {a}
    BY <2>1
  <2>3. L!Return(a)
    BY <1>1, <2>2 DEF L!Return, Beat
  <2>4. QED
    BY <2>3 DEF L!Next
<1>2. ASSUME NEW a \in Agent, ReleaseAllForAgent(a) PROVE L!Next
  BY <1>2, RefineRelease DEF ReleaseAllForAgent, FreeAll
<1>3. ASSUME NEW t \in Task \ {NoTask}, ReleaseClaimsForTask(t) PROVE L!Next
  <2>1. claims' = Free(claims, ForTask(t)) /\ UNCHANGED <<clock, agents>>
    BY <1>3 DEF ReleaseClaimsForTask
  <2>2. {b \in Agent : Dead(b)}' = {b \in Agent : Dead(b)}
    BY <2>1 DEF Dead
  <2>3. L!Finish(t)
    BY <2>1, <2>2 DEF L!Finish, L!Free, L!FreeClaim, Free, FreeClaim, ForTask
  <2>4. QED
    BY <2>3 DEF L!Next
<1>4. QED
  BY <1>1, <1>2, <1>3, RefineRenew DEF Statement, RegisterAgent, Heartbeat

LEMMA RefineJanitor ==
  ASSUME IInv, Janitor PROVE L!Next \/ UNCHANGED L!vars
<1> USE DEF IInv
<1>1. CASE UNCHANGED <<clock, agents, claims>>
  BY <1>1, Unseen DEF Dead
<1>2. CASE ExpireClaims
  <2> DEFINE S == Lapsed(janitor.ts)
  <2>1. claims' = Free(claims, S) /\ UNCHANGED <<clock, agents>>
    BY <1>2 DEF ExpireClaims
  <2>2. S \in SUBSET Path
    BY DEF Lapsed
  <2>3. ASSUME NEW p \in S PROVE claims[p].agent # Nobody /\ claims[p].expires <= clock
    <3>1. claims[p] \in Claim
      BY DEF Lapsed, TypeOK, Rows
    <3>2. claims[p].agent # Nobody
      BY <3>1, NamesDistinct DEF Claim
    <3>3. p \in Path /\ claims[p].expires <= janitor.ts
      BY DEF Lapsed
    <3>4. QED
      BY <3>2, <3>3, Numbers DEF ReadingsPast
  <2>4. {b \in Agent : Dead(b)}' = {b \in Agent : Dead(b)}
    BY <2>1 DEF Dead
  <2>5. L!Lapse(S)
    BY <2>1, <2>3, <2>4 DEF L!Lapse, L!Free, L!FreeClaim, Free, FreeClaim
  <2>6. QED
    BY <2>2, <2>5 DEF L!Next
<1>3. CASE Demote
  <2>1. \A b \in Agent : Dead(b)' = Dead(b)
    BY <1>3 DEF Demote, Dead, TypeOK, AgentRow
  <2>2. QED
    BY <1>3, <2>1, Unseen DEF Demote
<1>4. CASE Kill
  <2>1. PICK a \in janitor.doomed : agents' = [agents EXCEPT ![a].status = "dead"]
    BY <1>4 DEF Kill
  <2>2. a \in Agent
    BY DEF TypeOK, JanitorType
  <2>3. QED
    BY <1>4, <2>1, <2>2, RefineLeave DEF Kill
<1>5. CASE Drop
  <2>1. janitor.victim \in Agent
    BY <1>5 DEF Drop, TypeOK, JanitorType, JanitorPC
  <2>2. QED
    BY <1>5, <2>1, RefineRelease DEF Drop, FreeAll
<1>6. QED
  BY <1>1, <1>2, <1>3, <1>4, <1>5 DEF Janitor, StartExpire, SelectLapsed, SelectSilent

LEMMA RefineStep == IInv /\ [Next]_vars => [L!Next]_(L!vars)
<1> SUFFICES ASSUME IInv, [Next]_vars PROVE L!Next \/ UNCHANGED L!vars
  OBVIOUS
<1>1. CASE Tick
  <2>1. {b \in Agent : Dead(b)}' = {b \in Agent : Dead(b)}
    BY <1>1 DEF Tick, Dead
  <2>2. L!Tick
    BY <1>1, <2>1 DEF Tick, L!Tick
  <2>3. QED
    BY <2>2 DEF L!Next
<1>2. CASE Restart
  BY <1>2, Unseen DEF Restart, Dead
<1>3. CASE UNCHANGED vars
  BY <1>3, Unseen DEF vars, Dead
<1>4. QED
  BY <1>1, <1>2, <1>3, RefineRequest, RefineServe, RefineStatement, RefineJanitor DEF Next

(* Row-by-row transactions, late clocks and sweeps in pieces cannot be     *)
(* told from leases taken, renewed and given back in one step each.        *)
THEOREM Refinement == Spec => LeaseSpec
BY InvCorrect, RefineInit, RefineStep, PTL DEF Spec, LeaseSpec, L!Spec

LEMMA NoStealStep ==
  ASSUME TypeOK, L!Next, NEW p \in Path, L!Held(p), claims'[p].agent # claims[p].agent
  PROVE  claims'[p].agent = Nobody
<1>1. CASE \E a \in Agent, P \in SUBSET Path, t \in Task \cup {NoTask}, e \in Instant :
             L!Take(a, P, t, e)
  BY <1>1 DEF L!Take
<1>2. CASE \E a \in Agent, S \in SUBSET Path, e \in Instant : L!Renew(a, S, e)
  <2>1. claims[p] \in Claim
    BY DEF L!Held, TypeOK, Rows, FreeClaim
  <2>2. claims'[p] = claims[p] \/ \E e \in Instant : claims'[p] = [claims[p] EXCEPT !.expires = e]
    BY <1>2 DEF L!Renew
  <2>3. QED
    BY <2>1, <2>2 DEF Claim
<1>3. CASE \E S : L!Free(S)
  BY <1>3 DEF L!Free, L!FreeClaim
<1>4. CASE claims' = claims
  BY <1>4
<1>5. QED
  BY <1>1, <1>2, <1>3, <1>4
     DEF L!Next, L!Release, L!Finish, L!Lapse, L!Leave, L!Return, L!Tick

(* A path in use never passes straight from one agent to another.          *)
THEOREM NoStealCorrect == Spec => LeaseNoSteal
<1>1. TypeOK /\ [L!Next]_(L!vars) =>
        [\A p \in Path : L!Held(p) /\ claims'[p].agent # claims[p].agent
                           => claims'[p].agent = Nobody]_(L!vars)
  BY NoStealStep
<1>2. IInv => TypeOK
  BY DEF IInv
<1>3. QED
  BY <1>1, <1>2, InvCorrect, RefineStep, PTL DEF Spec, LeaseNoSteal, L!NoSteal
=============================================================================
