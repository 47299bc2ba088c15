---------------------------- MODULE TasksProofs ----------------------------
(***************************************************************************)
(* Proofs about Tasks for every set of agents, tasks and columns, and any  *)
(* number of handlers whose calls overlap.                                 *)
(***************************************************************************)
EXTENDS Tasks, TLAPS

(* A call works on a task that was created; what it writes back is a row.  *)
CallShape(c) ==
  /\ c.pc # "idle" => c.task \in Task /\ tasks[c.task] # Unborn
  /\ c.pc = "write" => c.row \in Row
  /\ c.pc \in {"search", "link"} => c.on \in Task

CallInv == \A h \in Handler : CallShape(calls[h])

BoardInv == TypeOK /\ CallInv /\ EdgesExist

(* Rows are none of the two sentinels.                                     *)
LEMMA RowIsLive == \A r \in Row : r # Unborn /\ r # Deleted
BY StatusAssumption DEF Row, Unborn, Deleted, Closed

LEMMA LiveRow ==
  ASSUME TypeOK, NEW t \in Task PROVE Exists(t) <=> tasks[t] \in Row
BY RowIsLive DEF TypeOK, Exists

LEMMA NoCallTyped == NoCall \in CallType
BY DEF NoCall, CallType, CallPC

LEMMA PatchedTyped ==
  ASSUME NEW r \in Row, NEW p \in [status: Status \cup {Keep}, assignee: Agent \cup {Nobody, Keep}]
  PROVE  Patched(r, p) \in Row
BY BoardNames DEF Patched, Row

(* What a step on a call does to the calls. *)
LEMMA CallsGoto ==
  ASSUME TypeOK, NEW h \in Handler, NEW pc \in CallPC, Goto(h, pc)
  PROVE  /\ calls' \in [Handler -> CallType]
         /\ calls'[h].pc = pc
         /\ \A f \in {"task", "by", "force", "patch", "row", "ahead", "seen", "on"} :
              calls'[h][f] = calls[h][f]
         /\ \A g \in Handler \ {h} : calls'[g] = calls[g]
<1>1. calls[h] \in CallType
  BY DEF TypeOK
<1>2. [calls[h] EXCEPT !.pc = pc] \in CallType
  BY <1>1 DEF CallType
<1>3. calls' = [calls EXCEPT ![h] = [calls[h] EXCEPT !.pc = pc]]
  BY DEF Goto
<1>4. /\ calls' \in [Handler -> CallType]
      /\ calls'[h] = [calls[h] EXCEPT !.pc = pc]
      /\ \A g \in Handler \ {h} : calls'[g] = calls[g]
  BY <1>2, <1>3 DEF TypeOK
<1>5. QED
  BY <1>1, <1>4 DEF CallType

LEMMA CallsAnswer ==
  ASSUME TypeOK, NEW h \in Handler, Answer(h)
  PROVE  /\ calls' \in [Handler -> CallType]
         /\ calls'[h] = NoCall
         /\ \A g \in Handler \ {h} : calls'[g] = calls[g]
BY NoCallTyped DEF TypeOK, Answer

LEMMA CallsStart ==
  ASSUME TypeOK, NEW h \in Handler, NEW c \in CallType, Start(h, c)
  PROVE  /\ calls' \in [Handler -> CallType]
         /\ calls'[h] = c
         /\ \A g \in Handler \ {h} : calls'[g] = calls[g]
BY DEF TypeOK, Start
LEMMA OneCall ==
  ASSUME CallInv, tasks' = tasks, NEW h \in Handler, CallShape(calls'[h]),
         \A g \in Handler \ {h} : calls'[g] = calls[g]
  PROVE  CallInv'
BY DEF CallInv, CallShape

LEMMA NoCallShape == CallShape(NoCall)
BY DEF CallShape, NoCall

LEMMA CallsKept ==
  ASSUME CallInv, calls' = calls, \A t \in Task : tasks[t] # Unborn => tasks'[t] # Unborn
  PROVE  CallInv'
BY DEF CallInv, CallShape

LEMMA EdgesKept ==
  ASSUME EdgesExist, TypeOK, TypeOK', deps' \subseteq deps,
         \A t \in Task : tasks[t] \in Row => tasks'[t] \in Row
  PROVE  EdgesExist'
<1>1. Live \subseteq Live'
  BY LiveRow, RowIsLive DEF Live, Exists
<1>2. QED
  BY <1>1 DEF EdgesExist

LEMMA BoardInit == Init => BoardInv
<1> SUFFICES ASSUME Init PROVE BoardInv
  OBVIOUS
<1>1. TypeOK
  BY NoCallTyped DEF Init, TypeOK
<1>2. CallInv
  BY NoCallShape DEF Init, CallInv
<1>3. EdgesExist
  BY DEF Init, EdgesExist
<1>4. QED
  BY <1>1, <1>2, <1>3 DEF BoardInv

(* Calls that begin. *)
LEMMA RequestBoard ==
  ASSUME BoardInv, NEW h \in Handler, Request(h) PROVE BoardInv'
<1> USE DEF BoardInv
<1>1. UNCHANGED <<tasks, deps, alive, leased, told>>
  BY DEF Request, CallUpdateTask, CallClaimTask, CallAddDep
<1>2. PICK c \in CallType : Start(h, c) /\ CallShape(c)
  <2>1. ASSUME NEW t \in Task, NEW p \in Patch, CallUpdateTask(h, t, p)
        PROVE  \E c \in CallType : Start(h, c) /\ CallShape(c)
    <3> DEFINE c == [NoCall EXCEPT !.pc = "write", !.task = t, !.patch = p, !.row = tasks[t]]
    <3>1. Start(h, c) /\ tasks[t] \in Row /\ tasks[t] # Unborn
      BY <2>1, LiveRow DEF CallUpdateTask, Exists
    <3>2. c \in CallType /\ CallShape(c)
      BY <3>1, PatchAssumption DEF NoCall, CallType, CallPC, CallShape
    <3>3. QED
      BY <3>1, <3>2
  <2>2. ASSUME NEW t \in Task, NEW a \in Agent, NEW force \in BOOLEAN,
               CallClaimTask(h, t, a, force)
        PROVE  \E c \in CallType : Start(h, c) /\ CallShape(c)
    <3> DEFINE row == tasks[t]
               taken == ~force /\ row.assignee \notin {Nobody, a}
               patch == [status   |-> IF row.status = "todo" THEN "in_progress" ELSE Keep,
                         assignee |-> a]
               c == [NoCall EXCEPT !.pc = IF taken THEN "assignee" ELSE "read", !.task = t,
                                   !.by = a, !.force = force, !.patch = patch, !.row = row]
    <3>1. Start(h, c) /\ row \in Row /\ row # Unborn
      BY <2>2, LiveRow DEF CallClaimTask, Exists
    <3>2. patch \in [status: Status \cup {Keep}, assignee: Agent \cup {Nobody, Keep}]
      BY StatusAssumption
    <3>3. c \in CallType /\ CallShape(c)
      BY <3>1, <3>2 DEF NoCall, CallType, CallPC, CallShape
    <3>4. QED
      BY <3>1, <3>3
  <2>3. ASSUME NEW t \in Task, NEW d \in Task, CallAddDep(h, t, d)
        PROVE  \E c \in CallType : Start(h, c) /\ CallShape(c)
    <3> DEFINE c == [NoCall EXCEPT !.pc = "search", !.task = t, !.on = d, !.ahead = {d}]
    <3>1. Start(h, c) /\ tasks[t] # Unborn
      BY <2>3 DEF CallAddDep
    <3>2. c \in CallType /\ CallShape(c)
      BY <3>1 DEF NoCall, CallType, CallPC, CallShape
    <3>3. QED
      BY <3>1, <3>2
  <2>4. QED
    BY <2>1, <2>2, <2>3 DEF Request
<1>3. TypeOK'
  BY <1>1, <1>2, CallsStart DEF TypeOK
<1>4. CallInv'
  <2>1. CallShape(calls'[h])
    BY <1>2, CallsStart
  <2>2. QED
    BY <1>1, <1>2, <2>1, CallsStart, OneCall
<1>5. EdgesExist'
  BY <1>1, <1>3, EdgesKept
<1>6. QED
  BY <1>3, <1>4, <1>5

(* Calls that go on. *)
LEMMA WriteBoard ==
  ASSUME BoardInv, NEW h \in Handler, WriteTask(h) PROVE BoardInv'
<1> USE DEF BoardInv
<1> DEFINE c == calls[h]
           new == Patched(c.row, c.patch)
<1>1. /\ At(h, "write")
      /\ tasks' = IF Exists(c.task) THEN [tasks EXCEPT ![c.task] = new] ELSE tasks
      /\ told' = IF GivenAway(c, new) THEN [told EXCEPT ![c.task] = {}] ELSE told
      /\ Goto(h, "release") \/ Goto(h, "answer")
      /\ UNCHANGED <<deps, alive, leased>>
  BY DEF WriteTask
<1>2. c \in CallType /\ c.pc = "write" /\ c.task \in Task /\ c.row \in Row
  BY <1>1 DEF At, TypeOK, CallInv, CallShape
<1>3. new \in Row
  BY <1>2, PatchedTyped DEF CallType
<1> HIDE DEF new
<1>4. \A t \in Task : tasks'[t] = tasks[t] \/ tasks'[t] \in Row
  BY <1>1, <1>2, <1>3 DEF TypeOK
<1>5. /\ calls' \in [Handler -> CallType]
      /\ calls'[h].pc \in {"release", "answer"} /\ calls'[h].task = c.task
      /\ \A g \in Handler \ {h} : calls'[g] = calls[g]
  BY <1>1, <1>2, CallsGoto DEF CallPC
<1>6. TypeOK'
  <2>1. tasks' \in [Task -> Row \cup {Unborn, Deleted}]
    BY <1>1, <1>3 DEF TypeOK
  <2>2. told' \in [Task -> SUBSET Agent]
    BY <1>1 DEF TypeOK
  <2>3. QED
    BY <1>1, <1>5, <2>1, <2>2 DEF TypeOK
<1>7. CallInv'
  <2>1. \A t \in Task : tasks[t] # Unborn => tasks'[t] # Unborn
    BY <1>4, RowIsLive
  <2>2. ASSUME NEW g \in Handler PROVE CallShape(calls[g])'
    BY <1>2, <1>5, <2>1 DEF CallInv, CallShape
  <2>3. QED
    BY <2>2 DEF CallInv
<1>8. EdgesExist'
  <2>1. \A t \in Task : tasks[t] \in Row => tasks'[t] \in Row
    BY <1>4
  <2>2. QED
    BY <1>1, <1>6, <2>1, EdgesKept
<1>9. QED
  BY <1>6, <1>7, <1>8

LEMMA ServeBoard ==
  ASSUME BoardInv, NEW h \in Handler, Serve(h) PROVE BoardInv'
<1> USE DEF BoardInv
<1> DEFINE c == calls[h]
<1>1. CASE WriteTask(h)
  BY <1>1, WriteBoard
<1>2. ASSUME UNCHANGED <<tasks, alive>>, ~At(h, "idle"),
             leased' \subseteq leased, told' \in [Task -> SUBSET Agent],
             \/ deps' = deps
             \/ Exists(c.task) /\ Exists(c.on) /\ c.on \in Task
                  /\ deps' = deps \cup {<<c.task, c.on>>},
             calls' \in [Handler -> CallType], CallShape(calls'[h]),
             \A g \in Handler \ {h} : calls'[g] = calls[g]
      PROVE  BoardInv'
  <2>1. c.task \in Task
    BY <1>2 DEF CallInv, CallShape, At
  <2>2. deps' \subseteq Task \X Task
    BY <1>2, <2>1 DEF TypeOK
  <2>3. TypeOK'
    BY <1>2, <2>2 DEF TypeOK
  <2>4. CallInv'
    BY <1>2, OneCall
  <2>5. EdgesExist'
    BY <1>2, <2>1 DEF EdgesExist, Live, Exists
  <2>6. QED
    BY <2>3, <2>4, <2>5
<1>3. c \in CallType /\ CallShape(c)
  BY DEF TypeOK, CallInv
<1>4. CASE CheckAssignee(h)
  <2>1. At(h, "assignee") /\ (Answer(h) \/ Goto(h, "read"))
        /\ UNCHANGED <<tasks, deps, alive, leased, told>>
    BY <1>4 DEF CheckAssignee
  <2>2. CASE Answer(h)
    BY <2>1, <2>2, <1>2, CallsAnswer, NoCallShape DEF At, TypeOK
  <2>3. CASE Goto(h, "read")
    <3>1. calls'[h].pc = "read" /\ calls'[h].task = c.task
      BY <2>3, <1>3, CallsGoto DEF CallPC
    <3>2. CallShape(calls'[h])
      BY <2>1, <3>1, <1>3 DEF CallShape, At
    <3>3. QED
      BY <2>1, <2>3, <3>2, <1>2, CallsGoto DEF At, TypeOK, CallPC
  <2>4. QED
    BY <2>1, <2>2, <2>3
<1>5. CASE ReadTask(h)
  <2>1. /\ At(h, "read") /\ UNCHANGED <<tasks, deps, alive, leased, told>>
        /\ IF Exists(c.task) THEN calls' = [calls EXCEPT ![h].pc = "write", ![h].row = tasks[c.task]]
                             ELSE Answer(h)
    BY <1>5 DEF ReadTask
  <2>2. CASE ~Exists(c.task)
    BY <2>1, <2>2, <1>2, CallsAnswer, NoCallShape DEF At, TypeOK
  <2>3. CASE Exists(c.task)
    <3>1. c.task \in Task /\ tasks[c.task] # Unborn
      BY <2>1, <1>3 DEF CallShape, At
    <3>2. tasks[c.task] \in Row
      BY <2>3, <3>1, LiveRow
    <3> DEFINE d == [c EXCEPT !.pc = "write", !.row = tasks[c.task]]
    <3>3. d \in CallType /\ CallShape(d)
      BY <3>1, <3>2, <1>3 DEF CallType, CallPC, CallShape
    <3>4. calls' = [calls EXCEPT ![h] = d]
      BY <2>1, <2>3
    <3> HIDE DEF d
    <3>5. calls' \in [Handler -> CallType] /\ calls'[h] = d
          /\ \A g \in Handler \ {h} : calls'[g] = calls[g]
      BY <3>3, <3>4 DEF TypeOK
    <3>6. QED
      BY <2>1, <3>3, <3>5, <1>2 DEF At, TypeOK
  <2>4. QED
    BY <2>2, <2>3
<1>6. CASE ReleaseClaims(h)
  <2>1. /\ At(h, "release") /\ leased' \subseteq leased /\ Goto(h, "answer")
        /\ UNCHANGED <<tasks, deps, alive, told>>
    BY <1>6 DEF ReleaseClaims
  <2>2. calls'[h].pc = "answer" /\ calls'[h].task = c.task
    BY <2>1, <1>3, CallsGoto DEF CallPC
  <2>3. CallShape(calls'[h])
    BY <2>1, <2>2, <1>3 DEF CallShape, At
  <2>4. QED
    BY <2>1, <2>3, <1>2, CallsGoto DEF At, TypeOK, CallPC
<1>7. CASE AnswerTask(h)
  <2>1. At(h, "answer") /\ Answer(h) /\ UNCHANGED <<tasks, deps, alive, leased>>
    BY <1>7 DEF AnswerTask
  <2>2. told' \in [Task -> SUBSET Agent]
    <3>1. told' = told \/ (c.by \in alive /\ told' = [told EXCEPT ![c.task] = @ \cup {c.by}])
      BY <1>7 DEF AnswerTask
    <3>2. QED
      BY <3>1 DEF TypeOK
  <2>3. QED
    BY <2>1, <2>2, <1>2, CallsAnswer, NoCallShape DEF At
<1>8. CASE Visit(h)
  <2>1. PICK cur \in c.ahead :
          IF cur = c.task THEN Answer(h)
          ELSE calls' = [calls EXCEPT ![h].seen = @ \cup {cur}, ![h].ahead = Ahead(c, cur)]
    BY <1>8 DEF Visit
  <2>2. At(h, "search") /\ UNCHANGED <<tasks, deps, alive, leased, told>>
    BY <1>8 DEF Visit
  <2>3. CASE cur = c.task
    BY <2>1, <2>2, <2>3, <1>2, CallsAnswer, NoCallShape DEF At, TypeOK
  <2>4. CASE cur # c.task
    <3> DEFINE d == [c EXCEPT !.seen = @ \cup {cur}, !.ahead = Ahead(c, cur)]
    <3>1. Ahead(c, cur) \in SUBSET Task
      BY <1>3 DEF Ahead, DependsOn, CallType
    <3>2. d \in CallType /\ CallShape(d)
      BY <3>1, <1>3 DEF CallType, CallShape
    <3>3. calls' = [calls EXCEPT ![h] = d]
      BY <2>1, <2>4
    <3> HIDE DEF d
    <3>4. calls' \in [Handler -> CallType] /\ calls'[h] = d
          /\ \A g \in Handler \ {h} : calls'[g] = calls[g]
      BY <3>2, <3>3 DEF TypeOK
    <3>5. QED
      BY <2>2, <3>2, <3>4, <1>2 DEF At, TypeOK
  <2>5. QED
    BY <2>3, <2>4
<1>9. CASE SearchDone(h)
  <2>1. At(h, "search") /\ Goto(h, "link") /\ UNCHANGED <<tasks, deps, alive, leased, told>>
    BY <1>9 DEF SearchDone
  <2>2. calls'[h].pc = "link" /\ calls'[h].task = c.task /\ calls'[h].on = c.on
    BY <2>1, <1>3, CallsGoto DEF CallPC
  <2>3. CallShape(calls'[h])
    BY <2>1, <2>2, <1>3 DEF CallShape, At
  <2>4. QED
    BY <2>1, <2>3, <1>2, CallsGoto DEF At, TypeOK, CallPC
<1>10. CASE Link(h)
  <2>1. At(h, "link") /\ Answer(h) /\ UNCHANGED <<tasks, alive, leased, told>>
    BY <1>10 DEF Link
  <2>2. c.on \in Task
    BY <2>1, <1>3 DEF CallShape, At
  <2>3. \/ deps' = deps
        \/ Exists(c.task) /\ Exists(c.on) /\ deps' = deps \cup {<<c.task, c.on>>}
    BY <1>10 DEF Link
  <2>4. QED
    BY <2>1, <2>2, <2>3, <1>2, CallsAnswer, NoCallShape DEF At, TypeOK
<1>11. QED
  BY <1>1, <1>4, <1>5, <1>6, <1>7, <1>8, <1>9, <1>10 DEF Serve

LEMMA StatementBoard ==
  ASSUME BoardInv, Statement PROVE BoardInv'
<1> USE DEF BoardInv
<1>1. ASSUME NEW t \in Task, NEW s \in Opening, NEW a \in Agent \cup {Nobody},
             NEW D \in SUBSET Task, CreateTask(t, s, a, D)
      PROVE  BoardInv'
  <2> DEFINE r == [status |-> s, assignee |-> a]
  <2>1. /\ tasks[t] = Unborn /\ D \subseteq Live /\ tasks' = [tasks EXCEPT ![t] = r]
        /\ deps' = deps \cup {<<t, d>> : d \in D} /\ UNCHANGED <<alive, leased, calls, told>>
    BY <1>1 DEF CreateTask
  <2>2. r \in Row
    BY StatusAssumption DEF Row
  <2> HIDE DEF r
  <2>3. \A u \in Task : tasks'[u] = tasks[u] \/ tasks'[u] \in Row
    BY <2>1, <2>2 DEF TypeOK
  <2>4. tasks'[t] \in Row
    BY <2>1, <2>2 DEF TypeOK
  <2>5. TypeOK'
    BY <2>1, <2>2 DEF TypeOK
  <2>6. CallInv'
    BY <2>1, <2>3, RowIsLive, CallsKept
  <2>7. EdgesExist'
    <3>1. Live \subseteq Live' /\ t \in Live'
      BY <2>3, <2>4, RowIsLive DEF Live, Exists
    <3>2. QED
      BY <2>1, <3>1 DEF EdgesExist
  <2>8. QED
    BY <2>5, <2>6, <2>7
<1>2. ASSUME NEW t \in Task, DeleteTask(t) PROVE BoardInv'
  <2>1. /\ Exists(t) /\ tasks' = [tasks EXCEPT ![t] = Deleted]
        /\ deps' = {e \in deps : t \notin {e[1], e[2]}}
        /\ told' = [told EXCEPT ![t] = {}] /\ UNCHANGED <<alive, leased, calls>>
    BY <1>2 DEF DeleteTask
  <2>2. TypeOK'
    BY <2>1 DEF TypeOK
  <2>3. CallInv'
    <3>1. Deleted # Unborn
      BY DEF Deleted, Unborn
    <3>2. \A u \in Task : tasks[u] # Unborn => tasks'[u] # Unborn
      BY <2>1, <3>1 DEF TypeOK
    <3>3. QED
      BY <2>1, <3>2, CallsKept
  <2>4. EdgesExist'
    <3>1. Live' = Live \ {t}
      BY <2>1 DEF TypeOK, Live, Exists
    <3>2. QED
      BY <2>1, <3>1 DEF EdgesExist
  <2>5. QED
    BY <2>2, <2>3, <2>4
<1>3. ASSUME UNCHANGED <<tasks, alive, calls, told>>, deps' \subseteq deps, leased' \subseteq Task
      PROVE  BoardInv'
  <2>1. TypeOK'
    BY <1>3 DEF TypeOK
  <2>2. CallInv'
    BY <1>3, CallsKept
  <2>3. EdgesExist'
    BY <1>3, <2>1, EdgesKept
  <2>4. QED
    BY <2>1, <2>2, <2>3
<1>4. ASSUME NEW t \in Task, NEW d \in Task, RemoveDep(t, d) PROVE BoardInv'
  BY <1>3, <1>4 DEF RemoveDep, TypeOK
<1>5. ASSUME NEW t \in Task, NEW a \in Agent, ClaimFilesFor(a, t) PROVE BoardInv'
  BY <1>3, <1>5 DEF ClaimFilesFor, TypeOK
<1>6. ASSUME NEW t \in Task, FilesFree(t) PROVE BoardInv'
  BY <1>3, <1>6 DEF FilesFree, TypeOK
<1>7. QED
  BY <1>1, <1>2, <1>4, <1>5, <1>6 DEF Statement

LEMMA BoardStep == BoardInv /\ [Next]_vars => BoardInv'
<1> SUFFICES ASSUME BoardInv, [Next]_vars PROVE BoardInv'
  OBVIOUS
<1> USE DEF BoardInv
<1>1. ASSUME UNCHANGED <<tasks, deps>>, alive' \subseteq Agent, leased' \subseteq leased,
             told' \in [Task -> SUBSET Agent],
             calls' = calls \/ calls' = [h \in Handler |-> NoCall]
      PROVE  BoardInv'
  <2>1. TypeOK'
    BY <1>1, NoCallTyped DEF TypeOK
  <2>2. CallInv'
    <3>1. CASE calls' = calls
      BY <1>1, <3>1, CallsKept
    <3>2. CASE calls' = [h \in Handler |-> NoCall]
      BY <3>2 DEF CallInv, CallShape, NoCall
    <3>3. QED
      BY <1>1, <3>1, <3>2
  <2>3. EdgesExist'
    BY <1>1, <2>1, EdgesKept
  <2>4. QED
    BY <2>1, <2>2, <2>3
<1>2. ASSUME NEW a \in Agent, AgentDies(a) \/ AgentBeats(a) PROVE BoardInv'
  <2>1. told' \in [Task -> SUBSET Agent]
    BY <1>2 DEF AgentDies, AgentBeats, TypeOK
  <2>2. QED
    BY <1>1, <1>2, <2>1 DEF AgentDies, AgentBeats, TypeOK
<1>3. CASE Restart
  BY <1>1, <1>3 DEF Restart, TypeOK
<1>4. CASE UNCHANGED vars
  BY <1>1, <1>4 DEF vars, TypeOK
<1>5. QED
  BY <1>2, <1>3, <1>4, RequestBoard, ServeBoard, StatementBoard DEF Next

(* Types, and what a call keeps of the table while others change it.       *)
THEOREM BoardCorrect == Spec => []BoardInv
BY BoardInit, BoardStep, PTL DEF Spec

(* Every edge of the board joins tasks that exist, however many calls of   *)
(* AddDep and DeleteTask overlap.                                          *)
THEOREM EdgesCorrect == Spec => []EdgesExist
<1>1. BoardInv => EdgesExist
  BY DEF BoardInv
<1>2. QED
  BY <1>1, BoardCorrect, PTL

(* The board is well typed, however many calls overlap.                    *)
THEOREM TypeCorrect == Spec => []TypeOK
<1>1. BoardInv => TypeOK
  BY DEF BoardInv
<1>2. QED
  BY <1>1, BoardCorrect, PTL
-----------------------------------------------------------------------------
(***************************************************************************)
(* What holds when calls that change one task do not overlap.  A call that *)
(* has read the row of its task works on the row as it is, and a claim     *)
(* that was not refused finds nobody else in it who was told the task is   *)
(* his.                                                                    *)
(***************************************************************************)
ToldInv == \A t \in Task : \A a \in told[t] : a \in alive /\ tasks[t].assignee = a

ReadOK(c) == c.pc \in {"assignee", "write"} => c.row = tasks[c.task] \/ tasks[c.task] = Deleted
MineOK(c) == c.pc \in {"read", "write"} /\ c.by # Nobody /\ ~c.force => told[c.task] \subseteq {c.by}

ClaimOK(c) ==
  /\ c.pc \in {"assignee", "read"} => c.by # Nobody
  /\ c.pc = "assignee" => ~c.force /\ c.row.assignee # Nobody
  /\ c.by # Nobody => c.patch.assignee = c.by

Fresh(c) == ReadOK(c) /\ MineOK(c) /\ ClaimOK(c)

FilesInv == \A t \in leased : tasks[t] # Unborn

ApartInv ==
  BoardInv /\ TasksApart /\ ToldInv /\ FilesInv /\ FinishFrees /\ \A h \in Handler : Fresh(calls[h])

LEMMA NoCallFresh == Fresh(NoCall) /\ NoCall.pc = "idle"
BY DEF Fresh, ReadOK, MineOK, ClaimOK, NoCall

LEMMA ApartInit == Init => ApartInv
<1> SUFFICES ASSUME Init PROVE ApartInv
  OBVIOUS
<1>1. BoardInv
  BY BoardInit
<1>2. TasksApart /\ \A h \in Handler : Fresh(calls[h])
  BY NoCallFresh DEF Init, TasksApart, Working, NoCall, Fresh, ReadOK, MineOK, ClaimOK
<1>3. ToldInv /\ FilesInv /\ FinishFrees
  BY DEF Init, ToldInv, FilesInv, FinishFrees
<1>4. QED
  BY <1>1, <1>2, <1>3 DEF ApartInv

(* Nobody was told of a task that is not there. *)
LEMMA ToldLive ==
  ASSUME TypeOK, ToldInv, NEW t \in Task, told[t] # {} PROVE Exists(t)
BY BoardNames DEF TypeOK, ToldInv, Exists, Unborn, Deleted

(* The sentinels are in no column. *)
LEMMA NotClosed == Unborn.status \notin Closed /\ Deleted.status \notin Closed
BY DEF Unborn, Deleted, Closed

(* A step that leaves rows, claims of files and answers alone, and of one  *)
(* handler, keeps what the others have.                                    *)
LEMMA OthersFresh ==
  ASSUME ApartInv, NEW g \in Handler, calls'[g] = calls[g],
         tasks' = tasks, \A t \in Task : told'[t] \subseteq told[t]
  PROVE  Fresh(calls[g])'
<1>1. Fresh(calls[g]) /\ CallShape(calls[g])
  BY DEF ApartInv, BoardInv, CallInv
<1>2. QED
  BY <1>1 DEF Fresh, ReadOK, MineOK, ClaimOK, CallShape

LEMMA RequestApart ==
  ASSUME ApartInv, BoardInv', TasksApart', NEW h \in Handler, Request(h) PROVE ApartInv'
<1> USE DEF ApartInv, BoardInv
<1>1. UNCHANGED <<tasks, deps, alive, leased, told>>
  BY DEF Request, CallUpdateTask, CallClaimTask, CallAddDep
<1>2. PICK c \in CallType : Start(h, c) /\ Fresh(c)
  <2>1. ASSUME NEW t \in Task, NEW p \in Patch, CallUpdateTask(h, t, p)
        PROVE  \E c \in CallType : Start(h, c) /\ Fresh(c)
    <3> DEFINE c == [NoCall EXCEPT !.pc = "write", !.task = t, !.patch = p, !.row = tasks[t]]
    <3>1. Start(h, c) /\ tasks[t] \in Row
      BY <2>1, LiveRow DEF CallUpdateTask
    <3>2. c \in CallType /\ Fresh(c)
      BY <3>1, PatchAssumption DEF NoCall, CallType, CallPC, Fresh, ReadOK, MineOK, ClaimOK
    <3>3. QED
      BY <3>1, <3>2
  <2>2. ASSUME NEW t \in Task, NEW a \in Agent, NEW force \in BOOLEAN,
               CallClaimTask(h, t, a, force)
        PROVE  \E c \in CallType : Start(h, c) /\ Fresh(c)
    <3> DEFINE row == tasks[t]
               taken == ~force /\ row.assignee \notin {Nobody, a}
               patch == [status   |-> IF row.status = "todo" THEN "in_progress" ELSE Keep,
                         assignee |-> a]
               c == [NoCall EXCEPT !.pc = IF taken THEN "assignee" ELSE "read", !.task = t,
                                   !.by = a, !.force = force, !.patch = patch, !.row = row]
    <3>1. Start(h, c) /\ row \in Row
      BY <2>2, LiveRow DEF CallClaimTask
    <3>2. patch \in [status: Status \cup {Keep}, assignee: Agent \cup {Nobody, Keep}]
      BY StatusAssumption
    <3>3. c \in CallType
      BY <3>1, <3>2 DEF NoCall, CallType, CallPC
    <3>4. /\ c.pc = (IF taken THEN "assignee" ELSE "read") /\ c.task = t /\ c.by = a
          /\ c.force = force /\ c.patch.assignee = a /\ c.row = row
      BY DEF NoCall
    <3> HIDE DEF c
    <3>5. ~taken /\ ~force => told[t] \subseteq {a}
      BY BoardNames DEF ToldInv, TypeOK
    <3>6. Fresh(c)
      BY <3>4, <3>5, BoardNames DEF Fresh, ReadOK, MineOK, ClaimOK
    <3>7. QED
      BY <3>1, <3>3, <3>6
  <2>3. ASSUME NEW t \in Task, NEW d \in Task, CallAddDep(h, t, d)
        PROVE  \E c \in CallType : Start(h, c) /\ Fresh(c)
    <3> DEFINE c == [NoCall EXCEPT !.pc = "search", !.task = t, !.on = d, !.ahead = {d}]
    <3>1. Start(h, c)
      BY <2>3 DEF CallAddDep
    <3>2. c \in CallType /\ Fresh(c)
      BY DEF NoCall, CallType, CallPC, Fresh, ReadOK, MineOK, ClaimOK
    <3>3. QED
      BY <3>1, <3>2
  <2>4. QED
    BY <2>1, <2>2, <2>3 DEF Request
<1>3. calls'[h] = c /\ At(h, "idle") /\ \A g \in Handler \ {h} : calls'[g] = calls[g]
  BY <1>2, CallsStart DEF Start
<1>4. \A g \in Handler : Fresh(calls[g])'
  <2>1. Fresh(calls[h])'
    BY <1>1, <1>2, <1>3 DEF Fresh, ReadOK, MineOK, ClaimOK
  <2>2. QED
    BY <1>1, <1>3, <2>1, OthersFresh
<1>5. FinishFrees'
  BY <1>1, <1>3 DEF FinishFrees, At
<1>6. ToldInv' /\ FilesInv'
  BY <1>1 DEF ToldInv, FilesInv
<1>7. QED
  BY <1>4, <1>5, <1>6

(* Who else works on the task of a call that writes it. *)
LEMMA WriteApart ==
  ASSUME ApartInv, BoardInv', TasksApart', NEW h \in Handler, WriteTask(h) PROVE ApartInv'
<1> USE DEF ApartInv, BoardInv
<1> DEFINE c == calls[h]
           new == Patched(c.row, c.patch)
<1>1. /\ At(h, "write")
      /\ tasks' = IF Exists(c.task) THEN [tasks EXCEPT ![c.task] = new] ELSE tasks
      /\ told' = IF GivenAway(c, new) THEN [told EXCEPT ![c.task] = {}] ELSE told
      /\ Goto(h, IF Finishes(c.row, new) THEN "release" ELSE "answer")
      /\ UNCHANGED <<deps, alive, leased>>
  BY DEF WriteTask
<1>2. c \in CallType /\ c.pc = "write" /\ c.task \in Task /\ c.row \in Row /\ Fresh(c)
  BY <1>1 DEF At, TypeOK, CallInv, CallShape
<1>3. /\ calls'[h].pc = (IF Finishes(c.row, new) THEN "release" ELSE "answer")
      /\ \A f \in {"task", "by", "force", "patch", "row"} : calls'[h][f] = c[f]
      /\ \A g \in Handler \ {h} : calls'[g] = calls[g]
  BY <1>1, <1>2, CallsGoto DEF CallPC
<1>4. Exists(c.task) => c.row = tasks[c.task]
  BY <1>2 DEF Fresh, ReadOK, Exists
<1>5. new.status = (IF c.patch.status = Keep THEN c.row.status ELSE c.patch.status)
      /\ new.assignee = (IF c.patch.assignee = Keep THEN c.row.assignee ELSE c.patch.assignee)
  BY DEF Patched
<1>a. new \in Row
  BY <1>2, PatchedTyped DEF CallType
<1> HIDE DEF new
<1>6. \A t \in Task : t # c.task => tasks'[t] = tasks[t] /\ told'[t] = told[t]
  BY <1>1 DEF TypeOK
<1>7. Exists(c.task) => tasks'[c.task] = new
  BY <1>1, <1>2 DEF TypeOK
<1>8. \A g \in Handler \ {h} : Working(g) => calls[g].task # c.task
  BY <1>1 DEF TasksApart, Working, At
<1>9. ToldInv'
  <2> SUFFICES ASSUME told'[c.task] # {} PROVE \A a \in told'[c.task] :
                        a \in alive' /\ tasks'[c.task].assignee = a
    BY <1>1, <1>6 DEF ToldInv
  <2>1. ~GivenAway(c, new) /\ told' = told
    BY <1>1, <1>2 DEF TypeOK
  <2>2. Exists(c.task)
    BY <1>2, <2>1, ToldLive
  <2>3. CASE c.by = Nobody
    <3>1. new.assignee = tasks[c.task].assignee
      BY <1>4, <1>5, <2>1, <2>2, <2>3 DEF GivenAway
    <3>2. QED
      BY <1>1, <1>2, <1>7, <2>1, <2>2, <3>1 DEF ToldInv
  <2>4. CASE c.by # Nobody
    <3>1. c.patch.assignee = c.by /\ told[c.task] \subseteq {c.by}
      BY <1>2, <2>1, <2>4 DEF Fresh, MineOK, ClaimOK, GivenAway
    <3>2. c.by \in Agent
      BY <1>2, <2>4 DEF CallType
    <3>3. new.assignee = c.by
      BY <1>5, <3>1, <3>2, BoardNames
    <3>4. QED
      BY <1>1, <1>2, <1>7, <2>1, <2>2, <3>1, <3>3 DEF ToldInv
  <2>5. QED
    BY <2>3, <2>4
<1>10. FilesInv'
  <2>1. \A t \in Task : tasks[t] # Unborn => tasks'[t] # Unborn
    BY <1>1, <1>a, RowIsLive DEF TypeOK
  <2>2. QED
    BY <1>1, <2>1 DEF FilesInv, TypeOK
<1>11. FinishFrees'
  <2> SUFFICES ASSUME NEW t \in leased, tasks'[t].status \in Closed
               PROVE  \E g \in Handler : calls'[g].pc = "release" /\ calls'[g].task = t
    BY <1>1 DEF FinishFrees, At
  <2>1. t \in Task
    BY DEF TypeOK
  <2>2. ASSUME NEW g \in Handler, calls[g].pc = "release", calls[g].task = t
        PROVE  calls'[g].pc = "release" /\ calls'[g].task = t
    BY <1>2, <1>3, <2>2
  <2>3. CASE tasks'[t] = tasks[t]
    BY <2>2, <2>3 DEF FinishFrees, At
  <2>4. CASE tasks'[t] # tasks[t]
    <3>1. t = c.task /\ Exists(t) /\ tasks'[t] = new
      BY <1>1, <1>6, <1>7, <2>1, <2>4
    <3>2. new.status \in Closed
      BY <3>1
    <3>3. CASE new.status # c.row.status
      BY <1>3, <3>1, <3>2, <3>3 DEF Finishes
    <3>4. CASE new.status = c.row.status
      BY <1>4, <2>2, <3>1, <3>2, <3>4 DEF FinishFrees, At
    <3>5. QED
      BY <3>3, <3>4
  <2>5. QED
    BY <2>3, <2>4
<1>12. \A g \in Handler : Fresh(calls[g])'
  <2>1. Fresh(calls[h])'
    BY <1>2, <1>3 DEF Fresh, ReadOK, MineOK, ClaimOK
  <2>2. ASSUME NEW g \in Handler \ {h} PROVE Fresh(calls[g])'
    <3>1. calls'[g] = calls[g] /\ Fresh(calls[g])
      BY <1>3
    <3>2. CASE Working(g)
      <4>1. calls[g].task # c.task /\ calls[g].task \in Task
        BY <1>8, <3>2 DEF Working, CallInv, CallShape
      <4>2. QED
        BY <1>6, <3>1, <4>1 DEF Fresh, ReadOK, MineOK, ClaimOK
    <3>3. CASE ~Working(g)
      BY <3>1, <3>3 DEF Fresh, ReadOK, MineOK, ClaimOK, Working
    <3>4. QED
      BY <3>2, <3>3
  <2>3. QED
    BY <2>1, <2>2
<1>13. QED
  BY <1>9, <1>10, <1>11, <1>12

(* A step that leaves the table and the answers alone. *)
LEMMA QuietApart ==
  ASSUME ApartInv, BoardInv', TasksApart', NEW h \in Handler,
         UNCHANGED <<tasks, alive, leased, told>>, ~At(h, "release"), Fresh(calls[h])',
         \A g \in Handler \ {h} : calls'[g] = calls[g]
  PROVE  ApartInv'
<1> USE DEF ApartInv, BoardInv
<1>1. ToldInv' /\ FilesInv'
  BY DEF ToldInv, FilesInv
<1>2. FinishFrees'
  BY DEF FinishFrees, At
<1>3. \A g \in Handler : Fresh(calls[g])'
  BY OthersFresh
<1>4. QED
  BY <1>1, <1>2, <1>3

LEMMA ReleaseApart ==
  ASSUME ApartInv, BoardInv', TasksApart', NEW h \in Handler, ReleaseClaims(h) PROVE ApartInv'
<1> USE DEF ApartInv, BoardInv
<1> DEFINE c == calls[h]
<1>1. /\ At(h, "release") /\ leased' = leased \ {c.task} /\ Goto(h, "answer")
      /\ UNCHANGED <<tasks, deps, alive, told>>
  BY DEF ReleaseClaims
<1>2. /\ calls'[h].pc = "answer"
      /\ \A f \in {"task", "by", "force", "patch", "row"} : calls'[h][f] = c[f]
      /\ \A g \in Handler \ {h} : calls'[g] = calls[g]
  BY <1>1, CallsGoto DEF CallPC
<1>3. ToldInv' /\ FilesInv'
  BY <1>1 DEF ToldInv, FilesInv
<1>4. FinishFrees'
  BY <1>1, <1>2 DEF FinishFrees, At
<1>5. Fresh(calls[h])'
  BY <1>2 DEF Fresh, ReadOK, MineOK, ClaimOK
<1>6. \A g \in Handler : Fresh(calls[g])'
  BY <1>1, <1>2, <1>5, OthersFresh
<1>7. QED
  BY <1>3, <1>4, <1>6

(* An agent is told while no other call works on the task. *)
LEMMA AnswerApart ==
  ASSUME ApartInv, BoardInv', TasksApart', NEW h \in Handler, AnswerTask(h) PROVE ApartInv'
<1> USE DEF ApartInv, BoardInv
<1> DEFINE c == calls[h]
<1>1. At(h, "answer") /\ Answer(h) /\ UNCHANGED <<tasks, deps, alive, leased>>
  BY DEF AnswerTask
<1>2. \/ told' = told
      \/ /\ c.by \in alive /\ tasks[c.task].assignee = c.by
         /\ told' = [told EXCEPT ![c.task] = @ \cup {c.by}]
  BY DEF AnswerTask
<1>3. calls'[h] = NoCall /\ \A g \in Handler \ {h} : calls'[g] = calls[g]
  BY <1>1, CallsAnswer
<1>4. \A t \in Task : t # c.task => told'[t] = told[t]
  BY <1>2 DEF TypeOK
<1>5. ToldInv'
  BY <1>1, <1>2 DEF ToldInv, TypeOK
<1>6. FilesInv' /\ FinishFrees'
  BY <1>1, <1>3 DEF FilesInv, FinishFrees, At
<1>7. ASSUME NEW g \in Handler PROVE Fresh(calls[g])'
  <2>1. CASE g = h
    BY <1>3, <2>1, NoCallFresh DEF NoCall, Fresh, ReadOK, MineOK, ClaimOK
  <2>2. CASE g # h
    <3>1. calls'[g] = calls[g] /\ Fresh(calls[g])
      BY <1>3, <2>2
    <3>2. Working(g) => calls[g].task # c.task /\ calls[g].task \in Task
      BY <1>1, <2>2 DEF TasksApart, Working, At, CallInv, CallShape
    <3>3. QED
      BY <1>1, <1>4, <3>1, <3>2 DEF Fresh, ReadOK, MineOK, ClaimOK, Working
  <2>3. QED
    BY <2>1, <2>2
<1>8. QED
  BY <1>5, <1>6, <1>7

LEMMA ServeApart ==
  ASSUME ApartInv, BoardInv', TasksApart', NEW h \in Handler, Serve(h) PROVE ApartInv'
<1> USE DEF ApartInv, BoardInv
<1> DEFINE c == calls[h]
<1>1. c \in CallType /\ Fresh(c) /\ CallShape(c)
  BY DEF TypeOK, CallInv
<1>2. ASSUME Answer(h), UNCHANGED <<tasks, alive, leased, told>>, ~At(h, "release")
      PROVE  ApartInv'
  <2>1. calls'[h] = NoCall /\ \A g \in Handler \ {h} : calls'[g] = calls[g]
    BY <1>2, CallsAnswer
  <2>2. Fresh(calls[h])'
    BY <2>1, NoCallFresh DEF NoCall, Fresh, ReadOK, MineOK, ClaimOK
  <2>3. QED
    BY <1>2, <2>1, <2>2, QuietApart
<1>3. CASE CheckAssignee(h)
  <2>1. /\ At(h, "assignee") /\ UNCHANGED <<tasks, deps, alive, leased, told>>
        /\ IF c.row.assignee \in alive THEN Answer(h) ELSE Goto(h, "read")
    BY <1>3 DEF CheckAssignee
  <2>2. CASE Answer(h)
    BY <1>2, <2>1, <2>2 DEF At
  <2>3. CASE c.row.assignee \notin alive /\ Goto(h, "read")
    <3>1. /\ calls'[h].pc = "read"
          /\ \A f \in {"task", "by", "force", "patch", "row"} : calls'[h][f] = c[f]
          /\ \A g \in Handler \ {h} : calls'[g] = calls[g]
      BY <2>3, CallsGoto DEF CallPC
    <3>2. c.task \in Task /\ (c.row = tasks[c.task] \/ tasks[c.task] = Deleted)
      BY <1>1, <2>1 DEF At, CallShape, Fresh, ReadOK
    <3>3. told[c.task] = {}
      BY <2>3, <3>2, ToldLive DEF ToldInv, Exists
    <3>4. Fresh(calls[h])'
      BY <1>1, <2>1, <3>1, <3>3 DEF At, Fresh, ReadOK, MineOK, ClaimOK
    <3>5. QED
      BY <2>1, <3>1, <3>4, QuietApart DEF At
  <2>4. QED
    BY <2>1, <2>2, <2>3
<1>4. CASE ReadTask(h)
  <2>1. /\ At(h, "read") /\ UNCHANGED <<tasks, deps, alive, leased, told>>
        /\ IF Exists(c.task) THEN calls' = [calls EXCEPT ![h].pc = "write", ![h].row = tasks[c.task]]
                             ELSE Answer(h)
    BY <1>4 DEF ReadTask
  <2>2. CASE Answer(h)
    BY <1>2, <2>1, <2>2 DEF At
  <2>3. CASE calls' = [calls EXCEPT ![h].pc = "write", ![h].row = tasks[c.task]]
    <3>1. /\ calls'[h].pc = "write" /\ calls'[h].row = tasks[c.task]
          /\ \A f \in {"task", "by", "force", "patch"} : calls'[h][f] = c[f]
          /\ \A g \in Handler \ {h} : calls'[g] = calls[g]
      BY <1>1, <2>3 DEF TypeOK, CallType
    <3>2. Fresh(calls[h])'
      BY <1>1, <2>1, <3>1 DEF At, Fresh, ReadOK, MineOK, ClaimOK
    <3>3. QED
      BY <2>1, <3>1, <3>2, QuietApart DEF At
  <2>4. QED
    BY <2>1, <2>2, <2>3
<1>5. CASE Visit(h)
  <2>1. At(h, "search") /\ UNCHANGED <<tasks, deps, alive, leased, told>>
    BY <1>5 DEF Visit
  <2>2. PICK cur \in c.ahead :
          Answer(h) \/ calls' = [calls EXCEPT ![h].seen = @ \cup {cur}, ![h].ahead = Ahead(c, cur)]
    BY <1>5 DEF Visit
  <2>3. CASE Answer(h)
    BY <1>2, <2>1, <2>3 DEF At
  <2>4. CASE calls' = [calls EXCEPT ![h].seen = @ \cup {cur}, ![h].ahead = Ahead(c, cur)]
    <3>1. /\ \A f \in {"pc", "task", "by", "force", "patch", "row"} : calls'[h][f] = c[f]
          /\ \A g \in Handler \ {h} : calls'[g] = calls[g]
      BY <1>1, <2>4 DEF TypeOK, CallType
    <3>2. Fresh(calls[h])'
      BY <1>1, <2>1, <3>1 DEF At, Fresh, ReadOK, MineOK, ClaimOK
    <3>3. QED
      BY <2>1, <3>1, <3>2, QuietApart DEF At
  <2>5. QED
    BY <2>2, <2>3, <2>4
<1>6. CASE SearchDone(h)
  <2>1. At(h, "search") /\ Goto(h, "link") /\ UNCHANGED <<tasks, deps, alive, leased, told>>
    BY <1>6 DEF SearchDone
  <2>2. /\ calls'[h].pc = "link"
        /\ \A f \in {"task", "by", "force", "patch", "row"} : calls'[h][f] = c[f]
        /\ \A g \in Handler \ {h} : calls'[g] = calls[g]
    BY <2>1, CallsGoto DEF CallPC
  <2>3. Fresh(calls[h])'
    BY <1>1, <2>1, <2>2 DEF At, Fresh, ReadOK, MineOK, ClaimOK
  <2>4. QED
    BY <2>1, <2>2, <2>3, QuietApart DEF At
<1>7. CASE Link(h)
  BY <1>2, <1>7 DEF Link, At
<1>8. QED
  BY <1>3, <1>4, <1>5, <1>6, <1>7, WriteApart, ReleaseApart, AnswerApart DEF Serve

LEMMA StatementApart ==
  ASSUME ApartInv, BoardInv', TasksApart', Statement PROVE ApartInv'
<1> USE DEF ApartInv, BoardInv
<1>1. ASSUME NEW t \in Task, NEW s \in Opening, NEW a \in Agent \cup {Nobody},
             NEW D \in SUBSET Task, CreateTask(t, s, a, D)
      PROVE  ApartInv'
  <2> DEFINE r == [status |-> s, assignee |-> a]
  <2>1. /\ tasks[t] = Unborn /\ tasks' = [tasks EXCEPT ![t] = r]
        /\ UNCHANGED <<alive, leased, calls, told>>
    BY <1>1 DEF CreateTask
  <2>2. r \in Row
    BY StatusAssumption DEF Row
  <2> HIDE DEF r
  <2>3. tasks'[t] = r /\ \A u \in Task : u # t => tasks'[u] = tasks[u]
    BY <2>1 DEF TypeOK
  <2>4. told[t] = {} /\ t \notin leased
    BY <2>1, ToldLive DEF FilesInv, Exists
  <2>5. ToldInv'
    BY <2>1, <2>3, <2>4 DEF ToldInv
  <2>6. FilesInv' /\ FinishFrees'
    <3>1. leased \subseteq Task
      BY DEF TypeOK
    <3>2. QED
      BY <2>1, <2>3, <2>4, <3>1 DEF FilesInv, FinishFrees, At
  <2>7. ASSUME NEW h \in Handler PROVE Fresh(calls[h])'
    <3>1. calls'[h] = calls[h] /\ Fresh(calls[h]) /\ CallShape(calls[h])
      BY <2>1 DEF CallInv
    <3>2. calls[h].pc \in {"assignee", "write"} => calls[h].task \in Task /\ calls[h].task # t
      BY <2>1, <3>1 DEF CallShape
    <3>3. QED
      BY <2>1, <2>3, <3>1, <3>2 DEF Fresh, ReadOK, MineOK, ClaimOK
  <2>8. QED
    BY <2>5, <2>6, <2>7
<1>2. ASSUME NEW t \in Task, DeleteTask(t) PROVE ApartInv'
  <2>1. /\ tasks' = [tasks EXCEPT ![t] = Deleted] /\ told' = [told EXCEPT ![t] = {}]
        /\ UNCHANGED <<alive, leased, calls>>
    BY <1>2 DEF DeleteTask
  <2>2. /\ tasks'[t] = Deleted /\ told'[t] = {}
        /\ \A u \in Task : u # t => tasks'[u] = tasks[u] /\ told'[u] = told[u]
    BY <2>1 DEF TypeOK
  <2>3. ToldInv'
    BY <2>1, <2>2 DEF ToldInv
  <2>4. FilesInv' /\ FinishFrees'
    <3>1. leased \subseteq Task /\ Deleted # Unborn
      BY DEF TypeOK, Deleted, Unborn
    <3>2. QED
      BY <2>1, <2>2, <3>1, NotClosed DEF FilesInv, FinishFrees, At
  <2>5. ASSUME NEW h \in Handler PROVE Fresh(calls[h])'
    <3>1. calls'[h] = calls[h] /\ Fresh(calls[h]) /\ CallShape(calls[h])
      BY <2>1 DEF CallInv
    <3>2. calls[h].pc # "idle" => calls[h].task \in Task
      BY <3>1 DEF CallShape
    <3>3. QED
      BY <2>2, <3>1, <3>2 DEF Fresh, ReadOK, MineOK, ClaimOK
  <2>6. QED
    BY <2>3, <2>4, <2>5
<1> DEFINE Files == \A t \in leased' : t \in leased \/ (Exists(t) /\ tasks[t].status \notin Closed)
<1>3. ASSUME UNCHANGED <<tasks, alive, calls, told>>, Files PROVE ApartInv'
  <2>1. ToldInv' /\ FilesInv'
    BY <1>3 DEF ToldInv, FilesInv, Exists
  <2>2. FinishFrees'
    BY <1>3 DEF FinishFrees, At
  <2>3. \A h \in Handler : Fresh(calls[h])'
    BY <1>3 DEF Fresh, ReadOK, MineOK, ClaimOK
  <2>4. QED
    BY <2>1, <2>2, <2>3
<1>4. ASSUME NEW t \in Task, \/ \E d \in Task : RemoveDep(t, d)
                             \/ \E a \in Agent : ClaimFilesFor(a, t)
                             \/ FilesFree(t)
      PROVE  ApartInv'
  <2>1. UNCHANGED <<tasks, alive, calls, told>>
    BY <1>4 DEF RemoveDep, ClaimFilesFor, FilesFree
  <2>2. Files
    BY <1>4 DEF RemoveDep, ClaimFilesFor, FilesFree
  <2>3. QED
    BY <1>3, <2>1, <2>2
<1>5. QED
  BY <1>1, <1>2, <1>4 DEF Statement

LEMMA ApartStep ==
  ASSUME ApartInv, [Next /\ TasksApart']_vars PROVE ApartInv'
<1> USE DEF ApartInv, BoardInv
<1>1. BoardInv' /\ TasksApart'
  <2>1. CASE UNCHANGED vars
    BY <2>1, BoardStep DEF vars, TasksApart, Working
  <2>2. QED
    BY <2>1, BoardStep
<1>2. ASSUME NEW a \in Agent, AgentDies(a) \/ AgentBeats(a) PROVE ApartInv'
  <2>1. UNCHANGED <<tasks, leased, calls>> /\ \A t \in Task : told'[t] \subseteq told[t]
    BY <1>2 DEF AgentDies, AgentBeats
  <2>2. ToldInv'
    <3>1. CASE AgentDies(a)
      BY <2>1, <3>1 DEF AgentDies, ToldInv
    <3>2. CASE AgentBeats(a)
      BY <2>1, <3>2 DEF AgentBeats, ToldInv
    <3>3. QED
      BY <1>2, <3>1, <3>2
  <2>3. FilesInv' /\ FinishFrees'
    BY <2>1 DEF FilesInv, FinishFrees, At
  <2>4. \A h \in Handler : Fresh(calls[h])'
    BY <2>1, OthersFresh
  <2>5. QED
    BY <1>1, <2>2, <2>3, <2>4
<1>3. CASE Restart
  <2>1. /\ calls' = [h \in Handler |-> NoCall]
        /\ leased' = leased \ {calls[h].task : h \in {g \in Handler : At(g, "release")}}
        /\ UNCHANGED <<tasks, deps, alive, told>>
    BY <1>3 DEF Restart
  <2>2. ToldInv' /\ FilesInv'
    BY <2>1 DEF ToldInv, FilesInv
  <2>3. FinishFrees'
    BY <2>1 DEF FinishFrees
  <2>4. \A h \in Handler : Fresh(calls[h])'
    BY <2>1, NoCallFresh DEF NoCall, Fresh, ReadOK, MineOK, ClaimOK
  <2>5. QED
    BY <1>1, <2>2, <2>3, <2>4
<1>4. CASE UNCHANGED vars
  <2>1. UNCHANGED <<tasks, deps, alive, leased, calls, told>>
    BY <1>4 DEF vars
  <2>2. ToldInv' /\ FilesInv' /\ FinishFrees'
    BY <2>1 DEF ToldInv, FilesInv, FinishFrees, At
  <2>3. \A h \in Handler : Fresh(calls[h])'
    BY <2>1 DEF Fresh, ReadOK, MineOK, ClaimOK
  <2>4. QED
    BY <1>1, <2>2, <2>3
<1>5. QED
  BY <1>1, <1>2, <1>3, <1>4, RequestApart, ServeApart, StatementApart DEF Next

(* Types, and who was told what, while calls on one task do not overlap.   *)
THEOREM ApartCorrect == SpecTasksApart => []ApartInv
BY ApartInit, ApartStep, PTL DEF SpecTasksApart

(* No two live agents believe that a task is theirs, as long as the calls  *)
(* that change it follow each other.                                       *)
THEOREM ClaimCorrect == SpecTasksApart => []ClaimExclusive
<1>1. ApartInv => ClaimExclusive
  BY DEF ApartInv, ToldInv, ClaimExclusive
<1>2. QED
  BY <1>1, ApartCorrect, PTL

(* A finished task owes no files but those a handler is about to free, as  *)
(* long as the calls that change it follow each other.                     *)
THEOREM FinishCorrect == SpecTasksApart => []FinishFrees
<1>1. ApartInv => FinishFrees
  BY DEF ApartInv
<1>2. QED
  BY <1>1, ApartCorrect, PTL

(* A patch leaves the columns it does not name as they are, as long as the *)
(* calls that change one task follow each other.                           *)
THEOREM PatchCorrect == SpecTasksApart => NilFieldsUnchanged
<1> DEFINE Kept(h) ==
      LET c == calls[h] IN
      At(h, "write") /\ ~At(h, "write")' /\ Exists(c.task)
        => /\ c.patch.status = Keep => tasks'[c.task].status = tasks[c.task].status
           /\ c.patch.assignee = Keep => tasks'[c.task].assignee = tasks[c.task].assignee
<1>1. ASSUME ApartInv, [Next /\ TasksApart']_vars PROVE [\A h \in Handler : Kept(h)]_vars
  <2> SUFFICES ASSUME Next, NEW h \in Handler, At(h, "write"), ~At(h, "write")',
                      Exists(calls[h].task)
               PROVE  Kept(h)
    BY <1>1
  <2>1. TypeOK /\ Fresh(calls[h]) /\ calls[h].task \in Task
    BY <1>1 DEF ApartInv, BoardInv, CallInv, CallShape, At
  <2>2. CASE tasks' = tasks
    BY <2>2
  <2>3. CASE tasks' # tasks
    <3>1. ~Statement
      <4>1. calls' # calls
        BY DEF At
      <4>2. QED
        BY <4>1 DEF Statement, CreateTask, DeleteTask, RemoveDep, ClaimFilesFor, FilesFree
    <3>2. PICK g \in Handler : Serve(g)
      <4>1. ~Restart /\ \A a \in Agent : ~AgentDies(a) /\ ~AgentBeats(a)
        BY <2>3 DEF Restart, AgentDies, AgentBeats
      <4>2. \A g \in Handler : ~Request(g)
        BY <2>3 DEF Request, CallUpdateTask, CallClaimTask, CallAddDep
      <4>3. QED
        BY <3>1, <4>1, <4>2 DEF Next
    <3>3. WriteTask(g)
      BY <2>3, <3>2 DEF Serve, CheckAssignee, ReadTask, ReleaseClaims, AnswerTask, Visit,
         SearchDone, Link
    <3>4. g = h
      BY <2>1, <3>3, CallsGoto DEF WriteTask, At, CallPC
    <3>5. tasks' = [tasks EXCEPT ![calls[h].task] = Patched(calls[h].row, calls[h].patch)]
      BY <3>3, <3>4 DEF WriteTask
    <3>6. calls[h].row = tasks[calls[h].task]
      BY <2>1 DEF At, Fresh, ReadOK, Exists
    <3>7. tasks'[calls[h].task] = Patched(tasks[calls[h].task], calls[h].patch)
      BY <2>1, <3>5, <3>6 DEF TypeOK
    <3>8. QED
      BY <3>7 DEF Patched
  <2>4. QED
    BY <2>2, <2>3
<1>2. QED
  BY <1>1, ApartCorrect, PTL DEF SpecTasksApart, NilFieldsUnchanged
-----------------------------------------------------------------------------
(***************************************************************************)
(* What holds when calls of AddDep do not overlap, whatever else does.     *)
(* The tasks a search has seen lead nowhere but to tasks it has seen or    *)
(* has ahead, so a set that the new edge closes to a cycle had a cycle     *)
(* among the seen ones before.                                             *)
(***************************************************************************)
Searched(c) ==
  c.pc \in {"search", "link"} =>
    /\ c.task \notin c.seen
    /\ c.on \in c.seen \cup c.ahead
    /\ \A x \in c.seen : DependsOn(x) \subseteq c.seen \cup c.ahead
    /\ \A x \in c.seen \cup c.ahead : tasks[x] # Unborn
    /\ c.pc = "link" => c.ahead = {}

LinkInv == BoardInv /\ LinksApart /\ Acyclic /\ \A h \in Handler : Searched(calls[h])

LEMMA LinkInit == Init => LinkInv
<1> SUFFICES ASSUME Init PROVE LinkInv
  OBVIOUS
<1>1. BoardInv
  BY BoardInit
<1>2. LinksApart /\ \A h \in Handler : Searched(calls[h])
  BY DEF Init, LinksApart, Linking, NoCall, Searched
<1>3. Acyclic
  <2>1. \A t \in Task : DependsOn(t) = {}
    BY DEF Init, DependsOn
  <2>2. SUFFICES ASSUME NEW S \in SUBSET Task, S # {}, \A t \in S : DependsOn(t) \cap S # {}
                 PROVE  FALSE
    BY DEF Acyclic
  <2>3. QED
    BY <2>1, <2>2
<1>4. QED
  BY <1>1, <1>2, <1>3 DEF LinkInv

(* Fewer edges close no cycle. *)
LEMMA FewerEdges ==
  ASSUME Acyclic, deps' \subseteq deps PROVE Acyclic'
<1> SUFFICES ASSUME NEW S \in SUBSET Task, S # {}, \A t \in S : DependsOn(t)' \cap S # {}
             PROVE  FALSE
  BY DEF Acyclic
<1>1. \A t \in S : DependsOn(t)' \subseteq DependsOn(t)
  BY DEF DependsOn
<1>2. QED
  BY <1>1 DEF Acyclic

(* The edges of a task that is created lead to tasks that were there, and  *)
(* none leads to it.                                                       *)
LEMMA NewTaskEdges ==
  ASSUME Acyclic, EdgesExist, NEW t \in Task, tasks[t] = Unborn, NEW D \in SUBSET Live,
         deps' = deps \cup {<<t, d>> : d \in D}
  PROVE  Acyclic'
<1> SUFFICES ASSUME NEW S \in SUBSET Task, S # {}, \A x \in S : DependsOn(x)' \cap S # {}
             PROVE  FALSE
  BY DEF Acyclic
<1>1. t \notin Live
  BY DEF Live, Exists
<1>2. \A x \in Task : DependsOn(x)' \subseteq Live
  BY DEF DependsOn, EdgesExist, Live
<1>3. \A x \in S \ {t} : DependsOn(x)' = DependsOn(x)
  BY DEF DependsOn
<1> DEFINE R == S \ {t}
<1>4. \A x \in R : DependsOn(x) \cap R # {}
  BY <1>1, <1>2, <1>3
<1>5. R # {}
  BY <1>1, <1>2
<1>6. QED
  BY <1>4, <1>5 DEF Acyclic

(* The edge that AddDep writes. *)
LEMMA NewEdge ==
  ASSUME Acyclic, NEW c, c.task \in Task, c.on \in Task, Searched(c), c.pc = "link",
         deps' = deps \cup {<<c.task, c.on>>}
  PROVE  Acyclic'
<1> SUFFICES ASSUME NEW S \in SUBSET Task, S # {}, \A x \in S : DependsOn(x)' \cap S # {}
             PROVE  FALSE
  BY DEF Acyclic
<1>1. /\ \A x \in Task \ {c.task} : DependsOn(x)' = DependsOn(x)
      /\ DependsOn(c.task)' \subseteq DependsOn(c.task) \cup {c.on}
  BY DEF DependsOn
<1>2. c.task \in S /\ c.on \in S
  <2>1. PICK x \in S : DependsOn(x) \cap S = {}
    BY DEF Acyclic
  <2>2. x = c.task
    BY <1>1, <2>1
  <2>3. QED
    BY <1>1, <2>1, <2>2
<1>3. c.on \in c.seen /\ c.task \notin c.seen /\ \A x \in c.seen : DependsOn(x) \subseteq c.seen
  BY DEF Searched
<1> DEFINE R == S \cap c.seen
<1>4. \A x \in R : DependsOn(x) \cap R # {}
  BY <1>1, <1>3
<1>5. R # {} /\ R \in SUBSET Task
  BY <1>2, <1>3
<1>6. QED
  BY <1>4, <1>5 DEF Acyclic

(* What a search knows is not disturbed by a step that adds no edge to a   *)
(* task that was there.                                                    *)
LEMMA SearchKept ==
  ASSUME CallInv, TypeOK, NEW g \in Handler, Searched(calls[g]), calls'[g] = calls[g],
         \A t \in Task : tasks[t] # Unborn => tasks'[t] # Unborn,
         \A t \in Task : tasks[t] # Unborn => DependsOn(t)' \subseteq DependsOn(t)
  PROVE  Searched(calls[g])'
<1>1. calls[g].seen \subseteq Task /\ calls[g].ahead \subseteq Task
  BY DEF TypeOK, CallType
<1>2. QED
  BY <1>1 DEF Searched

LEMMA LinkStepOne ==
  ASSUME LinkInv, LinksApart', BoardInv', NEW h \in Handler, Request(h) \/ Serve(h) PROVE LinkInv'
<1> USE DEF LinkInv, BoardInv
<1> DEFINE c == calls[h]
<1>1. c \in CallType /\ Searched(c) /\ CallShape(c)
  BY DEF TypeOK, CallInv
<1>2. ASSUME UNCHANGED deps, \A t \in Task : tasks[t] # Unborn => tasks'[t] # Unborn,
             Searched(calls[h])', \A g \in Handler \ {h} : calls'[g] = calls[g]
      PROVE  LinkInv'
  <2>1. \A t \in Task : DependsOn(t)' \subseteq DependsOn(t)
    BY <1>2 DEF DependsOn
  <2>2. Acyclic'
    BY <1>2, FewerEdges
  <2>3. \A g \in Handler : Searched(calls[g])'
    BY <1>2, <2>1, SearchKept
  <2>4. QED
    BY <2>2, <2>3
<1>3. ASSUME UNCHANGED <<tasks, deps>>, Answer(h) PROVE LinkInv'
  BY <1>2, <1>3, CallsAnswer DEF NoCall, Searched
<1>4. ASSUME UNCHANGED deps, \A t \in Task : tasks[t] # Unborn => tasks'[t] # Unborn,
             NEW pc \in CallPC \ {"search", "link"}, Goto(h, pc) PROVE LinkInv'
  BY <1>2, <1>4, CallsGoto DEF Searched
<1>5. CASE Request(h)
  <2>1. UNCHANGED <<tasks, deps>>
    BY <1>5 DEF Request, CallUpdateTask, CallClaimTask, CallAddDep
  <2>3. ASSUME NEW t \in Task, NEW d \in Task, CallAddDep(h, t, d) PROVE LinkInv'
    <3> DEFINE e == [NoCall EXCEPT !.pc = "search", !.task = t, !.on = d, !.ahead = {d}]
    <3>1. calls' = [calls EXCEPT ![h] = e] /\ Exists(d)
      BY <2>3 DEF CallAddDep, Start
    <3>2. e.pc = "search" /\ e.task = t /\ e.on = d /\ e.ahead = {d} /\ e.seen = {}
      BY DEF NoCall
    <3> HIDE DEF e
    <3>3. calls'[h] = e /\ \A g \in Handler \ {h} : calls'[g] = calls[g]
      BY <3>1 DEF TypeOK
    <3>4. Searched(calls[h])'
      BY <2>1, <3>1, <3>2, <3>3 DEF Searched, Exists
    <3>5. QED
      BY <1>2, <2>1, <3>3, <3>4
  <2>4. ASSUME NEW e, calls' = [calls EXCEPT ![h] = e], e.pc \notin {"search", "link"}
        PROVE  LinkInv'
    BY <1>2, <2>1, <2>4 DEF TypeOK, Searched
  <2>5. ASSUME NEW t \in Task, NEW p \in Patch, CallUpdateTask(h, t, p) PROVE LinkInv'
    BY <2>4, <2>5 DEF CallUpdateTask, Start, NoCall
  <2>6. ASSUME NEW t \in Task, NEW a \in Agent, NEW force \in BOOLEAN, CallClaimTask(h, t, a, force)
        PROVE  LinkInv'
    <3> DEFINE row == tasks[t]
               taken == ~force /\ row.assignee \notin {Nobody, a}
               patch == [status   |-> IF row.status = "todo" THEN "in_progress" ELSE Keep,
                         assignee |-> a]
               e == [NoCall EXCEPT !.pc = IF taken THEN "assignee" ELSE "read", !.task = t,
                                   !.by = a, !.force = force, !.patch = patch, !.row = row]
    <3>1. calls' = [calls EXCEPT ![h] = e]
      BY <2>6 DEF CallClaimTask, Start
    <3>2. e.pc \in {"assignee", "read"}
      BY DEF NoCall
    <3> HIDE DEF e
    <3>3. QED
      BY <2>4, <3>1, <3>2
  <2>7. QED
    BY <1>5, <2>3, <2>5, <2>6 DEF Request
<1>6. CASE CheckAssignee(h)
  BY <1>3, <1>4, <1>6 DEF CheckAssignee, CallPC
<1>7. CASE ReadTask(h)
  <2>1. CASE Answer(h)
    BY <1>3, <1>7, <2>1 DEF ReadTask
  <2>2. CASE calls' = [calls EXCEPT ![h].pc = "write", ![h].row = tasks[c.task]]
    <3>1. calls'[h].pc = "write" /\ \A g \in Handler \ {h} : calls'[g] = calls[g]
      BY <1>1, <2>2 DEF TypeOK, CallType
    <3>2. QED
      BY <1>2, <1>7, <3>1 DEF ReadTask, Searched
  <2>3. QED
    BY <1>7, <2>1, <2>2 DEF ReadTask
<1>8. CASE WriteTask(h)
  <2> DEFINE new == Patched(c.row, c.patch)
  <2>1. /\ tasks' = IF Exists(c.task) THEN [tasks EXCEPT ![c.task] = new] ELSE tasks
        /\ Goto(h, "release") \/ Goto(h, "answer")
        /\ UNCHANGED deps
    BY <1>8 DEF WriteTask
  <2>2. new \in Row
    BY <1>1, <1>8, PatchedTyped DEF WriteTask, At, CallShape, CallType
  <2> HIDE DEF new
  <2>3. \A t \in Task : tasks[t] # Unborn => tasks'[t] # Unborn
    BY <2>1, <2>2, RowIsLive DEF TypeOK
  <2>4. QED
    BY <1>4, <2>1, <2>3 DEF CallPC
<1>9. CASE ReleaseClaims(h)
  BY <1>4, <1>9 DEF ReleaseClaims, CallPC
<1>10. CASE AnswerTask(h)
  BY <1>3, <1>10 DEF AnswerTask
<1>11. CASE Visit(h)
  <2>1. At(h, "search") /\ UNCHANGED <<tasks, deps>>
    BY <1>11 DEF Visit
  <2>2. PICK cur \in c.ahead :
          IF cur = c.task THEN Answer(h)
          ELSE calls' = [calls EXCEPT ![h].seen = @ \cup {cur}, ![h].ahead = Ahead(c, cur)]
    BY <1>11 DEF Visit
  <2>3. CASE cur = c.task
    BY <1>3, <2>1, <2>2, <2>3
  <2>4. CASE cur # c.task
    <3>1. /\ calls'[h].seen = c.seen \cup {cur} /\ calls'[h].ahead = Ahead(c, cur)
          /\ \A f \in {"pc", "task", "on"} : calls'[h][f] = c[f]
          /\ \A g \in Handler \ {h} : calls'[g] = calls[g]
      BY <1>1, <2>2, <2>4 DEF TypeOK, CallType
    <3>2. c.seen \cup {cur} \cup Ahead(c, cur) = c.seen \cup c.ahead \cup DependsOn(cur)
      BY DEF Ahead
    <3>3. \A x \in DependsOn(cur) : tasks[x] # Unborn
      BY DEF DependsOn, EdgesExist, Live, Exists
    <3>4. Searched(calls[h])'
      <4>1. /\ c.pc = "search" /\ c.task \notin c.seen /\ c.on \in c.seen \cup c.ahead
            /\ \A x \in c.seen : DependsOn(x) \subseteq c.seen \cup c.ahead
            /\ \A x \in c.seen \cup c.ahead : tasks[x] # Unborn
        BY <1>1, <2>1 DEF At, Searched
      <4>2. \A x \in c.seen \cup {cur} : DependsOn(x) \subseteq c.seen \cup {cur} \cup Ahead(c, cur)
        BY <3>2, <4>1
      <4>3. \A x : DependsOn(x)' = DependsOn(x)
        BY <2>1 DEF DependsOn
      <4> DEFINE d == calls'[h]
      <4>4. /\ d.pc = "search" /\ d.task \notin d.seen /\ d.on \in d.seen \cup d.ahead
            /\ \A x \in d.seen : DependsOn(x) \subseteq d.seen \cup d.ahead
            /\ \A x \in d.seen \cup d.ahead : tasks[x] # Unborn
        BY <2>4, <3>1, <3>2, <3>3, <4>1, <4>2
      <4>5. QED
        BY <2>1, <4>3, <4>4 DEF Searched
    <3>5. QED
      BY <1>2, <2>1, <3>1, <3>4
  <2>5. QED
    BY <2>3, <2>4
<1>12. CASE SearchDone(h)
  <2>1. At(h, "search") /\ c.ahead = {} /\ Goto(h, "link") /\ UNCHANGED <<tasks, deps>>
    BY <1>12 DEF SearchDone
  <2>2. /\ \A f \in {"task", "ahead", "seen", "on"} : calls'[h][f] = c[f]
        /\ \A g \in Handler \ {h} : calls'[g] = calls[g]
    BY <2>1, CallsGoto DEF CallPC
  <2>3. Searched(calls[h])'
    BY <1>1, <2>1, <2>2 DEF At, Searched, DependsOn
  <2>4. QED
    BY <1>2, <2>1, <2>2, <2>3
<1>13. CASE Link(h)
  <2>1. At(h, "link") /\ Answer(h) /\ UNCHANGED tasks
    BY <1>13 DEF Link
  <2>2. CASE deps' = deps
    BY <1>3, <2>1, <2>2
  <2>3. CASE deps' = deps \cup {<<c.task, c.on>>}
    <3>1. c.pc = "link" /\ c.task \in Task /\ c.on \in Task
      BY <1>1, <2>1 DEF At, CallShape
    <3>2. Acyclic'
      BY <1>1, <2>3, <3>1, NewEdge
    <3>3. \A g \in Handler : Searched(calls[g])'
      <4>1. calls'[h] = NoCall /\ \A g \in Handler \ {h} : calls'[g] = calls[g]
        BY <2>1, CallsAnswer
      <4>2. \A g \in Handler \ {h} : ~Linking(g)
        BY <3>1 DEF LinksApart, Linking
      <4>3. QED
        BY <4>1, <4>2 DEF Searched, NoCall, Linking
    <3>4. QED
      BY <3>2, <3>3
  <2>4. QED
    BY <1>13, <2>2, <2>3 DEF Link
<1>14. QED
  BY <1>5, <1>6, <1>7, <1>8, <1>9, <1>10, <1>11, <1>12, <1>13 DEF Serve

LEMMA LinkStep ==
  ASSUME LinkInv, [Next /\ LinksApart']_vars PROVE LinkInv'
<1> USE DEF LinkInv, BoardInv
<1>1. BoardInv' /\ LinksApart'
  <2>1. CASE UNCHANGED vars
    BY <2>1, BoardStep DEF vars, LinksApart, Linking
  <2>2. QED
    BY <2>1, BoardStep
<1>2. ASSUME deps' \subseteq deps, \A t \in Task : tasks[t] # Unborn => tasks'[t] # Unborn,
             calls' = calls
      PROVE  LinkInv'
  <2>1. \A t \in Task : DependsOn(t)' \subseteq DependsOn(t)
    BY <1>2 DEF DependsOn
  <2>2. QED
    BY <1>1, <1>2, <2>1, FewerEdges, SearchKept
<1>3. ASSUME NEW t \in Task, NEW s \in Opening, NEW a \in Agent \cup {Nobody},
             NEW D \in SUBSET Task, CreateTask(t, s, a, D)
      PROVE  LinkInv'
  <2> DEFINE r == [status |-> s, assignee |-> a]
  <2>1. /\ tasks[t] = Unborn /\ D \subseteq Live /\ tasks' = [tasks EXCEPT ![t] = r]
        /\ deps' = deps \cup {<<t, d>> : d \in D} /\ calls' = calls
    BY <1>3 DEF CreateTask
  <2> HIDE DEF r
  <2>2. Acyclic'
    BY <2>1, NewTaskEdges
  <2>3. \A x \in Task : tasks[x] # Unborn => x # t /\ DependsOn(x)' = DependsOn(x)
    BY <2>1 DEF DependsOn
  <2>4. \A x \in Task : tasks[x] # Unborn => tasks'[x] # Unborn
    BY <2>1, <2>3 DEF TypeOK
  <2>5. \A h \in Handler : Searched(calls[h])'
    BY <2>1, <2>3, <2>4, SearchKept
  <2>6. QED
    BY <1>1, <2>2, <2>5
<1>4. CASE Statement
  <2>1. ASSUME NEW t \in Task, DeleteTask(t) PROVE LinkInv'
    <3>1. deps' \subseteq deps /\ calls' = calls /\ tasks' = [tasks EXCEPT ![t] = Deleted]
      BY <2>1 DEF DeleteTask
    <3>2. \A x \in Task : tasks[x] # Unborn => tasks'[x] # Unborn
      BY <3>1 DEF TypeOK, Deleted, Unborn
    <3>3. QED
      BY <1>2, <3>1, <3>2
  <2>2. ASSUME NEW t \in Task, \/ \E d \in Task : RemoveDep(t, d)
                               \/ \E a \in Agent : ClaimFilesFor(a, t)
                               \/ FilesFree(t)
        PROVE  LinkInv'
    <3>1. deps' \subseteq deps /\ calls' = calls /\ tasks' = tasks
      BY <2>2 DEF RemoveDep, ClaimFilesFor, FilesFree
    <3>2. QED
      BY <1>2, <3>1
  <2>3. QED
    BY <1>3, <1>4, <2>1, <2>2 DEF Statement
<1>5. ASSUME NEW a \in Agent, AgentDies(a) \/ AgentBeats(a) PROVE LinkInv'
  BY <1>2, <1>5 DEF AgentDies, AgentBeats
<1>6. CASE Restart
  <2>1. UNCHANGED <<tasks, deps>> /\ calls' = [h \in Handler |-> NoCall]
    BY <1>6 DEF Restart
  <2>2. \A h \in Handler : Searched(calls[h])'
    BY <2>1 DEF NoCall, Searched
  <2>3. QED
    BY <1>1, <2>1, <2>2, FewerEdges
<1>7. CASE UNCHANGED vars
  BY <1>2, <1>7 DEF vars
<1>8. QED
  BY <1>1, <1>4, <1>5, <1>6, <1>7, LinkStepOne DEF Next

(* The graph of the board and what a search knows of it, while calls of    *)
(* AddDep do not overlap.                                                  *)
THEOREM LinkCorrect == SpecLinksApart => []LinkInv
BY LinkInit, LinkStep, PTL DEF SpecLinksApart

(* No tasks wait for each other in a cycle, as long as calls of AddDep do  *)
(* not overlap; creations, deletions and RemoveDep may come at any point   *)
(* of a search.                                                            *)
THEOREM AcyclicCorrect == SpecLinksApart => []Acyclic
<1>1. LinkInv => Acyclic
  BY DEF LinkInv
<1>2. QED
  BY <1>1, LinkCorrect, PTL

(* A daemon that serves one call at a time keeps all the board promises.   *)
THEOREM AloneCorrect ==
  ASSUME \A h, g \in Handler : h = g
  PROVE  Spec => /\ [](ClaimExclusive /\ FinishFrees /\ Acyclic)
                 /\ NilFieldsUnchanged
<1>1. TasksApart' /\ LinksApart'
  BY DEF TasksApart, LinksApart
<1>2. Spec => SpecTasksApart
  BY <1>1, PTL DEF Spec, SpecTasksApart
<1>3. Spec => SpecLinksApart
  BY <1>1, PTL DEF Spec, SpecLinksApart
<1>4. QED
  BY <1>2, <1>3, ClaimCorrect, FinishCorrect, PatchCorrect, AcyclicCorrect, PTL
=============================================================================
