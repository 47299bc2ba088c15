------------------------------- MODULE Tasks -------------------------------
(***************************************************************************)
(* The task board of one project: internal/store/tasks.go.                 *)
(*                                                                         *)
(* Every operation reads with one statement, decides in the handler and    *)
(* writes with another, and UpdateTask writes the whole row it read.  The  *)
(* statements of different handlers interleave freely; none of them is in  *)
(* a transaction but those of CreateTask, which no other statement splits. *)
(* A row is reduced to the two columns the code decides on; a patch of any *)
(* other column keeps both of them.                                        *)
(***************************************************************************)
EXTENDS Naturals

CONSTANTS
  Agent,      \* agent ids
  Task,       \* the ids NewID will hand out
  Handler,    \* goroutines that serve HTTP calls
  Status,     \* the board's columns
  Opening,    \* the columns callers create tasks in
  Patch,      \* the patches callers send
  Nobody,     \* no assignee
  NoTask,     \* a handler at rest works on no task
  Keep        \* a nil field of a patch

Closed == {"done", "cancelled"}

ASSUME StatusAssumption ==
  /\ Status \subseteq {"todo", "in_progress", "blocked", "review"} \cup Closed
  /\ {"todo", "in_progress"} \subseteq Status
  /\ Opening \subseteq Status
ASSUME BoardNames == Nobody \notin Agent /\ NoTask \notin Task /\ Keep \notin Status \cup Agent
ASSUME PatchAssumption ==
  Patch \subseteq [status: Status \cup {Keep}, assignee: Agent \cup {Nobody, Keep}]

VARIABLES
  tasks,      \* the table tasks
  deps,       \* the table task_deps: <<task_id, depends_on_id>>
  alive,      \* agents whose row exists and is not marked dead
  leased,     \* tasks that files were claimed for while they were open
  calls,      \* the call each handler is serving
  told        \* history: agents answered that they have the task

vars == <<tasks, deps, alive, leased, calls, told>>
-----------------------------------------------------------------------------
Row    == [status: Status, assignee: Agent \cup {Nobody}]
Unborn  == [status |-> "unborn", assignee |-> Nobody]
Deleted == [status |-> "deleted", assignee |-> Nobody]

Exists(t) == tasks[t] \notin {Unborn, Deleted}
Live      == {t \in Task : Exists(t)}

(* deps(taskID) *)
DependsOn(t) == {d \in Task : <<t, d>> \in deps}

(* Mutant of Patched: nil fields are written. *)
PatchedWithNil(row, p) == p

(* Mutant of Patched: a task that goes back to the first column loses its  *)
(* assignee.                                                               *)
PatchedUnassigning(row, p) ==
  [status   |-> IF p.status = Keep THEN row.status ELSE p.status,
   assignee |-> IF p.assignee # Keep THEN p.assignee
                ELSE IF p.status = "todo" THEN Nobody ELSE row.assignee]

(* The patch applied to the row that was read: nil fields keep what it had. *)
Patched(row, p) ==
  [status   |-> IF p.status = Keep THEN row.status ELSE p.status,
   assignee |-> IF p.assignee = Keep THEN row.assignee ELSE p.assignee]

NoCall == [pc |-> "idle", task |-> NoTask, by |-> Nobody, force |-> FALSE,
           patch |-> [status |-> Keep, assignee |-> Keep], row |-> Unborn,
           ahead |-> {}, seen |-> {}, on |-> NoTask]

CallPC == {"idle", "assignee", "read", "write", "release", "answer", "search", "link"}

CallType == [pc: CallPC, task: Task \cup {NoTask}, by: Agent \cup {Nobody}, force: BOOLEAN,
             patch: [status: Status \cup {Keep}, assignee: Agent \cup {Nobody, Keep}],
             row: Row \cup {Unborn}, ahead: SUBSET Task, seen: SUBSET Task,
             on: Task \cup {NoTask}]

At(h, pc) == calls[h].pc = pc
Goto(h, pc) == calls' = [calls EXCEPT ![h].pc = pc]
Start(h, c) == At(h, "idle") /\ calls' = [calls EXCEPT ![h] = c]
Answer(h) == calls' = [calls EXCEPT ![h] = NoCall]

Init ==
  /\ tasks = [t \in Task |-> Unborn]
  /\ deps = {}
  /\ alive = {}
  /\ leased = {}
  /\ calls = [h \in Handler |-> NoCall]
  /\ told = [t \in Task |-> {}]
-----------------------------------------------------------------------------
(* CreateTask: the row and its edges in one transaction; an edge to a task *)
(* that does not exist rolls it back.                                      *)
CreateTask(t, s, a, D) ==
  /\ tasks[t] = Unborn
  /\ D \subseteq Live
  /\ tasks' = [tasks EXCEPT ![t] = [status |-> s, assignee |-> a]]
  /\ deps' = deps \cup {<<t, d>> : d \in D}
  /\ UNCHANGED <<alive, leased, calls, told>>

(* DeleteTask: ON DELETE CASCADE takes the edges along; file claims stay. *)
DeleteTask(t) ==
  /\ Exists(t)
  /\ tasks' = [tasks EXCEPT ![t] = Deleted]
  /\ deps' = {e \in deps : t \notin {e[1], e[2]}}
  /\ told' = [told EXCEPT ![t] = {}]
  /\ UNCHANGED <<alive, leased, calls>>

(* UpdateTask, its first GetTask.  ReorderTask ends in it with the status  *)
(* of the column the task is dragged to.                                   *)
CallUpdateTask(h, t, p) ==
  /\ Exists(t)
  /\ Start(h, [NoCall EXCEPT !.pc = "write", !.task = t, !.patch = p, !.row = tasks[t]])
  /\ UNCHANGED <<tasks, deps, alive, leased, told>>

(* ClaimTask reads the row; the patch it will send depends on what it saw. *)
CallClaimTask(h, t, a, force) ==
  LET row == tasks[t]
      taken == ~force /\ row.assignee \notin {Nobody, a}
      patch == [status   |-> IF row.status = "todo" THEN "in_progress" ELSE Keep,
                assignee |-> a]
  IN
  /\ Exists(t)
  /\ Start(h, [NoCall EXCEPT !.pc = IF taken THEN "assignee" ELSE "read", !.task = t,
                             !.by = a, !.force = force, !.patch = patch, !.row = row])
  /\ UNCHANGED <<tasks, deps, alive, leased, told>>

(* Mutant of CheckAssignee: the test for a dead assignee is inverted. *)
CheckAssigneeInverted(h) ==
  /\ At(h, "assignee")
  /\ IF calls[h].row.assignee \notin alive THEN Answer(h) ELSE Goto(h, "read")
  /\ UNCHANGED <<tasks, deps, alive, leased, told>>

(* GetAgent on the assignee that was read: a live one keeps the task. *)
CheckAssignee(h) ==
  /\ At(h, "assignee")
  /\ IF calls[h].row.assignee \in alive THEN Answer(h) ELSE Goto(h, "read")
  /\ UNCHANGED <<tasks, deps, alive, leased, told>>

(* The GetTask with which the UpdateTask of a ClaimTask begins. *)
ReadTask(h) ==
  LET t == calls[h].task IN
  /\ At(h, "read")
  /\ IF Exists(t) THEN calls' = [calls EXCEPT ![h].pc = "write", ![h].row = tasks[t]]
                  ELSE Answer(h)
  /\ UNCHANGED <<tasks, deps, alive, leased, told>>

(* Whoever had the task has it no more: it was given away on purpose, or   *)
(* it is finished.                                                         *)
GivenAway(c, new) == new.status \in Closed \/ c.force \/ (c.by = Nobody /\ c.patch.assignee # Keep)

(* Mutant of Finishes: only tasks that were started hold files. *)
FinishesStarted(row, new) == new.status \in Closed /\ row.status = "in_progress"

(* The files claimed for the task are to be released. *)
Finishes(row, new) == new.status \in Closed /\ new.status # row.status

(* UPDATE tasks SET every column WHERE id=?; no row is no error. *)
WriteTask(h) ==
  LET c == calls[h]
      new == Patched(c.row, c.patch)
  IN
  /\ At(h, "write")
  /\ tasks' = IF Exists(c.task) THEN [tasks EXCEPT ![c.task] = new] ELSE tasks
  /\ told' = IF GivenAway(c, new) THEN [told EXCEPT ![c.task] = {}] ELSE told
  /\ Goto(h, IF Finishes(c.row, new) THEN "release" ELSE "answer")
  /\ UNCHANGED <<deps, alive, leased>>

(* ReleaseClaimsForTask, see FileClaims. *)
ReleaseClaims(h) ==
  /\ At(h, "release")
  /\ leased' = leased \ {calls[h].task}
  /\ Goto(h, "answer")
  /\ UNCHANGED <<tasks, deps, alive, told>>

(* The answer is the row as it is now; an agent that finds itself in it    *)
(* goes to work.                                                           *)
AnswerTask(h) ==
  LET c == calls[h] IN
  /\ At(h, "answer")
  /\ told' = IF c.by # Nobody /\ c.by \in alive /\ tasks[c.task].assignee = c.by
               THEN [told EXCEPT ![c.task] = @ \cup {c.by}] ELSE told
  /\ Answer(h)
  /\ UNCHANGED <<tasks, deps, alive, leased>>
-----------------------------------------------------------------------------
(* AddDep(t, d): a search for t from d, one SELECT per task it visits, and *)
(* an insert when t was not met.                                           *)
CallAddDep(h, t, d) ==
  /\ t # d
  /\ tasks[t] # Unborn
  /\ Exists(d)
  /\ Start(h, [NoCall EXCEPT !.pc = "search", !.task = t, !.on = d, !.ahead = {d}])
  /\ UNCHANGED <<tasks, deps, alive, leased, told>>

(* Mutant of Ahead: only what the task depends on itself is looked at. *)
AheadOnce(c, cur) == c.ahead \ {cur}

(* Mutant of Ahead: visited tasks are not remembered. *)
AheadUnseen(c, cur) == (c.ahead \ {cur}) \cup DependsOn(cur)

(* The stack after cur was taken from it; seen tasks are not pushed again. *)
Ahead(c, cur) == (c.ahead \ {cur}) \cup (DependsOn(cur) \ (c.seen \cup {cur}))

Visit(h) ==
  LET c == calls[h] IN
  /\ At(h, "search")
  /\ \E cur \in c.ahead :
       IF cur = c.task
         THEN Answer(h)
         ELSE calls' = [calls EXCEPT ![h].seen = @ \cup {cur}, ![h].ahead = Ahead(c, cur)]
  /\ UNCHANGED <<tasks, deps, alive, leased, told>>

SearchDone(h) ==
  /\ At(h, "search")
  /\ calls[h].ahead = {}
  /\ Goto(h, "link")
  /\ UNCHANGED <<tasks, deps, alive, leased, told>>

(* Mutant of Link: foreign keys are not enforced. *)
LinkUnchecked(h) ==
  LET c == calls[h] IN
  /\ At(h, "link")
  /\ deps' = deps \cup {<<c.task, c.on>>}
  /\ Answer(h)
  /\ UNCHANGED <<tasks, alive, leased, told>>

(* The foreign keys refuse an edge of a task that is not there. *)
Link(h) ==
  LET c == calls[h] IN
  /\ At(h, "link")
  /\ deps' = IF Exists(c.task) /\ Exists(c.on) THEN deps \cup {<<c.task, c.on>>} ELSE deps
  /\ Answer(h)
  /\ UNCHANGED <<tasks, alive, leased, told>>

RemoveDep(t, d) ==
  /\ deps' = deps \ {<<t, d>>}
  /\ UNCHANGED <<tasks, alive, leased, calls, told>>
-----------------------------------------------------------------------------
(* What the rest of the store does that the board can see.                 *)
(* UnregisterAgent and SweepAgents. *)
AgentDies(a) ==
  /\ alive' = alive \ {a}
  /\ told' = [t \in Task |-> told[t] \ {a}]
  /\ UNCHANGED <<tasks, deps, leased, calls>>

(* RegisterAgent and Heartbeat. *)
AgentBeats(a) ==
  /\ alive' = alive \cup {a}
  /\ UNCHANGED <<tasks, deps, leased, calls, told>>

(* An agent claims files with the id of a task that is open. *)
ClaimFilesFor(a, t) ==
  /\ a \in alive
  /\ Exists(t)
  /\ tasks[t].status \notin Closed
  /\ leased' = leased \cup {t}
  /\ UNCHANGED <<tasks, deps, alive, calls, told>>

(* The files are released, or their leases end. *)
FilesFree(t) ==
  /\ leased' = leased \ {t}
  /\ UNCHANGED <<tasks, deps, alive, calls, told>>

(* The daemon dies and is started again.  Claims whose release was still   *)
(* to come are left to the end of their leases.                            *)
Restart ==
  /\ calls' = [h \in Handler |-> NoCall]
  /\ leased' = leased \ {calls[h].task : h \in {g \in Handler : At(g, "release")}}
  /\ UNCHANGED <<tasks, deps, alive, told>>

Request(h) ==
  \E t \in Task :
    \/ \E p \in Patch : CallUpdateTask(h, t, p)
    \/ \E a \in Agent, force \in BOOLEAN : CallClaimTask(h, t, a, force)
    \/ \E d \in Task : CallAddDep(h, t, d)

Serve(h) ==
  \/ CheckAssignee(h) \/ ReadTask(h) \/ WriteTask(h) \/ ReleaseClaims(h) \/ AnswerTask(h)
  \/ Visit(h) \/ SearchDone(h) \/ Link(h)

Statement ==
  \E t \in Task :
    \/ \E s \in Opening, a \in Agent \cup {Nobody}, D \in SUBSET Task : CreateTask(t, s, a, D)
    \/ DeleteTask(t)
    \/ \E d \in Task : RemoveDep(t, d)
    \/ \E a \in Agent : ClaimFilesFor(a, t)
    \/ FilesFree(t)

Next ==
  \/ \E h \in Handler : Request(h) \/ Serve(h)
  \/ Statement
  \/ \E a \in Agent : AgentDies(a) \/ AgentBeats(a)
  \/ Restart

Spec == Init /\ [][Next]_vars

(* A handler goes on: readers have their own connections, and the one for  *)
(* writing is handed to those that wait for it in turn.                    *)
FairSpec == Spec /\ \A h \in Handler : WF_vars(Serve(h))
-----------------------------------------------------------------------------
TypeOK ==
  /\ tasks \in [Task -> Row \cup {Unborn, Deleted}]
  /\ deps \subseteq Task \X Task
  /\ alive \subseteq Agent
  /\ leased \subseteq Task
  /\ calls \in [Handler -> CallType]
  /\ told \in [Task -> SUBSET Agent]

(* "two of them never start the same work": no two live agents believe     *)
(* that a task is theirs.  (ClaimTask refuses "to steal one that another   *)
(* live agent is already working on".)                                     *)
ClaimExclusive == \A t \in Task : \A a, b \in told[t] : a = b

(* "nil fields are left unchanged": a patch does not undo what others      *)
(* wrote to the columns it does not name (UpdateTask).                     *)
NilFieldsUnchanged ==
  [][\A h \in Handler :
       LET c == calls[h] IN
       At(h, "write") /\ ~At(h, "write")' /\ Exists(c.task)
         => /\ c.patch.status = Keep => tasks'[c.task].status = tasks[c.task].status
            /\ c.patch.assignee = Keep => tasks'[c.task].assignee = tasks[c.task].assignee]_vars

(* "Finishing a task frees the files claimed for it": a finished task owes *)
(* no files but those a handler is about to free.                          *)
FinishFrees ==
  \A t \in leased :
    tasks[t].status \in Closed => \E h \in Handler : At(h, "release") /\ calls[h].task = t

(* AddDep refuses "edges that would create a cycle": no set of tasks in    *)
(* which each waits for another one of the set.                            *)
Acyclic ==
  ~ \E S \in (SUBSET Task) \ {{}} : \A t \in S : DependsOn(t) \cap S # {}

(* What the promises above hold under: calls that change one task do not   *)
(* overlap, for the first three, and calls of AddDep do not, for the last. *)
Working(h) == calls[h].pc \in {"assignee", "read", "write", "release", "answer"}
Linking(h) == calls[h].pc \in {"search", "link"}

TasksApart ==
  \A h, g \in Handler : Working(h) /\ Working(g) /\ calls[h].task = calls[g].task => h = g
LinksApart == \A h, g \in Handler : Linking(h) /\ Linking(g) => h = g

SpecTasksApart == Init /\ [][Next /\ TasksApart']_vars
SpecLinksApart == Init /\ [][Next /\ LinksApart']_vars

(* Edges join tasks that exist, whatever is deleted while AddDep searches. *)
EdgesExist == deps \subseteq Live \X Live

(* Every call returns; the search of AddDep ends in a graph with a cycle,  *)
(* and in one that changes while it is searched.                           *)
CallsReturn == \A h \in Handler : ~At(h, "idle") ~> At(h, "idle")
=============================================================================
