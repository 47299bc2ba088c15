------------------------------ MODULE Sessions ------------------------------
(***************************************************************************)
(* How a session gets its identity and calls its tools: OpenSession of     *)
(* mode/session.go, the session and callTool of mode/mcp.go, the client,   *)
(* and behind it UpsertProject, adoption and deletion of projects          *)
(* (store/projects.go) and RegisterAgent (store/agents.go).                *)
(*                                                                         *)
(* One directory, whose project id comes from its path until it is given a *)
(* git remote.  A request that its client has given up on is still served. *)
(* Of what tools write the project is kept, if it was there: a claim that  *)
(* names another is stored and not followed here.                          *)
(***************************************************************************)
EXTENDS Naturals, Sequences, FiniteSets

CONSTANTS
  Proc,        \* MCP servers, and the shells and harnesses that start hooks and commands
  Server,      \* those that are MCP servers
  KeyOf,       \* the session key of a process
  AgentId,     \* what NewID gives agents, in this order
  Tool,        \* the tools, hooks and commands that are run, among those of Calls
  MaxLate,     \* bound: requests that were given up on and the daemon still has
  NoAgent, NoTool

Key == {KeyOf[p] : p \in Proc}

VARIABLES
  remote,    \* the repository has an origin
  projects,  \* rows of projects, by where their id comes from
  agents,    \* rows of agents
  rows,      \* the projects, there at the time, that tools wrote to
  cached,    \* the identity file of a session key
  procs,     \* the session and the tool call of a process
  pending,   \* requests the daemon has not answered
  forgotten  \* history: a project was deleted

vars == <<remote, projects, agents, rows, cached, procs, pending, forgotten>>
-----------------------------------------------------------------------------
Pid == {"path", "remote"}

(* identity.ResolveProject: the remote decides once there is one. *)
Here == IF remote THEN "remote" ELSE "path"

(* Tables that are joined. *)
f ++ g == [x \in DOMAIN f \cup DOMAIN g |-> IF x \in DOMAIN f THEN f[x] ELSE g[x]]

(* What a request does to the rows kept here: "post" adds one that must    *)
(* have its project, "claim" one that no constraint checks, "patch" and    *)
(* "read" leave them; "need" reads the project itself.                     *)
AgentRoutes == [Register |-> "register", ListAgents |-> "read", Heartbeat |-> "patch",
                RenameAgent |-> "patch", Unregister |-> "patch"]
PlanRoutes == [ListPlans |-> "read", GetPlan |-> "read", CreatePlan |-> "post",
               UpdatePlan |-> "patch", DeletePlan |-> "patch"]
TaskRoutes == [ListTasks |-> "read", GetTask |-> "read", CreateTask |-> "post",
               UpdateTask |-> "patch", ClaimTask |-> "patch", ReorderTask |-> "patch"]
ClaimRoutes == [ListClaims |-> "read", ClaimFiles |-> "claim", ReleaseFiles |-> "patch",
                RenewClaims |-> "patch", CheckFiles |-> "read"]
NoteRoutes == [ListDecisions |-> "read", CreateDecision |-> "post", AckDecision |-> "patch",
               RecentEvents |-> "read"]
RoomRoutes == [Room |-> "read", PostMessage |-> "post", ResolveQuestion |-> "patch",
               MarkRoomRead |-> "claim"]
Route == AgentRoutes ++ PlanRoutes ++ TaskRoutes ++ ClaimRoutes ++ NoteRoutes ++ RoomRoutes
           ++ [ResolveProject |-> "resolve", Context |-> "need"]

(* One request of a call, and whether the caller looks at its error. *)
Ask(op) == [op |-> op, checked |-> TRUE]
Try(op) == [op |-> op, checked |-> FALSE]

OrientTools == [succubus_register |-> <<Ask("Context")>>, succubus_whoami |-> <<>>,
                succubus_context |-> <<Ask("Context")>>,
                succubus_agents |-> <<Ask("ListAgents"), Try("ListClaims")>>]
PlanTools == [succubus_plan_list |-> <<Ask("ListPlans")>>, succubus_plan_get |-> <<Ask("GetPlan")>>,
              succubus_plan_create |-> <<Ask("CreatePlan")>>,
              succubus_plan_update |-> <<Ask("UpdatePlan")>>]
TaskTools == [succubus_task_list |-> <<Ask("ListTasks")>>,
              succubus_task_create |-> <<Ask("CreateTask")>>,
              succubus_task_update |-> <<Ask("UpdateTask")>>,
              succubus_task_claim |-> <<Ask("ClaimTask")>>]
FileTools == [succubus_claim_files |-> <<Ask("ClaimFiles")>>,
              succubus_release_files |-> <<Ask("ReleaseFiles")>>,
              succubus_check_files |-> <<Ask("CheckFiles")>>]
ReportTools == [succubus_report |-> <<Try("UpdateTask"), Ask("CreateDecision")>>,
                succubus_handoff |-> <<Ask("CreateDecision")>>]
RoomTools == [succubus_ask |-> <<Ask("PostMessage")>>, succubus_say |-> <<Ask("PostMessage")>>,
              succubus_room |-> <<Ask("Room")>>, succubus_resolve |-> <<Ask("ResolveQuestion")>>]
DecisionTool == [succubus_decisions |-> <<Ask("ListDecisions")>>]

ToolCalls == OrientTools ++ PlanTools ++ TaskTools ++ FileTools ++ ReportTools ++ RoomTools
               ++ DecisionTool

HookCalls ==
  [SessionStart |-> <<Ask("Context"), Try("MarkRoomRead")>>,
   UserPromptSubmit |-> <<Try("Heartbeat"), Try("RenewClaims"), Ask("Context"),
                          Try("MarkRoomRead")>>,
   PreToolUse |-> <<Ask("CheckFiles")>>,
   PostToolUse |-> <<Ask("CheckFiles"), Try("ClaimFiles")>>,
   Stop |-> <<Ask("Context")>>,
   SessionEnd |-> <<Try("ReleaseFiles")>>]

(* The commands of a shell.  "forget" is DeleteProject below. *)
Commands ==
  [whoami |-> <<>>, status |-> <<Ask("Context")>>, agents |-> <<Ask("ListAgents")>>,
   tasks |-> <<Ask("ListTasks")>>, plans |-> <<Ask("ListPlans")>>, plan |-> <<Ask("CreatePlan")>>,
   claims |-> <<Ask("ListClaims")>>, claim |-> <<Ask("ClaimFiles")>>,
   release |-> <<Ask("ReleaseFiles")>>, check |-> <<Ask("CheckFiles")>>,
   events |-> <<Ask("RecentEvents")>>]
TaskCommands == [task_create |-> <<Ask("CreateTask")>>, task_claim |-> <<Ask("ClaimTask")>>,
                 task_done |-> <<Ask("UpdateTask")>>]

Calls == ToolCalls ++ HookCalls ++ Commands ++ TaskCommands

ASSUME SessionsTools == Tool \subseteq DOMAIN Calls
ASSUME SessionsBound == MaxLate \in Nat
ASSUME SessionsIds == AgentId \subseteq Nat /\ NoAgent \notin AgentId /\ NoTool \notin Tool

Hooks == DOMAIN HookCalls

(* A server runs tools; the others run a hook or a command. *)
RunsIn(p, t) == (p \in Server) = (t \in DOMAIN ToolCalls)

(* Reading does not create an identity. *)
ToolNeedsID(t) == t \notin {"succubus_agents", "succubus_task_list", "succubus_plan_list"}
CommandNeedsID(t) == t \in {"claim", "release", "task_create", "task_claim", "task_done",
                            "whoami", "status", "check"}
NeedsID(t) ==
  IF t \in DOMAIN ToolCalls THEN ToolNeedsID(t)
  ELSE IF t \in Hooks THEN t \notin {"Stop", "SessionEnd"}
  ELSE CommandNeedsID(t)

None == [pid |-> "none", id |-> NoAgent]
Idle == [sess |-> None, opening |-> None, tool |-> NoTool, todo |-> <<>>, waits |-> 0,
         error |-> FALSE]

Init ==
  /\ remote = FALSE
  /\ projects = {} /\ agents = {} /\ rows = {} /\ pending = {}
  /\ cached = [k \in Key |-> None]
  /\ procs = [p \in Proc |-> Idle]
  /\ forgotten = FALSE
-----------------------------------------------------------------------------
(* mcpServer.session: what has to be asked before the tool itself. *)
Opening(p, t) ==
  LET s == procs[p].sess IN
  IF s # None /\ (~NeedsID(t) \/ s.id # NoAgent) THEN <<>>
  ELSE IF ~NeedsID(t) THEN <<Ask("ResolveProject")>>
  ELSE <<Ask("ResolveProject"), Ask("Register")>>

Begin(p, t) ==
  LET first == Opening(p, t) IN
  /\ procs[p].tool = NoTool /\ RunsIn(p, t)
  /\ first \o Calls[t] # <<>>
  /\ procs' = [procs EXCEPT ![p] = [@ EXCEPT
       !.tool = t, !.todo = first \o Calls[t], !.error = FALSE,
       !.opening = IF first = <<>> THEN None ELSE [pid |-> Here, id |-> NoAgent]]]
  /\ UNCHANGED <<remote, projects, agents, rows, cached, pending, forgotten>>

(* The session a request speaks for. *)
Speaking(p) == IF procs[p].opening = None THEN procs[p].sess ELSE procs[p].opening

(* A request gets a number no other pending one of the process has. *)
Send(p) ==
  LET mine == {r.n : r \in {q \in pending : q.by = p}} IN
  /\ procs[p].todo # <<>> /\ procs[p].waits = 0
  /\ LET n == CHOOSE i \in 1..MaxLate + 1 : i \notin mine IN
     /\ pending' = pending \cup {[by |-> p, n |-> n, op |-> Route[Head(procs[p].todo).op],
                                 at |-> Speaking(p), adopt |-> "unread"]}
     /\ procs' = [procs EXCEPT ![p].waits = n]
  /\ UNCHANGED <<remote, projects, agents, rows, cached, forgotten>>

(* Mutant of Answered: the request is not finished with. *)
AnsweredWaiting(c, a) == [c EXCEPT !.tool = NoTool, !.todo = <<>>, !.opening = None]

(* The end of a call: what the caller is told.  A hook or a command is a   *)
(* process of its own and takes its session with it.                       *)
Answered(c, a) ==
  [c EXCEPT !.tool = NoTool, !.todo = <<>>, !.waits = 0, !.opening = None, !.error = a = "error",
            !.sess = IF c.tool \in DOMAIN ToolCalls THEN @ ELSE None]

(* A step is done or passed over; the last one of opening makes s the      *)
(* session.                                                                *)
Advanced(c, s) ==
  LET rest == Tail(c.todo)
      opened == c.opening # None /\ (rest = <<>> \/ Head(rest).op # "Register")
      d == [c EXCEPT !.todo = rest, !.waits = 0,
                     !.opening = IF opened THEN None ELSE s,
                     !.sess = IF opened THEN s ELSE @]
      nobody == opened /\ s.id = NoAgent /\ c.tool \in {"Stop", "SessionEnd"}
  IN IF rest = <<>> \/ nobody THEN Answered(d, "ok") ELSE d

(* Mutant of Failed: every failure is an error to the agent. *)
FailedLoudly(c, kind) ==
  IF ~Head(c.todo).checked THEN Advanced(c, c.opening) ELSE Answered(c, "error")

(* wrapErr: a daemon that does not answer is no error to an agent, only to *)
(* a shell; a hook is silent about everything.                             *)
Failed(c, kind) ==
  IF ~Head(c.todo).checked THEN Advanced(c, c.opening)
  ELSE IF c.tool \in Hooks THEN Answered(c, "silent")
  ELSE IF c.tool \notin DOMAIN ToolCalls THEN Answered(c, "exit")
  ELSE IF kind = "down" THEN Answered(c, "advice")
  ELSE Answered(c, "error")

Waiting(r) == procs[r.by].waits = r.n
Late == {r \in pending : ~Waiting(r)}

(* The client's timeout, or nobody listens. *)
GiveUp(p) ==
  /\ procs[p].waits # 0 /\ Cardinality(Late) < MaxLate
  /\ procs' = [procs EXCEPT ![p] = Failed(@, "down")]
  /\ UNCHANGED <<remote, projects, agents, rows, cached, pending, forgotten>>
-----------------------------------------------------------------------------
Reply(r, c) == procs' = IF Waiting(r) THEN [procs EXCEPT ![r.by] = c] ELSE procs
Served(r) == pending' = pending \ {r}

(* adoptPreRemoteProject reads on other connections than it writes. *)
SelectOld(r) ==
  /\ r.op = "resolve" /\ r.adopt = "unread"
  /\ pending' = (pending \ {r}) \cup
       {[r EXCEPT !.adopt = IF remote /\ "path" \in projects /\ "remote" \notin projects
                            THEN "adopt" ELSE Here]}
  /\ UNCHANGED <<remote, projects, agents, rows, cached, procs, forgotten>>

(* Mutant of Moved: the list of tables misses one. *)
MovedAgents(S) == S

(* UPDATE ... SET project_id for every table of projectChildTables. *)
Moved(S) == {[x EXCEPT !.pid = "remote"] : x \in S}

(* LoadCached, if it is of this project. *)
Loaded(p, s) ==
  LET f == cached[KeyOf[p]] IN IF f.pid = s.pid THEN [s EXCEPT !.id = f.id] ELSE s

Resolved(r) ==
  Reply(r, Advanced(procs[r.by], Loaded(r.by, procs[r.by].opening)))

(* The transaction that re-keys: nothing to move when another came first. *)
Adopt(r) ==
  /\ r.op = "resolve" /\ r.adopt = "adopt"
  /\ \/ /\ Cardinality(projects) < 2
        /\ projects' = {"remote"}
        /\ agents' = Moved(agents) /\ rows' = Moved(rows)
        /\ Resolved(r)
     \/ (* the deferral was reset by another commit, or the new id exists *)
        /\ Reply(r, Failed(procs[r.by], "refused"))
        /\ UNCHANGED <<projects, agents, rows>>
  /\ Served(r)
  /\ UNCHANGED <<remote, cached, forgotten>>

Upsert(r) ==
  /\ r.op = "resolve" /\ r.adopt \in Pid
  /\ projects' = projects \cup {r.adopt}
  /\ Resolved(r) /\ Served(r)
  /\ UNCHANGED <<remote, agents, rows, cached, forgotten>>

(* Mutant of Mine: every registration makes an agent. *)
MineNever(pid, k) == {}

(* The agent a session key already has in a project. *)
Mine(pid, k) == {a \in agents : a.pid = pid /\ a.key = k}

(* NewID: an id that nobody has heard of. *)
Fresh ==
  AgentId \ ({a.id : a \in agents} \cup {cached[k].id : k \in Key}
             \cup {procs[p].sess.id : p \in Proc} \cup {procs[p].opening.id : p \in Proc})

(* OpenSession keeps the answer, and SaveCached after it. *)
Registered(r, a) ==
  LET s == [pid |-> r.at.pid, id |-> a.id] IN
  /\ Reply(r, Advanced(procs[r.by], s))
  /\ cached' = IF Waiting(r) THEN [cached EXCEPT ![KeyOf[r.by]] = s] ELSE cached

Register(r) ==
  LET k == KeyOf[r.by]
      pid == r.at.pid
  IN
  /\ r.op = "register" /\ Served(r)
  /\ \/ \E a \in Mine(pid, k) : Registered(r, a) /\ UNCHANGED agents
     \/ /\ Mine(pid, k) = {} /\ pid \in projects
        /\ \E i \in Fresh :
             LET a == [id |-> i, pid |-> pid, key |-> k] IN
             /\ \A j \in Fresh : i <= j
             /\ agents' = agents \cup {a} /\ Registered(r, a)
     \/ /\ pid \notin projects  \* FOREIGN KEY constraint failed
        /\ Reply(r, Failed(procs[r.by], "refused"))
        /\ UNCHANGED <<agents, cached>>
  /\ UNCHANGED <<remote, projects, rows, forgotten>>

(* A handler of the other routes. *)
Serve(r) ==
  LET here == r.at.pid \in projects
      refused == r.op \in {"post", "need"} /\ ~here
      c == procs[r.by]
  IN
  /\ r.op \notin {"resolve", "register"} /\ Served(r)
  /\ rows' = IF r.op \in {"claim", "post"} /\ here THEN rows \cup {[pid |-> r.at.pid]} ELSE rows
  /\ Reply(r, IF refused THEN Failed(c, "refused") ELSE Advanced(c, c.opening))
  /\ UNCHANGED <<remote, projects, agents, cached, forgotten>>

(* git remote add origin *)
AddRemote ==
  /\ ~remote /\ remote' = TRUE
  /\ UNCHANGED <<projects, agents, rows, cached, procs, pending, forgotten>>

(* DeleteProject, with what cascades and what is cleared by hand.  Once. *)
DeleteProject(pid) ==
  /\ pid \in projects /\ ~forgotten
  /\ projects' = projects \ {pid}
  /\ agents' = {a \in agents : a.pid # pid}
  /\ rows' = {x \in rows : x.pid # pid}
  /\ forgotten' = TRUE
  /\ UNCHANGED <<remote, cached, procs, pending>>

(* The daemon stops with what it has not served. *)
Restart ==
  /\ pending # {} /\ pending' = {}
  /\ UNCHANGED <<remote, projects, agents, rows, cached, procs, forgotten>>

Daemon(r) == SelectOld(r) \/ Adopt(r) \/ Upsert(r) \/ Register(r) \/ Serve(r)
Session(p) == (\E t \in Tool : Begin(p, t)) \/ Send(p) \/ GiveUp(p)

Next ==
  \/ \E p \in Proc : Session(p)
  \/ \E r \in pending : Daemon(r)
  \/ AddRemote \/ Restart
  \/ \E pid \in Pid : DeleteProject(pid)

Spec == Init /\ [][Next]_vars

-----------------------------------------------------------------------------
Sess == [pid: Pid \cup {"none"}, id: AgentId \cup {NoAgent}]

TypeOK ==
  /\ projects \subseteq Pid
  /\ agents \subseteq [id: AgentId, pid: Pid, key: Key]
  /\ rows \subseteq [pid: Pid]
  /\ cached \in [Key -> Sess]
  /\ \A p \in Proc : /\ procs[p].sess \in Sess /\ procs[p].opening \in Sess
                     /\ procs[p].waits \in 0..MaxLate + 1
                     /\ procs[p].waits # 0 => procs[p].todo # <<>>

(* "Registration is idempotent on (project_id, session_key)" and adoption  *)
(* "moves the history": whatever replies are lost, however often and from  *)
(* wherever a session registers, it has one agent, unless a late request   *)
(* has left the directory two projects.                                    *)
OneIdentity ==
  Pid \subseteq projects \/ \A a, b \in agents : a.key = b.key => a = b

(* "A migration that misses one leaves data pointing at a project that no  *)
(* longer exists": adoption and deletion strand nothing, whatever they run *)
(* between.                                                                *)
NothingLeftBehind ==
  /\ \A a \in agents : a.pid \in projects
  /\ \A x \in rows : x.pid \in projects

(* "No failure is ever fatal to the agent -- if the daemon is down, tools  *)
(* return advisory text instead of errors": an error is told only when the *)
(* daemon itself refused, which it does to requests for projects that were *)
(* re-keyed or deleted.                                                    *)
ErrorsAreRefusals ==
  \A p \in Proc : procs[p].error => remote \/ forgotten

=============================================================================
