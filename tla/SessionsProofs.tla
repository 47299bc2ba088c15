--------------------------- MODULE SessionsProofs ---------------------------
(***************************************************************************)
(* Whatever replies are lost, however many processes and keys there are,   *)
(* adoption and deletion strand nothing and a session has one agent.  Then *)
(* what the processes ask for and are told (CallsInv): a request belongs   *)
(* to a call that waits for it or was given up on; and an error is told    *)
(* only of a request the daemon refused (ErrInv).                          *)
(***************************************************************************)
EXTENDS Sessions, FiniteSetTheorems, TLAPS

(* The shape of the rows of the daemon. *)
Rows ==
  /\ projects \subseteq Pid
  /\ \A a \in agents : a = [id |-> a.id, pid |-> a.pid, key |-> a.key]
  /\ \A x \in rows : x = [pid |-> x.pid]

(* Of a key there is one agent in a project: this is what registration     *)
(* looks for, and what OneIdentity needs when one of two projects goes.    *)
OneEach == \A a, b \in agents : a.key = b.key /\ a.pid = b.pid => a = b

IInv == Rows /\ NothingLeftBehind /\ OneEach

(* Two projects are two rows. *)
LEMMA BothAreTwo ==
  ASSUME Pid \subseteq projects, projects \subseteq Pid
  PROVE  ~(Cardinality(projects) < 2)
<1>1. projects = {"path"} \cup {"remote"}
  BY DEF Pid
<1>2. IsFiniteSet({"path"}) /\ Cardinality({"path"}) = 1
  BY FS_Singleton
<1>3. "remote" \notin {"path"}
  OBVIOUS
<1>4. Cardinality(projects) = 2
  BY <1>1, <1>2, <1>3, FS_AddElement
<1> QED
  BY <1>4

(* With one project all agents are in it. *)
LEMMA AllInOne ==
  ASSUME IInv, ~(Pid \subseteq projects), NEW a \in agents, NEW b \in agents
  PROVE  a.pid = b.pid
  BY DEF IInv, Rows, NothingLeftBehind, Pid

LEMMA InitInv == Init => IInv
  BY DEF Init, IInv, Rows, OneEach, NothingLeftBehind

(* Where the rows of the daemon stay, so does what is said of them. *)
LEMMA SameRows ==
  ASSUME IInv, UNCHANGED <<projects, agents, rows>>
  PROVE  IInv'
  BY DEF IInv, Rows, OneEach, NothingLeftBehind

(* What is moved is in the new project, and one thing if it was one. *)
LEMMA MovedAgent ==
  ASSUME NEW b, b = [id |-> b.id, pid |-> b.pid, key |-> b.key]
  PROVE  [b EXCEPT !.pid = "remote"] = [id |-> b.id, pid |-> "remote", key |-> b.key]
<1> DEFINE c == [id |-> b.id, pid |-> b.pid, key |-> b.key]
<1>1. [c EXCEPT !.pid = "remote"] = [id |-> b.id, pid |-> "remote", key |-> b.key]
  OBVIOUS
<1> QED
  BY <1>1

LEMMA MovedRow ==
  ASSUME NEW x, x = [pid |-> x.pid]
  PROVE  [x EXCEPT !.pid = "remote"] = [pid |-> "remote"]
<1> DEFINE c == [pid |-> x.pid]
<1>1. [c EXCEPT !.pid = "remote"] = [pid |-> "remote"]
  OBVIOUS
<1> QED
  BY <1>1

(* Adoption: the one project there is gets another id, and all that is in  *)
(* it goes along.                                                          *)
LEMMA AdoptKeeps ==
  ASSUME IInv, NEW r \in pending, Adopt(r)
  PROVE  IInv'
<1>1. CASE UNCHANGED <<projects, agents, rows>>
  BY <1>1, SameRows
<1>2. CASE /\ Cardinality(projects) < 2
           /\ projects' = {"remote"}
           /\ agents' = Moved(agents) /\ rows' = Moved(rows)
  <2>1. ~(Pid \subseteq projects)
    BY <1>2, BothAreTwo DEF IInv, Rows
  <2>2. \A a \in agents' : \E b \in agents :
          a = [id |-> b.id, pid |-> "remote", key |-> b.key]
    BY <1>2, MovedAgent DEF Moved, IInv, Rows
  <2>3. \A x \in rows' : x = [pid |-> "remote"]
    BY <1>2, MovedRow DEF Moved, IInv, Rows
  <2>4. Rows'
    BY <1>2, <2>2, <2>3 DEF Rows, Pid
  <2>5. NothingLeftBehind'
    BY <1>2, <2>2, <2>3 DEF NothingLeftBehind
  <2>6. OneEach'
    <3>1. SUFFICES ASSUME NEW a \in agents', NEW b \in agents', a.key = b.key
                   PROVE  a = b
      BY DEF OneEach
    <3>2. PICK c \in agents : a = [id |-> c.id, pid |-> "remote", key |-> c.key]
      BY <2>2
    <3>3. PICK d \in agents : b = [id |-> d.id, pid |-> "remote", key |-> d.key]
      BY <2>2
    <3>4. c.key = d.key
      BY <3>1, <3>2, <3>3
    <3>5. c = d
      BY <2>1, <3>4, AllInOne DEF IInv, OneEach
    <3> QED
      BY <3>2, <3>3, <3>5
  <2> QED
    BY <2>4, <2>5, <2>6 DEF IInv
<1> QED
  BY <1>1, <1>2 DEF Adopt

LEMMA UpsertKeeps ==
  ASSUME IInv, NEW r \in pending, Upsert(r)
  PROVE  IInv'
  BY DEF Upsert, IInv, Rows, OneEach, NothingLeftBehind

(* Registration: a second agent of a key comes only in another project. *)
LEMMA RegisterKeeps ==
  ASSUME IInv, NEW r \in pending, Register(r)
  PROVE  IInv'
<1>1. CASE agents' = agents
  BY <1>1, SameRows DEF Register
<1>2. CASE agents' # agents
  <2> DEFINE k == KeyOf[r.by]
             pid == r.at.pid
  <2>1. PICK i \in Fresh : /\ Mine(pid, k) = {} /\ pid \in projects
                           /\ agents' = agents \cup {[id |-> i, pid |-> pid, key |-> k]}
    BY <1>2 DEF Register
  <2>2. projects' = projects /\ rows' = rows
    BY DEF Register
  <2>3. Rows' /\ NothingLeftBehind'
    BY <2>1, <2>2 DEF IInv, Rows, NothingLeftBehind
  <2>4. OneEach'
    BY <2>1 DEF IInv, OneEach, Mine
  <2> QED
    BY <2>3, <2>4 DEF IInv
<1> QED
  BY <1>1, <1>2

(* The other routes write for a project that is there, or nothing. *)
LEMMA ServeKeeps ==
  ASSUME IInv, NEW r \in pending, Serve(r)
  PROVE  IInv'
<1>1. /\ projects' = projects /\ agents' = agents
      /\ rows' = rows \/ (r.at.pid \in projects /\ rows' = rows \cup {[pid |-> r.at.pid]})
  BY DEF Serve
<1> QED
  BY <1>1 DEF IInv, Rows, OneEach, NothingLeftBehind

LEMMA DeleteKeeps ==
  ASSUME IInv, NEW pid \in Pid, DeleteProject(pid)
  PROVE  IInv'
  BY DEF DeleteProject, IInv, Rows, OneEach, NothingLeftBehind

LEMMA NextInv == ASSUME IInv, [Next]_vars PROVE IInv'
<1>1. CASE \E p \in Proc : Session(p)
  BY <1>1, SameRows DEF Session, Begin, Send, GiveUp
<1>2. ASSUME NEW r \in pending, Daemon(r) PROVE IInv'
  <2>1. CASE SelectOld(r)
    BY <2>1, SameRows DEF SelectOld
  <2> QED
    BY <1>2, <2>1, AdoptKeeps, UpsertKeeps, RegisterKeeps, ServeKeeps DEF Daemon
<1>3. CASE AddRemote \/ Restart
  BY <1>3, SameRows DEF AddRemote, Restart
<1>4. ASSUME NEW pid \in Pid, DeleteProject(pid) PROVE IInv'
  BY <1>4, DeleteKeeps
<1>5. CASE UNCHANGED vars
  BY <1>5, SameRows DEF vars
<1> QED
  BY <1>1, <1>2, <1>3, <1>4, <1>5 DEF Next

(* What the daemon keeps of agents and projects, for any number of servers *)
(* and keys, whatever is asked and given up on.                            *)
THEOREM RowsCorrect == Spec => []IInv
<1>1. IInv /\ [Next]_vars => IInv'
  BY NextInv
<1> QED
  BY InitInv, <1>1, PTL DEF Spec

(* Adoption and deletion leave nothing of a project that is gone. *)
THEOREM NothingLeftCorrect == Spec => []NothingLeftBehind
<1>1. IInv => NothingLeftBehind
  BY DEF IInv
<1> QED
  BY <1>1, RowsCorrect, PTL

(* A session key has one agent, unless the directory is two projects. *)
THEOREM OneIdentityCorrect == Spec => []OneIdentity
<1>1. ASSUME IInv PROVE OneIdentity
  <2>1. CASE Pid \subseteq projects
    BY <2>1 DEF OneIdentity
  <2>2. CASE ~(Pid \subseteq projects)
    BY <1>1, <2>2, AllInOne DEF OneIdentity, IInv, OneEach
  <2> QED
    BY <2>1, <2>2
<1> QED
  BY <1>1, RowsCorrect, PTL

-----------------------------------------------------------------------------
(***************************************************************************)
(* What a process asks for, and what it is told.                           *)
(***************************************************************************)
(* The requests of a call: to resolve the project comes first if at all,   *)
(* and its error is looked at.                                             *)
Names == DOMAIN Route \ {"ResolveProject"}
Later == {Ask(o) : o \in Names} \cup {Try(o) : o \in Names}
Asked == Later \cup {Ask("ResolveProject")}

LEMMA RouteResolves == Route["ResolveProject"] = "resolve"
  BY DEF Route, AgentRoutes, PlanRoutes, TaskRoutes, ClaimRoutes, NoteRoutes, RoomRoutes, ++

LEMMA RouteDomain ==
  DOMAIN Route = DOMAIN AgentRoutes \cup DOMAIN PlanRoutes \cup DOMAIN TaskRoutes \cup DOMAIN ClaimRoutes
                 \cup DOMAIN NoteRoutes \cup DOMAIN RoomRoutes \cup {"ResolveProject", "Context"}
<1> DEFINE own == [ResolveProject |-> "resolve", Context |-> "need"]
<1>1. DOMAIN own = {"ResolveProject", "Context"}
  OBVIOUS
<1> HIDE DEF own
<1>2. DOMAIN (AgentRoutes ++ PlanRoutes ++ TaskRoutes ++ ClaimRoutes ++ NoteRoutes ++ RoomRoutes ++ own)
      = DOMAIN AgentRoutes \cup DOMAIN PlanRoutes \cup DOMAIN TaskRoutes \cup DOMAIN ClaimRoutes
                 \cup DOMAIN NoteRoutes \cup DOMAIN RoomRoutes \cup DOMAIN own
  BY DEF ++
<1> QED
  BY <1>1, <1>2 DEF Route, own

LEMMA NamesAre ==
  {"Register", "ListAgents", "Heartbeat",
     "ListPlans", "GetPlan", "CreatePlan", "UpdatePlan",
     "ListTasks", "CreateTask", "UpdateTask", "ClaimTask",
     "ListClaims", "ClaimFiles", "ReleaseFiles", "RenewClaims", "CheckFiles",
     "ListDecisions", "CreateDecision", "RecentEvents",
     "Room", "PostMessage", "ResolveQuestion", "MarkRoomRead", "Context"} \subseteq Names
<1>1. {"Register", "ListAgents", "Heartbeat"} \subseteq DOMAIN AgentRoutes
  BY DEF AgentRoutes
<1>2. {"ListPlans", "GetPlan", "CreatePlan", "UpdatePlan"} \subseteq DOMAIN PlanRoutes
  BY DEF PlanRoutes
<1>3. {"ListTasks", "CreateTask", "UpdateTask", "ClaimTask"} \subseteq DOMAIN TaskRoutes
  BY DEF TaskRoutes
<1>4. {"ListClaims", "ClaimFiles", "ReleaseFiles", "RenewClaims", "CheckFiles"} \subseteq DOMAIN ClaimRoutes
  BY DEF ClaimRoutes
<1>5. {"ListDecisions", "CreateDecision", "RecentEvents"} \subseteq DOMAIN NoteRoutes
  BY DEF NoteRoutes
<1>6. {"Room", "PostMessage", "ResolveQuestion", "MarkRoomRead"} \subseteq DOMAIN RoomRoutes
  BY DEF RoomRoutes
<1> QED
  BY <1>1, <1>2, <1>3, <1>4, <1>5, <1>6, RouteDomain DEF Names

LEMMA AskedLater == \A o \in Names : Ask(o) \in Later /\ Try(o) \in Later
  BY DEF Later
LEMMA NoRequest == << >> \in Seq(Later)
  OBVIOUS

LEMMA OneRequest == \A a \in Names : <<Ask(a)>> \in Seq(Later) /\ <<Try(a)>> \in Seq(Later)
  BY AskedLater

LEMMA TwoRequests ==
  \A a, b \in Names : <<Ask(a), Try(b)>> \in Seq(Later) /\ <<Try(a), Ask(b)>> \in Seq(Later)
  BY AskedLater

LEMMA FourRequests ==
  \A a, b, c, d \in Names : <<Try(a), Try(b), Ask(c), Try(d)>> \in Seq(Later)
  BY AskedLater

LEMMA OrientToolsTyped == \A t \in DOMAIN OrientTools : OrientTools[t] \in Seq(Later)
<1>1. \A t \in DOMAIN OrientTools : OrientTools[t] \in
        {<<Ask("Context")>>, << >>, <<Ask("ListAgents"), Try("ListClaims")>>}
  BY DEF OrientTools
<1>2. <<Ask("Context")>> \in Seq(Later)
  BY NamesAre, OneRequest
<1>3. <<Ask("ListAgents"), Try("ListClaims")>> \in Seq(Later)
  BY NamesAre, TwoRequests
<1> QED
  BY <1>1, <1>2, NoRequest, <1>3

LEMMA PlanToolsTyped == \A t \in DOMAIN PlanTools : PlanTools[t] \in Seq(Later)
<1>1. \A t \in DOMAIN PlanTools : PlanTools[t] \in
        {<<Ask("ListPlans")>>, <<Ask("GetPlan")>>, <<Ask("CreatePlan")>>,
         <<Ask("UpdatePlan")>>}
  BY DEF PlanTools
<1>2. <<Ask("ListPlans")>> \in Seq(Later)
  BY NamesAre, OneRequest
<1>3. <<Ask("GetPlan")>> \in Seq(Later)
  BY NamesAre, OneRequest
<1>4. <<Ask("CreatePlan")>> \in Seq(Later)
  BY NamesAre, OneRequest
<1>5. <<Ask("UpdatePlan")>> \in Seq(Later)
  BY NamesAre, OneRequest
<1> QED
  BY <1>1, <1>2, <1>3, <1>4, <1>5

LEMMA TaskToolsTyped == \A t \in DOMAIN TaskTools : TaskTools[t] \in Seq(Later)
<1>1. \A t \in DOMAIN TaskTools : TaskTools[t] \in
        {<<Ask("ListTasks")>>, <<Ask("CreateTask")>>, <<Ask("UpdateTask")>>,
         <<Ask("ClaimTask")>>}
  BY DEF TaskTools
<1>2. <<Ask("ListTasks")>> \in Seq(Later)
  BY NamesAre, OneRequest
<1>3. <<Ask("CreateTask")>> \in Seq(Later)
  BY NamesAre, OneRequest
<1>4. <<Ask("UpdateTask")>> \in Seq(Later)
  BY NamesAre, OneRequest
<1>5. <<Ask("ClaimTask")>> \in Seq(Later)
  BY NamesAre, OneRequest
<1> QED
  BY <1>1, <1>2, <1>3, <1>4, <1>5

LEMMA FileToolsTyped == \A t \in DOMAIN FileTools : FileTools[t] \in Seq(Later)
<1>1. \A t \in DOMAIN FileTools : FileTools[t] \in
        {<<Ask("ClaimFiles")>>, <<Ask("ReleaseFiles")>>, <<Ask("CheckFiles")>>}
  BY DEF FileTools
<1>2. <<Ask("ClaimFiles")>> \in Seq(Later)
  BY NamesAre, OneRequest
<1>3. <<Ask("ReleaseFiles")>> \in Seq(Later)
  BY NamesAre, OneRequest
<1>4. <<Ask("CheckFiles")>> \in Seq(Later)
  BY NamesAre, OneRequest
<1> QED
  BY <1>1, <1>2, <1>3, <1>4

LEMMA ReportToolsTyped == \A t \in DOMAIN ReportTools : ReportTools[t] \in Seq(Later)
<1>1. \A t \in DOMAIN ReportTools : ReportTools[t] \in
        {<<Try("UpdateTask"), Ask("CreateDecision")>>, <<Ask("CreateDecision")>>}
  BY DEF ReportTools
<1>2. <<Try("UpdateTask"), Ask("CreateDecision")>> \in Seq(Later)
  BY NamesAre, TwoRequests
<1>3. <<Ask("CreateDecision")>> \in Seq(Later)
  BY NamesAre, OneRequest
<1> QED
  BY <1>1, <1>2, <1>3

LEMMA RoomToolsTyped == \A t \in DOMAIN RoomTools : RoomTools[t] \in Seq(Later)
<1>1. \A t \in DOMAIN RoomTools : RoomTools[t] \in
        {<<Ask("PostMessage")>>, <<Ask("Room")>>, <<Ask("ResolveQuestion")>>}
  BY DEF RoomTools
<1>2. <<Ask("PostMessage")>> \in Seq(Later)
  BY NamesAre, OneRequest
<1>3. <<Ask("Room")>> \in Seq(Later)
  BY NamesAre, OneRequest
<1>4. <<Ask("ResolveQuestion")>> \in Seq(Later)
  BY NamesAre, OneRequest
<1> QED
  BY <1>1, <1>2, <1>3, <1>4

LEMMA DecisionToolTyped == \A t \in DOMAIN DecisionTool : DecisionTool[t] \in Seq(Later)
<1>1. \A t \in DOMAIN DecisionTool : DecisionTool[t] \in
        {<<Ask("ListDecisions")>>}
  BY DEF DecisionTool
<1>2. <<Ask("ListDecisions")>> \in Seq(Later)
  BY NamesAre, OneRequest
<1> QED
  BY <1>1, <1>2

LEMMA HookCallsTyped == \A t \in DOMAIN HookCalls : HookCalls[t] \in Seq(Later)
<1>1. \A t \in DOMAIN HookCalls : HookCalls[t] \in
        {<<Ask("Context"), Try("MarkRoomRead")>>,
         <<Try("Heartbeat"), Try("RenewClaims"), Ask("Context"), Try("MarkRoomRead")>>,
         <<Ask("CheckFiles")>>, <<Ask("CheckFiles"), Try("ClaimFiles")>>, <<Ask("Context")>>,
         <<Try("ReleaseFiles")>>}
  BY DEF HookCalls
<1>2. <<Ask("Context"), Try("MarkRoomRead")>> \in Seq(Later)
  BY NamesAre, TwoRequests
<1>3. <<Try("Heartbeat"), Try("RenewClaims"), Ask("Context"), Try("MarkRoomRead")>> \in Seq(Later)
  BY NamesAre, FourRequests
<1>4. <<Ask("CheckFiles")>> \in Seq(Later)
  BY NamesAre, OneRequest
<1>5. <<Ask("CheckFiles"), Try("ClaimFiles")>> \in Seq(Later)
  BY NamesAre, TwoRequests
<1>6. <<Ask("Context")>> \in Seq(Later)
  BY NamesAre, OneRequest
<1>7. <<Try("ReleaseFiles")>> \in Seq(Later)
  BY NamesAre, OneRequest
<1> QED
  BY <1>1, <1>2, <1>3, <1>4, <1>5, <1>6, <1>7

LEMMA CommandsTyped == \A t \in DOMAIN Commands : Commands[t] \in Seq(Later)
<1>1. \A t \in DOMAIN Commands : Commands[t] \in
        {<< >>, <<Ask("Context")>>, <<Ask("ListAgents")>>, <<Ask("ListTasks")>>,
         <<Ask("ListPlans")>>, <<Ask("CreatePlan")>>, <<Ask("ListClaims")>>,
         <<Ask("ClaimFiles")>>, <<Ask("ReleaseFiles")>>, <<Ask("CheckFiles")>>,
         <<Ask("RecentEvents")>>}
  BY DEF Commands
<1>2. <<Ask("Context")>> \in Seq(Later)
  BY NamesAre, OneRequest
<1>3. <<Ask("ListAgents")>> \in Seq(Later)
  BY NamesAre, OneRequest
<1>4. <<Ask("ListTasks")>> \in Seq(Later)
  BY NamesAre, OneRequest
<1>5. <<Ask("ListPlans")>> \in Seq(Later)
  BY NamesAre, OneRequest
<1>6. <<Ask("CreatePlan")>> \in Seq(Later)
  BY NamesAre, OneRequest
<1>7. <<Ask("ListClaims")>> \in Seq(Later)
  BY NamesAre, OneRequest
<1>8. <<Ask("ClaimFiles")>> \in Seq(Later)
  BY NamesAre, OneRequest
<1>9. <<Ask("ReleaseFiles")>> \in Seq(Later)
  BY NamesAre, OneRequest
<1>10. <<Ask("CheckFiles")>> \in Seq(Later)
  BY NamesAre, OneRequest
<1>11. <<Ask("RecentEvents")>> \in Seq(Later)
  BY NamesAre, OneRequest
<1> QED
  BY <1>1, NoRequest, <1>2, <1>3, <1>4, <1>5, <1>6, <1>7, <1>8, <1>9, <1>10, <1>11

LEMMA TaskCommandsTyped == \A t \in DOMAIN TaskCommands : TaskCommands[t] \in Seq(Later)
<1>1. \A t \in DOMAIN TaskCommands : TaskCommands[t] \in
        {<<Ask("CreateTask")>>, <<Ask("ClaimTask")>>, <<Ask("UpdateTask")>>}
  BY DEF TaskCommands
<1>2. <<Ask("CreateTask")>> \in Seq(Later)
  BY NamesAre, OneRequest
<1>3. <<Ask("ClaimTask")>> \in Seq(Later)
  BY NamesAre, OneRequest
<1>4. <<Ask("UpdateTask")>> \in Seq(Later)
  BY NamesAre, OneRequest
<1> QED
  BY <1>1, <1>2, <1>3, <1>4

(* Every tool, hook and command asks for what a route serves. *)
LEMMA CallsTyped == \A t \in Tool : Calls[t] \in Seq(Later)
<1>1. \A t \in DOMAIN ToolCalls : ToolCalls[t] \in Seq(Later)
  BY OrientToolsTyped, PlanToolsTyped, TaskToolsTyped, FileToolsTyped, ReportToolsTyped,
     RoomToolsTyped, DecisionToolTyped DEF ToolCalls, ++
<1>2. \A t \in DOMAIN Calls : Calls[t] \in Seq(Later)
  BY <1>1, HookCallsTyped, CommandsTyped, TaskCommandsTyped DEF Calls, ++
<1> QED
  BY <1>2, SessionsTools

(* A process between two steps: a call that waits has something to do, and *)
(* what comes after the first of it is not to resolve the project.         *)
CallState == [sess: Sess, opening: Sess, tool: Tool \cup {NoTool}, todo: Seq(Asked),
              waits: 0..MaxLate + 1, error: BOOLEAN]

CallOK(c) ==
  /\ c \in CallState
  /\ c.waits # 0 => c.todo # <<>>
  /\ c.tool = NoTool => c.todo = <<>>
  /\ c.todo # <<>> => Tail(c.todo) \in Seq(Later)

CallsOK == procs \in [Proc -> CallState] /\ \A p \in Proc : CallOK(procs[p])

(* A request, and that a process has two under different numbers: this is  *)
(* why there is always a number left, and one answer to what is waited for.*)
RequestOK(r) ==
  /\ r = [by |-> r.by, n |-> r.n, op |-> r.op, at |-> r.at, adopt |-> r.adopt]
  /\ r.by \in Proc /\ r.n \in 1..MaxLate + 1 /\ r.at \in Sess

RequestsOK ==
  /\ IsFiniteSet(pending)
  /\ \A r \in pending : RequestOK(r)
  /\ \A q, r \in pending : q.by = r.by /\ q.n = r.n => q = r
  /\ Cardinality(Late) <= MaxLate

DaemonOK ==
  /\ projects \subseteq Pid /\ agents \subseteq [id: AgentId, pid: Pid, key: Key]
  /\ rows \subseteq [pid: Pid] /\ cached \in [Key -> Sess]

CallsInv == DaemonOK /\ CallsOK /\ RequestsOK

(* A session that is open, and a call in the middle, have a project that   *)
(* is there, and nobody was told an error.                                 *)
Speaks(c, P) ==
  /\ c.sess # None => c.sess.pid \in P
  /\ c.todo # <<>> /\ Head(c.todo).op = "ResolveProject" => c.opening.pid = "path"
  /\ c.todo # <<>> /\ Head(c.todo).op # "ResolveProject" =>
       \/ c.opening = None /\ c.sess.pid \in P
       \/ c.opening # None /\ c.opening.pid \in P

Sound(c, P) == c.error = FALSE /\ Speaks(c, P)

(* What a process waits for is what it has to do, for whom it speaks.      *)
Heard(r) ==
  Waiting(r) => r.at = Speaking(r.by) /\ r.op = Route[Head(procs[r.by].todo).op]

ErrInv ==
  /\ CallsInv
  /\ \A r \in pending : Heard(r)
  /\ ~remote => \A r \in pending : r.adopt \in {"unread", "path"}
  /\ remote \/ forgotten \/ \A p \in Proc : Sound(procs[p], projects)

LEMMA SessNone == None \in Sess /\ None.id = NoAgent /\ None.pid = "none"
  BY DEF None, Sess

LEMMA AskedHas ==
  /\ \A q \in Later : q.op \in Names /\ q.op # "ResolveProject"
  /\ \A q \in Asked : q.checked = TRUE \/ q.checked = FALSE
  /\ \A q \in Asked : q.op = "ResolveProject" => q.checked = TRUE
<1>1. \A q \in Later : q.op \in Names /\ q.op # "ResolveProject"
  <2>1. \A o \in Names : Ask(o).op = o /\ Try(o).op = o
    BY DEF Ask, Try
  <2> QED
    BY <2>1 DEF Later, Names
<1>2. \A q \in Later : q.checked = TRUE \/ q.checked = FALSE
  BY DEF Later, Ask, Try
<1>3. Ask("ResolveProject").checked = TRUE
  BY DEF Ask
<1>4. \A q \in Asked : q \in Later \/ q = Ask("ResolveProject")
  BY DEF Asked
<1> QED
  BY <1>1, <1>2, <1>3, <1>4

(* A record with the fields of a call. *)
Fields == {"sess", "opening", "tool", "todo", "waits", "error"}

LEMMA CallRecord ==
  ASSUME NEW d, DOMAIN d = Fields, d = [x \in DOMAIN d |-> d[x]],
         d.sess \in Sess, d.opening \in Sess, d.tool \in Tool \cup {NoTool}, d.todo \in Seq(Asked),
         d.waits \in 0..MaxLate + 1, d.error \in BOOLEAN
  PROVE  d \in CallState
  BY DEF CallState, Fields

(* What is left of a call. *)
LEMMA Rest ==
  ASSUME NEW c, CallOK(c), c.todo # <<>>
  PROVE  /\ Head(c.todo) \in Asked /\ Tail(c.todo) \in Seq(Later) /\ Tail(c.todo) \in Seq(Asked)
         /\ Tail(c.todo) # <<>> => /\ Head(Tail(c.todo)) \in Later
                                   /\ Tail(Tail(c.todo)) \in Seq(Later)
<1>1. c.todo \in Seq(Asked) /\ Tail(c.todo) \in Seq(Later)
  BY DEF CallOK, CallState
<1>2. Later \subseteq Asked
  BY DEF Asked
<1> QED
  BY <1>1, <1>2

(* A call that is over. *)
LEMMA AnsweredFields ==
  ASSUME NEW c \in CallState, NEW a
  PROVE  /\ CallOK(Answered(c, a))
         /\ Answered(c, a).waits = 0 /\ Answered(c, a).todo = <<>>
         /\ Answered(c, a).error = (a = "error")
         /\ Answered(c, a).sess = c.sess \/ Answered(c, a).sess = None
<1> DEFINE d == Answered(c, a)
<1>1. /\ d.tool = NoTool /\ d.todo = <<>> /\ d.waits = 0 /\ d.opening = None /\ d.error = (a = "error")
      /\ d.sess = IF c.tool \in DOMAIN ToolCalls THEN c.sess ELSE None
  BY DEF Answered, CallState
<1>2. DOMAIN d = Fields /\ d = [x \in DOMAIN d |-> d[x]]
  BY DEF Answered, CallState, Fields
<1> HIDE DEF d
<1>3. c.sess \in Sess
  BY DEF CallState
<1>4. d.sess \in Sess /\ d.opening \in Sess /\ d.waits \in 0..MaxLate + 1 /\ d.todo \in Seq(Asked)
      /\ d.error \in BOOLEAN
  BY <1>1, <1>3, SessNone, SessionsBound
<1>5. d \in CallState
  BY <1>1, <1>2, <1>4, CallRecord
<1>6. CallOK(d) /\ (d.sess = c.sess \/ d.sess = None)
  BY <1>1, <1>5 DEF CallOK
<1> QED
  BY <1>1, <1>6 DEF d

(* A call that goes on. *)
LEMMA AdvancedFields ==
  ASSUME NEW c, CallOK(c), c.todo # <<>>, NEW s \in Sess
  PROVE  LET d == Advanced(c, s) IN
         /\ CallOK(d) /\ d.waits = 0
         /\ \/ d.todo = <<>> /\ d.error = FALSE /\ d.sess \in {c.sess, s, None}
            \/ /\ d.todo = Tail(c.todo) /\ d.todo # <<>> /\ d.error = c.error
               /\ \/ d.opening = None /\ d.sess = s /\ c.opening # None
                  \/ d.opening = s /\ d.sess = c.sess
<1> DEFINE rest == Tail(c.todo)
           opened == c.opening # None /\ (rest = <<>> \/ Head(rest).op # "Register")
           e == [c EXCEPT !.todo = rest, !.waits = 0,
                     !.opening = IF opened THEN None ELSE s,
                     !.sess = IF opened THEN s ELSE @]
           nobody == opened /\ s.id = NoAgent /\ c.tool \in {"Stop", "SessionEnd"}
<1>1. c \in CallState
  BY DEF CallOK
<1>2. /\ e.todo = rest /\ e.waits = 0 /\ e.opening = (IF opened THEN None ELSE s)
      /\ e.sess = (IF opened THEN s ELSE c.sess) /\ e.tool = c.tool /\ e.error = c.error
  BY <1>1 DEF CallState
<1>11. DOMAIN e = Fields /\ e = [x \in DOMAIN e |-> e[x]]
  BY <1>1 DEF CallState, Fields
<1>3. Advanced(c, s) = IF rest = <<>> \/ nobody THEN Answered(e, "ok") ELSE e
  BY DEF Advanced
<1>4. rest \in Seq(Asked) /\ (rest # <<>> => Tail(rest) \in Seq(Later))
  BY Rest
<1> HIDE DEF e, rest, opened, nobody
<1>5. c.sess \in Sess /\ c.tool \in Tool \cup {NoTool} /\ c.error \in BOOLEAN
  BY <1>1 DEF CallState
<1>6. e.sess \in Sess /\ e.opening \in Sess /\ e.waits \in 0..MaxLate + 1
  BY <1>2, <1>5, SessNone, SessionsBound
<1>7. e \in CallState
  BY <1>2, <1>4, <1>5, <1>6, <1>11, CallRecord
<1>12. c.tool # NoTool
  BY DEF CallOK
<1>8. CallOK(e)
  BY <1>2, <1>4, <1>7, <1>12 DEF CallOK
<1>9. CASE rest = <<>> \/ nobody
  <2>1. Advanced(c, s) = Answered(e, "ok")
    BY <1>3, <1>9
  <2>2. ("ok" = "error") = FALSE
    OBVIOUS
  <2>3. Answered(e, "ok").sess \in {c.sess, s, None}
    BY <1>2, <1>7, AnsweredFields
  <2>4. CallOK(Answered(e, "ok")) /\ Answered(e, "ok").waits = 0 /\ Answered(e, "ok").todo = <<>>
    BY <1>7, AnsweredFields
  <2>5. Answered(e, "ok").error = ("ok" = "error")
    BY <1>7, AnsweredFields
  <2>6. Answered(e, "ok").error = FALSE
    BY <2>2, <2>5
  <2> QED
    BY <2>1, <2>3, <2>4, <2>6
<1>10. CASE ~(rest = <<>> \/ nobody)
  <2>1. Advanced(c, s) = e
    BY <1>3, <1>10
  <2>2. opened => c.opening # None
    BY DEF opened
  <2> QED
    BY <2>1, <2>2, <1>2, <1>8, <1>10 DEF rest
<1> QED
  BY <1>9, <1>10

LEMMA FailedFields ==
  ASSUME NEW c, CallOK(c), c.todo # <<>>, NEW kind
  PROVE  CallOK(Failed(c, kind)) /\ Failed(c, kind).waits = 0
<1>1. c \in CallState /\ c.opening \in Sess
  BY DEF CallOK, CallState
<1> QED
  BY <1>1, AdvancedFields, AnsweredFields DEF Failed

LEMMA AdvancedSound ==
  ASSUME NEW c, CallOK(c), c.todo # <<>>, NEW P, Sound(c, P), NEW s \in Sess,
         s.pid \in P \/ (s = None /\ c.opening = None /\ c.sess.pid \in P)
  PROVE  Sound(Advanced(c, s), P)
<1> DEFINE d == Advanced(c, s)
<1>1. /\ \/ d.todo = <<>> /\ d.error = FALSE /\ d.sess \in {c.sess, s, None}
         \/ /\ d.todo = Tail(c.todo) /\ d.todo # <<>> /\ d.error = c.error
            /\ \/ d.opening = None /\ d.sess = s /\ c.opening # None
               \/ d.opening = s /\ d.sess = c.sess
  BY AdvancedFields
<1> HIDE DEF d
<1>2. c.error = FALSE /\ Speaks(c, P)
  BY DEF Sound
<1>3. d.todo # <<>> => Head(d.todo).op # "ResolveProject"
  BY <1>1, Rest, AskedHas
<1>4. d.error = FALSE
  BY <1>1, <1>2
<1>5. \/ d.todo = <<>> /\ d.sess \in {c.sess, s, None}
      \/ d.todo # <<>> /\ d.opening = None /\ d.sess = s /\ c.opening # None
      \/ d.todo # <<>> /\ d.opening = s /\ d.sess = c.sess
  BY <1>1
<1>6. Speaks(d, P)
  BY <1>2, <1>3, <1>5 DEF Speaks
<1> QED
  BY <1>4, <1>6 DEF Sound, d

LEMMA AnsweredSound ==
  ASSUME NEW c, CallOK(c), NEW P, Sound(c, P), NEW a, a # "error"
  PROVE  Sound(Answered(c, a), P)
<1>1. c \in CallState
  BY DEF CallOK
<1>2. /\ Answered(c, a).todo = <<>> /\ Answered(c, a).error = FALSE
      /\ Answered(c, a).sess = c.sess \/ Answered(c, a).sess = None
  BY <1>1, AnsweredFields
<1>3. Speaks(Answered(c, a), P)
  BY <1>2 DEF Speaks, Sound
<1> QED
  BY <1>2, <1>3 DEF Sound

(* Silence is no error. *)
LEMMA FailedSound ==
  ASSUME NEW c, CallOK(c), c.todo # <<>>, NEW P, Sound(c, P)
  PROVE  Sound(Failed(c, "down"), P)
<1>1. CASE ~Head(c.todo).checked
  <2>1. Head(c.todo).op # "ResolveProject"
    BY <1>1, Rest, AskedHas
  <2>2. c.opening \in Sess
    BY DEF CallOK, CallState
  <2>3. c.opening.pid \in P \/ (c.opening = None /\ c.sess.pid \in P)
    BY <2>1 DEF Sound, Speaks
  <2>4. Sound(Advanced(c, c.opening), P)
    BY <2>2, <2>3, AdvancedSound
  <2>5. Failed(c, "down") = Advanced(c, c.opening)
    BY <1>1 DEF Failed
  <2> QED
    BY <2>4, <2>5
<1>2. CASE Head(c.todo).checked
  BY <1>2, AnsweredSound DEF Failed
<1> QED
  BY <1>1, <1>2, Rest, AskedHas

(* Only one route resolves. *)
LEMMA OnlyResolve == \A o \in Names : Route[o] # "resolve"
<1>1. \A o \in DOMAIN AgentRoutes : AgentRoutes[o] # "resolve"
  BY DEF AgentRoutes
<1>2. \A o \in DOMAIN PlanRoutes : PlanRoutes[o] # "resolve"
  BY DEF PlanRoutes
<1>3. \A o \in DOMAIN TaskRoutes : TaskRoutes[o] # "resolve"
  BY DEF TaskRoutes
<1>4. \A o \in DOMAIN ClaimRoutes : ClaimRoutes[o] # "resolve"
  BY DEF ClaimRoutes
<1>5. \A o \in DOMAIN NoteRoutes : NoteRoutes[o] # "resolve"
  BY DEF NoteRoutes
<1>6. \A o \in DOMAIN RoomRoutes : RoomRoutes[o] # "resolve"
  BY DEF RoomRoutes
<1> DEFINE own == [ResolveProject |-> "resolve", Context |-> "need"]
<1>7. \A o \in DOMAIN own \ {"ResolveProject"} : own[o] # "resolve"
  OBVIOUS
<1> HIDE DEF own
<1>8. Route = AgentRoutes ++ PlanRoutes ++ TaskRoutes ++ ClaimRoutes ++ NoteRoutes ++ RoomRoutes ++ own
  BY DEF Route, own
<1> QED
  BY <1>1, <1>2, <1>3, <1>4, <1>5, <1>6, <1>7, <1>8 DEF Names, ++

(* There is a number left when no more than MaxLate are taken. *)
LEMMA NumberLeft ==
  ASSUME NEW S, IsFiniteSet(S), Cardinality(S) <= MaxLate
  PROVE  \E i \in 1..MaxLate + 1 : i \notin {r.n : r \in S}
<1> DEFINE T == {r.n : r \in S}
           f == [r \in S |-> r.n]
<1>1. f \in Surjection(S, T)
  BY DEF Surjection
<1>2. IsFiniteSet(T) /\ Cardinality(T) <= Cardinality(S)
  BY <1>1, FS_Surjection
<1>3. SUFFICES ASSUME 1..MaxLate + 1 \subseteq T PROVE FALSE
  OBVIOUS
<1>4. Cardinality(1..MaxLate + 1) <= Cardinality(T)
  BY <1>2, <1>3, FS_Subset
<1>5. Cardinality(1..MaxLate + 1) = MaxLate + 1
  BY FS_Interval, SessionsBound
<1>6. Cardinality(S) \in Nat /\ Cardinality(T) \in Nat
  BY <1>2, FS_CardinalityType
<1> QED
  BY <1>2, <1>4, <1>5, <1>6, SessionsBound

(* One more makes at most one more. *)
LEMMA OneMore ==
  ASSUME NEW S, IsFiniteSet(S), NEW x
  PROVE  /\ IsFiniteSet(S \cup {x}) /\ Cardinality(S) \in Nat /\ Cardinality(S \cup {x}) \in Nat
         /\ Cardinality(S \cup {x}) <= Cardinality(S) + 1
<1>1. IsFiniteSet(S \cup {x}) /\ Cardinality(S \cup {x}) = IF x \in S THEN Cardinality(S) ELSE Cardinality(S) + 1
  BY FS_AddElement
<1> QED
  BY <1>1, FS_CardinalityType

(* Fewer late requests are not too many. *)
LEMMA LateFewer ==
  ASSUME RequestsOK, NEW S \in SUBSET Late
  PROVE  IsFiniteSet(S) /\ Cardinality(S) <= MaxLate
<1>1. IsFiniteSet(Late)
  BY FS_Subset DEF RequestsOK, Late
<1>2. IsFiniteSet(S) /\ Cardinality(S) <= Cardinality(Late)
  BY <1>1, FS_Subset
<1> QED
  BY <1>1, <1>2, FS_CardinalityType, SessionsBound DEF RequestsOK

LEMMA TypeOKFrom == CallsInv => TypeOK
  BY DEF CallsInv, DaemonOK, CallsOK, CallState, CallOK, TypeOK

(* What is waited for is something to do. *)
LEMMA WaitingHas ==
  ASSUME CallsOK, RequestsOK, NEW r \in pending, Waiting(r)
  PROVE  /\ r.by \in Proc /\ CallOK(procs[r.by]) /\ procs[r.by].todo # <<>>
         /\ Head(procs[r.by].todo) \in Asked
<1>1. r.by \in Proc /\ r.n # 0
  BY DEF RequestsOK, RequestOK
<1>2. CallOK(procs[r.by]) /\ procs[r.by].todo # <<>>
  BY <1>1 DEF CallsOK, CallOK, Waiting
<1> QED
  BY <1>1, <1>2, Rest

(* An answer: one request less, and nobody waits who did not. *)
LEMMA ReplyKeeps ==
  ASSUME CallsOK, RequestsOK, NEW r \in pending, Served(r), NEW c, Reply(r, c),
         Waiting(r) => CallOK(c) /\ c.waits = 0
  PROVE  CallsOK' /\ RequestsOK'
<1>1. r.by \in Proc /\ procs \in [Proc -> CallState]
  BY DEF RequestsOK, RequestOK, CallsOK
<1>2. procs' = IF Waiting(r) THEN [procs EXCEPT ![r.by] = c] ELSE procs
  BY DEF Reply
<1>3. CallsOK'
  <2>1. CASE Waiting(r)
    <3>1. c \in CallState /\ CallOK(c)
      BY <2>1 DEF CallOK
    <3> QED
      BY <1>1, <1>2, <2>1, <3>1 DEF CallsOK
  <2>2. CASE ~Waiting(r)
    BY <1>2, <2>2 DEF CallsOK
  <2> QED
    BY <2>1, <2>2
<1>4. pending' \subseteq pending /\ IsFiniteSet(pending')
  BY FS_Subset DEF Served, RequestsOK
<1>5. Late' \subseteq Late
  <2>1. SUFFICES ASSUME NEW q \in pending', procs'[q.by].waits # q.n
                 PROVE  q \in Late
    BY DEF Late, Waiting
  <2>2. q \in pending /\ q # r
    BY DEF Served
  <2>3. q.by = r.by => q.n # r.n
    BY <2>2 DEF RequestsOK
  <2>4. CASE Waiting(r) /\ q.by = r.by
    BY <2>2, <2>3, <2>4 DEF Late, Waiting
  <2>5. CASE ~(Waiting(r) /\ q.by = r.by)
    <3>1. procs'[q.by] = procs[q.by]
      BY <1>1, <1>2, <2>2, <2>5 DEF RequestsOK, RequestOK
    <3> QED
      BY <2>1, <2>2, <3>1 DEF Late, Waiting
  <2> QED
    BY <2>4, <2>5
<1>6. Cardinality(Late') <= MaxLate
  BY <1>5, LateFewer
<1>7. RequestsOK'
  BY <1>4, <1>6 DEF RequestsOK, RequestOK
<1> QED
  BY <1>3, <1>7

(* A step of a process that keeps what it waits for. *)
LEMMA SameWaits ==
  ASSUME RequestsOK, UNCHANGED pending, \A q \in pending : procs'[q.by].waits = procs[q.by].waits
  PROVE  RequestsOK'
<1>1. Late' = Late
  BY DEF Late, Waiting
<1> QED
  BY <1>1 DEF RequestsOK

LEMMA OpeningIs ==
  ASSUME NEW p \in Proc, NEW t \in Tool
  PROVE  \/ Opening(p, t) = << >> /\ procs[p].sess # None
         \/ Opening(p, t) = <<Ask("ResolveProject")>>
         \/ Opening(p, t) = <<Ask("ResolveProject"), Ask("Register")>>
  BY DEF Opening

LEMMA OpenedBefore ==
  ASSUME NEW p \in Proc, NEW t \in Tool, Opening(p, t) = << >>
  PROVE  procs[p].sess # None
<1>1. << >> # <<Ask("ResolveProject")>> /\ << >> # <<Ask("ResolveProject"), Ask("Register")>>
  OBVIOUS
<1> QED
  BY <1>1, OpeningIs

LEMMA Joined == ASSUME NEW S, NEW u \in Seq(S), NEW v \in Seq(S) PROVE u \o v \in Seq(S)
  OBVIOUS

(* What a call has to do when it begins. *)
LEMMA BeginHas ==
  ASSUME NEW p \in Proc, NEW t \in Tool, Begin(p, t)
  PROVE  LET todo == Opening(p, t) \o Calls[t] IN
         /\ todo \in Seq(Asked) /\ todo # <<>> /\ Tail(todo) \in Seq(Later)
         /\ IF Opening(p, t) = << >> THEN Head(todo) \in Later ELSE Head(todo) = Ask("ResolveProject")
<1> DEFINE todo == Opening(p, t) \o Calls[t]
<1>1. Calls[t] \in Seq(Later)
  BY CallsTyped
<1>2. todo # <<>>
  BY DEF Begin
<1>3. Later \subseteq Asked /\ Ask("ResolveProject") \in Asked
  BY DEF Asked
<1>4. Ask("Register") \in Later
  BY NamesAre, AskedLater
<1>5. CASE Opening(p, t) = << >>
  <2>1. todo = Calls[t]
    BY <1>1, <1>5
  <2>2. todo \in Seq(Asked)
    BY <1>1, <1>3, <2>1
  <2>3. Head(todo) \in Later /\ Tail(todo) \in Seq(Later)
    BY <1>1, <1>2, <2>1
  <2> QED
    BY <1>2, <1>5, <2>2, <2>3
<1>6. CASE Opening(p, t) = <<Ask("ResolveProject")>>
  <2>1. Opening(p, t) \in Seq(Asked) /\ Calls[t] \in Seq(Asked)
    BY <1>1, <1>3, <1>6
  <2>2. todo \in Seq(Asked)
    BY <2>1
  <2>3. Head(todo) = Ask("ResolveProject")
    BY <1>6, <2>1
  <2>4. Tail(todo) = Calls[t]
    BY <1>6, <2>1
  <2>5. Opening(p, t) # << >>
    BY <1>6
  <2> QED
    BY <1>1, <1>2, <2>2, <2>3, <2>4, <2>5
<1>7. CASE Opening(p, t) = <<Ask("ResolveProject"), Ask("Register")>>
  <2>1. Opening(p, t) \in Seq(Asked) /\ Calls[t] \in Seq(Asked)
    BY <1>1, <1>3, <1>4, <1>7
  <2>2. todo \in Seq(Asked)
    BY <2>1
  <2>3. Head(todo) = Ask("ResolveProject")
    BY <1>7, <2>1
  <2>4. Tail(todo) = <<Ask("Register")>> \o Calls[t]
    BY <1>7, <2>1
  <2>5. <<Ask("Register")>> \in Seq(Later)
    BY <1>4
  <2>6. Tail(todo) \in Seq(Later)
    BY <1>1, <2>4, <2>5, Joined
  <2>7. Opening(p, t) # << >>
    BY <1>7
  <2> QED
    BY <1>2, <2>2, <2>3, <2>6, <2>7
<1> QED
  BY <1>5, <1>6, <1>7, OpeningIs

(* A call begins: what the process had to do before is over. *)
LEMMA BeginFields ==
  ASSUME CallsOK, NEW p \in Proc, NEW t \in Tool, Begin(p, t)
  PROVE  \E d : /\ procs' = [procs EXCEPT ![p] = d] /\ CallOK(d)
               /\ procs[p].waits = 0 /\ d.waits = 0
               /\ d.sess = procs[p].sess /\ d.todo = Opening(p, t) \o Calls[t] /\ d.error = FALSE
               /\ d.opening = IF Opening(p, t) = << >> THEN None ELSE [pid |-> Here, id |-> NoAgent]
<1> DEFINE c == procs[p]
           first == Opening(p, t)
           todo == first \o Calls[t]
           open == IF first = << >> THEN None ELSE [pid |-> Here, id |-> NoAgent]
           d == [c EXCEPT !.tool = t, !.todo = todo, !.error = FALSE, !.opening = open]
<1>1. c \in CallState /\ CallOK(c) /\ c.tool = NoTool
  BY DEF CallsOK, Begin
<1>2. c.waits = 0
  BY <1>1 DEF CallOK
<1>3. procs' = [procs EXCEPT ![p] = d]
  BY DEF Begin
<1>4. todo \in Seq(Asked) /\ todo # << >> /\ Tail(todo) \in Seq(Later)
  BY BeginHas
<1>5. open \in Sess
  <2>1. [pid |-> Here, id |-> NoAgent] \in Sess
    BY DEF Here, Sess, Pid
  <2> QED
    BY <2>1, SessNone
<1> HIDE DEF c, first, todo, open
<1>6. /\ d.sess = c.sess /\ d.opening = open /\ d.tool = t /\ d.todo = todo /\ d.waits = c.waits
      /\ d.error = FALSE
  BY <1>1 DEF CallState
<1>7. DOMAIN d = Fields /\ d = [x \in DOMAIN d |-> d[x]]
  BY <1>1 DEF CallState, Fields
<1> HIDE DEF d
<1>8. c.sess \in Sess /\ c.waits \in 0..MaxLate + 1
  BY <1>1 DEF CallState
<1>9. d \in CallState
  BY <1>4, <1>5, <1>6, <1>7, <1>8, CallRecord
<1>10. t # NoTool
  BY SessionsIds
<1>11. CallOK(d)
  BY <1>2, <1>4, <1>6, <1>9, <1>10 DEF CallOK
<1>12. /\ d.sess = procs[p].sess /\ d.todo = Opening(p, t) \o Calls[t]
       /\ d.opening = IF Opening(p, t) = << >> THEN None ELSE [pid |-> Here, id |-> NoAgent]
  BY <1>6 DEF c, todo, open, first
<1>13. procs[p].waits = 0 /\ d.waits = 0
  BY <1>2, <1>6 DEF c
<1> QED
  BY <1>3, <1>6, <1>11, <1>12, <1>13

LEMMA BeginKeeps ==
  ASSUME CallsInv, NEW p \in Proc, NEW t \in Tool, Begin(p, t)
  PROVE  CallsInv'
<1>1. CallsOK /\ RequestsOK /\ DaemonOK
  BY DEF CallsInv
<1>2. PICK d : /\ procs' = [procs EXCEPT ![p] = d] /\ CallOK(d)
               /\ procs[p].waits = 0 /\ d.waits = 0
  BY <1>1, BeginFields
<1>3. CallsOK'
  BY <1>1, <1>2 DEF CallsOK, CallOK
<1>4. \A q \in pending : procs'[q.by].waits = procs[q.by].waits
  BY <1>1, <1>2 DEF CallsOK, RequestsOK, RequestOK
<1>5. RequestsOK'
  BY <1>1, <1>4, SameWaits DEF Begin
<1>6. DaemonOK'
  BY <1>1 DEF DaemonOK, Begin
<1> QED
  BY <1>3, <1>5, <1>6 DEF CallsInv

(* What is sent: a request under a number of its own. *)
LEMMA SendFields ==
  ASSUME CallsOK, RequestsOK, NEW p \in Proc, Send(p)
  PROVE  \E n \in 1..MaxLate + 1 :
           /\ \A q \in pending : q.by = p => q.n # n
           /\ pending' = pending \cup {[by |-> p, n |-> n, op |-> Route[Head(procs[p].todo).op],
                                       at |-> Speaking(p), adopt |-> "unread"]}
           /\ procs' = [procs EXCEPT ![p].waits = n]
<1> DEFINE Of == {q \in pending : q.by = p}
           mine == {r.n : r \in Of}
           n == CHOOSE i \in 1..MaxLate + 1 : i \notin mine
<1>1. Of \subseteq Late
  BY DEF Late, Waiting, Send, RequestsOK, RequestOK
<1>2. \E i \in 1..MaxLate + 1 : i \notin mine
  BY <1>1, LateFewer, NumberLeft
<1>3. n \in 1..MaxLate + 1 /\ n \notin mine
  BY <1>2
<1>4. \A q \in pending : q.by = p => q.n # n
  BY <1>3
<1>5. /\ pending' = pending \cup {[by |-> p, n |-> n, op |-> Route[Head(procs[p].todo).op],
                                    at |-> Speaking(p), adopt |-> "unread"]}
      /\ procs' = [procs EXCEPT ![p].waits = n]
  BY DEF Send
<1> HIDE DEF n
<1> QED
  BY <1>3, <1>4, <1>5

LEMMA SendKeeps ==
  ASSUME CallsInv, NEW p \in Proc, Send(p)
  PROVE  CallsInv'
<1>1. CallsOK /\ RequestsOK /\ DaemonOK /\ procs \in [Proc -> CallState]
  BY DEF CallsInv, CallsOK
<1>2. PICK n \in 1..MaxLate + 1 :
           /\ \A q \in pending : q.by = p => q.n # n
           /\ pending' = pending \cup {[by |-> p, n |-> n, op |-> Route[Head(procs[p].todo).op],
                                       at |-> Speaking(p), adopt |-> "unread"]}
           /\ procs' = [procs EXCEPT ![p].waits = n]
  BY <1>1, SendFields
<1> DEFINE c == procs[p]
           d == [c EXCEPT !.waits = n]
           new == [by |-> p, n |-> n, op |-> Route[Head(procs[p].todo).op],
                   at |-> Speaking(p), adopt |-> "unread"]
<1>3. c \in CallState /\ CallOK(c) /\ c.todo # << >>
  BY <1>1 DEF CallsOK, Send
<1>4. procs' = [procs EXCEPT ![p] = d]
  BY <1>2
<1>5. Speaking(p) \in Sess
  BY <1>3 DEF Speaking, CallState
<1>6. new.by = p /\ new.n = n /\ RequestOK(new)
  BY <1>5 DEF RequestOK
<1>7. pending' = pending \cup {new}
  BY <1>2
<1> HIDE DEF c, new
<1>8. d \in CallState /\ CallOK(d) /\ d.waits = n
  <2>1. /\ d.sess = c.sess /\ d.opening = c.opening /\ d.tool = c.tool /\ d.todo = c.todo
        /\ d.waits = n /\ d.error = c.error
    BY <1>3 DEF CallState
  <2>2. DOMAIN d = Fields /\ d = [x \in DOMAIN d |-> d[x]]
    BY <1>3 DEF CallState, Fields
  <2> HIDE DEF d
  <2>3. /\ c.sess \in Sess /\ c.opening \in Sess /\ c.tool \in Tool \cup {NoTool}
        /\ c.todo \in Seq(Asked) /\ c.error \in BOOLEAN
    BY <1>3 DEF CallState
  <2>4. d \in CallState
    BY <2>1, <2>2, <2>3, CallRecord, SessionsBound
  <2> QED
    BY <1>3, <2>1, <2>4 DEF CallOK
<1> HIDE DEF d
<1>9. CallsOK'
  BY <1>1, <1>4, <1>8 DEF CallsOK
<1>10. Late' \subseteq Late
  <2>1. SUFFICES ASSUME NEW q \in pending', procs'[q.by].waits # q.n
                 PROVE  q \in Late
    BY DEF Late, Waiting
  <2>2. q # new
    BY <1>1, <1>4, <1>6, <1>8, <2>1
  <2>3. q \in pending /\ q.by \in Proc /\ q.n # 0
    BY <1>1, <1>7, <2>2 DEF RequestsOK, RequestOK
  <2>4. CASE q.by = p
    BY <2>3, <2>4 DEF Send, Late, Waiting
  <2>5. CASE q.by # p
    BY <1>1, <1>4, <2>1, <2>3, <2>5 DEF Late, Waiting
  <2> QED
    BY <2>4, <2>5
<1>11. IsFiniteSet(pending')
  BY <1>1, <1>7, FS_AddElement DEF RequestsOK
<1>12. \A q, r \in pending' : q.by = r.by /\ q.n = r.n => q = r
  BY <1>1, <1>2, <1>6, <1>7 DEF RequestsOK
<1>13. Cardinality(Late') <= MaxLate
  BY <1>1, <1>10, LateFewer
<1>14. RequestsOK'
  BY <1>1, <1>6, <1>7, <1>11, <1>12, <1>13 DEF RequestsOK, RequestOK
<1>15. DaemonOK'
  BY <1>1 DEF DaemonOK, Send
<1> QED
  BY <1>9, <1>14, <1>15 DEF CallsInv

(* One more late request, when there is room for it. *)
LEMMA GiveUpKeeps ==
  ASSUME CallsInv, NEW p \in Proc, GiveUp(p)
  PROVE  CallsInv'
<1> DEFINE d == Failed(procs[p], "down")
           own == {q \in pending : q.by = p /\ q.n = procs[p].waits}
<1>1. CallsOK /\ RequestsOK /\ DaemonOK /\ procs \in [Proc -> CallState]
  BY DEF CallsInv, CallsOK
<1>2. CallOK(procs[p]) /\ procs[p].todo # << >>
  BY <1>1 DEF CallsOK, CallOK, GiveUp
<1>3. procs' = [procs EXCEPT ![p] = d] /\ pending' = pending /\ Cardinality(Late) < MaxLate
  BY DEF GiveUp
<1>4. CallOK(d) /\ d \in CallState
  BY <1>2, FailedFields DEF CallOK
<1> HIDE DEF d
<1>5. CallsOK'
  BY <1>1, <1>3, <1>4 DEF CallsOK
<1>6. Late' \subseteq Late \cup own
  BY <1>1, <1>3 DEF Late, Waiting, RequestsOK, RequestOK
<1>7. own = {} \/ \E q \in pending : own = {q}
  BY <1>1 DEF RequestsOK
<1>8. IsFiniteSet(Late)
  BY <1>1, FS_Subset DEF RequestsOK, Late
<1>9. IsFiniteSet(Late \cup own) /\ Cardinality(Late \cup own) <= MaxLate
  <2>1. CASE own = {}
    <3>1. Late \cup own = Late
      BY <2>1
    <3> QED
      BY <1>1, <1>8, <3>1 DEF RequestsOK
  <2>2. ASSUME NEW q \in pending, own = {q}
        PROVE  IsFiniteSet(Late \cup own) /\ Cardinality(Late \cup own) <= MaxLate
    <3> HIDE DEF own
    <3>1. /\ IsFiniteSet(Late \cup own) /\ Cardinality(Late \cup own) <= Cardinality(Late) + 1
          /\ Cardinality(Late) \in Nat /\ Cardinality(Late \cup own) \in Nat
      BY <1>8, <2>2, OneMore
    <3> QED
      BY <1>3, <3>1, SessionsBound
  <2> QED
    BY <1>7, <2>1, <2>2
<1>10. Cardinality(Late') <= MaxLate
  BY <1>6, <1>9, FS_Subset, FS_CardinalityType, SessionsBound
<1>11. RequestsOK'
  BY <1>1, <1>3, <1>10 DEF RequestsOK
<1>12. DaemonOK'
  BY <1>1 DEF DaemonOK, GiveUp
<1> QED
  BY <1>5, <1>11, <1>12 DEF CallsInv

(* The request goes on under its number. *)
LEMMA SelectFields ==
  ASSUME RequestsOK, NEW r \in pending, SelectOld(r)
  PROVE  \E a : /\ pending' = (pending \ {r}) \cup {[by |-> r.by, n |-> r.n, op |-> r.op, at |-> r.at, adopt |-> a]}
                /\ a \in {"adopt", "path", "remote"} /\ (a # "path" => remote)
<1> DEFINE a == IF remote /\ "path" \in projects /\ "remote" \notin projects THEN "adopt" ELSE Here
           c == [by |-> r.by, n |-> r.n, op |-> r.op, at |-> r.at, adopt |-> r.adopt]
<1>1. r = c
  BY DEF RequestsOK, RequestOK
<1>2. pending' = (pending \ {r}) \cup {[r EXCEPT !.adopt = a]}
  BY DEF SelectOld
<1>3. a \in {"adopt", "path", "remote"} /\ (a # "path" => remote)
  BY DEF Here
<1> HIDE DEF a
<1>4. [c EXCEPT !.adopt = a] = [by |-> r.by, n |-> r.n, op |-> r.op, at |-> r.at, adopt |-> a]
  OBVIOUS
<1>5. [r EXCEPT !.adopt = a] = [c EXCEPT !.adopt = a]
  BY <1>1
<1> QED
  BY <1>2, <1>3, <1>4, <1>5

LEMMA SelectKeeps ==
  ASSUME CallsInv, NEW r \in pending, SelectOld(r)
  PROVE  CallsInv'
<1>1. CallsOK /\ RequestsOK /\ DaemonOK
  BY DEF CallsInv
<1>2. PICK a : pending' = (pending \ {r}) \cup {[by |-> r.by, n |-> r.n, op |-> r.op, at |-> r.at, adopt |-> a]}
  BY <1>1, SelectFields
<1> DEFINE new == [by |-> r.by, n |-> r.n, op |-> r.op, at |-> r.at, adopt |-> a]
<1>3. RequestOK(new) /\ new.by = r.by /\ new.n = r.n
  BY <1>1 DEF RequestsOK, RequestOK
<1> HIDE DEF new
<1>4. pending' = (pending \ {r}) \cup {new} /\ procs' = procs
  BY <1>2 DEF new, SelectOld
<1>5. IsFiniteSet(pending')
  BY <1>1, <1>4, FS_RemoveElement, FS_AddElement DEF RequestsOK
<1>6. \A q, s \in pending' : q.by = s.by /\ q.n = s.n => q = s
  BY <1>1, <1>3, <1>4 DEF RequestsOK
<1>7. Cardinality(Late') <= MaxLate
  <2>1. IsFiniteSet(Late) /\ Cardinality(Late) \in Nat
    BY <1>1, FS_Subset, FS_CardinalityType DEF RequestsOK, Late
  <2>2. CASE Waiting(r)
    <3>1. Late' \subseteq Late
      BY <1>3, <1>4, <2>2 DEF Late, Waiting
    <3> QED
      BY <1>1, <3>1, LateFewer
  <2>3. CASE ~Waiting(r)
    <3>1. r \in Late /\ Late' \subseteq (Late \ {r}) \cup {new}
      BY <1>3, <1>4, <2>3 DEF Late, Waiting
    <3>2. IsFiniteSet(Late \ {r}) /\ Cardinality(Late \ {r}) = Cardinality(Late) - 1
      BY <2>1, <3>1, FS_RemoveElement
    <3>3. /\ IsFiniteSet((Late \ {r}) \cup {new})
          /\ Cardinality((Late \ {r}) \cup {new}) <= Cardinality(Late)
      <4> DEFINE rest == Late \ {r}
      <4>1. IsFiniteSet(rest) /\ Cardinality(rest) = Cardinality(Late) - 1
        BY <3>2
      <4> HIDE DEF rest
      <4>2. /\ IsFiniteSet(rest \cup {new}) /\ Cardinality(rest \cup {new}) <= Cardinality(rest) + 1
            /\ Cardinality(rest \cup {new}) \in Nat /\ Cardinality(rest) \in Nat
        BY <4>1, OneMore
      <4>3. IsFiniteSet(rest \cup {new}) /\ Cardinality(rest \cup {new}) <= Cardinality(Late)
        BY <2>1, <4>1, <4>2
      <4> QED
        BY <4>3 DEF rest
    <3>4. Cardinality(Late') <= Cardinality((Late \ {r}) \cup {new})
      BY <3>1, <3>3, FS_Subset
    <3>5. Cardinality(Late') \in Nat /\ Cardinality((Late \ {r}) \cup {new}) \in Nat
      BY <3>1, <3>3, FS_Subset, FS_CardinalityType
    <3> QED
      BY <1>1, <2>1, <3>3, <3>4, <3>5, SessionsBound DEF RequestsOK
  <2> QED
    BY <2>2, <2>3
<1>8. RequestsOK'
  BY <1>1, <1>3, <1>4, <1>5, <1>6, <1>7 DEF RequestsOK, RequestOK
<1>9. CallsOK' /\ DaemonOK'
  BY <1>1 DEF CallsOK, DaemonOK, SelectOld
<1> QED
  BY <1>8, <1>9 DEF CallsInv

LEMMA LoadedIs ==
  ASSUME DaemonOK, NEW p \in Proc, NEW s \in Sess
  PROVE  Loaded(p, s) \in Sess /\ Loaded(p, s).pid = s.pid
<1>1. KeyOf[p] \in Key /\ cached[KeyOf[p]] \in Sess
  BY DEF Key, DaemonOK
<1> DEFINE f == cached[KeyOf[p]]
<1>2. f.id \in AgentId \cup {NoAgent}
  BY <1>1 DEF Sess
<1> HIDE DEF f
<1>3. [s EXCEPT !.id = f.id] \in Sess /\ [s EXCEPT !.id = f.id].pid = s.pid
  BY <1>2 DEF Sess
<1> QED
  BY <1>3 DEF Loaded, f

(* What the answers are. *)
LEMMA AnswersOK ==
  ASSUME CallsOK, RequestsOK, DaemonOK, NEW r \in pending, Waiting(r)
  PROVE  LET c == procs[r.by]
             s == Loaded(r.by, c.opening)
         IN /\ CallOK(Advanced(c, s)) /\ Advanced(c, s).waits = 0
            /\ CallOK(Failed(c, "refused")) /\ Failed(c, "refused").waits = 0
            /\ CallOK(Advanced(c, c.opening)) /\ Advanced(c, c.opening).waits = 0
            /\ \A t \in Sess : CallOK(Advanced(c, t)) /\ Advanced(c, t).waits = 0
<1>1. r.by \in Proc /\ CallOK(procs[r.by]) /\ procs[r.by].todo # << >>
  BY WaitingHas
<1>2. procs[r.by].opening \in Sess
  BY <1>1 DEF CallOK, CallState
<1>3. \A t \in Sess : CallOK(Advanced(procs[r.by], t)) /\ Advanced(procs[r.by], t).waits = 0
  BY <1>1, AdvancedFields
<1>4. Loaded(r.by, procs[r.by].opening) \in Sess
  BY <1>1, <1>2, LoadedIs
<1> QED
  BY <1>1, <1>2, <1>3, <1>4, FailedFields

LEMMA AdoptAnswers ==
  ASSUME CallsInv, NEW r \in pending, Adopt(r)
  PROVE  CallsInv'
<1>1. CallsOK /\ RequestsOK /\ DaemonOK
  BY DEF CallsInv
<1>2. Served(r) /\ cached' = cached
  BY DEF Adopt
<1>3. CASE /\ projects' = {"remote"} /\ agents' = Moved(agents) /\ rows' = Moved(rows)
           /\ Resolved(r)
  <2>1. CallsOK' /\ RequestsOK'
    BY <1>1, <1>2, <1>3, AnswersOK, ReplyKeeps DEF Resolved
  <2>2. \A a \in Moved(agents) : a \in [id: AgentId, pid: Pid, key: Key]
    <3>1. \A b \in agents : [b EXCEPT !.pid = "remote"] \in [id: AgentId, pid: Pid, key: Key]
      BY <1>1 DEF DaemonOK, Pid
    <3> QED
      BY <3>1 DEF Moved
  <2>3. \A x \in Moved(rows) : x \in [pid: Pid]
    <3>1. \A x \in rows : [x EXCEPT !.pid = "remote"] \in [pid: Pid]
      BY <1>1 DEF DaemonOK, Pid
    <3> QED
      BY <3>1 DEF Moved
  <2>4. DaemonOK'
    BY <1>1, <1>2, <1>3, <2>2, <2>3 DEF DaemonOK, Pid
  <2> QED
    BY <2>1, <2>4 DEF CallsInv
<1>4. CASE Reply(r, Failed(procs[r.by], "refused")) /\ UNCHANGED <<projects, agents, rows>>
  <2>1. CallsOK' /\ RequestsOK'
    BY <1>1, <1>2, <1>4, AnswersOK, ReplyKeeps
  <2>2. DaemonOK'
    BY <1>1, <1>2, <1>4 DEF DaemonOK
  <2> QED
    BY <2>1, <2>2 DEF CallsInv
<1> QED
  BY <1>3, <1>4 DEF Adopt

LEMMA UpsertAnswers ==
  ASSUME CallsInv, NEW r \in pending, Upsert(r)
  PROVE  CallsInv'
<1>1. CallsOK /\ RequestsOK /\ DaemonOK
  BY DEF CallsInv
<1>2. CallsOK' /\ RequestsOK'
  BY <1>1, AnswersOK, ReplyKeeps DEF Upsert, Resolved
<1>3. DaemonOK'
  BY <1>1 DEF DaemonOK, Upsert
<1> QED
  BY <1>2, <1>3 DEF CallsInv

(* An agent is told to who asked, and kept in the identity file. *)
LEMMA RegisteredKeeps ==
  ASSUME CallsInv, NEW r \in pending, Served(r), NEW a, a.id \in AgentId, Registered(r, a)
  PROVE  CallsOK' /\ RequestsOK' /\ cached' \in [Key -> Sess]
<1> DEFINE s == [pid |-> r.at.pid, id |-> a.id]
<1>1. CallsOK /\ RequestsOK /\ DaemonOK
  BY DEF CallsInv
<1>2. r.at \in Sess /\ r.by \in Proc
  BY <1>1 DEF RequestsOK, RequestOK
<1>3. s \in Sess
  BY <1>2 DEF Sess
<1>4. /\ Reply(r, Advanced(procs[r.by], s))
      /\ cached' = IF Waiting(r) THEN [cached EXCEPT ![KeyOf[r.by]] = s] ELSE cached
  BY DEF Registered
<1> HIDE DEF s
<1>5. CallsOK' /\ RequestsOK'
  BY <1>1, <1>3, <1>4, AnswersOK, ReplyKeeps
<1>6. cached' \in [Key -> Sess]
  BY <1>1, <1>3, <1>4 DEF DaemonOK
<1> QED
  BY <1>5, <1>6

LEMMA RegisterAnswers ==
  ASSUME CallsInv, NEW r \in pending, Register(r)
  PROVE  CallsInv'
<1> DEFINE k == KeyOf[r.by]
           pid == r.at.pid
<1>1. CallsOK /\ RequestsOK /\ DaemonOK
  BY DEF CallsInv
<1>2. Served(r) /\ projects' = projects /\ rows' = rows
  BY DEF Register
<1>3. k \in Key
  BY <1>1 DEF RequestsOK, RequestOK, Key
<1>4. ASSUME NEW a \in Mine(pid, k), Registered(r, a), agents' = agents PROVE CallsInv'
  <2>1. a.id \in AgentId
    BY <1>1, <1>4 DEF Mine, DaemonOK
  <2>2. CallsOK' /\ RequestsOK' /\ cached' \in [Key -> Sess]
    BY <1>2, <1>4, <2>1, RegisteredKeeps
  <2>3. DaemonOK'
    BY <1>1, <1>2, <1>4, <2>2 DEF DaemonOK
  <2> QED
    BY <2>2, <2>3 DEF CallsInv
<1>5. ASSUME pid \in projects, NEW i \in Fresh, NEW a, a = [id |-> i, pid |-> pid, key |-> k],
             agents' = agents \cup {a}, Registered(r, a)
      PROVE  CallsInv'
  <2>1. a.id \in AgentId /\ a \in [id: AgentId, pid: Pid, key: Key]
    BY <1>1, <1>3, <1>5 DEF Fresh, DaemonOK
  <2>2. CallsOK' /\ RequestsOK' /\ cached' \in [Key -> Sess]
    BY <1>2, <1>5, <2>1, RegisteredKeeps
  <2>3. DaemonOK'
    BY <1>1, <1>2, <1>5, <2>1, <2>2 DEF DaemonOK
  <2> QED
    BY <2>2, <2>3 DEF CallsInv
<1>6. CASE Reply(r, Failed(procs[r.by], "refused")) /\ UNCHANGED <<agents, cached>>
  <2>1. CallsOK' /\ RequestsOK'
    BY <1>1, <1>2, <1>6, AnswersOK, ReplyKeeps
  <2>2. DaemonOK'
    BY <1>1, <1>2, <1>6 DEF DaemonOK
  <2> QED
    BY <2>1, <2>2 DEF CallsInv
<1> QED
  BY <1>4, <1>5, <1>6 DEF Register

LEMMA ServeAnswers ==
  ASSUME CallsInv, NEW r \in pending, Serve(r)
  PROVE  CallsInv'
<1>1. CallsOK /\ RequestsOK /\ DaemonOK
  BY DEF CallsInv
<1>2. CallsOK' /\ RequestsOK'
  <2>1. CASE Reply(r, Failed(procs[r.by], "refused"))
    BY <1>1, <2>1, AnswersOK, ReplyKeeps DEF Serve
  <2>2. CASE Reply(r, Advanced(procs[r.by], procs[r.by].opening))
    BY <1>1, <2>2, AnswersOK, ReplyKeeps DEF Serve
  <2> QED
    BY <2>1, <2>2 DEF Serve
<1>3. rows' = rows \/ (r.at.pid \in projects /\ rows' = rows \cup {[pid |-> r.at.pid]})
  BY DEF Serve
<1>4. DaemonOK'
  BY <1>1, <1>3 DEF DaemonOK, Serve
<1> QED
  BY <1>2, <1>4 DEF CallsInv

(* What leaves the processes and their requests alone. *)
LEMMA Aside ==
  ASSUME CallsInv, UNCHANGED <<procs, pending>>, DaemonOK'
  PROVE  CallsInv'
<1>1. CallsOK'
  BY DEF CallsInv, CallsOK
<1>2. RequestsOK'
  BY SameWaits DEF CallsInv
<1> QED
  BY <1>1, <1>2 DEF CallsInv

LEMMA RestartAnswers ==
  ASSUME CallsInv, Restart
  PROVE  CallsInv'
<1>1. pending' = {} /\ procs' = procs
  BY DEF Restart
<1>2. Late' = {}
  BY <1>1 DEF Late
<1>3. RequestsOK'
  BY <1>1, <1>2, FS_EmptySet, SessionsBound DEF RequestsOK
<1>4. CallsOK' /\ DaemonOK'
  BY DEF CallsInv, CallsOK, DaemonOK, Restart
<1> QED
  BY <1>3, <1>4 DEF CallsInv

LEMMA CallsNext == ASSUME CallsInv, [Next]_vars PROVE CallsInv'
<1>1. ASSUME NEW p \in Proc, Session(p) PROVE CallsInv'
  BY <1>1, BeginKeeps, SendKeeps, GiveUpKeeps DEF Session
<1>2. ASSUME NEW r \in pending, Daemon(r) PROVE CallsInv'
  BY <1>2, SelectKeeps, AdoptAnswers, UpsertAnswers, RegisterAnswers, ServeAnswers DEF Daemon
<1>3. CASE AddRemote
  BY <1>3, Aside DEF AddRemote, CallsInv, DaemonOK
<1>4. ASSUME NEW pid \in Pid, DeleteProject(pid) PROVE CallsInv'
  BY <1>4, Aside DEF DeleteProject, CallsInv, DaemonOK
<1>5. CASE UNCHANGED vars
  BY <1>5, Aside DEF vars, CallsInv, DaemonOK
<1> QED
  BY <1>1, <1>2, <1>3, <1>4, <1>5, RestartAnswers DEF Next

LEMMA CallsInit == Init => CallsInv
<1> SUFFICES ASSUME Init PROVE CallsInv
  OBVIOUS
<1>1. Idle \in CallState /\ CallOK(Idle)
  BY SessNone, SessionsBound DEF Idle, CallState, CallOK
<1>2. CallsOK
  BY <1>1 DEF Init, CallsOK
<1>3. Late = {}
  BY DEF Init, Late
<1>4. RequestsOK
  BY <1>3, FS_EmptySet, SessionsBound DEF Init, RequestsOK
<1>5. DaemonOK
  BY SessNone DEF Init, DaemonOK
<1> QED
  BY <1>2, <1>4, <1>5 DEF CallsInv

(* The types of the daemon's rows and of the processes: a call that waits  *)
(* always has something to do, and a number is left for every request.     *)
THEOREM TypeCorrect == Spec => []TypeOK
<1>1. Spec => []CallsInv
  <2>1. CallsInv /\ [Next]_vars => CallsInv'
    BY CallsNext
  <2> QED
    BY CallsInit, <2>1, PTL DEF Spec
<1> QED
  BY <1>1, TypeOKFrom, PTL

(* The answers leave what a process is sound about. *)
LEMMA SoundMore ==
  ASSUME NEW c, NEW P, NEW Q, P \subseteq Q, Sound(c, P)
  PROVE  Sound(c, Q)
  BY DEF Sound, Speaks

LEMMA ReplySound ==
  ASSUME CallsInv, NEW r \in pending, NEW P, \A p \in Proc : Sound(procs[p], P),
         NEW c, Reply(r, c), Waiting(r) => Sound(c, P)
  PROVE  \A p \in Proc : Sound(procs'[p], P)
<1>1. r.by \in Proc /\ procs \in [Proc -> CallState]
  BY DEF CallsInv, RequestsOK, RequestOK, CallsOK
<1>2. procs' = IF Waiting(r) THEN [procs EXCEPT ![r.by] = c] ELSE procs
  BY DEF Reply
<1>3. SUFFICES ASSUME NEW p \in Proc PROVE Sound(procs'[p], P)
  OBVIOUS
<1>4. CASE Waiting(r) /\ p = r.by
  BY <1>1, <1>2, <1>4
<1>5. CASE ~(Waiting(r) /\ p = r.by)
  <2>1. procs'[p] = procs[p]
    BY <1>1, <1>2, <1>5
  <2> QED
    BY <2>1
<1> QED
  BY <1>4, <1>5

(* After an answer the rest of the process' requests are late. *)
LEMMA ReplyHeard ==
  ASSUME CallsOK, RequestsOK, \A q \in pending : Heard(q),
         NEW r \in pending, Served(r), NEW c, Reply(r, c), Waiting(r) => c.waits = 0
  PROVE  \A q \in pending' : Heard(q)'
<1>1. SUFFICES ASSUME NEW q \in pending' PROVE Heard(q)'
  OBVIOUS
<1>2. q \in pending /\ q.by \in Proc /\ q.n # 0 /\ Heard(q)
  BY DEF Served, RequestsOK, RequestOK
<1>3. procs \in [Proc -> CallState] /\ r.by \in Proc
  BY DEF CallsOK, RequestsOK, RequestOK
<1>4. CASE Waiting(r) /\ q.by = r.by
  <2>1. procs'[q.by].waits = 0
    BY <1>3, <1>4 DEF Reply
  <2> QED
    BY <1>2, <2>1 DEF Heard, Waiting
<1>5. CASE ~(Waiting(r) /\ q.by = r.by)
  <2>1. procs'[q.by] = procs[q.by]
    BY <1>2, <1>3, <1>5 DEF Reply
  <2> QED
    BY <1>2, <2>1 DEF Heard, Waiting, Speaking
<1> QED
  BY <1>4, <1>5

(* What a sound process that waits to hear of a request has. *)
LEMMA HeardSound ==
  ASSUME ErrInv, NEW r \in pending, Waiting(r), NEW P, Sound(procs[r.by], P)
  PROVE  LET c == procs[r.by] IN
         /\ CallOK(c) /\ c.todo # << >> /\ c.opening \in Sess
         /\ r.op = "resolve" => c.opening.pid = "path"
         /\ r.op # "resolve" => /\ r.at.pid \in P
                                /\ c.opening.pid \in P \/ (c.opening = None /\ c.sess.pid \in P)
<1> DEFINE c == procs[r.by]
<1>1. CallOK(c) /\ c.todo # << >> /\ Head(c.todo) \in Asked
  BY WaitingHas DEF ErrInv, CallsInv
<1>2. r.at = Speaking(r.by) /\ r.op = Route[Head(c.todo).op]
  BY DEF ErrInv, Heard
<1>3. c.opening \in Sess
  BY <1>1 DEF CallOK, CallState
<1>4. Head(c.todo).op = "ResolveProject" <=> r.op = "resolve"
  <2>1. Head(c.todo) \in Later => Head(c.todo).op \in Names
    BY AskedHas
  <2>2. Head(c.todo) \in Later \/ Head(c.todo).op = "ResolveProject"
    BY <1>1 DEF Asked, Ask
  <2> QED
    BY <1>2, <2>1, <2>2, RouteResolves, OnlyResolve DEF Names
<1>5. r.op = "resolve" => c.opening.pid = "path"
  BY <1>1, <1>4 DEF Sound, Speaks
<1>6. r.op # "resolve" => \/ c.opening = None /\ c.sess.pid \in P
                          \/ c.opening # None /\ c.opening.pid \in P
  BY <1>1, <1>4 DEF Sound, Speaks
<1>7. r.op # "resolve" => r.at.pid \in P
  BY <1>2, <1>6 DEF Speaking
<1> QED
  BY <1>1, <1>3, <1>5, <1>6, <1>7

(* Nothing can be refused as long as nothing was re-keyed or deleted. *)
Quiet == ~remote /\ ~forgotten

LEMMA BeginSound ==
  ASSUME ErrInv, NEW p \in Proc, NEW t \in Tool, Begin(p, t)
  PROVE  ErrInv'
<1>1. CallsInv /\ CallsOK /\ RequestsOK /\ procs \in [Proc -> CallState]
  BY DEF ErrInv, CallsInv, CallsOK
<1>2. PICK d : /\ procs' = [procs EXCEPT ![p] = d] /\ CallOK(d)
               /\ procs[p].waits = 0 /\ d.waits = 0
               /\ d.sess = procs[p].sess /\ d.todo = Opening(p, t) \o Calls[t] /\ d.error = FALSE
               /\ d.opening = IF Opening(p, t) = << >> THEN None ELSE [pid |-> Here, id |-> NoAgent]
  BY <1>1, BeginFields
<1>3. CallsInv' /\ UNCHANGED <<remote, forgotten, pending, projects>>
  BY <1>1, BeginKeeps DEF Begin
<1>4. ASSUME NEW q \in pending PROVE Heard(q)'
  <2>1. Heard(q) /\ q.by \in Proc /\ q.n # 0
    BY <1>1, <1>4 DEF ErrInv, RequestsOK, RequestOK
  <2>2. CASE q.by = p
    BY <1>1, <1>2, <2>1, <2>2 DEF Heard, Waiting
  <2>3. CASE q.by # p
    <3>1. procs'[q.by] = procs[q.by]
      BY <1>1, <1>2, <2>1, <2>3
    <3> QED
      BY <2>1, <3>1 DEF Heard, Waiting, Speaking
  <2> QED
    BY <2>2, <2>3
<1>5. ASSUME Quiet, NEW q \in Proc PROVE Sound(procs'[q], projects)
  <2>1. Sound(procs[q], projects) /\ Sound(procs[p], projects)
    BY <1>5 DEF ErrInv, Quiet
  <2>2. CASE q = p
    <3>1. /\ d.todo # << >>
          /\ IF Opening(p, t) = << >> THEN Head(d.todo) \in Later ELSE Head(d.todo) = Ask("ResolveProject")
      BY <1>2, BeginHas
    <3>2. d.sess # None => d.sess.pid \in projects
      BY <1>2, <2>1 DEF Sound, Speaks
    <3>3. CASE Opening(p, t) = << >>
      <4>1. d.opening = None /\ Head(d.todo).op # "ResolveProject" /\ d.sess # None
        BY <1>2, <3>1, <3>3, AskedHas, OpenedBefore
      <4>2. Speaks(d, projects)
        BY <3>2, <4>1 DEF Speaks
      <4> QED
        BY <1>1, <1>2, <2>2, <4>2 DEF Sound
    <3>4. CASE Opening(p, t) # << >>
      <4>1. d.opening.pid = "path" /\ Head(d.todo).op = "ResolveProject"
        BY <1>2, <1>5, <3>1, <3>4 DEF Here, Quiet, Ask
      <4>2. Speaks(d, projects)
        BY <3>2, <4>1 DEF Speaks
      <4> QED
        BY <1>1, <1>2, <2>2, <4>2 DEF Sound
    <3> QED
      BY <3>3, <3>4
  <2>3. CASE q # p
    <3>1. procs'[q] = procs[q]
      BY <1>1, <1>2, <2>3
    <3> QED
      BY <2>1, <3>1
  <2> QED
    BY <2>2, <2>3
<1> QED
  BY <1>3, <1>4, <1>5 DEF ErrInv, Quiet

LEMMA SendSound ==
  ASSUME ErrInv, NEW p \in Proc, Send(p)
  PROVE  ErrInv'
<1>1. CallsInv /\ CallsOK /\ RequestsOK /\ procs \in [Proc -> CallState]
  BY DEF ErrInv, CallsInv, CallsOK
<1>2. PICK n \in 1..MaxLate + 1 :
           /\ \A q \in pending : q.by = p => q.n # n
           /\ pending' = pending \cup {[by |-> p, n |-> n, op |-> Route[Head(procs[p].todo).op],
                                       at |-> Speaking(p), adopt |-> "unread"]}
           /\ procs' = [procs EXCEPT ![p].waits = n]
  BY <1>1, SendFields
<1>3. CallsInv' /\ UNCHANGED <<remote, forgotten, projects>>
  BY <1>1, SendKeeps DEF ErrInv, Send
<1> DEFINE new == [by |-> p, n |-> n, op |-> Route[Head(procs[p].todo).op],
                   at |-> Speaking(p), adopt |-> "unread"]
<1>4. \A q \in Proc : /\ procs'[q].sess = procs[q].sess /\ procs'[q].opening = procs[q].opening
                      /\ procs'[q].todo = procs[q].todo /\ procs'[q].error = procs[q].error
                      /\ q # p => procs'[q].waits = procs[q].waits
                      /\ q = p => procs'[q].waits = n
  <2>1. ASSUME NEW q \in Proc, q # p PROVE procs'[q] = procs[q]
    BY <1>1, <1>2, <2>1
  <2>2. procs'[p] = [procs[p] EXCEPT !.waits = n] /\ procs[p] \in CallState
    BY <1>1, <1>2
  <2>3. /\ procs'[p].sess = procs[p].sess /\ procs'[p].opening = procs[p].opening
        /\ procs'[p].todo = procs[p].todo /\ procs'[p].error = procs[p].error
        /\ procs'[p].waits = n
    BY <2>2 DEF CallState
  <2> QED
    BY <2>1, <2>3
<1>5. ASSUME NEW q \in pending' PROVE Heard(q)'
  <2>1. CASE q = new
    <3>1. q.by = p /\ q.at = Speaking(p) /\ q.op = Route[Head(procs[p].todo).op]
      BY <2>1
    <3> QED
      BY <1>4, <3>1 DEF Heard, Speaking
  <2>2. CASE q # new
    <3>1. q \in pending /\ Heard(q) /\ q.by \in Proc
      BY <1>1, <1>2, <1>5, <2>2 DEF ErrInv, RequestsOK, RequestOK
    <3>2. CASE q.by = p
      BY <1>2, <1>4, <3>1, <3>2 DEF Heard, Waiting
    <3>3. CASE q.by # p
      BY <1>4, <3>1, <3>3 DEF Heard, Waiting, Speaking
    <3> QED
      BY <3>2, <3>3
  <2> QED
    BY <2>1, <2>2
<1>6. ~remote => \A q \in pending' : q.adopt \in {"unread", "path"}
  BY <1>2 DEF ErrInv
<1>7. ASSUME Quiet, NEW q \in Proc PROVE Sound(procs'[q], projects)
  <2>1. Sound(procs[q], projects)
    BY <1>7 DEF ErrInv, Quiet
  <2>2. procs'[q].error = FALSE
    BY <1>4, <2>1 DEF Sound
  <2>3. Speaks(procs'[q], projects)
    BY <1>4, <2>1 DEF Sound, Speaks
  <2> QED
    BY <2>2, <2>3 DEF Sound
<1> QED
  BY <1>3, <1>5, <1>6, <1>7 DEF ErrInv, Quiet

LEMMA GiveUpSound ==
  ASSUME ErrInv, NEW p \in Proc, GiveUp(p)
  PROVE  ErrInv'
<1> DEFINE d == Failed(procs[p], "down")
<1>1. CallsInv /\ CallsOK /\ RequestsOK /\ procs \in [Proc -> CallState]
  BY DEF ErrInv, CallsInv, CallsOK
<1>2. CallOK(procs[p]) /\ procs[p].todo # << >>
  BY <1>1 DEF CallsOK, CallOK, GiveUp
<1>3. procs' = [procs EXCEPT ![p] = d] /\ UNCHANGED <<remote, forgotten, pending, projects>>
  BY DEF GiveUp
<1>4. d.waits = 0
  BY <1>2, FailedFields
<1>5. \A P : Sound(procs[p], P) => Sound(d, P)
  BY <1>2, FailedSound
<1> HIDE DEF d
<1>6. CallsInv'
  BY <1>1, GiveUpKeeps
<1>7. ASSUME NEW q \in pending PROVE Heard(q)'
  <2>1. Heard(q) /\ q.by \in Proc /\ q.n # 0
    BY <1>1, <1>7 DEF ErrInv, RequestsOK, RequestOK
  <2>2. CASE q.by = p
    BY <1>1, <1>3, <1>4, <2>1, <2>2 DEF Heard, Waiting
  <2>3. CASE q.by # p
    <3>1. procs'[q.by] = procs[q.by]
      BY <1>1, <1>3, <2>1, <2>3
    <3> QED
      BY <2>1, <3>1 DEF Heard, Waiting, Speaking
  <2> QED
    BY <2>2, <2>3
<1>8. ASSUME Quiet, NEW q \in Proc PROVE Sound(procs'[q], projects)
  <2>1. Sound(procs[q], projects) /\ Sound(procs[p], projects)
    BY <1>8 DEF ErrInv, Quiet
  <2> QED
    BY <1>1, <1>3, <1>5, <2>1
<1> QED
  BY <1>3, <1>6, <1>7, <1>8 DEF ErrInv, Quiet

LEMMA SelectSound ==
  ASSUME ErrInv, NEW r \in pending, SelectOld(r)
  PROVE  ErrInv'
<1>1. CallsInv /\ RequestsOK /\ Heard(r)
  BY DEF ErrInv, CallsInv
<1>2. PICK a : /\ pending' = (pending \ {r}) \cup {[by |-> r.by, n |-> r.n, op |-> r.op, at |-> r.at, adopt |-> a]}
               /\ a \in {"adopt", "path", "remote"} /\ (a # "path" => remote)
  BY <1>1, SelectFields
<1> DEFINE new == [by |-> r.by, n |-> r.n, op |-> r.op, at |-> r.at, adopt |-> a]
<1>3. new.by = r.by /\ new.n = r.n /\ new.op = r.op /\ new.at = r.at /\ new.adopt = a
  OBVIOUS
<1> HIDE DEF new
<1>4. pending' = (pending \ {r}) \cup {new}
  BY <1>2 DEF new
<1>5. CallsInv' /\ UNCHANGED <<remote, forgotten, procs, projects>>
  BY <1>1, SelectKeeps DEF SelectOld
<1>6. \A q \in pending' : Heard(q)'
  BY <1>1, <1>3, <1>4, <1>5 DEF ErrInv, Heard, Waiting, Speaking
<1>7. ~remote => \A q \in pending' : q.adopt \in {"unread", "path"}
  BY <1>2, <1>3, <1>4 DEF ErrInv
<1> QED
  BY <1>5, <1>6, <1>7 DEF ErrInv

(* What is the same of every answer. *)
LEMMA AnswerKeeps ==
  ASSUME ErrInv, CallsInv', NEW r \in pending, Served(r), NEW c, Reply(r, c),
         Waiting(r) => c.waits = 0, UNCHANGED <<remote, forgotten>>,
         Quiet => projects \subseteq projects' /\ (Waiting(r) => Sound(c, projects'))
  PROVE  ErrInv'
<1>1. CallsInv /\ CallsOK /\ RequestsOK /\ \A q \in pending : Heard(q)
  BY DEF ErrInv, CallsInv
<1>2. \A q \in pending' : Heard(q)'
  BY <1>1, ReplyHeard
<1>3. ~remote' => \A q \in pending' : q.adopt \in {"unread", "path"}
  BY DEF ErrInv, Served
<1>4. ASSUME Quiet PROVE \A p \in Proc : Sound(procs'[p], projects')
  <2>1. \A p \in Proc : Sound(procs[p], projects)
    BY <1>4 DEF ErrInv, Quiet
  <2>2. \A p \in Proc : Sound(procs[p], projects')
    BY <1>4, <2>1, SoundMore
  <2> QED
    BY <1>1, <1>4, <2>2, ReplySound
<1> QED
  BY <1>2, <1>3, <1>4 DEF ErrInv, Quiet

(* An adoption is of a directory that has a remote. *)
LEMMA AdoptSound ==
  ASSUME ErrInv, NEW r \in pending, Adopt(r)
  PROVE  ErrInv'
<1>1. ~Quiet /\ Served(r) /\ UNCHANGED <<remote, forgotten>>
  BY DEF ErrInv, Quiet, Adopt
<1>2. CallsInv' /\ CallsOK /\ RequestsOK /\ DaemonOK
  BY AdoptAnswers DEF ErrInv, CallsInv
<1>3. CASE Resolved(r)
  BY <1>1, <1>2, <1>3, AnswersOK, AnswerKeeps DEF Resolved
<1>4. CASE Reply(r, Failed(procs[r.by], "refused"))
  BY <1>1, <1>2, <1>4, AnswersOK, AnswerKeeps
<1> QED
  BY <1>3, <1>4 DEF Adopt

(* A project that is resolved is there. *)
LEMMA UpsertSound ==
  ASSUME ErrInv, NEW r \in pending, Upsert(r)
  PROVE  ErrInv'
<1> DEFINE c == procs[r.by]
           s == Loaded(r.by, c.opening)
           d == Advanced(c, s)
<1>1. Served(r) /\ Reply(r, d) /\ UNCHANGED <<remote, forgotten>>
  BY DEF Upsert, Resolved
<1>2. CallsInv' /\ CallsOK /\ RequestsOK /\ DaemonOK
  BY UpsertAnswers DEF ErrInv, CallsInv
<1>3. Waiting(r) => d.waits = 0
  BY <1>2, AnswersOK
<1>4. ASSUME Quiet, Waiting(r) PROVE Sound(d, projects')
  <2>1. r.adopt = "path" /\ "path" \in projects' /\ projects \subseteq projects'
    BY <1>4 DEF ErrInv, Quiet, Upsert, Pid
  <2>2. Sound(c, projects')
    <3>1. r.by \in Proc
      BY <1>2 DEF RequestsOK, RequestOK
    <3>2. Sound(c, projects)
      BY <1>4, <3>1 DEF ErrInv, Quiet
    <3> QED
      BY <2>1, <3>2, SoundMore
  <2>3. CallOK(c) /\ c.todo # << >> /\ c.opening \in Sess /\ c.opening.pid = "path"
    BY <1>4, <2>2, HeardSound DEF Upsert
  <2>4. s \in Sess /\ s.pid = "path"
    BY <1>2, <2>3, LoadedIs DEF RequestsOK, RequestOK
  <2> QED
    BY <2>1, <2>2, <2>3, <2>4, AdvancedSound
<1>5. projects \subseteq projects'
  BY DEF Upsert
<1> HIDE DEF d
<1> QED
  BY <1>1, <1>2, <1>3, <1>4, <1>5, AnswerKeeps

(* Who registers has a project, and is not refused. *)
LEMMA RegisterSound ==
  ASSUME ErrInv, NEW r \in pending, Register(r)
  PROVE  ErrInv'
<1> DEFINE k == KeyOf[r.by]
           pid == r.at.pid
           c == procs[r.by]
<1>1. Served(r) /\ UNCHANGED <<remote, forgotten, projects>> /\ r.op # "resolve"
  BY DEF Register
<1>2. CallsInv' /\ CallsOK /\ RequestsOK /\ DaemonOK
  BY RegisterAnswers DEF ErrInv, CallsInv
<1>3. r.by \in Proc /\ r.at \in Sess
  BY <1>2 DEF RequestsOK, RequestOK
<1>4. ASSUME Quiet, Waiting(r) PROVE /\ Sound(c, projects) /\ pid \in projects
                                     /\ CallOK(c) /\ c.todo # << >>
  <2>1. Sound(c, projects)
    BY <1>3, <1>4 DEF ErrInv, Quiet
  <2> QED
    BY <1>1, <1>4, <2>1, HeardSound
<1>5. ASSUME NEW a, a.id \in AgentId, Registered(r, a) PROVE ErrInv'
  <2> DEFINE s == [pid |-> pid, id |-> a.id]
             d == Advanced(c, s)
  <2>1. s \in Sess /\ s.pid = pid
    BY <1>3, <1>5 DEF Sess
  <2>2. Reply(r, d)
    BY <1>5 DEF Registered
  <2> HIDE DEF s
  <2>3. Waiting(r) => d.waits = 0
    BY <1>2, <2>1, AnswersOK
  <2>4. Quiet /\ Waiting(r) => Sound(d, projects)
    BY <1>4, <2>1, AdvancedSound
  <2> HIDE DEF d
  <2> QED
    BY <1>1, <1>2, <2>2, <2>3, <2>4, AnswerKeeps
<1>6. CASE \E a \in Mine(pid, k) : Registered(r, a)
  BY <1>2, <1>5, <1>6 DEF Mine, DaemonOK
<1>7. CASE \E i \in Fresh : Registered(r, [id |-> i, pid |-> pid, key |-> k])
  BY <1>5, <1>7 DEF Fresh
<1>8. CASE pid \notin projects /\ Reply(r, Failed(c, "refused"))
  <2>1. Waiting(r) => Failed(c, "refused").waits = 0
    BY <1>2, AnswersOK
  <2> QED
    BY <1>1, <1>2, <1>4, <1>8, <2>1, AnswerKeeps
<1> QED
  BY <1>6, <1>7, <1>8 DEF Register

LEMMA ServeSound ==
  ASSUME ErrInv, NEW r \in pending, Serve(r)
  PROVE  ErrInv'
<1> DEFINE c == procs[r.by]
           refused == r.op \in {"post", "need"} /\ r.at.pid \notin projects
           d == IF refused THEN Failed(c, "refused") ELSE Advanced(c, c.opening)
<1>1. Served(r) /\ UNCHANGED <<remote, forgotten, projects>> /\ r.op # "resolve" /\ Reply(r, d)
  BY DEF Serve
<1>2. CallsInv' /\ CallsOK /\ RequestsOK /\ DaemonOK
  BY ServeAnswers DEF ErrInv, CallsInv
<1>3. Waiting(r) => d.waits = 0
  BY <1>2, AnswersOK
<1>4. ASSUME Quiet, Waiting(r) PROVE Sound(d, projects)
  <2>1. r.by \in Proc
    BY <1>2 DEF RequestsOK, RequestOK
  <2>2. Sound(c, projects)
    BY <1>4, <2>1 DEF ErrInv, Quiet
  <2>3. /\ CallOK(c) /\ c.todo # << >> /\ c.opening \in Sess /\ r.at.pid \in projects
        /\ c.opening.pid \in projects \/ (c.opening = None /\ c.sess.pid \in projects)
    BY <1>1, <1>4, <2>2, HeardSound
  <2>4. d = Advanced(c, c.opening)
    BY <2>3
  <2>5. Sound(Advanced(c, c.opening), projects)
    BY <2>2, <2>3, AdvancedSound
  <2> QED
    BY <2>4, <2>5
<1> HIDE DEF d
<1> QED
  BY <1>1, <1>2, <1>3, <1>4, AnswerKeeps

LEMMA ErrNext == ASSUME ErrInv, [Next]_vars PROVE ErrInv'
<1>1. CallsInv'
  BY CallsNext DEF ErrInv
<1>2. ASSUME NEW p \in Proc, Session(p) PROVE ErrInv'
  BY <1>2, BeginSound, SendSound, GiveUpSound DEF Session
<1>3. ASSUME NEW r \in pending, Daemon(r) PROVE ErrInv'
  BY <1>3, SelectSound, AdoptSound, UpsertSound, RegisterSound, ServeSound DEF Daemon
<1>4. CASE AddRemote
  BY <1>1, <1>4 DEF AddRemote, ErrInv, Heard, Waiting, Speaking
<1>5. ASSUME NEW pid \in Pid, DeleteProject(pid) PROVE ErrInv'
  BY <1>1, <1>5 DEF DeleteProject, ErrInv, Heard, Waiting, Speaking
<1>6. CASE Restart
  BY <1>1, <1>6 DEF Restart, ErrInv
<1>7. CASE UNCHANGED vars
  BY <1>1, <1>7 DEF vars, ErrInv, Heard, Waiting, Speaking
<1> QED
  BY <1>2, <1>3, <1>4, <1>5, <1>6, <1>7 DEF Next

LEMMA ErrInit == Init => ErrInv
<1> SUFFICES ASSUME Init PROVE ErrInv
  OBVIOUS
<1>1. CallsInv /\ pending = {}
  BY CallsInit DEF Init
<1>2. Idle.sess = None /\ Idle.todo = << >> /\ Idle.error = FALSE
  BY DEF Idle
<1>3. ASSUME NEW p \in Proc PROVE Sound(procs[p], projects)
  <2>1. procs[p] = Idle
    BY DEF Init
  <2>2. Speaks(Idle, projects)
    BY <1>2 DEF Speaks
  <2> QED
    BY <1>2, <2>1, <2>2 DEF Sound
<1> QED
  BY <1>1, <1>3 DEF ErrInv

(* Whatever is lost or late, and whoever shares a session key: an agent is *)
(* told an error only after the directory got a remote or a project was    *)
(* deleted.                                                                *)
THEOREM ErrorsCorrect == Spec => []ErrorsAreRefusals
<1>1. ErrInv /\ [Next]_vars => ErrInv'
  BY ErrNext
<1>2. ErrInv => ErrorsAreRefusals
  BY DEF ErrInv, ErrorsAreRefusals, Sound
<1> QED
  BY ErrInit, <1>1, <1>2, PTL DEF Spec
=============================================================================
