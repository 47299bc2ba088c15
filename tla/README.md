# Specifications of succubus

succubus is a daemon that lets coding agents work in one checkout: it gives them
names, leases files to them, holds a task board and a room to talk in. This
directory holds TLA+ models of what it keeps and of what its clients do to it,
the TLC runs that check them and proofs that TLAPS checks.

    tlc -workers 2 -config MCFileClaims.cfg MCFileClaims
    tlapm FileClaimsProofs.tla

## The system

One daemon process owns a SQLite database. Hooks, an MCP server per session, a
command line and a browser talk to it over HTTP; it streams events back. The
database has one connection for writing and four for reading
(`internal/store/sqlite.go`), so a *statement* is atomic, statements of different
handlers interleave, and a transaction keeps every other write waiting. Most
operations of the store are several statements and no transaction: this is where
the hard behaviours are.

| component | state | operations | interacts with | what makes it correct |
| --- | --- | --- | --- | --- |
| file claims (`store/claims.go`) | `file_claims`: one row per path with holder, task, end | ClaimFiles, ReleaseFiles, ReleaseAllForAgent, ReleaseClaimsForTask, RenewClaims, ExpireClaims; CheckFiles, ActiveClaims | agents (dead holders do not count), tasks (finishing frees), janitor, hooks | a granted lease is kept until its end, batches are all or nothing, leases end |
| agents (`store/agents.go`) | `agents`: status, heartbeat, name, session | RegisterAgent, Heartbeat, RenameAgent, UnregisterAgent, SweepAgents | hooks send heartbeats, the janitor sweeps | only silent agents are declared dead; one name per session |
| janitor (`mode/daemon.go`) | none | every 20 s ExpireClaims, then SweepAgents | store | whatever is over is cleaned up |
| task board (`store/tasks.go`) | `tasks`, `task_deps` | CreateTask, UpdateTask, DeleteTask, ClaimTask, AddDep, RemoveDep, ReorderTask | agents, file claims | one agent per task, patches touch what they name, no cycles |
| agent room (`store/room.go`) | `messages`, `room_reads` | PostMessage, UnreadFor, MarkRoomRead, ResolveQuestion, DeleteMessage | hooks read and mark, auto-wake reads | no message is marked read that was not shown |
| decisions, plans (`store/decisions.go`, `plans.go`) | append-only notes, handoffs; plans | create, list, acknowledge; create, update, delete | context | as for tasks |
| projects (`store/projects.go`) | `projects` | UpsertProject (with adoption of an older id), DeleteProject | every table, every request that names a project | nothing is stranded, a session has one agent |
| ids (`store/id.go`) | last millisecond, last random part | NewID | every table | unique; in the order they are drawn as long as the clock is not set back |
| event bus (`store/sqlite.go`, `httpapi/sse.go`) | `events`, a buffer of 64 per subscriber | Emit, Subscribe, replay after Last-Event-ID | dashboard, channel, auto-wake, webhooks | a reader that reconnects has seen everything |
| channel (`mode/channel.go`) | its session, last 500 event ids | watch, push | event bus | a message is pushed to whom it addresses |
| auto-wake (`mode/autowake.go`, `wake.go`) | timers and running turns per agent | consider, schedule, wake | event bus, room, headless tools | an addressed agent gets a turn, and one at a time |
| hooks (`mode/hook.go`) | none but the daemon's | session start, prompt, before and after a tool, end of turn, end of session | claims, room | edits respect claims, claims end with sessions, turns end |
| sessions, MCP, client, command line (`mode/session.go`, `mcp.go`, `cli.go`, `client/client.go`, `httpapi/router.go`) | a session per process, an identity file per session key | OpenSession, one call per tool or command, a request with a timeout | projects, agents, every route | one agent per session; an agent is told of refusals only |
| project identity (`identity/`) | identity files | which of remote and path gives the id | sessions | the same directory is the same project |
| setup and init (`mode/setup.go`, `init.go`, `detect.go`) | settings of seven tools, their backups, `AGENTS.md` | read, merge, back up, replace; dry runs | the user, who owns these files | what is the user's is kept or recoverable; runs repeat without stacking |
| daemon lock (`mode/daemon.go`, `process_*.go`) | `daemon.lock` | acquire, release | other daemons | one daemon per database |
| webhooks, service, notify, config, dashboard, plugin | none of interest | post, install, show | | |

## Modules

| module | models | state and actions |
| --- | --- | --- |
| `Lease` | what the claims promise, seen from outside | `clock`, one lease per path, the agents that are gone; take a batch, renew, release, finish a task, lapse |
| `FileClaims` | claims, agents and janitor as the daemon runs them | below |
| `MCFileClaims` | instances of `FileClaims`, its symmetry and view | |
| `FileClaimsProofs` | its theorems | |
| `Tasks` | the task board | below |
| `MCTasks` | instances of `Tasks` | |
| `TasksProofs` | its theorems | |
| `Room` | the agent room and the hooks that read it | below |
| `MCRoom` | instances of `Room` | |
| `RoomProofs` | its theorems | |
| `Events`, `MCEvents`, `EventsProofs` | the event bus, streams, dashboards and channels, and their theorems | below |
| `Sessions`, `MCSessions`, `SessionsProofs` | identities, requests and projects, and their theorems | below |
| `Turns`, `MCTurns`, `TurnsProofs` | the hooks over the life of sessions, and their theorems | below |
| `Setup`, `MCSetup`, `SetupProofs` | setup and init on the file system, and their theorems | below |
| `AutoWake`, `MCAutoWake` | the daemon's watcher and the turns it starts | below |
| `DaemonLock`, `MCDaemonLock`, `DaemonLockProofs` | the start of daemons, and what its lock gives | below |

### FileClaims

`claims` and `agents` are the tables, `tx` the open transaction with the rows it
sees, `calls` what each handler is doing between two statements, `janitor` the
same for the janitor, `clock` the value of `now()`. Each action is a statement
(or what Go does between two): `BeginClaim`, `UpsertPath` per path in the order
of `sort.Strings`, then `RollbackClaim` or `CommitClaim`; `ReleasePath` per path;
`MarkLeft` and `DropLeft` for UnregisterAgent; `SelectLapsed`, `ExpireClaims`,
`Demote`, `SelectSilent`, `Kill`, `Drop` for the janitor. An operation of one
statement is one action, whoever runs it. Handlers read the clock before they
wait for the connection, so a statement carries any reading `ts <= clock`.
`Restart` ends all goroutines at any moment and keeps the committed rows.

Two abstractions: a released row and a missing one are the same (`FreeClaim`),
since every statement treats them alike; and a `SELECT` of one statement whose
rows the code copies is one step. `promised` is a history variable, written by
nothing in the code: until when each agent was last told that a path is its own.
It is ended by a release, by the end of the claim's task, and by the agent being
declared dead; a renewal moves it.

`ReleaseClaimsForTask` may run for any task at any time: it is what `Tasks` does
when a task ends.

### Tasks

`tasks` and `deps` are the tables; `calls` holds what a handler read and is about
to write. UpdateTask is `CallUpdateTask` (read), `WriteTask` (the whole row),
`ReleaseClaims`, `AnswerTask` (the second read); ClaimTask is `CallClaimTask`,
`CheckAssignee`, then UpdateTask from `ReadTask`; AddDep is `CallAddDep`, one
`Visit` per SELECT of the search, `SearchDone`, `Link`. The stack of the search
is the set of tasks on it that were not seen (popping a seen one changes
nothing), popped in any order. `alive` and `leased` stand for what `FileClaims`
models: who is not dead, and for which tasks files are claimed. `told` is a
history variable: the agents that were answered that a task is theirs. It is
taken from them when the task is given away on purpose, when it is finished or
deleted, and when they are declared dead. ReorderTask is UpdateTask with a status
as far as these columns go.

### Room

`messages` and `seen` (`room_reads`) are the tables; `posting` holds the posts
that have drawn an id and wait for the write connection (`DrawId`,
`InsertMessage`); `hooks` what a session start or prompt hook is doing. Such a
hook makes two requests: the context, in which UnreadFor reads the mark
(`CallContext`) and then the messages above it (`ShowUnread`, with the limit of
12), and MarkRoomRead, which selects `MAX(id)` (`SelectNewest`) and raises the
mark to it (`UpsertMark`). `HookDies` is an error or a kill between them; a
killed hook that had not printed its context is one that died before it. Ids are
drawn in any order: they are in the order of the clock, and a wall clock may be
set back. `DeleteMessage` removes a message with its replies, for which any set
stands. `shown`, `marked` and `missed` are history variables: what an agent was
shown, what was shown by hooks that went on to mark, and what came behind a
hook's back, which is inserted between its context and its mark, or has an id
below the mark, or was cut off by the limit.

Left out: open questions, which a context shows whether they are read or not;
mentions, which are the same messages shown louder; the end of a turn and
auto-wake, which read without marking; the renaming of an agent and the deletion
of a project, which drop marks.

### Events

`events` is the table; an event is its place in it, with the project, the agents
it addresses and its author. `emit` is `Insert` and then `Publish`, with the id in
`inHand` between them: emitters may publish in the other order. A stream is
`Connect` (Subscribe comes first), `Replay` (one SELECT, oldest first, at most
`ReplayCap`), `WriteReplayed` per event of the replay, then `WriteLive` from the
subscriber's queue, in which a full queue drops. A replay is the set of its ids,
written from the lowest on (`FirstOf` is `ORDER BY id LIMIT`). A dashboard keeps `last` and sends
it when it comes back, a channel does not, and shows what addresses its agent and
is not its own. `Disconnect` and `Restart` come at any time; a restart loses what
was inserted and not published, whose row stays. `got`, `since`, `dropped`, `cut`
and `late` are history: what a reader was shown, from where on it is owed events,
and the three ways to lose one. `CarriedPast` names the third for an open stream:
the reader's last id went past an event that is published later. It may come back,
for a late event that is shown takes the last id back to its own.

### Sessions

One directory, whose id comes from its path until it has a remote (`AddRemote`).
`procs` are the MCP servers and the shells and harnesses that start hooks and
commands: the session of a server, the call under way with the requests that are
left (`todo`), and which request it waits for. The operators `ToolCalls`,
`HookCalls`, `Commands` and `Route` are the tables of what every tool, hook and
command asks and of what each route does to the rows of its project; `Opening` puts
ResolveProject and Register in front of the first call. `Begin`, `Send` and
`GiveUp` belong to a process; `Failed` says what becomes of an error. A request
that was given up on stays in `pending` and is served later. The daemon's side is
`SelectOld` and then `Adopt` or `Upsert` for ResolveProject, whose reads are not in
the transaction, `Register`, and `Serve` for every other route; `DeleteProject` is
`succubus forget`, `Restart` drops what is pending. `Adopt` may fail: the pragma
that defers the foreign keys is reset by any commit on the connection between it
and the transaction. Rows are kept by their project only.

### Turns

`turn` says where each session of a harness is, `claims` the leases, which count
down with `Tick`, and `unread` whether an agent has been named behind its read
mark. Each action is one request of a hook, or one decision of it: `SessionStart`,
`Prompt` (with the renewal) and `MarkRead`; `PreTool`, which denies only when it is
answered, in block mode; `PostCheck` and `PostClaim`; `Finish` and `Stop`;
`SessionEnd`, and `SessionIdle`, which OpenCode reports at the end of every turn.
Any request may fail, which a hook passes over. `Killed` ends a session without its
hook. A woken turn is a session with the key of the agent it stands in for, which
edits and claims nothing itself, but whose `SessionEnd` releases what the agent
holds. `since` (in `turn`) and `stayed` are history: which files of an edit were
granted to another while it was under way, and for which agents a session ended
without its hook.

### Setup

A settings file is what the user put there, how many entries of ours, and its form:
`json`, `commented` (JSON no parser of Go takes), `torn` (opened and not filled).
A run works off `Todo`: `Read`, then `Preview` in a dry run, or `Stat`,
`StatBackup`, `ReadOriginal`, `OpenBackup`, `FillBackup`, `OpenTmp`, `FillTmp`,
`Rename`, each a call of the operating system. Two runs share `.tmp`: who has it
open writes into the file it was renamed to (`open`). AGENTS.md is read, cut,
truncated and filled in place. The user, or the tool, saves files between any two
steps; `Kill` ends a run anywhere. `hist` names what a property has to except.

### AutoWake

`bus` is the watcher's subscription, `pending` the agents with a timer, `running`
those with a turn in flight, `turn` how far it is. `Watch` is `consider`, with the
type assertion on the payload that the store really sends; `Fire` the timer; `Wake`
reads the inbox once more and starts the turn or not; `Shown` are the hooks of a
prompt, `EndOfTurn` answer, error or timeout. Which tools have a headless mode is a
constant.

### DaemonLock

`lock` is the file: who created it and whether its pid is in it yet, which is one
step later. `Create` is `O_EXCL`, `Check` reads the pid and looks for its process,
`RemoveStale` removes whatever file is there by then and tries again, once; `Unlock`
removes by name. From `OpenStore` on a process has the database. `Crash` comes
anywhere. `SpecApart` is the same system in which no two processes are in
`acquireLock` at once.

## Runs

| run | expect | what it shows |
| --- | --- | --- |
| `claims` | pass | `PromiseKept`, the inductive `IInv`, and that `FileClaims` implements `Lease` |
| `claims_live` | pass | every call returns; every lease is taken off the table |
| `tasks_alone` | pass | without overlap of calls the board keeps its promises |
| `tasks_graph` | pass | edges join existing tasks, searches end, with overlap |
| `tasks_claims_overlap` | violation | two overlapping claims of a task are both answered with success |
| `room` | pass | what was marked is not shown again; what is lost came behind a hook's back |
| `events` | pass | an open stream owes its reader nothing that is not on its way; what a dashboard was carried past it was shown, but for three losses that have names |
| `sessions` | pass | one agent per session, nothing stranded by adoption and deletion, errors are refusals |
| `turns` | pass | edits respect claims in block mode, claims end with sessions, an edit leaves a claim or meets one, turns end |
| `setup` | pass | merges keep, backups recover, files are whole, runs repeat, dry runs write nothing |
| `auto_wake` | violation | an agent that is addressed is never woken |
| `daemon_lock` | violation | two daemons open one database |

The violations are disagreements between the code and a sentence of its comments
or documents, quoted in `PROJECT.json`.

- `tasks_claims_overlap`: ClaimTask reads the assignee and UpdateTask writes one,
  with nothing that looks again. Both agents are told the task is theirs.
- `auto_wake`: the watcher subscribes to the store itself, whose payload holds a
  `[]string`; `consider` asserts `[]any`, gets nothing, and returns. With
  `AssertedAsSent` in the place of `Asserted`, `AddressedIsWoken` holds, of 162,148
  states. It takes the comment at its word that a turn in flight "will pick up
  everything unread": a message that arrives when that turn has read its inbox is
  left to the end-of-turn hook.
- `daemon_lock`: a process reads a lock that has no pid in it yet, calls it stale and
  removes it. `DaemonLockProofs` says what the lock is good for.

**Bounds.** `claims`: two agents, two paths, one handler beside the janitor and
beside every operation of one statement, three instants, leases of one instant,
thresholds of zero. Two paths are what a batch that is denied on its second path
needs; two agents suffice to steal; three instants let a lease begin, end and be
taken over with a late reading of the clock. A second handler could only add
another open transaction, which the connection forbids, or another release in
pieces, which the one-statement release stands for; the proofs hold for any
number. `VIEW` merges states that differ in the heartbeat of an agent that is not
alive, in a promise that is over, and in active against idle: no guard and no
property reads them. `claims_live` has two handlers, since waiting for each other
is its question, with one path and two instants. `tasks_alone` has one handler
and two tasks: cycles of two; `tasks_graph` three tasks, so that a search meets a
task twice and the graph can change behind it, and no agents, which the graph
does not know. `room`: one agent, for agents
share nothing but the messages and another author is HUMAN; two hooks, so that
the later mark may be written first; three ids, with a limit of one: one message
that is shown, one that is cut off, one that comes late.

`events`: three emitters, for two can publish in the other order, and it takes two
that a third has overtaken to see what the last id going back does; one dashboard and one channel; a queue of one and a replay of one, so that both overflow; three events, so
that one is lost, one shown and one comes after, with one kind per reason to pass an
event over. 3.2 million states. `sessions`: a server and the hooks of its harness
with one key, which is what a second agent for a session needs; a tool whose first
request may fail unseen and whose second must have its project, and a hook with the
same two kinds; three ids, for an agent before the adoption, one after it and one
after the deletion; one late request. One deletion is built into `DeleteProject`.
3.5 million states. `turns`: the three sessions that differ (an agent's, the turn
that stands in for it, another's), one file, leases of one tick, since no property
counts ticks; that a batch of files is granted as a whole is in `claims`, and the
proofs about `Turns` hold for any files. 108,588 states, with liveness. `setup`: one
tool whose settings are merged, the contract and the skill, an entry of each kind
and one paragraph of the user; two runs, one kill. Files share nothing, so one is
enough; a second paragraph or kill only multiplies the states. 2.1 million states.
`CHECK_DEADLOCK FALSE` in `setup` alone, which rests when the runs and the user's
edits are used up.

`Instant` is the one bound built into `FileClaims`: `Tick` stops at its last element,
and calls whose lease would end later are not made. `MaxEvents`, `MaxMessages`,
`MaxLate`, `MaxRuns` and `MaxKills` are guards of their modules under these names.
All other bounds are the sizes of constant sets.

**Fairness.** `FileClaims`: a handler that can take a step again and again takes
it (strong: the connection is free in between the transactions of others, and
`database/sql` hands it to its waiters in order); the janitor likewise, driven by
its ticker; the clock goes on; restarts cease. `Tasks`: weak fairness per
handler, for no step of it waits for a transaction of the model. `Turns`: a hook
that has begun goes on (weak), for the harness waits for it and each of its requests
has a timeout, and an edit comes to its end; an agent that may finish again and again
does some time (strong: it may claim and release in between as long as it likes), or
no turn of any program ends. `AutoWake`: the watcher, the timers and the turns,
which have a timeout of three minutes (weak); nobody has to post or to read.
Requests are never fair.

**Mutants.** Every property of a passing run has a mutated definition, kept next
to the one it mutates, that violates it.

## Proofs

`FileClaimsProofs`, for any sets of agents, paths, tasks, handlers, lease lengths
and any set of instants, from the assumptions named in `FileClaims`
(`NamesDistinct`, `TimeAssumption`, `PathAssumption`):

- `TypeCorrect`: `Spec => []TypeOK`.
- `InvCorrect`: `Spec => []IInv`. `PromiseKept` alone is not inductive: `CommitClaim`
  replaces the whole table by the transaction's rows. `TxInv` says what those are:
  the rows it has not taken over are still the table's, and those it has are its
  grants, which it could take over again now (their holders' leases were over at
  `ts`, and the time has not gone back: `ReadingsPast`). No statement of another
  goroutine changes the table meanwhile, only `Tick` and `Restart` happen.
- `PromiseCorrect`: `Spec => []PromiseKept`.
- `Refinement`: `Spec => LeaseSpec`, with `gone` the agents that are dead or
  absent. `CommitClaim` is `Take`; a path it took over was not held, because its
  lease was over already at the reading `ts`, or its holder is gone or the agent
  itself. Renewals with a late reading renew leases that are over besides those
  that are not, hence the set in `Lease!Renew`.
- `NoStealCorrect`: a lease that counts never passes straight to another agent.

`TasksProofs`, from `StatusAssumption`, `BoardNames`, `PatchAssumption`. Of `Spec`,
where any number of calls overlap:

- `BoardCorrect`, `TypeCorrect`: types, and `CallInv`: an open call works on a task
  that was created, and what it is about to write is a row.
- `EdgesCorrect`: `Spec => []EdgesExist`. The foreign keys refuse an edge of a
  deleted task at `Link`, and ids are never used twice.

The other promises of the board fail when calls overlap (`tasks_claims_overlap` and
the table below). What the proofs settle is which overlaps do it. `SpecTasksApart` is
the board on which no two calls are in the middle of changing the same task;
everything else may overlap: calls on other tasks, searches, deletions, deaths.

- `ApartCorrect`: `SpecTasksApart => []ApartInv`. A call that has read the row of its
  task works on the row as it is, unless that was deleted (`ReadOK`), and a claim that
  was not refused finds nobody else who was told the task is his (`MineOK`).
- `ClaimCorrect`, `FinishCorrect`, `PatchCorrect`: from it, `ClaimExclusive`,
  `FinishFrees` and `NilFieldsUnchanged`.
- `AcyclicCorrect`: `Acyclic` under `SpecLinksApart`, where no two calls of AddDep
  overlap and everything else may, deletions and RemoveDep in the middle of a search
  too. `Searched`: what a search has seen leads nowhere but to what it has seen or has
  ahead, since edges are only taken away under it. `Acyclic` speaks of sets in which
  every task has a prerequisite, so no path has to be followed in the proof.
- `AloneCorrect`: with one handler all four hold of `Spec`, as `tasks_alone` checks.

`RoomProofs`, from `RoomNames` and `RoomNumbers`:

- `RoomInvCorrect`: `Spec => []IInv`. `HookInv` carries the argument: after
  `ShowUnread` every message of others in the table was shown or is in `missed`;
  after `SelectNewest` that holds of those below the maximum, and the rows that
  were shown are below it. An insertion keeps both, for it is then behind the
  hook's back; this needs that an id belongs to one post (`PostsFresh`).
- `NoRepeatCorrect`, `LostBehindCorrect`: the two properties of the run.
- `MarkOnlyGrows`: the mark of an agent never goes back.

`EventsProofs`, for any emitters, dashboards, channels, events and sizes of queue and
replay, from `EventsReaders` and `EventsNumbers`:

- `TypeCorrect`: `Spec => []TypeOK`, with the capacities.
- `EventsCorrect`: `Spec => []EventsInv`. Of one reader it says that what is in a queue
  is published, and out of order only if it is `late` (`QueueOK`); that a replay has
  everything of the project up to its highest id (`ReplayOK`); and, from the moment of
  `Connect` on, that what is owed is on its way (`OwedOK`), which `NothingBetween` says
  of streams whose replay has been read. A dashboard was shown the event it is at, and
  what it is past is accounted for (`PassedOK`), if only because it is still in the
  hand of an emitter that has been overtaken and will be late.
- `NothingBetweenCorrect`, `PassedCorrect`: the two properties of the run.

`SessionsProofs`, for any processes, keys, tools and bounds, from `SessionsTools`,
`SessionsIds` and `SessionsBound`:

- `RowsCorrect`: `Spec => []IInv`. `NothingLeftBehind` says that every agent and row
  has its project; `OneEach`, that in a project a key has one agent. `OneEach` is what
  registration looks for, and it is needed for `OneIdentity`: while a directory is two
  projects a key may have two agents, and when one of the projects is deleted those
  that are left are in the other, one each. Adoption needs the converse: with one
  project, all agents are in it (`AllInOne`), so moving them makes no twins.
- `NothingLeftCorrect`, `OneIdentityCorrect`: two properties of the run.
- `TypeCorrect`: from `CallsInv`. Two requests of a process have two numbers
  (`RequestsOK`), so a number is left for the next one, and one reply to what is waited
  for; after the first request of a call no project is resolved.
- `ErrorsCorrect`: `Spec => []ErrorsAreRefusals`, from `ErrInv`. While there is no remote
  and nothing was deleted, a session that is open, and a call in the middle of its
  opening, have a project that is there (`Speaks`); a request that is waited for is the
  one the call is at, for the session that speaks (`Heard`), so what fails is no late
  reply of another; and no adoption has found an older id.

`TurnsProofs`, for any sessions, agents, files and leases, from `TurnsAgents` and
`TurnsLease`:

- `TypeCorrect`: `Spec => []TypeOK`.
- `BlockedOutCorrect`: `Spec => []BlockedOut`. What a step does to the claims is
  `Granted`, `Released`, `Renewed` or `Tick`; the last three put nobody in the way of
  an edit (`NoneInTheWay`), and what is granted is noted by the edits of others
  (`GrantIsNoted`).
- `FinishedCorrect`: `Spec => []FinishedHoldsNothing`. An agent is granted files only
  by a session that is open after the step.
- `EditSignalCorrect`: `Spec => EditLeavesSignal`.

`SetupProofs`, for any tools installed, any entries, any text, any number of runs and
kills, from `SetupText`, `SetupEntries` and `SetupTools`:

- `TypesHold`, `TypeCorrect`: where a run can be at each kind of step.
- `DryCorrect`: a dry run gets to no writing step.
- `FilesHold`: `Spec => []FilesInv`, which is `FileInv` of each settings file. Whoever
  runs: half a file is there only while somebody writes it or because he was killed
  (`Whole`), and ours is in it once at most. While one run has it (`Sole`): `.tmp` is
  what that run read, merged, when it is renamed (`Holds`), and what the file held
  before its first rewrite is in the file as long as there is no backup, in the backup
  as soon as it is filled, and in the run's hands in between (`Backed`). The user may
  save between any two of these steps.
- `KeepsCorrect`, `BackupCorrect`, `WholeCorrect`: `MergeKeeps`, `Recoverable` and
  `NeverTorn` from it.
- `AgentsHold`: `Spec => []AgentsInv`. Unless two runs had AGENTS.md at once or one was
  killed over it, its marks are those of one block, so what is cut is what we wrote
  (`Good`, which the paragraphs added before, behind and by the run keep), and what a
  run writes back has all the user wrote before it read (`Has1`).
- `IdempotentCorrect`, `KeptCorrect`: `ReRunsAreIdempotent` and `AgentsKept`.

`DaemonLockProofs`, for any processes and addresses:

- `LockInvCorrect`: `SpecApart => [](IInv /\ Apart)`: the file names the process that
  has the database, with its pid, and who is about to remove a lock has looked at one
  that nobody holds.
- `ApartSuffices`: `SpecApart => []OneDaemon`. Only overlapping starts are a danger:
  crashes, stale locks, reused addresses and ends of daemons are not.

So every invariant and every action property of the passing runs is a theorem, those
of `tasks_alone` under the condition of the run or a weaker one.

Only model-checked: the liveness properties `CallsReturn`, `LeasesEnd` and `TurnEnds`,
for the prover knows no fairness, and `AddressedIsWoken` under `AssertedAsSent`, which is
one too. The violations are counterexamples; which overlaps `ClaimExclusive` and
`OneDaemon` need to fail is what `ClaimCorrect` and `ApartSuffices` say.

What the attempts at proof showed of the models:

- `NothingBetween` was false as first stated. Three events are inserted and the third is
  published first; a dashboard is shown it and breaks off; the second is published while
  it is away, so it is not sent and, being below the last id, not replayed; then the
  first is published, is shown, and takes the last id back below the second. That needs
  three emitters, and the run had two; now `CarriedPast` excepts it and the run has
  three.
- Alternatives of a `CASE` in `Sessions` overlapped, of which TLC takes the first and
  TLA+ any: they are `IF` chains in the order of the code.
- A `MaxLate` that is no number, a tool called `NoTool` and an installed tool that
  nobody knows were ruled out by the instances only; they are assumptions now
  (`SessionsBound`, `SessionsIds`, `SetupTools`).

## Where code and text differ, besides the violations run

Each of these is a definition of its module that TLC finds violated when it is put
in the place of the properties of the cfg named (without its `SYMMETRY` and `VIEW`):

| definition | cfg | what is said | what the code does |
| --- | --- | --- | --- |
| `RenewExtends` | `MCFileClaims.cfg`, `TTL = {1, 2}` | "RenewClaims extends the lease" (`claims.go`) | sets the end anew, earlier too |
| `GrantIsVisible` | `MCFileClaims.cfg` | "Another agent asking for the same path is told who holds it" | a dead agent is granted files and nobody is told |
| `DeadOnlyAfterSilence` | `MCFileClaims.cfg` | "marked dead after five minutes without a heartbeat" | the sweep kills an agent whose heartbeat came after its SELECT |
| `Acyclic` | `MCTasksGraph.cfg` | AddDep refuses cycles | two searches pass each other |
| `NilFieldsUnchanged` | `MCTasksAlone.cfg`, two handlers, one task | a nil field is left alone | a patch writes back what it read |
| `NoneSwallowed` | `MCRoom.cfg`, `Limit = 3` | MarkRoomRead records what an agent has been shown | it marks the newest message, shown or not |
| `MergedNotOverwritten` | `MCSetup.cfg` | "merging into existing settings rather than overwriting them" (`init.go:17`) | a file that does not parse counts as empty and is rewritten; its backup has it |

Read and not given a definition, for they need no interleaving:

- A message that a full queue dropped does not come back "on reconnect"
  (`sqlite.go:119`) once a later one was written: the reader's last id is past it.
  `PassedWasShown` excepts it as `dropped`.
- The end of a turn does not remind an agent of a mention that the prompt of the same
  turn has marked as read (`hook.go:368`).
- `hookPostTool` says "Claimed it for you" whatever ClaimFiles answered
  (`hook.go:357`), and `succubus_report` says "Progress recorded." when its UpdateTask
  failed (`mcp.go:492`).
- The end of a woken turn releases what the live session of its agent holds
  (`wake.go:261`): it has the same key.
- AGENTS.md is edited without the `.succubus-bak` copy that setup promises of any file
  (`setup.go:131`); and a settings file is written "back atomically" (`init.go:160`)
  unless two runs share its `.tmp`, which `NeverTorn` excepts.

## Not modelled

- Names (`pickName`, RenameAgent): tasks, claims and rooms know an agent by one name
  that stays. A rename is three statements of which two may fail unseen.
- The order of a column (`sort_key`): nothing but what the dashboard shows depends on it.
- Decisions, handoffs and plans beyond their routes: one statement each, and
  UpdatePlan reads and writes a row as UpdateTask does.
- Questions and threads of the room; deletions of a project behind `Room`.
- Webhooks: a goroutine per event and target posts once, without retry or order.
- Service files, notifications, configuration, Verify and Doctor: one shot, and no
  state of the daemon. The dashboard but for its event stream, the plugin but for the
  hooks it runs.
- Formatting, payloads and dialects of harnesses, HTTP decoding, checks of arguments
  and of origins: they hold no state that outlives a call. Failures of SQLite itself
  (a full disk, a database locked by another program).

Errors that the code handles by returning early leave a call unfinished, as `Restart`
does.
