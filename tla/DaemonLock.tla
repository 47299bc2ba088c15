---------------------------- MODULE DaemonLock ----------------------------
(***************************************************************************)
(* The start and the end of a daemon (mode/daemon.go: Daemon, acquireLock, *)
(* lockHolderAlive; mode/process_unix.go, process_windows.go): a lock file *)
(* that holds a pid, for one database.                                     *)
(*                                                                         *)
(* A lock file is who created it and whether the pid is in it yet; what a  *)
(* process writes after its file was removed goes nowhere.                 *)
(***************************************************************************)
EXTENDS Naturals, FiniteSets

CONSTANTS
  Proc,    \* processes, each with its pid
  Address  \* the address a process listens on

VARIABLES
  lock,     \* daemon.lock
  at,       \* where a process is in Daemon
  attempt,  \* which attempt of acquireLock it is in
  alive     \* the processes that run

vars == <<lock, at, attempt, alive>>

NoFile == {}
File(p, pid) == {[by |-> p, pid |-> pid]}

Places == {"off", "create", "write", "check", "remove", "open", "listen", "serve", "unlock"}

TypeOK ==
  /\ lock = NoFile \/ \E p \in Proc, pid \in BOOLEAN : lock = File(p, pid)
  /\ at \in [Proc -> Places]
  /\ attempt \in [Proc -> 0..1]
  /\ alive = {p \in Proc : at[p] # "off"}

Init ==
  /\ lock = NoFile
  /\ at = [p \in Proc |-> "off"]
  /\ attempt = [p \in Proc |-> 0]
  /\ alive = {}

Goes(p, where) == at' = [at EXCEPT ![p] = where]

(* The process exits, with an error or at its end. *)
Exits(p) ==
  /\ Goes(p, "off")
  /\ alive' = alive \ {p}

(* The service manager, a terminal or an agent's shell starts a daemon. *)
Start(p) ==
  /\ at[p] = "off"
  /\ Goes(p, "create")
  /\ attempt' = [attempt EXCEPT ![p] = 0]
  /\ alive' = alive \cup {p}
  /\ UNCHANGED lock

(* O_CREATE|O_EXCL; the second attempt is the last. *)
Create(p) ==
  /\ at[p] = "create"
  /\ \/ lock = NoFile /\ lock' = File(p, FALSE) /\ Goes(p, "write") /\ UNCHANGED alive
     \/ lock # NoFile /\ attempt[p] = 0 /\ Goes(p, "check") /\ UNCHANGED <<lock, alive>>
     \/ lock # NoFile /\ attempt[p] > 0 /\ Exits(p) /\ UNCHANGED lock
  /\ UNCHANGED attempt

WritePid(p) ==
  /\ at[p] = "write"
  /\ lock' = IF lock = File(p, FALSE) THEN File(p, TRUE) ELSE lock
  /\ Goes(p, "open")
  /\ UNCHANGED <<attempt, alive>>

(* lockHolderAlive and processAlive: no file, a file without a pid, the    *)
(* own pid and the pid of nobody are stale.                                *)
HolderAlive(p) == \E q \in alive \ {p} : lock = File(q, TRUE)

Check(p) ==
  /\ at[p] = "check"
  /\ IF HolderAlive(p) THEN Exits(p) ELSE Goes(p, "remove") /\ UNCHANGED alive
  /\ UNCHANGED <<lock, attempt>>

(* Whatever file is there by now. *)
RemoveStale(p) ==
  /\ at[p] = "remove"
  /\ lock' = NoFile
  /\ attempt' = [attempt EXCEPT ![p] = 1]
  /\ Goes(p, "create")
  /\ UNCHANGED alive

(* store.Open: from here on the process has the database. *)
OpenStore(p) ==
  /\ at[p] = "open" /\ Goes(p, "listen")
  /\ UNCHANGED <<lock, attempt, alive>>

(* Janitor, auto-wake and requests; or the address is taken. *)
Listen(p) ==
  /\ at[p] = "listen"
  /\ Goes(p, IF \E q \in Proc : at[q] = "serve" /\ Address[q] = Address[p] THEN "unlock" ELSE "serve")
  /\ UNCHANGED <<lock, attempt, alive>>

Signal(p) ==
  /\ at[p] = "serve" /\ Goes(p, "unlock")
  /\ UNCHANGED <<lock, attempt, alive>>

(* The deferred os.Remove, by name. *)
Unlock(p) ==
  /\ at[p] = "unlock"
  /\ lock' = NoFile
  /\ Exits(p)
  /\ UNCHANGED attempt

Crash(p) ==
  /\ at[p] # "off"
  /\ Exits(p)
  /\ UNCHANGED <<lock, attempt>>

Next == \E p \in Proc :
  \/ Start(p) \/ Create(p) \/ WritePid(p) \/ Check(p) \/ RemoveStale(p)
  \/ OpenStore(p) \/ Listen(p) \/ Signal(p) \/ Unlock(p) \/ Crash(p)

Spec == Init /\ [][Next]_vars
-----------------------------------------------------------------------------
(* daemon.go: "Refuse to run two daemons against one database": never do   *)
(* two processes have it open.                                             *)
HasDatabase(p) == at[p] \in {"listen", "serve"}

OneDaemon == \A p, q \in Proc : HasDatabase(p) /\ HasDatabase(q) => p = q

(* What holds of it: as long as no two processes are in acquireLock at     *)
(* once, the file names the one that has the database.                     *)
Acquiring(p) == at[p] \in {"create", "write", "check", "remove"}

Apart == \A p, q \in Proc : Acquiring(p) /\ Acquiring(q) => p = q

SpecApart == Init /\ [][Next /\ Apart']_vars

Holds(p) == at[p] \in {"open", "listen", "serve", "unlock"}

IInv ==
  /\ TypeOK
  /\ \A p \in Proc :
       /\ Holds(p) => lock = File(p, TRUE)
       /\ at[p] = "write" => lock = File(p, FALSE)
       /\ at[p] = "remove" => \A q \in Proc : ~Holds(q)
=============================================================================
