-------------------------- MODULE DaemonLockProofs --------------------------
(***************************************************************************)
(* What the lock file gives: daemons that never look for it at the same    *)
(* time never share the database, whatever crashes, restarts under an old  *)
(* pid and addresses that are taken.                                       *)
(***************************************************************************)
EXTENDS DaemonLock, TLAPS

(* One file is not another's, and not the lack of one. *)
LEMMA FileOf ==
  ASSUME NEW p, NEW q, NEW x, NEW y, File(p, x) = File(q, y)
  PROVE  p = q /\ x = y
<1>1. [by |-> p, pid |-> x] = [by |-> q, pid |-> y]
  BY DEF File
<1> QED
  BY <1>1

LEMMA FileIsThere == ASSUME NEW p, NEW x PROVE File(p, x) # NoFile
  BY DEF File, NoFile

(* Before anything is started nobody holds the lock. *)
LEMMA InitInv == Init => IInv /\ Apart
  BY DEF Init, IInv, TypeOK, Places, Holds, Apart, Acquiring

LEMMA TypeNext == ASSUME TypeOK, Next PROVE TypeOK'
<1>1. SUFFICES ASSUME NEW p \in Proc,
                 Start(p) \/ Create(p) \/ WritePid(p) \/ Check(p) \/ RemoveStale(p)
                   \/ OpenStore(p) \/ Listen(p) \/ Signal(p) \/ Unlock(p) \/ Crash(p)
               PROVE TypeOK'
  BY DEF Next
<1> USE DEF TypeOK, Places, Goes, Exits
<1>a. CASE Start(p)
  BY <1>a DEF Start
<1>b. CASE Create(p)
  BY <1>b DEF Create
<1>c. CASE WritePid(p)
  BY <1>c DEF WritePid
<1>d. CASE Check(p)
  BY <1>d DEF Check
<1>e. CASE RemoveStale(p)
  BY <1>e DEF RemoveStale
<1>f. CASE OpenStore(p) \/ Listen(p) \/ Signal(p)
  BY <1>f DEF OpenStore, Listen, Signal
<1>g. CASE Unlock(p)
  BY <1>g DEF Unlock
<1>h. CASE Crash(p)
  BY <1>h DEF Crash
<1> QED
  BY <1>1, <1>a, <1>b, <1>c, <1>d, <1>e, <1>f, <1>g, <1>h

(* Of the processes that hold the lock there is one, whose file it is. *)
LEMMA OneHolder ==
  ASSUME IInv, NEW p \in Proc, NEW q \in Proc, Holds(p), Holds(q)
  PROVE  p = q
<1>1. lock = File(p, TRUE) /\ lock = File(q, TRUE)
  BY DEF IInv
<1>2. File(p, TRUE) = File(q, TRUE)
  BY <1>1
<1> QED
  BY <1>2, FileOf

Named == \A p \in Proc :
  /\ Holds(p) => lock = File(p, TRUE)
  /\ at[p] = "write" => lock = File(p, FALSE)
  /\ at[p] = "remove" => \A q \in Proc : ~Holds(q)

LEMMA NamedNext ==
  ASSUME IInv, Apart, Next, Apart'
  PROVE  Named'
<1>1. SUFFICES ASSUME NEW p \in Proc,
                 Start(p) \/ Create(p) \/ WritePid(p) \/ Check(p) \/ RemoveStale(p)
                   \/ OpenStore(p) \/ Listen(p) \/ Signal(p) \/ Unlock(p) \/ Crash(p)
               PROVE Named'
  BY DEF Next
<1>2. TypeOK /\ Named
  BY DEF IInv, Named
<1> USE DEF Named, Holds, TypeOK, Goes, Exits
<1>a. CASE Start(p)
  BY <1>2, <1>a DEF Start
<1>b. CASE Create(p)
  <2>1. CASE lock = NoFile
    <3>1. lock' = File(p, FALSE) /\ at' = [at EXCEPT ![p] = "write"]
      BY <1>b, <2>1 DEF Create
    <3>2. \A q \in Proc : ~Holds(q) /\ at[q] # "write"
      BY <1>2, <2>1, FileIsThere
    <3>3. \A q \in Proc : q # p => at[q] # "remove"
      BY <1>b DEF Create, Apart, Acquiring
    <3> QED
      BY <1>2, <3>1, <3>2, <3>3
  <2>2. CASE lock # NoFile
    BY <1>2, <1>b, <2>2 DEF Create
  <2> QED
    BY <2>1, <2>2
<1>c. CASE WritePid(p)
  <2>1. lock = File(p, FALSE) /\ lock' = File(p, TRUE) /\ at' = [at EXCEPT ![p] = "open"]
    BY <1>2, <1>c DEF WritePid
  <2>2. ASSUME NEW q \in Proc, Holds(q) PROVE FALSE
    <3>1. File(q, TRUE) = File(p, FALSE)
      BY <1>2, <2>1, <2>2
    <3> QED
      BY <3>1, FileOf
  <2>3. \A q \in Proc : q # p => at[q] # "write" /\ at[q] # "remove"
    BY <1>c DEF WritePid, Apart, Acquiring
  <2> QED
    BY <1>2, <2>1, <2>2, <2>3
<1>d. CASE Check(p)
  <2>1. CASE HolderAlive(p)
    BY <1>2, <1>d, <2>1 DEF Check
  <2>2. CASE ~HolderAlive(p)
    <3>1. at' = [at EXCEPT ![p] = "remove"] /\ lock' = lock
      BY <1>d, <2>2 DEF Check
    <3>2. \A q \in Proc : q # p => ~Holds(q)
      BY <1>2, <2>2 DEF HolderAlive
    <3> QED
      BY <1>2, <1>d, <3>1, <3>2 DEF Check
  <2> QED
    BY <2>1, <2>2
<1>e. CASE RemoveStale(p)
  <2>1. at[p] = "remove" /\ at' = [at EXCEPT ![p] = "create"]
    BY <1>e DEF RemoveStale
  <2>2. \A q \in Proc : ~Holds(q)
    BY <1>2, <2>1
  <2>3. \A q \in Proc : q # p => at[q] # "write" /\ at[q] # "remove"
    BY <2>1 DEF Apart, Acquiring
  <2> QED
    BY <1>2, <2>1, <2>2, <2>3
<1>f. CASE OpenStore(p) \/ Listen(p) \/ Signal(p)
  BY <1>2, <1>f DEF OpenStore, Listen, Signal
<1>g. CASE Unlock(p)
  <2>1. Holds(p) /\ at' = [at EXCEPT ![p] = "off"]
    BY <1>g DEF Unlock
  <2>2. \A q \in Proc : q # p => ~Holds(q)
    BY <2>1, OneHolder
  <2>3. ASSUME NEW q \in Proc, at[q] = "write" PROVE FALSE
    <3>1. File(p, TRUE) = File(q, FALSE)
      BY <1>2, <2>1, <2>3
    <3> QED
      BY <3>1, FileOf
  <2>4. \A q \in Proc : at[q] # "remove"
    BY <1>2, <2>1
  <2> QED
    BY <1>2, <2>1, <2>2, <2>3, <2>4
<1>h. CASE Crash(p)
  BY <1>2, <1>h DEF Crash
<1> QED
  BY <1>1, <1>a, <1>b, <1>c, <1>d, <1>e, <1>f, <1>g, <1>h

(* The file names who has the database, when no two acquire at once. *)
THEOREM LockInvCorrect == SpecApart => [](IInv /\ Apart)
<1>1. IInv /\ Apart /\ [Next /\ Apart']_vars => (IInv /\ Apart)'
  <2> SUFFICES ASSUME IInv, Apart, [Next /\ Apart']_vars PROVE (IInv /\ Apart)'
    OBVIOUS
  <2>1. CASE Next /\ Apart'
    BY <2>1, TypeNext, NamedNext DEF IInv, Named
  <2>2. CASE UNCHANGED vars
    BY <2>2 DEF vars, IInv, Apart, TypeOK, Holds, Acquiring
  <2> QED
    BY <2>1, <2>2
<1> QED
  BY InitInv, <1>1, PTL DEF SpecApart

(* Two daemons that do not start within the same window never have one     *)
(* database open; the run daemon_lock shows that the condition is needed.  *)
THEOREM ApartSuffices == SpecApart => []OneDaemon
<1>1. IInv => OneDaemon
  BY OneHolder DEF OneDaemon, HasDatabase, Holds
<1> QED
  BY LockInvCorrect, <1>1, PTL
=============================================================================
