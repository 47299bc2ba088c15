---------------------------- MODULE TurnsProofs ----------------------------
(***************************************************************************)
(* What the hooks give, for any sessions, agents, files and leases.  The   *)
(* three state formulae are inductive one after the other; every step of   *)
(* a hook moves one session, and what it does to the claims is one of      *)
(* Granted, Released and Renewed.                                          *)
(***************************************************************************)
EXTENDS Turns, TLAPS

Row == [by: Agent \cup {NoAgent}, left: 0..Lease]
ClaimsOK ==
  /\ claims \in [File -> Row]
  /\ \A f \in File : claims[f].left > 0 => claims[f].by # NoAgent

Place == [at: Where, files: SUBSET File, let: BOOLEAN, again: BOOLEAN, since: SUBSET File]
Placed(t) == t \in Place /\ (t.files # {} <=> t.at \in {"editing", "claiming"})

TurnsOK == turn \in [Session -> Place] /\ \A s \in Session : Placed(turn[s])

FlagsOK == unread \in [Agent -> BOOLEAN] /\ stayed \in [Agent -> BOOLEAN]

LEMMA TypeParts == TypeOK <=> ClaimsOK /\ TurnsOK /\ FlagsOK
  BY DEF TypeOK, ClaimsOK, TurnsOK, FlagsOK, Row, Place, Placed

(* What may become of the claims in a step. *)
LEMMA GrantedOK ==
  ASSUME ClaimsOK, NEW a \in Agent, NEW F \in SUBSET File, claims' = Granted(a, F)
  PROVE  ClaimsOK'
  BY TurnsAgents, TurnsLease DEF ClaimsOK, Granted, Row

LEMMA ReleasedOK ==
  ASSUME ClaimsOK, NEW a \in Agent, NEW F \in SUBSET File, claims' = Released(a, F)
  PROVE  ClaimsOK'
  BY TurnsLease DEF ClaimsOK, Released, Unclaimed, Row

LEMMA RenewedOK ==
  ASSUME ClaimsOK, NEW a \in Agent, claims' = Renewed(a)
  PROVE  ClaimsOK'
<1>1. \A f \in File : claims[f] = [by |-> claims[f].by, left |-> claims[f].left]
  BY DEF ClaimsOK, Row
<1> QED
  BY <1>1, TurnsLease DEF ClaimsOK, Renewed, Row

LEMMA TickOK == ASSUME ClaimsOK, Tick PROVE ClaimsOK'
<1>1. claims' \in [File -> Row]
  <2>1. ASSUME NEW f \in File
        PROVE  [claims[f] EXCEPT !.left = IF @ > 0 THEN @ - 1 ELSE 0] \in Row
    BY TurnsLease DEF ClaimsOK, Row
  <2> QED
    BY <2>1 DEF Tick
<1>2. \A f \in File : claims'[f].by = claims[f].by /\ (claims'[f].left > 0 => claims[f].left > 0)
  BY TurnsLease DEF Tick, ClaimsOK, Row
<1> QED
  BY <1>1, <1>2 DEF ClaimsOK

(* A session goes somewhere else, or one field of its turn changes. *)
LEMMA GoesOK ==
  ASSUME TurnsOK, NEW s \in Session, NEW w \in Where,
         w \notin {"editing", "claiming"}, turn[s].files = {}, Goes(s, w)
  PROVE  TurnsOK'
<1>1. Placed([turn[s] EXCEPT !.at = w])
  BY DEF TurnsOK, Placed, Place
<1> QED
  BY <1>1 DEF TurnsOK, Goes, Placed

LEMMA MovesOK ==
  ASSUME TurnsOK, NEW s \in Session, NEW t, Placed(t), turn' = [turn EXCEPT ![s] = t]
  PROVE  TurnsOK'
  BY DEF TurnsOK, Placed

LEMMA NotedOK ==
  ASSUME NEW t, t \in [Session -> Place], \A s \in Session : Placed(t[s]),
         NEW a, turn' = Noted(t, a)
  PROVE  TurnsOK'
<1>1. ASSUME NEW s \in Session PROVE Placed(turn'[s])
  <2> DEFINE N == {f \in t[s].files : t[s].at = "editing" /\ claims'[f].by = a /\ claims'[f].left > 0
                               /\ ~(claims[f].by = a /\ claims[f].left > 0)}
  <2>1. turn'[s] = [t[s] EXCEPT !.since = @ \cup N]
    BY DEF Noted
  <2>2. N \subseteq File /\ t[s] \in Place
    BY DEF Place
  <2>3. \A M \in SUBSET File : Placed([t[s] EXCEPT !.since = @ \cup M])
    BY DEF Placed, Place
  <2> HIDE DEF N
  <2> QED
    BY <2>1, <2>2, <2>3
<1>2. DOMAIN turn' = Session /\ turn' = [s \in Session |-> turn'[s]]
  BY DEF Noted
<1> QED
  BY <1>1, <1>2 DEF TurnsOK, Placed

LEMMA InitType == Init => TypeOK
  BY TurnsAgents, TurnsLease DEF Init, TypeOK, Unclaimed, Closed, Where

(* A session at rest has no files in hand. *)
LEMMA AtRest ==
  ASSUME TurnsOK, NEW s \in Session, turn[s].at \notin {"editing", "claiming"}
  PROVE  turn[s].files = {} /\ turn[s] \in Place
  BY DEF TurnsOK, Placed

LEMMA TypeNext == ASSUME TypeOK, [Next]_vars PROVE TypeOK'
<1>0. ClaimsOK /\ TurnsOK /\ FlagsOK
  BY TypeParts
<1>1. SUFFICES ClaimsOK' /\ TurnsOK' /\ FlagsOK'
  BY DEF TypeOK, ClaimsOK, TurnsOK, FlagsOK, Row, Place, Placed
<1>2. ASSUME claims' = claims PROVE ClaimsOK'
  BY <1>0, <1>2 DEF ClaimsOK
<1>3. ASSUME turn' = turn PROVE TurnsOK'
  BY <1>0, <1>3 DEF TurnsOK
<1>4. ASSUME UNCHANGED <<unread, stayed>> PROVE FlagsOK'
  BY <1>0, <1>4 DEF FlagsOK
<1>5. ASSUME NEW s \in Session PROVE AgentOf[s] \in Agent
  BY TurnsAgents
<1>6. Placed(Closed)
  BY DEF Placed, Place, Closed, Where
<1>7. ASSUME NEW s \in Session, NEW F \in SUBSET File, NEW w \in {"editing", "claiming"}, F # {},
             NEW b \in BOOLEAN
      PROVE  /\ Placed([turn[s] EXCEPT !.at = w, !.files = F, !.let = b])
             /\ Placed([turn[s] EXCEPT !.at = w, !.files = F, !.let = b, !.since = {}])
  BY <1>0, <1>7 DEF TurnsOK, Placed, Place, Where
<1>8. ASSUME NEW s \in Session
      PROVE  Placed([turn[s] EXCEPT !.at = "working", !.files = {}, !.let = FALSE, !.since = {}])
  BY <1>0 DEF TurnsOK, Placed, Place, Where
<1>a. ASSUME NEW s \in Session, SessionStart(s) PROVE ClaimsOK' /\ TurnsOK' /\ FlagsOK'
  BY <1>0, <1>2, <1>4, <1>a, AtRest, GoesOK DEF SessionStart, At, Where
<1>b. ASSUME NEW s \in Session, Prompt(s) PROVE ClaimsOK' /\ TurnsOK' /\ FlagsOK'
  <2>1. ClaimsOK'
    BY <1>0, <1>2, <1>5, <1>b, RenewedOK DEF Prompt
  <2> QED
    BY <1>0, <1>4, <1>b, <2>1, AtRest, GoesOK DEF Prompt, At, Where
<1>c. ASSUME NEW s \in Session, MarkRead(s) PROVE ClaimsOK' /\ TurnsOK' /\ FlagsOK'
  <2>1. FlagsOK'
    BY <1>0, <1>c DEF MarkRead, FlagsOK
  <2>2. Goes(s, "idle") \/ Goes(s, "working")
    BY <1>c DEF MarkRead
  <2> QED
    BY <1>0, <1>2, <1>c, <2>1, <2>2, AtRest, GoesOK DEF MarkRead, At, Where
<1>d. ASSUME NEW s \in Session, NEW F \in Some, PreTool(s, F) PROVE ClaimsOK' /\ TurnsOK' /\ FlagsOK'
  <2>1. PICK b \in BOOLEAN : Edit(s, F, b)
    BY <1>d DEF PreTool
  <2>2. F \in SUBSET File /\ F # {}
    BY DEF Some
  <2> QED
    BY <1>0, <1>2, <1>4, <1>7, <2>1, <2>2, MovesOK DEF Edit
<1>e. ASSUME NEW s \in Session, PostCheck(s) PROVE ClaimsOK' /\ TurnsOK' /\ FlagsOK'
  <2> DEFINE open == Free(turn[s].files)
  <2>1. open \in SUBSET File
    BY <1>0 DEF TurnsOK, Place, Free
  <2>2. \/ open # {} /\ turn' = [turn EXCEPT ![s] = [@ EXCEPT !.at = "claiming", !.files = open,
                                                       !.let = FALSE, !.since = {}]]
        \/ turn' = [turn EXCEPT ![s] = [@ EXCEPT !.at = "working", !.files = {}, !.let = FALSE, !.since = {}]]
    BY <1>e DEF PostCheck
  <2>3. TurnsOK'
    <3>1. CASE open # {} /\ turn' = [turn EXCEPT ![s] = [@ EXCEPT !.at = "claiming", !.files = open,
                                                       !.let = FALSE, !.since = {}]]
      BY <1>0, <1>7, <2>1, <3>1, MovesOK
    <3>2. CASE turn' = [turn EXCEPT ![s] = [@ EXCEPT !.at = "working", !.files = {}, !.let = FALSE, !.since = {}]]
      BY <1>0, <1>8, <3>2, MovesOK
    <3> QED
      BY <2>2, <3>1, <3>2
  <2> QED
    BY <1>2, <1>4, <1>e, <2>3 DEF PostCheck
<1>f. ASSUME NEW s \in Session, PostClaim(s) PROVE ClaimsOK' /\ TurnsOK' /\ FlagsOK'
  <2> DEFINE t == [turn EXCEPT ![s] = [@ EXCEPT !.at = "working", !.files = {}, !.let = FALSE, !.since = {}]]
  <2>1. t \in [Session -> Place] /\ \A q \in Session : Placed(t[q])
    BY <1>0, <1>8 DEF TurnsOK, Placed
  <2>2. TurnsOK'
    BY <1>f, <2>1, NotedOK DEF PostClaim
  <2>3. turn[s].files \in SUBSET File
    BY <1>0 DEF TurnsOK, Place
  <2>4. ClaimsOK'
    BY <1>0, <1>5, <1>f, <2>3, GrantedOK DEF PostClaim
  <2> QED
    BY <1>4, <1>f, <2>2, <2>4 DEF PostClaim
<1>g. ASSUME NEW s \in Session, PostClaimLost(s) PROVE ClaimsOK' /\ TurnsOK' /\ FlagsOK'
  BY <1>0, <1>2, <1>4, <1>8, <1>g, MovesOK DEF PostClaimLost
<1>h. ASSUME NEW s \in Session, Finish(s) PROVE ClaimsOK' /\ TurnsOK' /\ FlagsOK'
  BY <1>0, <1>2, <1>4, <1>h, AtRest, GoesOK DEF Finish, At, Where
<1>i. ASSUME NEW s \in Session, Stop(s) PROVE ClaimsOK' /\ TurnsOK' /\ FlagsOK'
  <2>1. turn[s].files = {} /\ turn[s] \in Place
    BY <1>0, <1>i, AtRest DEF Stop, At
  <2>2. /\ Placed([turn[s] EXCEPT !.at = "working", !.again = TRUE])
        /\ Placed([turn[s] EXCEPT !.at = "idle", !.again = FALSE])
    BY <2>1 DEF Placed, Place, Where
  <2> QED
    BY <1>0, <1>2, <1>4, <1>i, <2>2, MovesOK DEF Stop
<1>j. ASSUME NEW s \in Session, SessionEnd(s) PROVE ClaimsOK' /\ TurnsOK' /\ FlagsOK'
  <2>1. FlagsOK'
    BY <1>0, <1>j DEF SessionEnd, FlagsOK
  <2> QED
    BY <1>0, <1>5, <1>6, <1>j, <2>1, MovesOK, ReleasedOK DEF SessionEnd
<1>k. ASSUME NEW s \in Session, SessionIdle(s) PROVE ClaimsOK' /\ TurnsOK' /\ FlagsOK'
  <2>1. FlagsOK'
    BY <1>0, <1>k DEF SessionIdle, FlagsOK
  <2> QED
    BY <1>0, <1>3, <1>5, <1>k, <2>1, ReleasedOK DEF SessionIdle
<1>l. ASSUME NEW s \in Session, Killed(s) PROVE ClaimsOK' /\ TurnsOK' /\ FlagsOK'
  <2>1. FlagsOK'
    BY <1>0, <1>l DEF Killed, FlagsOK
  <2> QED
    BY <1>0, <1>2, <1>6, <1>l, <2>1, MovesOK DEF Killed
<1>m. ASSUME NEW s \in Session, NEW F \in Some, ClaimFiles(s, F) PROVE ClaimsOK' /\ TurnsOK' /\ FlagsOK'
  <2>1. ClaimsOK'
    BY <1>0, <1>5, <1>m, GrantedOK DEF ClaimFiles, Some
  <2>2. TurnsOK'
    BY <1>0, <1>m, NotedOK DEF ClaimFiles, TurnsOK
  <2> QED
    BY <1>4, <1>m, <2>1, <2>2 DEF ClaimFiles
<1>n. ASSUME NEW s \in Session, NEW F \in Some, ReleaseFiles(s, F) PROVE ClaimsOK' /\ TurnsOK' /\ FlagsOK'
  BY <1>0, <1>3, <1>4, <1>5, <1>n, ReleasedOK DEF ReleaseFiles, Some
<1>o. ASSUME NEW a \in Agent, Say(a) PROVE ClaimsOK' /\ TurnsOK' /\ FlagsOK'
  <2>1. FlagsOK'
    BY <1>0, <1>o DEF Say, FlagsOK
  <2> QED
    BY <1>2, <1>3, <1>o, <2>1 DEF Say
<1>p. CASE Tick
  BY <1>0, <1>3, <1>4, <1>p, TickOK DEF Tick
<1>q. CASE UNCHANGED vars
  BY <1>2, <1>3, <1>4, <1>q DEF vars
<1>r. ASSUME NEW s \in Session, Hook(s) PROVE ClaimsOK' /\ TurnsOK' /\ FlagsOK'
  BY <1>a, <1>b, <1>c, <1>e, <1>f, <1>g, <1>h, <1>i, <1>j, <1>k, <1>l, <1>r DEF Hook
<1> QED
  BY <1>d, <1>m, <1>n, <1>o, <1>p, <1>q, <1>r DEF Next

(* The hooks of any number of sessions keep claims and turns well formed:  *)
(* a live claim has a holder, and files are in hand exactly in an edit and *)
(* in the claim after it (hookPreTool, hookPostTool).                      *)
THEOREM TypeCorrect == Spec => []TypeOK
<1>1. TypeOK /\ [Next]_vars => TypeOK'
  BY TypeNext
<1> QED
  BY InitType, <1>1, PTL DEF Spec
-----------------------------------------------------------------------------
(* The files of others that an edit which was let through may meet. *)
Excused(s) ==
  At(s, "editing") /\ turn[s].let => \A f \in Others(AgentOf[s], turn[s].files) : f \in turn[s].since

LEMMA BlockedOutIs == BlockedOut <=> (Enforcement = "block" => \A s \in Session : Excused(s))
  BY DEF BlockedOut, Excused

(* Claims that nobody is granted put nobody in the way. *)
LEMMA NoneInTheWay ==
  ASSUME TypeOK, NEW s \in Session, Excused(s), turn'[s] = turn[s],
         \A f \in File : claims'[f].left > 0 => claims[f].left > 0 /\ claims'[f].by = claims[f].by
  PROVE  Excused(s)'
  BY DEF Excused, At, Others, TypeOK

(* Files granted to a are noted by the edits of others. *)
LEMMA GrantIsNoted ==
  ASSUME TypeOK, NEW t \in [Session -> Place], NEW a \in Agent, NEW F \in SUBSET File,
         claims' = Granted(a, F), turn' = Noted(t, a),
         NEW s \in Session, t[s] = turn[s], Excused(s)
  PROVE  Excused(s)'
<1> DEFINE N == {f \in t[s].files : t[s].at = "editing" /\ claims'[f].by = a /\ claims'[f].left > 0
                             /\ ~(claims[f].by = a /\ claims[f].left > 0)}
<1>1. turn'[s] = [turn[s] EXCEPT !.since = @ \cup N]
  BY DEF Noted
<1>2. turn[s] \in Place
  BY DEF TypeOK, Place
<1>3. /\ turn'[s].at = turn[s].at /\ turn'[s].files = turn[s].files /\ turn'[s].let = turn[s].let
      /\ turn'[s].since = turn[s].since \cup N
  BY <1>1, <1>2 DEF Place
<1>4. SUFFICES ASSUME turn[s].at = "editing", turn[s].let,
                      NEW f \in turn[s].files, claims'[f].left > 0, claims'[f].by # AgentOf[s]
               PROVE  f \in turn[s].since \cup N
  BY <1>3 DEF Excused, At, Others
<1>5. f \in File
  BY <1>2 DEF Place
<1>6. CASE claims'[f] = claims[f]
  BY <1>4, <1>6 DEF Excused, At, Others
<1>7. CASE claims'[f] # claims[f]
  <2>1. claims'[f].by = a /\ claims'[f].left > 0
    BY <1>4, <1>5, <1>7, TurnsLease DEF Granted
  <2>2. CASE claims[f].by = a /\ claims[f].left > 0
    BY <1>4, <2>1, <2>2 DEF Excused, At, Others
  <2>3. CASE ~(claims[f].by = a /\ claims[f].left > 0)
    BY <1>4, <2>1, <2>3
  <2> QED
    BY <2>2, <2>3
<1> QED
  BY <1>6, <1>7

(* A session that is not in an edit excuses itself. *)
LEMMA NotEditing == ASSUME NEW s \in Session, turn'[s].at # "editing" PROVE Excused(s)'
  BY DEF Excused, At

(* What is released or renewed was held before. *)
LEMMA ReleasedHeld ==
  ASSUME TypeOK, NEW a \in Agent, NEW F \in SUBSET File, claims' = Released(a, F)
  PROVE  \A f \in File : claims'[f].left > 0 => claims[f].left > 0 /\ claims'[f].by = claims[f].by
  BY DEF Released, Unclaimed

LEMMA RenewedHeld ==
  ASSUME TypeOK, NEW a \in Agent, claims' = Renewed(a)
  PROVE  \A f \in File : claims'[f].left > 0 => claims[f].left > 0 /\ claims'[f].by = claims[f].by
<1>1. \A f \in File : claims[f] = [by |-> claims[f].by, left |-> claims[f].left]
  BY DEF TypeOK
<1> QED
  BY <1>1 DEF Renewed

LEMMA TickHeld ==
  ASSUME TypeOK, Tick
  PROVE  \A f \in File : claims'[f].left > 0 => claims[f].left > 0 /\ claims'[f].by = claims[f].by
  BY DEF Tick, TypeOK

(* Each step, with the sessions that stay where they are. *)
LEMMA OneMoves ==
  ASSUME TypeOK, NEW s \in Session, NEW t, turn' = [turn EXCEPT ![s] = t], Excused(s)',
         \A q \in Session : Excused(q),
         \A f \in File : claims'[f].left > 0 => claims[f].left > 0 /\ claims'[f].by = claims[f].by
  PROVE  \A q \in Session : Excused(q)'
<1>1. ASSUME NEW q \in Session, q # s PROVE Excused(q)'
  <2>1. turn'[q] = turn[q]
    BY <1>1 DEF TypeOK
  <2> QED
    BY <2>1, NoneInTheWay
<1> QED
  BY <1>1

LEMMA BlockedNext ==
  ASSUME TypeOK, Enforcement = "block", \A s \in Session : Excused(s), [Next]_vars
  PROVE  \A s \in Session : Excused(s)'
<1>1. turn \in [Session -> Place]
  BY DEF TypeOK, Place
<1>2. ASSUME NEW s \in Session PROVE AgentOf[s] \in Agent
  BY TurnsAgents
<1>3. ASSUME claims' = claims
      PROVE  \A f \in File : claims'[f].left > 0 => claims[f].left > 0 /\ claims'[f].by = claims[f].by
  BY <1>3
<1>4. ASSUME turn' = turn,
             \A f \in File : claims'[f].left > 0 => claims[f].left > 0 /\ claims'[f].by = claims[f].by
      PROVE  \A s \in Session : Excused(s)'
  BY <1>4, NoneInTheWay
<1>5. ASSUME NEW s \in Session, NEW t, turn' = [turn EXCEPT ![s] = t], t.at # "editing",
             \A f \in File : claims'[f].left > 0 => claims[f].left > 0 /\ claims'[f].by = claims[f].by
      PROVE  \A q \in Session : Excused(q)'
  <2>1. Excused(s)'
    BY <1>1, <1>5, NotEditing
  <2> QED
    BY <1>5, <2>1, OneMoves
<1>6. ASSUME NEW s \in Session, NEW w, w # "editing", Goes(s, w),
             \A f \in File : claims'[f].left > 0 => claims[f].left > 0 /\ claims'[f].by = claims[f].by
      PROVE  \A q \in Session : Excused(q)'
  <2>1. [turn[s] EXCEPT !.at = w].at # "editing"
    BY <1>1, <1>6 DEF Place
  <2>2. turn' = [turn EXCEPT ![s] = [turn[s] EXCEPT !.at = w]]
    BY <1>6 DEF Goes
  <2> QED
    BY <1>5, <1>6, <2>1, <2>2
<1>7. ASSUME NEW s \in Session, claims' = claims,
             turn' = [turn EXCEPT ![s] = [@ EXCEPT !.at = "working", !.files = {}, !.let = FALSE, !.since = {}]]
      PROVE  \A q \in Session : Excused(q)'
  <2>1. [turn[s] EXCEPT !.at = "working", !.files = {}, !.let = FALSE, !.since = {}].at # "editing"
    BY <1>1 DEF Place
  <2> QED
    BY <1>3, <1>5, <1>7, <2>1
<1>8. Closed.at # "editing"
  BY DEF Closed
<1>a. ASSUME NEW s \in Session, SessionStart(s) PROVE \A q \in Session : Excused(q)'
  BY <1>3, <1>6, <1>a DEF SessionStart
<1>b. ASSUME NEW s \in Session, Prompt(s) PROVE \A q \in Session : Excused(q)'
  <2>1. \A f \in File : claims'[f].left > 0 => claims[f].left > 0 /\ claims'[f].by = claims[f].by
    BY <1>2, <1>3, <1>b, RenewedHeld DEF Prompt
  <2> QED
    BY <1>6, <1>b, <2>1 DEF Prompt
<1>c. ASSUME NEW s \in Session, MarkRead(s) PROVE \A q \in Session : Excused(q)'
  <2>1. PICK w \in {"idle", "working"} : Goes(s, w)
    BY <1>c DEF MarkRead
  <2> QED
    BY <1>3, <1>6, <1>c, <2>1 DEF MarkRead
<1>d. ASSUME NEW s \in Session, NEW F \in Some, PreTool(s, F) PROVE \A q \in Session : Excused(q)'
  <2>1. PICK b \in BOOLEAN : Edit(s, F, b) /\ (b => Others(AgentOf[s], F) = {})
    BY <1>d DEF PreTool, Denied
  <2>2. turn' = [turn EXCEPT ![s] = [turn[s] EXCEPT !.at = "editing", !.files = F, !.let = b]]
    BY <2>1 DEF Edit
  <2>3. turn'[s].files = F /\ turn'[s].let = b /\ claims' = claims
    BY <1>1, <2>1, <2>2 DEF Edit, Place
  <2>4. Excused(s)'
    BY <2>1, <2>3 DEF Excused, Others
  <2> QED
    BY <1>3, <2>2, <2>3, <2>4, OneMoves
<1>e. ASSUME NEW s \in Session, PostCheck(s) PROVE \A q \in Session : Excused(q)'
  <2>1. CASE turn' = [turn EXCEPT ![s] = [@ EXCEPT !.at = "claiming", !.files = Free(turn[s].files),
                                                    !.let = FALSE, !.since = {}]]
    <3>1. [turn[s] EXCEPT !.at = "claiming", !.files = Free(turn[s].files),
                          !.let = FALSE, !.since = {}].at # "editing"
      BY <1>1 DEF Place
    <3> QED
      BY <1>3, <1>5, <1>e, <2>1, <3>1 DEF PostCheck
  <2> QED
    BY <1>7, <1>e, <2>1 DEF PostCheck
<1>f. ASSUME NEW s \in Session, PostClaim(s) PROVE \A q \in Session : Excused(q)'
  <2> DEFINE u == [turn[s] EXCEPT !.at = "working", !.files = {}, !.let = FALSE, !.since = {}]
             t == [turn EXCEPT ![s] = u]
  <2>1. turn' = Noted(t, AgentOf[s]) /\ claims' = Granted(AgentOf[s], turn[s].files)
    BY <1>f DEF PostClaim
  <2>2. u \in Place /\ u.at = "working"
    BY <1>1 DEF Place, Where
  <2>3. t \in [Session -> Place] /\ t[s] = u
    BY <1>1, <2>2
  <2>4. turn[s].files \in SUBSET File
    BY <1>1 DEF Place
  <2>5. turn'[s].at # "editing"
    <3> HIDE DEF t, u
    <3> QED
      BY <2>1, <2>2, <2>3 DEF Noted, Place
  <2>6. ASSUME NEW q \in Session, q # s PROVE Excused(q)'
    <3>1. t[q] = turn[q]
      BY <1>1, <2>6
    <3> HIDE DEF t
    <3> QED
      BY <1>2, <2>1, <2>3, <2>4, <3>1, GrantIsNoted
  <2> QED
    BY <2>5, <2>6, NotEditing
<1>g. ASSUME NEW s \in Session, PostClaimLost(s) PROVE \A q \in Session : Excused(q)'
  BY <1>7, <1>g DEF PostClaimLost
<1>h. ASSUME NEW s \in Session, Finish(s) PROVE \A q \in Session : Excused(q)'
  BY <1>3, <1>6, <1>h DEF Finish
<1>i. ASSUME NEW s \in Session, Stop(s) PROVE \A q \in Session : Excused(q)'
  <2>1. /\ [turn[s] EXCEPT !.at = "working", !.again = TRUE].at # "editing"
        /\ [turn[s] EXCEPT !.at = "idle", !.again = FALSE].at # "editing"
    BY <1>1 DEF Place
  <2> QED
    BY <1>3, <1>5, <1>i, <2>1 DEF Stop
<1>j. ASSUME NEW s \in Session, SessionEnd(s) \/ SessionIdle(s) PROVE \A q \in Session : Excused(q)'
  <2>1. \A f \in File : claims'[f].left > 0 => claims[f].left > 0 /\ claims'[f].by = claims[f].by
    BY <1>2, <1>j, ReleasedHeld DEF SessionEnd, SessionIdle
  <2> QED
    BY <1>4, <1>5, <1>8, <1>j, <2>1 DEF SessionEnd, SessionIdle
<1>l. ASSUME NEW s \in Session, Killed(s) PROVE \A q \in Session : Excused(q)'
  BY <1>3, <1>5, <1>8, <1>l DEF Killed
<1>m. ASSUME NEW s \in Session, NEW F \in Some, ClaimFiles(s, F) PROVE \A q \in Session : Excused(q)'
  BY <1>1, <1>2, <1>m, GrantIsNoted DEF ClaimFiles, Some
<1>n. ASSUME NEW s \in Session, NEW F \in Some, ReleaseFiles(s, F) PROVE \A q \in Session : Excused(q)'
  BY <1>2, <1>4, <1>n, ReleasedHeld DEF ReleaseFiles, Some
<1>o. ASSUME NEW a \in Agent, Say(a) PROVE \A q \in Session : Excused(q)'
  BY <1>3, <1>4, <1>o DEF Say
<1>p. CASE Tick
  BY <1>4, <1>p, TickHeld DEF Tick
<1>q. CASE UNCHANGED vars
  BY <1>3, <1>4, <1>q DEF vars
<1>r. ASSUME NEW s \in Session, Hook(s) PROVE \A q \in Session : Excused(q)'
  BY <1>a, <1>b, <1>c, <1>e, <1>f, <1>g, <1>h, <1>i, <1>j, <1>l, <1>r DEF Hook
<1> QED
  BY <1>d, <1>m, <1>n, <1>o, <1>p, <1>q, <1>r DEF Next

(* In block mode an edit that was let through meets no claim of another    *)
(* but one granted while it was under way, however many sessions run the   *)
(* hooks (hookPreTool): the check and the edit are two steps, and this is  *)
(* the one thing that can come between them.                               *)
THEOREM BlockedOutCorrect == Spec => []BlockedOut
<1>1. Init => BlockedOut
  BY DEF Init, BlockedOut, At, Closed
<1>2. TypeOK /\ BlockedOut /\ [Next]_vars => BlockedOut'
  <2> SUFFICES ASSUME TypeOK, BlockedOut, [Next]_vars, Enforcement = "block"
               PROVE  \A s \in Session : Excused(s)'
    BY DEF BlockedOut, Excused
  <2> QED
    BY BlockedOutIs, BlockedNext
<1> QED
  BY <1>1, <1>2, TypeCorrect, PTL DEF Spec
-----------------------------------------------------------------------------
(* What FinishedHoldsNothing says of one agent. *)
Nothing(b) ==
  (\A s \in Session : AgentOf[s] = b => At(s, "closed")) /\ ~stayed[b] =>
    \A f \in File : claims[f].by # b

LEMMA OneIsOpen ==
  ASSUME NEW s \in Session, ~At(s, "closed")' PROVE Nothing(AgentOf[s])'
  BY DEF Nothing, At

LEMMA NothingNew ==
  ASSUME NEW b \in Agent, Nothing(b), stayed'[b] = stayed[b],
         \A s \in Session : AgentOf[s] = b /\ turn'[s].at = "closed" => turn[s].at = "closed",
         \A f \in File : claims'[f].by = b => claims[f].by = b
  PROVE  Nothing(b)'
  BY DEF Nothing, At

LEMMA GrantedBy ==
  ASSUME NEW a \in Agent, NEW F \in SUBSET File, claims' = Granted(a, F)
  PROVE  \A f \in File : claims'[f].by = claims[f].by \/ claims'[f].by = a
  BY DEF Granted

LEMMA ReleasedBy ==
  ASSUME NEW a \in Agent, NEW F \in SUBSET File, claims' = Released(a, F)
  PROVE  \A b \in Agent, f \in File : claims'[f].by = b => claims[f].by = b
  BY TurnsAgents DEF Released, Unclaimed

LEMMA RenewedBy ==
  ASSUME TypeOK, NEW a \in Agent, claims' = Renewed(a)
  PROVE  \A f \in File : claims'[f].by = claims[f].by
<1>1. \A f \in File : claims[f] = [by |-> claims[f].by, left |-> claims[f].left]
  BY DEF TypeOK
<1> QED
  BY <1>1 DEF Renewed

LEMMA FinishedNext ==
  ASSUME TypeOK, \A b \in Agent : Nothing(b), [Next]_vars
  PROVE  \A b \in Agent : Nothing(b)'
<1>1. /\ turn \in [Session -> Place] /\ claims \in [File -> Row] /\ stayed \in [Agent -> BOOLEAN]
      /\ \A s \in Session : AgentOf[s] \in Agent
  BY TurnsAgents DEF TypeOK, Place, Row
(* A step of s that does not end it, and leaves the claims to their holders. *)
<1>2. ASSUME NEW s \in Session, NEW t, t.at # "closed", turn' = [turn EXCEPT ![s] = t],
             stayed' = stayed, \A f \in File : claims'[f].by = claims[f].by
      PROVE  \A b \in Agent : Nothing(b)'
  <2>1. \A q \in Session : turn'[q].at = "closed" => turn[q].at = "closed"
    BY <1>1, <1>2
  <2> QED
    BY <1>2, <2>1, NothingNew
<1>3. ASSUME NEW s \in Session, NEW w, w # "closed", Goes(s, w),
             stayed' = stayed, \A f \in File : claims'[f].by = claims[f].by
      PROVE  \A b \in Agent : Nothing(b)'
  <2>1. [turn[s] EXCEPT !.at = w].at # "closed"
    BY <1>1, <1>3 DEF Place
  <2>2. turn' = [turn EXCEPT ![s] = [turn[s] EXCEPT !.at = w]]
    BY <1>3 DEF Goes
  <2> QED
    BY <1>2, <1>3, <2>1, <2>2
(* A step in which an open session is granted files. *)
<1>4. ASSUME NEW s \in Session, NEW F \in SUBSET File, claims' = Granted(AgentOf[s], F),
             NEW t \in [Session -> Place], turn' = Noted(t, AgentOf[s]), t[s].at # "closed",
             \A q \in Session : q # s => t[q] = turn[q], stayed' = stayed
      PROVE  \A b \in Agent : Nothing(b)'
  <2>1. \A q \in Session : turn'[q].at = t[q].at
    BY <1>4 DEF Noted, Place
  <2>2. ~At(s, "closed")'
    BY <1>4, <2>1 DEF At
  <2>3. ASSUME NEW b \in Agent, b # AgentOf[s] PROVE Nothing(b)'
    <3>1. \A q \in Session : AgentOf[q] = b /\ turn'[q].at = "closed" => turn[q].at = "closed"
      BY <1>4, <2>1, <2>3
    <3>2. \A f \in File : claims'[f].by = b => claims[f].by = b
      BY <1>1, <1>4, <2>3, GrantedBy
    <3> QED
      BY <1>4, <3>1, <3>2, NothingNew
  <2> QED
    BY <2>2, <2>3, OneIsOpen
<1>5. ASSUME turn' = turn, stayed' = stayed,
             \A b \in Agent, f \in File : claims'[f].by = b => claims[f].by = b
      PROVE  \A b \in Agent : Nothing(b)'
  BY <1>5, NothingNew
<1>6. ASSUME claims' = claims PROVE \A f \in File : claims'[f].by = claims[f].by
  BY <1>6
<1>7. ASSUME NEW s \in Session, claims' = claims, stayed' = stayed,
             turn' = [turn EXCEPT ![s] = [@ EXCEPT !.at = "working", !.files = {}, !.let = FALSE, !.since = {}]]
      PROVE  \A b \in Agent : Nothing(b)'
  <2>1. [turn[s] EXCEPT !.at = "working", !.files = {}, !.let = FALSE, !.since = {}].at # "closed"
    BY <1>1 DEF Place
  <2> QED
    BY <1>2, <1>6, <1>7, <2>1
<1>a. ASSUME NEW s \in Session, SessionStart(s) PROVE \A b \in Agent : Nothing(b)'
  BY <1>3, <1>6, <1>a DEF SessionStart
<1>b. ASSUME NEW s \in Session, Prompt(s) PROVE \A b \in Agent : Nothing(b)'
  <2>1. \A f \in File : claims'[f].by = claims[f].by
    BY <1>1, <1>6, <1>b, RenewedBy DEF Prompt
  <2> QED
    BY <1>3, <1>b, <2>1 DEF Prompt
<1>c. ASSUME NEW s \in Session, MarkRead(s) PROVE \A b \in Agent : Nothing(b)'
  <2>1. PICK w \in {"idle", "working"} : Goes(s, w)
    BY <1>c DEF MarkRead
  <2> QED
    BY <1>3, <1>6, <1>c, <2>1 DEF MarkRead
<1>d. ASSUME NEW s \in Session, NEW F \in Some, PreTool(s, F) PROVE \A b \in Agent : Nothing(b)'
  <2>1. PICK x \in BOOLEAN : Edit(s, F, x)
    BY <1>d DEF PreTool
  <2>2. [turn[s] EXCEPT !.at = "editing", !.files = F, !.let = x].at # "closed"
    BY <1>1 DEF Place
  <2> QED
    BY <1>2, <1>6, <2>1, <2>2 DEF Edit
<1>e. ASSUME NEW s \in Session, PostCheck(s) PROVE \A b \in Agent : Nothing(b)'
  <2>1. CASE turn' = [turn EXCEPT ![s] = [@ EXCEPT !.at = "claiming", !.files = Free(turn[s].files),
                                                    !.let = FALSE, !.since = {}]]
    <3>1. [turn[s] EXCEPT !.at = "claiming", !.files = Free(turn[s].files),
                          !.let = FALSE, !.since = {}].at # "closed"
      BY <1>1 DEF Place
    <3> QED
      BY <1>2, <1>6, <1>e, <2>1, <3>1 DEF PostCheck
  <2> QED
    BY <1>7, <1>e, <2>1 DEF PostCheck
<1>f. ASSUME NEW s \in Session, PostClaim(s) PROVE \A b \in Agent : Nothing(b)'
  <2> DEFINE u == [turn[s] EXCEPT !.at = "working", !.files = {}, !.let = FALSE, !.since = {}]
             t == [turn EXCEPT ![s] = u]
  <2>1. /\ turn' = Noted(t, AgentOf[s]) /\ claims' = Granted(AgentOf[s], turn[s].files)
        /\ stayed' = stayed
    BY <1>f DEF PostClaim
  <2>2. u \in Place /\ u.at = "working"
    BY <1>1 DEF Place, Where
  <2>3. t \in [Session -> Place] /\ t[s] = u /\ \A q \in Session : q # s => t[q] = turn[q]
    BY <1>1, <2>2
  <2>4. turn[s].files \in SUBSET File
    BY <1>1 DEF Place
  <2>5. t[s].at # "closed"
    BY <2>2, <2>3
  <2> HIDE DEF t, u
  <2> QED
    BY <1>4, <2>1, <2>3, <2>4, <2>5
<1>g. ASSUME NEW s \in Session, PostClaimLost(s) PROVE \A b \in Agent : Nothing(b)'
  BY <1>7, <1>g DEF PostClaimLost
<1>h. ASSUME NEW s \in Session, Finish(s) PROVE \A b \in Agent : Nothing(b)'
  BY <1>3, <1>6, <1>h DEF Finish
<1>i. ASSUME NEW s \in Session, Stop(s) PROVE \A b \in Agent : Nothing(b)'
  <2>1. /\ [turn[s] EXCEPT !.at = "working", !.again = TRUE].at # "closed"
        /\ [turn[s] EXCEPT !.at = "idle", !.again = FALSE].at # "closed"
    BY <1>1 DEF Place
  <2> QED
    BY <1>2, <1>6, <1>i, <2>1 DEF Stop
<1>j. ASSUME NEW s \in Session, SessionEnd(s) PROVE \A b \in Agent : Nothing(b)'
  <2>1. claims' = Released(AgentOf[s], File)
    BY <1>j DEF SessionEnd
  <2>2. Nothing(AgentOf[s])'
    BY <1>1, <2>1, TurnsAgents DEF Nothing, Released, Unclaimed
  <2>3. ASSUME NEW b \in Agent, b # AgentOf[s] PROVE Nothing(b)'
    <3>1. stayed'[b] = stayed[b]
      BY <1>1, <1>j, <2>3 DEF SessionEnd
    <3>2. \A q \in Session : AgentOf[q] = b /\ turn'[q].at = "closed" => turn[q].at = "closed"
      BY <1>1, <1>j, <2>3 DEF SessionEnd
    <3>3. \A f \in File : claims'[f].by = b => claims[f].by = b
      BY <1>1, <2>1, ReleasedBy
    <3> QED
      BY <3>1, <3>2, <3>3, NothingNew
  <2> QED
    BY <2>2, <2>3
<1>k. ASSUME NEW s \in Session, SessionIdle(s) PROVE \A b \in Agent : Nothing(b)'
  <2>1. Nothing(AgentOf[s])'
    BY <1>k, OneIsOpen DEF SessionIdle, At
  <2>2. ASSUME NEW b \in Agent, b # AgentOf[s] PROVE Nothing(b)'
    <3>1. stayed'[b] = stayed[b]
      BY <1>1, <1>k, <2>2 DEF SessionIdle
    <3>2. \A f \in File : claims'[f].by = b => claims[f].by = b
      BY <1>1, <1>k, ReleasedBy DEF SessionIdle
    <3> QED
      BY <1>k, <3>1, <3>2, NothingNew DEF SessionIdle
  <2> QED
    BY <2>1, <2>2
<1>l. ASSUME NEW s \in Session, Killed(s) PROVE \A b \in Agent : Nothing(b)'
  <2>1. Nothing(AgentOf[s])'
    BY <1>1, <1>l DEF Killed, Nothing
  <2>2. ASSUME NEW b \in Agent, b # AgentOf[s] PROVE Nothing(b)'
    <3>1. stayed'[b] = stayed[b]
      BY <1>1, <1>l, <2>2 DEF Killed
    <3>2. \A q \in Session : AgentOf[q] = b /\ turn'[q].at = "closed" => turn[q].at = "closed"
      BY <1>1, <1>l, <2>2 DEF Killed
    <3> QED
      BY <1>l, <3>1, <3>2, NothingNew DEF Killed
  <2> QED
    BY <2>1, <2>2
<1>m. ASSUME NEW s \in Session, NEW F \in Some, ClaimFiles(s, F) PROVE \A b \in Agent : Nothing(b)'
  BY <1>1, <1>4, <1>m DEF ClaimFiles, Some, At
<1>n. ASSUME NEW s \in Session, NEW F \in Some, ReleaseFiles(s, F) PROVE \A b \in Agent : Nothing(b)'
  BY <1>1, <1>5, <1>n, ReleasedBy DEF ReleaseFiles, Some
<1>o. ASSUME NEW a \in Agent, Say(a) PROVE \A b \in Agent : Nothing(b)'
  BY <1>5, <1>o DEF Say
<1>p. CASE Tick
  <2>1. \A f \in File : claims'[f].by = claims[f].by
    BY <1>1, <1>p DEF Tick, Row
  <2> QED
    BY <1>5, <1>p, <2>1 DEF Tick
<1>q. CASE UNCHANGED vars
  BY <1>5, <1>q DEF vars
<1>r. ASSUME NEW s \in Session, Hook(s) PROVE \A b \in Agent : Nothing(b)'
  BY <1>a, <1>b, <1>c, <1>e, <1>f, <1>g, <1>h, <1>i, <1>j, <1>k, <1>l, <1>r DEF Hook
<1> QED
  BY <1>d, <1>m, <1>n, <1>o, <1>p, <1>q, <1>r DEF Next

(* An agent whose sessions have all ended through hookSessionEnd holds no  *)
(* file, for any number of sessions that share its key: the claim an edit  *)
(* leaves behind (hookPostTool) is made by a session that is still open.   *)
THEOREM FinishedCorrect == Spec => []FinishedHoldsNothing
<1>1. FinishedHoldsNothing <=> \A b \in Agent : Nothing(b)
  BY DEF FinishedHoldsNothing, Nothing
<1>2. Init => FinishedHoldsNothing
  BY TurnsAgents DEF Init, FinishedHoldsNothing, Unclaimed
<1>3. TypeOK /\ FinishedHoldsNothing /\ [Next]_vars => FinishedHoldsNothing'
  <2> SUFFICES ASSUME TypeOK, \A b \in Agent : Nothing(b), [Next]_vars
               PROVE  \A b \in Agent : Nothing(b)'
    BY <1>1 DEF FinishedHoldsNothing, Nothing
  <2> QED
    BY FinishedNext
<1> QED
  BY <1>2, <1>3, TypeCorrect, PTL DEF Spec

(* The claim that follows an edit leaves the agent the holder of its files *)
(* or meets a live claim on one of them, whatever was claimed between the  *)
(* check of hookPostTool and its claim.                                    *)
THEOREM EditSignalCorrect == Spec => EditLeavesSignal
<1>1. ASSUME TypeOK, NEW s \in Session, PostClaim(s)
      PROVE  \/ \A f \in turn[s].files : claims'[f].by = AgentOf[s] /\ claims'[f].left > 0
             \/ \E f \in turn[s].files : claims'[f].by # AgentOf[s] /\ claims'[f].left > 0
  <2>1. turn[s].files \in SUBSET File
    BY <1>1 DEF TypeOK
  <2>2. claims' = Granted(AgentOf[s], turn[s].files)
    BY <1>1 DEF PostClaim
  <2>3. CASE Others(AgentOf[s], turn[s].files) # {}
    BY <2>2, <2>3 DEF Granted, Others
  <2>4. CASE Others(AgentOf[s], turn[s].files) = {}
    BY <2>1, <2>2, <2>4, TurnsLease DEF Granted
  <2> QED
    BY <2>3, <2>4
<1>2. TypeOK /\ [Next]_vars =>
        [\A s \in Session : PostClaim(s) =>
           \/ \A f \in turn[s].files : claims'[f].by = AgentOf[s] /\ claims'[f].left > 0
           \/ \E f \in turn[s].files : claims'[f].by # AgentOf[s] /\ claims'[f].left > 0]_vars
  BY <1>1
<1> QED
  BY <1>2, TypeCorrect, PTL DEF Spec, EditLeavesSignal
=============================================================================
