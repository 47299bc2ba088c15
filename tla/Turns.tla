------------------------------- MODULE Turns -------------------------------
(***************************************************************************)
(* The hooks of a harness (mode/hook.go) over the life of its sessions:    *)
(* start, prompt, the check before an edit, the claim after it, the end of *)
(* a turn and of the session, and the headless turn that `succubus wake`   *)
(* starts in the name of an agent (mode/wake.go).                          *)
(*                                                                         *)
(* A hook sends its requests one by one; every one may fail, which a hook  *)
(* passes over in silence.  Of the room there is one fact for an agent:    *)
(* whether a message that names it is later than its read mark.  A claim   *)
(* counts down its lease.                                                  *)
(***************************************************************************)
EXTENDS Naturals, FiniteSets

CONSTANTS
  Session,  \* what a harness runs, each with hooks of its own
  Agent,
  AgentOf,  \* the agent whose session key a session has
  Woken,    \* the sessions that are headless turns
  File,
  Enforcement,  \* SUCCUBUS_ENFORCEMENT: off, nag, block
  Lease,    \* ticks of a lease
  NoAgent

ASSUME TurnsAgents == AgentOf \in [Session -> Agent] /\ Woken \subseteq Session /\ NoAgent \notin Agent
ASSUME TurnsLease == Lease \in Nat \ {0}

VARIABLES
  claims,  \* of a file: the holder, what is left of its lease
  turn,    \* of a session: where it is, what it edits, if that was let through, StopActive
           \* (and history: what it edits that another was granted since)
  unread,  \* of an agent: it is named later than its read mark
  stayed   \* history: a session of the agent ended and its claims stayed

vars == <<claims, turn, unread, stayed>>
-----------------------------------------------------------------------------
Unclaimed == [by |-> NoAgent, left |-> 0]
Closed == [at |-> "closed", files |-> {}, let |-> FALSE, again |-> FALSE, since |-> {}]

Init ==
  /\ claims = [f \in File |-> Unclaimed]
  /\ turn = [s \in Session |-> Closed]
  /\ unread = [a \in Agent |-> FALSE]
  /\ stayed = [a \in Agent |-> FALSE]

(* The live claims of others: what CheckFiles answers with a holder. *)
Others(a, F) == {f \in F : claims[f].left > 0 /\ claims[f].by # a}
Free(F) == {f \in F : claims[f].left = 0}

At(s, where) == turn[s].at = where
Goes(s, where) == turn' = [turn EXCEPT ![s].at = where]

(* Mutant of Granted: a claim that has run out is still in the way. *)
GrantedUnlessHeld(a, F) ==
  IF \E f \in F : claims[f].by \notin {a, NoAgent} THEN claims
  ELSE [f \in File |-> IF f \in F THEN [by |-> a, left |-> Lease] ELSE claims[f]]

(* ClaimFiles: all of them or none. *)
Granted(a, F) ==
  IF Others(a, F) # {} THEN claims
  ELSE [f \in File |-> IF f \in F THEN [by |-> a, left |-> Lease] ELSE claims[f]]

(* History: the edits of others under way when a is granted files.         *)
Noted(t, a) ==
  [s \in Session |-> [t[s] EXCEPT !.since =
     @ \cup {f \in t[s].files : t[s].at = "editing" /\ claims'[f].by = a /\ claims'[f].left > 0
                               /\ ~(claims[f].by = a /\ claims[f].left > 0)}]]

(* Mutant of Released: the lease is not ended. *)
ReleasedNameOnly(a, F) ==
  [f \in File |-> IF f \in F /\ claims[f].by = a THEN [claims[f] EXCEPT !.by = NoAgent]
                  ELSE claims[f]]

(* ReleaseFiles, ReleaseAllForAgent *)
Released(a, F) == [f \in File |-> IF f \in F /\ claims[f].by = a THEN Unclaimed ELSE claims[f]]

(* Mutant of Renewed: what has run out is renewed as well. *)
RenewedLapsed(a) ==
  [f \in File |-> IF claims[f].by = a THEN [claims[f] EXCEPT !.left = Lease] ELSE claims[f]]

(* RenewClaims *)
Renewed(a) ==
  [f \in File |-> IF claims[f].by = a /\ claims[f].left > 0
                  THEN [claims[f] EXCEPT !.left = Lease] ELSE claims[f]]
-----------------------------------------------------------------------------
(* The requests of hookSessionStart: the context, then the read mark.      *)
(* Wake looks for agents that are named and have not read it.              *)
SessionStart(s) ==
  /\ At(s, "closed") /\ (s \in Woken => unread[AgentOf[s]])
  /\ Goes(s, "greeted") \/ Goes(s, "idle")
  /\ UNCHANGED <<claims, unread, stayed>>

(* hookPrompt: heartbeat, renewal, context; a renewal that fails is passed *)
(* over, a context that fails ends the hook.                               *)
Prompt(s) ==
  /\ At(s, "idle")
  /\ claims' \in {claims, Renewed(AgentOf[s])}
  /\ Goes(s, "prompted") \/ Goes(s, "working")
  /\ UNCHANGED <<unread, stayed>>

(* MarkRoomRead *)
MarkRead(s) ==
  /\ At(s, "greeted") \/ At(s, "prompted")
  /\ Goes(s, IF At(s, "greeted") THEN "idle" ELSE "working")
  /\ unread' \in {unread, [unread EXCEPT ![AgentOf[s]] = FALSE]}
  /\ UNCHANGED <<claims, stayed>>

(* hookPreTool: only a check that is answered, in block mode, denies. *)
Edit(s, F, asked) ==
  /\ At(s, "working")
  /\ turn' = [turn EXCEPT ![s] = [@ EXCEPT !.at = "editing", !.files = F, !.let = asked]]
  /\ UNCHANGED <<claims, unread, stayed>>

(* An edit is denied only when a file of it is another's. *)
Denied(s, F) == Others(AgentOf[s], F) # {} /\ Enforcement = "block"

PreTool(s, F) ==
  \/ ~Denied(s, F) /\ Edit(s, F, Enforcement # "off")
  \/ Edit(s, F, FALSE)  \* the daemon did not answer

(* hookPostTool, its check: files nobody holds will be claimed. *)
PostCheck(s) ==
  LET open == Free(turn[s].files) IN
  /\ At(s, "editing")
  /\ \/ /\ Enforcement # "off" /\ open # {}
        /\ turn' = [turn EXCEPT ![s] = [@ EXCEPT !.at = "claiming", !.files = open, !.let = FALSE, !.since = {}]]
     \/ turn' = [turn EXCEPT ![s] = [@ EXCEPT !.at = "working", !.files = {}, !.let = FALSE, !.since = {}]]
  /\ UNCHANGED <<claims, unread, stayed>>

(* hookPostTool, its claim, whose answer is not looked at. *)
PostClaim(s) ==
  /\ At(s, "claiming")
  /\ claims' = Granted(AgentOf[s], turn[s].files)
  /\ turn' = Noted([turn EXCEPT ![s] = [@ EXCEPT !.at = "working", !.files = {}, !.let = FALSE, !.since = {}]], AgentOf[s])
  /\ UNCHANGED <<unread, stayed>>

PostClaimLost(s) ==
  /\ At(s, "claiming")
  /\ turn' = [turn EXCEPT ![s] = [@ EXCEPT !.at = "working", !.files = {}, !.let = FALSE, !.since = {}]]
  /\ UNCHANGED <<claims, unread, stayed>>

(* Mutant of HoldsOpen: StopActive is not looked at. *)
HoldsOpenAgain(s) == unread[AgentOf[s]] /\ Enforcement # "off"

HoldsOpen(s) == unread[AgentOf[s]] /\ ~turn[s].again /\ Enforcement # "off"

(* The agent has done what it wanted, and the harness asks its hook. *)
Finish(s) == At(s, "working") /\ Goes(s, "stopping") /\ UNCHANGED <<claims, unread, stayed>>

(* hookTurnEnd: the turn goes on, once, when the agent has been named. *)
Stop(s) ==
  /\ At(s, "stopping")
  /\ \/ /\ HoldsOpen(s)
        /\ turn' = [turn EXCEPT ![s] = [@ EXCEPT !.at = "working", !.again = TRUE]]
     \/ turn' = [turn EXCEPT ![s] = [@ EXCEPT !.at = "idle", !.again = FALSE]]
  /\ UNCHANGED <<claims, unread, stayed>>

(* Mutant of SessionEnd: it releases what the turn edited. *)
SessionEndEdited(s) ==
  /\ At(s, "idle") \/ At(s, "working")
  /\ turn' = [turn EXCEPT ![s] = Closed]
  /\ claims' = Released(AgentOf[s], turn[s].files)
  /\ stayed' = [stayed EXCEPT ![AgentOf[s]] = FALSE]
  /\ UNCHANGED unread

(* hookSessionEnd: everything the agent holds, whichever session claimed.  *)
SessionEnd(s) ==
  /\ At(s, "idle") \/ At(s, "working")
  /\ turn' = [turn EXCEPT ![s] = Closed]
  /\ claims' = Released(AgentOf[s], File)
  /\ stayed' = [stayed EXCEPT ![AgentOf[s]] = FALSE]
  /\ UNCHANGED unread

(* OpenCode's session.idle is taken for the end of the session. *)
SessionIdle(s) ==
  /\ At(s, "idle")
  /\ claims' = Released(AgentOf[s], File)
  /\ stayed' = [stayed EXCEPT ![AgentOf[s]] = FALSE]
  /\ UNCHANGED <<turn, unread>>

(* The harness is killed, by the timeout of runWake too, or its hook does  *)
(* not reach the daemon.                                                   *)
Killed(s) ==
  /\ ~At(s, "closed")
  /\ turn' = [turn EXCEPT ![s] = Closed]
  /\ stayed' = [stayed EXCEPT ![AgentOf[s]] = TRUE]
  /\ UNCHANGED <<claims, unread>>
-----------------------------------------------------------------------------
(* succubus_claim_files, succubus_release_files *)
ClaimFiles(s, F) ==
  /\ At(s, "working")
  /\ claims' = Granted(AgentOf[s], F)
  /\ turn' = Noted(turn, AgentOf[s])
  /\ UNCHANGED <<unread, stayed>>

ReleaseFiles(s, F) ==
  /\ At(s, "working")
  /\ claims' = Released(AgentOf[s], F)
  /\ UNCHANGED <<turn, unread, stayed>>

(* Somebody names the agent. *)
Say(a) ==
  /\ unread' = [unread EXCEPT ![a] = TRUE]
  /\ UNCHANGED <<claims, turn, stayed>>

Tick ==
  /\ claims' = [f \in File |-> [claims[f] EXCEPT !.left = IF @ > 0 THEN @ - 1 ELSE 0]]
  /\ UNCHANGED <<turn, unread, stayed>>

Some == (SUBSET File) \ {{}}

Hook(s) ==
  \/ SessionStart(s) \/ Prompt(s) \/ MarkRead(s)
  \/ PostCheck(s) \/ PostClaim(s) \/ PostClaimLost(s)
  \/ Finish(s) \/ Stop(s) \/ SessionEnd(s) \/ SessionIdle(s) \/ Killed(s)

(* A woken turn has no tool that claims or edits (succubusTools). *)
Next ==
  \/ \E s \in Session : Hook(s)
  \/ \E s \in Session \ Woken, F \in Some : PreTool(s, F) \/ ClaimFiles(s, F) \/ ReleaseFiles(s, F)
  \/ \E a \in Agent : Say(a)
  \/ Tick

Spec == Init /\ [][Next]_vars

(* A harness runs its hooks, an edit comes to its end, and an agent that   *)
(* can go on working finishes some time all the same.                      *)
FairSpec ==
  /\ Spec
  /\ \A s \in Session : /\ WF_vars(MarkRead(s)) /\ WF_vars(PostCheck(s))
                        /\ WF_vars(PostClaim(s) \/ PostClaimLost(s))
                        /\ SF_vars(Finish(s)) /\ WF_vars(Stop(s))
-----------------------------------------------------------------------------
Where == {"closed", "greeted", "idle", "prompted", "working", "stopping", "editing", "claiming"}

TypeOK ==
  /\ claims \in [File -> [by: Agent \cup {NoAgent}, left: 0..Lease]]
  /\ turn \in [Session -> [at: Where, files: SUBSET File, let: BOOLEAN, again: BOOLEAN,
                        since: SUBSET File]]
  /\ unread \in [Agent -> BOOLEAN] /\ stayed \in [Agent -> BOOLEAN]
  /\ \A f \in File : claims[f].left > 0 => claims[f].by # NoAgent
  /\ \A s \in Session : turn[s].files # {} <=> turn[s].at \in {"editing", "claiming"}

(* "Blocks an edit when a live claim is held by a different agent": in     *)
(* block mode an edit that was let through goes on against the claim of    *)
(* another only if it was under way when that claim was granted; leases    *)
(* that lapse, are renewed or change hands meanwhile make no difference.   *)
BlockedOut ==
  Enforcement = "block" =>
    \A s \in Session : At(s, "editing") /\ turn[s].let =>
      \A f \in Others(AgentOf[s], turn[s].files) : f \in turn[s].since

(* "A finished session never blocks the next one": an agent of which no    *)
(* session is left holds nothing, unless one ended without its hook.       *)
FinishedHoldsNothing ==
  \A a \in Agent :
    (\A s \in Session : AgentOf[s] = a => At(s, "closed")) /\ ~stayed[a] =>
      \A f \in File : claims[f].by # a

(* "So the next agent gets a real conflict signal rather than silence":    *)
(* once the claim after an edit has been answered, its files are the       *)
(* agent's, or one of them is another's, and the other agents are told.    *)
EditLeavesSignal ==
  [][\A s \in Session : PostClaim(s) =>
       \/ \A f \in turn[s].files : claims'[f].by = AgentOf[s] /\ claims'[f].left > 0
       \/ \E f \in turn[s].files : claims'[f].by # AgentOf[s] /\ claims'[f].left > 0]_vars

(* "Blocking again would trap the agent in a loop": however often it is    *)
(* named, a turn comes to its end.                                         *)
TurnEnds == \A s \in Session : At(s, "working") ~> turn[s].at \in {"idle", "closed"}
=============================================================================
