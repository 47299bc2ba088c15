------------------------------ MODULE AutoWake ------------------------------
(***************************************************************************)
(* auto_wake (mode/autowake.go, mode/wake.go): the daemon listens to its   *)
(* own event bus and starts a headless turn for an agent that a message of *)
(* the room addresses by name.                                             *)
(*                                                                         *)
(* A message is its number, in order of ids.  The delay, and the end of a  *)
(* turn by answer, error or timeout, may come at any time.                 *)
(***************************************************************************)
EXTENDS Naturals, Sequences, FiniteSets, SequencesExt

CONSTANTS
  Agent,      \* names of the agents of the project
  Wakeable,   \* those of them whose tool has a headless mode on this machine
  Human,      \* who writes from the dashboard, no agent
  All,        \* store.MentionAll, no agent
  MaxMessages \* bound: messages posted

VARIABLES
  room,     \* the messages
  bus,      \* events the watcher has not taken
  pending,  \* agents with a timer
  running,  \* agents with a turn in flight
  turn,     \* what the turn in flight of an agent has reached
  seen,     \* the last message an agent has been shown
  dead,     \* agents declared dead
  told      \* history: the last message a turn of an agent was there for

vars == <<room, bus, pending, running, turn, seen, dead, told>>

Messages == 1..Len(room)
Author == Agent \cup {Human}

TypeOK ==
  /\ room \in Seq([by: Author, to: SUBSET (Agent \cup {All})])
  /\ bus \in Seq(Messages)
  /\ pending \subseteq Wakeable /\ running \subseteq Wakeable
  /\ turn \in [Agent -> {"none", "fired", "started"}]
  /\ seen \in [Agent -> 0..Len(room)]
  /\ dead \subseteq Agent
  /\ told \in [Agent -> 0..Len(room)]

Init ==
  /\ room = <<>> /\ bus = <<>>
  /\ pending = {} /\ running = {}
  /\ turn = [a \in Agent |-> "none"]
  /\ seen = [a \in Agent |-> 0]
  /\ dead = {}
  /\ told = [a \in Agent |-> 0]
-----------------------------------------------------------------------------
(* PostMessage, and its event, whose mentions are the []string of the     *)
(* message itself: nothing is decoded on the way to a subscriber.          *)
Post(by, to) ==
  /\ Len(room) < MaxMessages
  /\ room' = Append(room, [by |-> by, to |-> to])
  /\ bus' = Append(bus, Len(room) + 1)
  /\ UNCHANGED <<pending, running, turn, seen, dead, told>>

Payload(m) == [type |-> "[]string", names |-> room[m].to]

(* The assertion that would match the payload, for comparison. *)
AssertedAsSent(v) == IF v.type = "[]string" THEN v.names ELSE {}

(* The value of a type assertion that fails is nil. *)
Asserted(v) == IF v.type = "[]any" THEN v.names ELSE {}

(* consider: not a broadcast, not the author, not a tool without a         *)
(* headless mode.  An agent whose turn is in flight is not scheduled:      *)
(* "it will pick up everything unread".                                    *)
Considered(m) ==
  LET named == Asserted(Payload(m)) IN
  IF named = {All} THEN {} ELSE (named \cap Wakeable) \ ({room[m].by} \cup dead)

Scheduled(m) == Considered(m) \ running

Watch ==
  /\ bus # <<>>
  /\ bus' = Tail(bus)
  /\ pending' = pending \cup Scheduled(Head(bus))
  /\ told' = [a \in Agent |-> IF a \in Considered(Head(bus)) \cap running /\ told[a] < Head(bus)
                            THEN Head(bus) ELSE told[a]]
  /\ UNCHANGED <<room, running, turn, seen, dead>>

Fire(a) ==
  /\ a \in pending
  /\ pending' = pending \ {a}
  /\ running' = running \cup {a}
  /\ turn' = IF a \in running THEN turn ELSE [turn EXCEPT ![a] = "fired"]
  /\ UNCHANGED <<room, bus, seen, dead, told>>

Direct(a) == {m \in Messages : m > seen[a] /\ room[m].by # a /\ a \in room[m].to}

(* wake, runWake: the inbox decides once more whether there is a turn,     *)
(* which is prompted with the messages read here.                          *)
Wake(a) ==
  /\ turn[a] = "fired"
  /\ IF Direct(a) # {}
     THEN /\ turn' = [turn EXCEPT ![a] = "started"]
          /\ told' = [told EXCEPT ![a] = Len(room)]
          /\ UNCHANGED running
     ELSE /\ turn' = [turn EXCEPT ![a] = "none"]
          /\ running' = running \ {a}
          /\ UNCHANGED told
  /\ UNCHANGED <<room, bus, pending, seen, dead>>

(* The hooks of a prompt, of the session or of the turn, show the room. *)
Shown(a) ==
  /\ seen[a] < Len(room)
  /\ seen' = [seen EXCEPT ![a] = Len(room)]
  /\ dead' = dead \ {a}
  /\ UNCHANGED <<room, bus, pending, running, turn, told>>

EndOfTurn(a) ==
  /\ turn[a] = "started"
  /\ turn' = [turn EXCEPT ![a] = "none"]
  /\ running' = running \ {a}
  /\ UNCHANGED <<room, bus, pending, seen, dead, told>>

Dies(a) ==
  /\ dead' = dead \cup {a}
  /\ UNCHANGED <<room, bus, pending, running, turn, seen, told>>

Next ==
  \/ \E by \in Author, to \in SUBSET (Agent \cup {All}) : Post(by, to)
  \/ Watch
  \/ \E a \in Agent : Fire(a) \/ Wake(a) \/ Shown(a) \/ EndOfTurn(a) \/ Dies(a)

(* The watcher, the timers and their goroutines run in the daemon, and a   *)
(* turn ends after three minutes at the latest; people and agents owe      *)
(* nothing.                                                                *)
Fairness ==
  /\ WF_vars(Watch)
  /\ \A a \in Agent : WF_vars(Fire(a)) /\ WF_vars(Wake(a)) /\ WF_vars(EndOfTurn(a))

Spec == Init /\ [][Next]_vars /\ Fairness
-----------------------------------------------------------------------------
(* docs/SETUP.md: with auto_wake a headless turn is started "whenever an   *)
(* agent is addressed by name": every wakeable agent that a message of     *)
(* another names, and that stays alive, has a turn, or has read the        *)
(* message otherwise.                                                      *)
Addressed(a, m) == m \in Messages /\ a \in room[m].to /\ room[m].by # a

AddressedIsWoken ==
  \A a \in Wakeable, m \in 1..MaxMessages :
    Addressed(a, m) ~> (told[a] >= m \/ seen[a] >= m \/ a \in dead)
=============================================================================
