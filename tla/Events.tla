------------------------------- MODULE Events -------------------------------
(***************************************************************************)
(* The event bus and its streams: Emit, Subscribe and publish of           *)
(* internal/store/sqlite.go, ListEvents of decisions.go, the stream of     *)
(* internal/httpapi/sse.go, and its two readers: dashboards, whose         *)
(* EventSource sends Last-Event-ID, and the channels of mode/channel.go,   *)
(* which do not and which push what addresses their agent.                 *)
(*                                                                         *)
(* An event is its place in the table, which is its id, with its project   *)
(* and the agents it addresses.  Payloads, keepalives and the formats of   *)
(* frames are left out; a frame is written and received in one step.       *)
(***************************************************************************)
EXTENDS Naturals, Sequences, FiniteSets, Functions

CONSTANTS
  Emitter,    \* goroutines of the daemon that emit
  Dashboard,  \* readers that send Last-Event-ID
  Channel,    \* readers that do not, one per live session
  Project,
  Kind,       \* [project, to, by]: what an event says to a reader
  Followed,   \* the project of a reader
  Name,       \* the agent a channel answers to
  Buffer,     \* capacity of a subscriber's channel: 64
  ReplayCap,  \* events one replay holds: 500
  MaxEvents   \* bound of the model

Reader == Dashboard \cup Channel

ASSUME EventsReaders ==
  /\ Dashboard \cap Channel = {}
  /\ Followed \in [Reader -> Project]
  /\ DOMAIN Name = Channel
ASSUME EventsNumbers ==
  Buffer \in Nat \ {0} /\ ReplayCap \in Nat \ {0} /\ MaxEvents \in Nat

VARIABLES
  events,    \* the table, in the order of the ids
  inHand,    \* per emitter: the id it inserted and has not published, or 0
  streams,   \* the open streams: phase, subscriber queue, replay to be written
  last,      \* per dashboard: the last id received, 0 for none
  got,       \* history: what each reader was shown
  since,     \* history: the ids above this one are the reader's business
  dropped,   \* history: events lost to a full queue
  cut,       \* history: events beyond the cap of a replay
  late       \* history: events published after one with a higher id

vars == <<events, inHand, streams, last, got, since, dropped, cut, late>>
-----------------------------------------------------------------------------
Id == 1..MaxEvents
Ids == 1..Len(events)
Closed == [phase |-> "away", queue |-> <<>>, replay |-> {}]

(* The server's filter by project; the channel's by name: not its own, and *)
(* addressed to it or to everybody.                                        *)
Wants(r, i) ==
  /\ events[i].project = Followed[r]
  /\ r \in Channel => events[i].by # Name[r] /\ events[i].to \cap {Name[r], "ALL"} # {}

Phase(r, p) == streams[r].phase = p

(* Mutant of Subscribed: the replay is read before Subscribe is called. *)
SubscribedLate(r) == streams[r].phase \in {"replay", "live"}

(* In s.subs. *)
Subscribed(r) == ~Phase(r, "away")

(* Mutant of Enqueued: nothing is dropped. *)
EnqueuedUnbounded(q, i) == Append(q, i)

(* select with default: a full channel drops the event. *)
Enqueued(q, i) == IF Len(q) < Buffer THEN Append(q, i) ELSE q

Init ==
  /\ events = <<>>
  /\ inHand = [e \in Emitter |-> 0]
  /\ streams = [r \in Reader |-> Closed]
  /\ last = [d \in Dashboard |-> 0]
  /\ got = [r \in Reader |-> {}]
  /\ since = [r \in Reader |-> MaxEvents]
  /\ dropped = [r \in Reader |-> {}]
  /\ cut = [r \in Reader |-> {}]
  /\ late = {}
-----------------------------------------------------------------------------
(* emit: the row, and with it the id. *)
Insert(e, k) ==
  /\ inHand[e] = 0 /\ Len(events) < MaxEvents
  /\ events' = Append(events, k)
  /\ inHand' = [inHand EXCEPT ![e] = Len(events) + 1]
  /\ UNCHANGED <<streams, last, got, since, dropped, cut, late>>

Unpublished == {inHand[e] : e \in Emitter} \ {0}

Overtaken(i) == \E j \in Ids \ Unpublished : j > i

(* publish: one pass over the subscribers, under the lock. *)
Publish(e) ==
  LET i == inHand[e]
      lost == {r \in Reader : Subscribed(r) /\ Len(streams[r].queue) >= Buffer}
  IN
  /\ i # 0
  /\ inHand' = [inHand EXCEPT ![e] = 0]
  /\ streams' = [r \in Reader |-> IF Subscribed(r)
                                  THEN [streams[r] EXCEPT !.queue = Enqueued(@, i)]
                                  ELSE streams[r]]
  /\ dropped' = [r \in Reader |-> IF r \in lost THEN dropped[r] \cup {i} ELSE dropped[r]]
  /\ late' = IF Overtaken(i) THEN late \cup {i} ELSE late
  /\ UNCHANGED <<events, last, got, since, cut>>
-----------------------------------------------------------------------------
(* Mutant of LastEventID: the query asks for id > last + 1. *)
LastEventIDNext(r) == IF r \in Dashboard /\ last[r] > 0 THEN last[r] + 1 ELSE 0

(* Channels send no Last-Event-ID, nor does a dashboard that has no id. *)
LastEventID(r) == IF r \in Dashboard THEN last[r] ELSE 0

(* A request for the stream: Subscribe comes first. *)
Connect(r) ==
  /\ Phase(r, "away")
  /\ streams' = [streams EXCEPT ![r] = [Closed EXCEPT !.phase = "subscribed"]]
  /\ since' = [since EXCEPT ![r] = IF LastEventID(r) = 0 THEN Len(events) ELSE @]
  /\ got' = [got EXCEPT ![r] = IF LastEventID(r) = 0 THEN {} ELSE @]
  /\ UNCHANGED <<events, inHand, last, dropped, cut, late>>

Missed(r) ==
  IF LastEventID(r) = 0 THEN {}
  ELSE {i \in Ids : i > LastEventID(r) /\ events[i].project = Followed[r]}

(* ORDER BY id ASC LIMIT 500. *)
FirstOf(page, all) ==
  /\ page \subseteq all /\ Cardinality(page) <= ReplayCap
  /\ page = all \/ Cardinality(page) = ReplayCap
  /\ \A i \in page, j \in all \ page : i < j

(* ListEvents(pid, last, 500), oldest first. *)
Replay(r) ==
  /\ Phase(r, "subscribed")
  /\ \E page \in SUBSET Missed(r) :
       /\ FirstOf(page, Missed(r))
       /\ streams' = [streams EXCEPT ![r].replay = page,
                                     ![r].phase = IF page = {} THEN "live" ELSE "replay"]
       /\ cut' = [cut EXCEPT ![r] = @ \cup (Missed(r) \ page)]
  /\ UNCHANGED <<events, inHand, last, got, since, dropped, late>>

(* writeEvent, with the id the reader will send next time. *)
Show(r, i) ==
  /\ got' = [got EXCEPT ![r] = @ \cup {i}]
  /\ last' = IF r \in Dashboard THEN [last EXCEPT ![r] = i] ELSE last

WriteReplayed(r) ==
  /\ Phase(r, "replay")
  /\ \E i \in streams[r].replay :
       /\ \A j \in streams[r].replay : i <= j
       /\ Show(r, i)
       /\ streams' = [streams EXCEPT ![r].replay = @ \ {i},
                                     ![r].phase = IF streams[r].replay = {i} THEN "live" ELSE @]
  /\ UNCHANGED <<events, inHand, since, dropped, cut, late>>

(* The loop of stream; for a channel also handle and pushChannel. *)
WriteLive(r) ==
  LET i == Head(streams[r].queue) IN
  /\ Phase(r, "live") /\ streams[r].queue # <<>>
  /\ streams' = [streams EXCEPT ![r].queue = Tail(@)]
  /\ IF Wants(r, i) THEN Show(r, i) ELSE UNCHANGED <<got, last>>
  /\ UNCHANGED <<events, inHand, since, dropped, cut, late>>

(* The connection breaks; EventSource and Watch come back. *)
Disconnect(r) ==
  /\ Subscribed(r)
  /\ streams' = [streams EXCEPT ![r] = Closed]
  /\ UNCHANGED <<events, inHand, last, got, since, dropped, cut, late>>

(* The daemon stops: what was inserted stays, and is published no more. *)
Restart ==
  /\ streams' = [r \in Reader |-> Closed]
  /\ inHand' = [e \in Emitter |-> 0]
  /\ late' = late \cup {i \in Unpublished : Overtaken(i)}
  /\ UNCHANGED <<events, last, got, since, dropped, cut>>

Emit(e) == (\E k \in Kind : Insert(e, k)) \/ Publish(e)
Serve(r) == Connect(r) \/ Replay(r) \/ WriteReplayed(r) \/ WriteLive(r)

Next ==
  \/ \E e \in Emitter : Emit(e)
  \/ \E r \in Reader : Serve(r) \/ Disconnect(r)
  \/ Restart

Spec == Init /\ [][Next]_vars
-----------------------------------------------------------------------------
StreamType == [phase: {"away", "subscribed", "replay", "live"}, queue: Seq(Id), replay: SUBSET Id]

TypeOK ==
  /\ events \in Seq(Kind) /\ Len(events) <= MaxEvents
  /\ inHand \in [Emitter -> Ids \cup {0}]
  /\ streams \in [Reader -> StreamType]
  /\ \A r \in Reader :
       /\ Len(streams[r].queue) <= Buffer /\ Cardinality(streams[r].replay) <= ReplayCap
       /\ Range(streams[r].queue) \cup streams[r].replay \subseteq Ids
  /\ got \in [Reader -> SUBSET Ids]
  /\ last \in [Dashboard -> Ids \cup {0}]
  /\ since \in [Reader -> Id \cup {0}]
  /\ dropped \in [Reader -> SUBSET Ids] /\ cut \in [Reader -> SUBSET Ids]

Excused(r) == dropped[r] \cup cut[r]

(* An event with a higher id was published first and carried the dashboard *)
(* past this one.  A late event that is shown takes its last id back.      *)
CarriedPast(r) == {i \in late : r \in Dashboard /\ \E j \in got[r] : i < j}

(* "Subscribe before replaying, so events arriving during replay are not   *)
(* lost" (sse.go): what an open stream owes its reader was shown, or is in *)
(* the replay, in the queue or in an emitter's hand, unless the queue was  *)
(* full, the replay was cut or the reader was carried past it.  For a      *)
(* dashboard that is all above its last id, for a channel all that has     *)
(* come since it connected.                                                *)
NothingBetween ==
  \A r \in Reader : streams[r].phase \in {"replay", "live"} =>
    \A i \in Ids :
      (Wants(r, i) /\ i > since[r] /\ i > LastEventID(r)) =>
         \/ i \in got[r] \cup Unpublished \cup Excused(r) \cup CarriedPast(r)
         \/ i \in Range(streams[r].queue) \cup streams[r].replay

(* "a dropped connection recovers the events it missed" (sse.ts): whatever *)
(* the breaks and restarts, an event a dashboard has been carried past was *)
(* shown to it, or is still to be published, or was lost in one of three   *)
(* ways: the queue was full, the replay was cut, an event with a higher id *)
(* was published first.                                                    *)
PassedWasShown ==
  \A d \in Dashboard : \A i \in Ids :
    (Wants(d, i) /\ since[d] < i /\ i <= last[d]) =>
       i \in got[d] \cup Unpublished \cup Excused(d) \cup late
=============================================================================
