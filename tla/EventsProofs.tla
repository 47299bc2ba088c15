---------------------------- MODULE EventsProofs ----------------------------
(***************************************************************************)
(* Proofs about Events for any number of emitters, dashboards and channels *)
(* and every size of the queues and of a replay.                           *)
(***************************************************************************)
EXTENDS Events, SequenceTheorems, FiniteSetTheorems, TLAPS

(* What is known of one stream. *)
StreamOK(s) ==
  /\ s \in StreamType
  /\ Len(s.queue) <= Buffer /\ Cardinality(s.replay) <= ReplayCap
  /\ Range(s.queue) \cup s.replay \subseteq Ids

LEMMA TypeByStream ==
  TypeOK <=>
    /\ events \in Seq(Kind) /\ Len(events) <= MaxEvents
    /\ inHand \in [Emitter -> Ids \cup {0}]
    /\ streams \in [Reader -> StreamType] /\ \A r \in Reader : StreamOK(streams[r])
    /\ got \in [Reader -> SUBSET Ids]
    /\ last \in [Dashboard -> Ids \cup {0}]
    /\ since \in [Reader -> Id \cup {0}]
    /\ dropped \in [Reader -> SUBSET Ids] /\ cut \in [Reader -> SUBSET Ids]
BY DEF TypeOK, StreamOK

LEMMA IdsFinite ==
  ASSUME events \in Seq(Kind), Len(events) <= MaxEvents
  PROVE  Len(events) \in Nat /\ Ids \subseteq Id /\ Ids \subseteq Nat \ {0} /\ IsFiniteSet(Ids)
<1>1. Len(events) \in Nat
  BY LenProperties
<1>2. IsFiniteSet(Ids)
  BY <1>1, FS_Interval DEF Ids
<1>3. QED
  BY <1>1, <1>2, EventsNumbers DEF Ids, Id

LEMMA ClosedTyped == StreamOK(Closed) /\ Closed.queue = <<>> /\ Closed.replay = {}
<1>1. Closed \in StreamType /\ Closed.queue = <<>> /\ Closed.replay = {}
  BY EmptySeq DEF Closed, StreamType
<1>2. Len(<<>>) <= Buffer /\ Cardinality({}) <= ReplayCap
  BY EventsNumbers, EmptySeq, FS_EmptySet
<1>3. Range(<<>>) = {}
  BY DEF Range
<1>4. QED
  BY <1>1, <1>2, <1>3 DEF StreamOK

(* What a queue holds after an event was put in, or taken out. *)
LEMMA QueueAppend ==
  ASSUME NEW S, NEW q \in Seq(S), NEW i \in S
  PROVE  /\ Append(q, i) \in Seq(S) /\ Len(Append(q, i)) = Len(q) + 1
         /\ Range(Append(q, i)) = Range(q) \cup {i}
<1>1. /\ Append(q, i) \in Seq(S) /\ Len(Append(q, i)) = Len(q) + 1
      /\ \A n \in 1..Len(q) : Append(q, i)[n] = q[n]
      /\ Append(q, i)[Len(q) + 1] = i
  BY AppendProperties
<1>2. DOMAIN q = 1..Len(q) /\ DOMAIN Append(q, i) = 1..(Len(q) + 1) /\ Len(q) \in Nat
  BY <1>1, LenProperties
<1>3. Range(Append(q, i)) = Range(q) \cup {i}
  BY <1>1, <1>2 DEF Range
<1>4. QED
  BY <1>1, <1>3

LEMMA QueueTail ==
  ASSUME NEW S, NEW q \in Seq(S), q # <<>>
  PROVE  /\ Tail(q) \in Seq(S) /\ Len(Tail(q)) < Len(q)
         /\ Head(q) \in Range(q) /\ Head(q) = q[1] /\ 1 \in DOMAIN q
         /\ \A n \in DOMAIN Tail(q) : n \in Nat \ {0} /\ n + 1 \in DOMAIN q /\ Tail(q)[n] = q[n + 1]
         /\ Range(q) = {Head(q)} \cup Range(Tail(q))
<1>1. /\ Tail(q) \in Seq(S) /\ Len(Tail(q)) = Len(q) - 1 /\ Len(q) \in Nat \ {0}
      /\ \A n \in 1..Len(Tail(q)) : Tail(q)[n] = q[n + 1]
  BY HeadTailProperties, EmptySeq
<1>2. DOMAIN q = 1..Len(q) /\ DOMAIN Tail(q) = 1..(Len(q) - 1)
  BY <1>1, LenProperties
<1>3. Head(q) = q[1]
  BY <1>1
<1>4. \A n \in DOMAIN Tail(q) : n \in Nat \ {0} /\ n + 1 \in DOMAIN q /\ Tail(q)[n] = q[n + 1]
  BY <1>1, <1>2
<1>5. Head(q) \in Range(q) /\ 1 \in DOMAIN q
  BY <1>1, <1>2, <1>3 DEF Range
<1>6. Range(q) \subseteq {Head(q)} \cup Range(Tail(q))
  <2> SUFFICES ASSUME NEW m \in DOMAIN q, m # 1 PROVE q[m] \in Range(Tail(q))
    BY <1>3 DEF Range
  <2>1. m - 1 \in DOMAIN Tail(q) /\ Tail(q)[m - 1] = q[m]
    BY <1>1, <1>2
  <2>2. QED
    BY <2>1 DEF Range
<1>7. Range(Tail(q)) \subseteq Range(q)
  BY <1>4 DEF Range
<1>8. QED
  BY <1>1, <1>3, <1>4, <1>5, <1>6, <1>7

(* A stream that grows or shrinks. *)
LEMMA StreamPublished ==
  ASSUME events \in Seq(Kind), Len(events) <= MaxEvents, NEW s, StreamOK(s), NEW i \in Ids
  PROVE  /\ StreamOK([s EXCEPT !.queue = Enqueued(s.queue, i)])
         /\ Range(Enqueued(s.queue, i)) \subseteq Range(s.queue) \cup {i}
<1>1. s \in StreamType /\ s.queue \in Seq(Id) /\ i \in Id
  BY IdsFinite DEF StreamOK, StreamType
<1> DEFINE q == Enqueued(s.queue, i)
<1>2. q \in Seq(Id) /\ Len(q) <= Buffer /\ Range(q) \subseteq Range(s.queue) \cup {i}
  <2>1. CASE Len(s.queue) < Buffer
    <3>1. Len(s.queue) \in Nat
      BY <1>1, LenProperties
    <3>2. QED
      BY <1>1, <2>1, <3>1, QueueAppend, EventsNumbers DEF Enqueued
  <2>2. CASE ~(Len(s.queue) < Buffer)
    BY <1>1, <2>2 DEF Enqueued, StreamOK
  <2>3. QED
    BY <2>1, <2>2
<1> HIDE DEF q
<1> DEFINE t == [s EXCEPT !.queue = q]
<1>3. t \in StreamType /\ t.queue = q /\ t.replay = s.replay
  BY <1>1, <1>2 DEF StreamType
<1>4. StreamOK(t)
  BY <1>1, <1>2, <1>3 DEF StreamOK
<1>5. QED
  BY <1>2, <1>4 DEF q

LEMMA StreamRead ==
  ASSUME NEW s, StreamOK(s), s.queue # <<>>
  PROVE  StreamOK([s EXCEPT !.queue = Tail(s.queue)]) /\ Head(s.queue) \in Ids
<1>1. s \in StreamType /\ s.queue \in Seq(Id)
  BY DEF StreamOK, StreamType
<1>2. /\ Tail(s.queue) \in Seq(Id) /\ Len(Tail(s.queue)) < Len(s.queue)
      /\ Head(s.queue) \in Range(s.queue) /\ Range(Tail(s.queue)) \subseteq Range(s.queue)
  BY <1>1, QueueTail
<1>3. Len(s.queue) \in Nat /\ Len(Tail(s.queue)) \in Nat
  BY <1>1, <1>2, LenProperties
<1> DEFINE t == [s EXCEPT !.queue = Tail(s.queue)]
<1>4. t \in StreamType /\ t.queue = Tail(s.queue) /\ t.replay = s.replay
  BY <1>1, <1>2 DEF StreamType
<1> HIDE DEF t
<1>5. StreamOK(t) /\ Head(s.queue) \in Ids
  BY <1>1, <1>2, <1>3, <1>4, EventsNumbers DEF StreamOK
<1>6. QED
  BY <1>5 DEF t

LEMMA StreamReplayed ==
  ASSUME events \in Seq(Kind), Len(events) <= MaxEvents, NEW s, StreamOK(s), NEW i \in s.replay,
         NEW p \in {"live", "replay"}
  PROVE  StreamOK([s EXCEPT !.replay = s.replay \ {i}, !.phase = p])
<1>1. s \in StreamType /\ s.replay \subseteq Ids
  BY DEF StreamOK
<1>2. IsFiniteSet(s.replay)
  BY <1>1, IdsFinite, FS_Subset
<1>3. Cardinality(s.replay \ {i}) <= ReplayCap
  <2>1. Cardinality(s.replay \ {i}) = Cardinality(s.replay) - 1
    BY <1>2, FS_RemoveElement
  <2>2. Cardinality(s.replay) \in Nat /\ Cardinality(s.replay) <= ReplayCap
    BY <1>2, FS_CardinalityType DEF StreamOK
  <2>3. QED
    BY <2>1, <2>2, EventsNumbers
<1> DEFINE t == [s EXCEPT !.replay = s.replay \ {i}, !.phase = p]
<1>4. t.queue = s.queue /\ t.replay = s.replay \ {i} /\ t \in StreamType
  <2>1. s.replay \ {i} \in SUBSET Id
    BY <1>1 DEF StreamType
  <2>2. QED
    BY <1>1, <2>1 DEF StreamType
<1> HIDE DEF t
<1>5. StreamOK(t)
  BY <1>1, <1>3, <1>4 DEF StreamOK
<1>6. QED
  BY <1>5 DEF t

(* The ids of dashboards, and 0 for channels. *)
LEMMA LastTyped ==
  ASSUME TypeOK, NEW r \in Reader
  PROVE  LastEventID(r) \in Ids \cup {0} /\ LastEventID(r) \in Nat
         /\ (LastEventID(r) # 0 => r \in Dashboard)
BY IdsFinite DEF TypeOK, LastEventID

LEMMA TypeInit == Init => TypeOK
<1> SUFFICES ASSUME Init PROVE TypeOK
  OBVIOUS
<1>1. events \in Seq(Kind) /\ Len(events) = 0 /\ Ids = {}
  BY EmptySeq DEF Init, Ids
<1>2. streams \in [Reader -> StreamType] /\ \A r \in Reader : StreamOK(streams[r])
  BY ClosedTyped DEF Init, StreamOK
<1>3. QED
  BY <1>1, <1>2, TypeByStream, EventsNumbers DEF Init, Id

(* A step of one stream, that shows its reader at most one event. *)
LEMMA StreamStep ==
  ASSUME TypeOK, UNCHANGED <<events, inHand>>, NEW r \in Reader, NEW s, StreamOK(s),
         streams' = [streams EXCEPT ![r] = s],
         got' \in [Reader -> SUBSET Ids], last' \in [Dashboard -> Ids \cup {0}],
         since' \in [Reader -> Id \cup {0}], dropped' = dropped, cut' \in [Reader -> SUBSET Ids]
  PROVE  TypeOK'
<1>1. Ids' = Ids
  BY DEF Ids
<1>2. streams' \in [Reader -> StreamType] /\ \A x \in Reader : StreamOK(streams'[x])
  BY TypeByStream DEF StreamOK
<1>3. \A x \in Reader : StreamOK(streams[x])'
  BY <1>1, <1>2 DEF StreamOK
<1>4. QED
  BY <1>1, <1>2, <1>3 DEF TypeOK, StreamOK

(* More events: what was an id stays one. *)
LEMMA InsertIds ==
  ASSUME TypeOK, NEW e \in Emitter, NEW k \in Kind, Insert(e, k)
  PROVE  /\ events' \in Seq(Kind) /\ Len(events') <= MaxEvents
         /\ Ids' = Ids \cup {Len(events) + 1} /\ Len(events) + 1 \notin Ids
         /\ \A i \in Ids : events'[i] = events[i]
<1>1. events \in Seq(Kind) /\ Len(events) \in Nat /\ Len(events) < MaxEvents
      /\ events' = Append(events, k)
  BY LenProperties, EventsNumbers DEF TypeOK, Insert
<1>2. /\ events' \in Seq(Kind) /\ Len(events') = Len(events) + 1
      /\ \A i \in 1..Len(events) : events'[i] = events[i]
  BY <1>1, AppendProperties
<1>3. QED
  BY <1>1, <1>2, EventsNumbers DEF Ids

LEMMA InsertType ==
  ASSUME TypeOK, NEW e \in Emitter, NEW k \in Kind, Insert(e, k) PROVE TypeOK'
<1>1. /\ events' \in Seq(Kind) /\ Len(events') <= MaxEvents
      /\ Ids' = Ids \cup {Len(events) + 1} /\ Ids \subseteq Ids'
  BY InsertIds
<1>2. inHand' \in [Emitter -> Ids' \cup {0}]
  BY <1>1 DEF Insert, TypeOK
<1>3. UNCHANGED <<streams, last, got, since, dropped, cut>>
  BY DEF Insert
<1>4. \A r \in Reader : StreamOK(streams[r])'
  BY <1>1, <1>3, TypeByStream DEF StreamOK
<1>5. QED
  BY <1>1, <1>2, <1>3, <1>4 DEF TypeOK, StreamOK

LEMMA PublishType ==
  ASSUME TypeOK, NEW e \in Emitter, Publish(e) PROVE TypeOK'
<1> DEFINE i == inHand[e]
<1>1. i \in Ids /\ Ids' = Ids /\ events' = events
  BY DEF Publish, TypeOK, Ids
<1>2. events \in Seq(Kind) /\ Len(events) <= MaxEvents
  BY DEF TypeOK
<1>3. streams' = [r \in Reader |-> IF Subscribed(r)
                                  THEN [streams[r] EXCEPT !.queue = Enqueued(streams[r].queue, i)]
                                  ELSE streams[r]]
  BY DEF Publish
<1>4. ASSUME NEW r \in Reader PROVE StreamOK(streams'[r])
  <2>1. StreamOK(streams[r])
    BY TypeByStream
  <2>2. StreamOK([streams[r] EXCEPT !.queue = Enqueued(streams[r].queue, i)])
    BY <1>1, <1>2, <2>1, StreamPublished
  <2>3. QED
    BY <1>3, <2>1, <2>2
<1>5. streams' \in [Reader -> StreamType]
  <2>1. DOMAIN streams' = Reader
    BY <1>3
  <2>2. streams' = [r \in Reader |-> streams'[r]]
    BY <1>3
  <2>3. QED
    BY <1>4, <2>2 DEF StreamOK
<1>6. \A r \in Reader : StreamOK(streams[r])'
  BY <1>1, <1>4 DEF StreamOK
<1>7. dropped' \in [Reader -> SUBSET Ids]
  BY <1>1 DEF Publish, TypeOK
<1>8. inHand' \in [Emitter -> Ids \cup {0}]
  BY DEF Publish, TypeOK
<1>9. UNCHANGED <<events, last, got, since, cut>>
  BY DEF Publish
<1>10. QED
  BY <1>1, <1>5, <1>6, <1>7, <1>8, <1>9 DEF TypeOK, StreamOK

(* Showing one event. *)
LEMMA ShowType ==
  ASSUME TypeOK, NEW r \in Reader, NEW i \in Ids, Show(r, i)
  PROVE  /\ got' \in [Reader -> SUBSET Ids] /\ last' \in [Dashboard -> Ids \cup {0}]
         /\ got'[r] = got[r] \cup {i} /\ \A x \in Reader \ {r} : got'[x] = got[x]
         /\ r \in Dashboard => last'[r] = i
         /\ \A d \in Dashboard \ {r} : last'[d] = last[d]
BY DEF TypeOK, Show

LEMMA ServeType ==
  ASSUME TypeOK, NEW r \in Reader, Serve(r) \/ Disconnect(r) PROVE TypeOK'
<1> DEFINE s == streams[r]
<1>1. StreamOK(s) /\ s \in StreamType
  BY TypeByStream DEF StreamOK
<1>2. events \in Seq(Kind) /\ Len(events) <= MaxEvents
  BY DEF TypeOK
<1>3. CASE Connect(r)
  <2> DEFINE t == [Closed EXCEPT !.phase = "subscribed"]
  <2>1. /\ UNCHANGED <<events, inHand, last, dropped, cut>> /\ streams' = [streams EXCEPT ![r] = t]
        /\ since' = [since EXCEPT ![r] = IF LastEventID(r) = 0 THEN Len(events) ELSE @]
        /\ got' = [got EXCEPT ![r] = IF LastEventID(r) = 0 THEN {} ELSE @]
    BY <1>3 DEF Connect
  <2>2. StreamOK(t)
    <3>1. t.queue = Closed.queue /\ t.replay = Closed.replay /\ t \in StreamType
      BY ClosedTyped DEF Closed, StreamType, StreamOK
    <3>2. QED
      BY <3>1, ClosedTyped DEF StreamOK
  <2>3. Len(events) \in Id \cup {0}
    BY <1>2, IdsFinite, EventsNumbers DEF Id
  <2>4. got' \in [Reader -> SUBSET Ids] /\ since' \in [Reader -> Id \cup {0}]
    BY <2>1, <2>3 DEF TypeOK
  <2> HIDE DEF t
  <2>5. last' \in [Dashboard -> Ids \cup {0}] /\ cut' \in [Reader -> SUBSET Ids]
    BY <2>1 DEF TypeOK
  <2>6. QED
    BY <2>1, <2>2, <2>4, <2>5, StreamStep
<1>4. CASE Replay(r)
  <2>1. PICK page \in SUBSET Missed(r) :
          /\ FirstOf(page, Missed(r))
          /\ streams' = [streams EXCEPT ![r].replay = page,
                                        ![r].phase = IF page = {} THEN "live" ELSE "replay"]
          /\ cut' = [cut EXCEPT ![r] = @ \cup (Missed(r) \ page)]
    BY <1>4 DEF Replay
  <2> DEFINE p == IF page = {} THEN "live" ELSE "replay"
             t == [s EXCEPT !.replay = page, !.phase = p]
  <2>2. UNCHANGED <<events, inHand, last, got, since, dropped>>
    BY <1>4 DEF Replay
  <2>3. Missed(r) \subseteq Ids /\ Ids \subseteq Id
    BY <1>2, IdsFinite DEF Missed
  <2>4. t.queue = s.queue /\ t.replay = page /\ t \in StreamType
    <3>1. page \in SUBSET Id /\ p \in {"live", "replay"}
      BY <2>3
    <3>2. QED
      BY <1>1, <3>1 DEF StreamType
  <2>5. streams' = [streams EXCEPT ![r] = t]
    BY <2>1
  <2> HIDE DEF t, p
  <2>6. StreamOK(t)
    BY <1>1, <2>1, <2>3, <2>4 DEF StreamOK, FirstOf
  <2>7. cut' \in [Reader -> SUBSET Ids]
    BY <2>1, <2>3 DEF TypeOK
  <2>8. got' \in [Reader -> SUBSET Ids] /\ last' \in [Dashboard -> Ids \cup {0}]
        /\ since' \in [Reader -> Id \cup {0}]
    BY <2>2 DEF TypeOK
  <2>9. QED
    BY <2>2, <2>5, <2>6, <2>7, <2>8, StreamStep
<1>5. CASE WriteReplayed(r)
  <2>1. PICK i \in s.replay :
          /\ Show(r, i)
          /\ streams' = [streams EXCEPT ![r].replay = @ \ {i},
                                        ![r].phase = IF streams[r].replay = {i} THEN "live" ELSE @]
    BY <1>5 DEF WriteReplayed
  <2> DEFINE p == IF s.replay = {i} THEN "live" ELSE "replay"
             t == [s EXCEPT !.replay = s.replay \ {i}, !.phase = p]
  <2>2. UNCHANGED <<events, inHand, since, dropped, cut>> /\ s.phase = "replay"
    BY <1>5 DEF WriteReplayed, Phase
  <2>3. StreamOK(t)
    BY <1>1, <1>2, StreamReplayed
  <2>4. streams' = [streams EXCEPT ![r] = t]
    BY <2>1, <2>2
  <2> HIDE DEF t
  <2>5. i \in Ids
    BY <1>1 DEF StreamOK
  <2>6. got' \in [Reader -> SUBSET Ids] /\ last' \in [Dashboard -> Ids \cup {0}]
    BY <2>1, <2>5, ShowType
  <2>7. since' \in [Reader -> Id \cup {0}] /\ cut' \in [Reader -> SUBSET Ids]
    BY <2>2 DEF TypeOK
  <2>8. QED
    BY <2>2, <2>3, <2>4, <2>6, <2>7, StreamStep
<1>6. CASE WriteLive(r)
  <2> DEFINE i == Head(s.queue)
             t == [s EXCEPT !.queue = Tail(s.queue)]
  <2>1. /\ s.queue # <<>> /\ streams' = [streams EXCEPT ![r] = t]
        /\ IF Wants(r, i) THEN Show(r, i) ELSE UNCHANGED <<got, last>>
        /\ UNCHANGED <<events, inHand, since, dropped, cut>>
    BY <1>6 DEF WriteLive
  <2>2. StreamOK(t) /\ i \in Ids
    BY <1>1, <2>1, StreamRead
  <2> HIDE DEF t
  <2>3. got' \in [Reader -> SUBSET Ids] /\ last' \in [Dashboard -> Ids \cup {0}]
    <3>1. CASE Wants(r, i)
      BY <2>1, <2>2, <3>1, ShowType
    <3>2. CASE ~Wants(r, i)
      BY <2>1, <3>2 DEF TypeOK
    <3>3. QED
      BY <3>1, <3>2
  <2>4. since' \in [Reader -> Id \cup {0}] /\ cut' \in [Reader -> SUBSET Ids]
    BY <2>1 DEF TypeOK
  <2>5. QED
    BY <2>1, <2>2, <2>3, <2>4, StreamStep
<1>7. CASE Disconnect(r)
  <2>1. streams' = [streams EXCEPT ![r] = Closed]
        /\ UNCHANGED <<events, inHand, last, got, since, dropped, cut>>
    BY <1>7 DEF Disconnect
  <2>2. got' \in [Reader -> SUBSET Ids] /\ last' \in [Dashboard -> Ids \cup {0}]
        /\ since' \in [Reader -> Id \cup {0}] /\ cut' \in [Reader -> SUBSET Ids]
    BY <2>1 DEF TypeOK
  <2>3. QED
    BY <2>1, <2>2, ClosedTyped, StreamStep
<1>8. QED
  BY <1>3, <1>4, <1>5, <1>6, <1>7 DEF Serve

LEMMA TypeStep ==
  ASSUME TypeOK, [Next]_vars PROVE TypeOK'
<1>1. CASE Restart
  <2>1. /\ streams' = [r \in Reader |-> Closed] /\ inHand' = [e \in Emitter |-> 0]
        /\ UNCHANGED <<events, last, got, since, dropped, cut>> /\ Ids' = Ids
    BY <1>1 DEF Restart, Ids
  <2>2. \A r \in Reader : StreamOK(streams[r])'
    BY <2>1, ClosedTyped DEF StreamOK
  <2>3. streams' \in [Reader -> StreamType]
    BY <2>1, ClosedTyped DEF StreamOK
  <2>4. QED
    BY <2>1, <2>2, <2>3 DEF TypeOK, StreamOK
<1>2. CASE UNCHANGED vars
  BY <1>2 DEF vars, TypeOK, Ids
<1>3. ASSUME NEW e \in Emitter, Emit(e) PROVE TypeOK'
  BY <1>3, InsertType, PublishType DEF Emit
<1>4. QED
  BY <1>1, <1>2, <1>3, ServeType DEF Next

(* The streams are well typed: no queue outgrows its channel, no replay    *)
(* its cap, and nothing is queued that is not in the table.                *)
THEOREM TypeCorrect == Spec => []TypeOK
BY TypeInit, TypeStep, PTL DEF Spec
-----------------------------------------------------------------------------
(***************************************************************************)
(* What is on its way to a reader.  Emitters hold different ids.  What is  *)
(* queued was published, and what stands behind a higher id came late.  A  *)
(* replay is all that the reader missed up to the highest id it holds.     *)
(***************************************************************************)
OneHand == \A e, f \in Emitter : inHand[e] = inHand[f] /\ inHand[e] # 0 => e = f

QueueOK(r) ==
  LET q == streams[r].queue IN
  /\ Range(q) \cap Unpublished = {}
  /\ \A m, n \in DOMAIN q : m < n /\ q[n] < q[m] => q[n] \in late

ReplayOK(r) ==
  /\ Phase(r, "replay") => r \in Dashboard
  /\ ~Phase(r, "replay") => streams[r].replay = {}
  /\ \A m \in streams[r].replay :
       /\ LastEventID(r) < m
       /\ \A i \in Ids :
            events[i].project = Followed[r] /\ LastEventID(r) < i /\ i < m
              => i \in streams[r].replay

(* A stream owes its reader something once it has been subscribed to, but  *)
(* what the replay will bring.                                             *)
Owing(r) == streams[r].phase \in {"replay", "live"} \/ (Phase(r, "subscribed") /\ LastEventID(r) = 0)

Owed(r, i) == Wants(r, i) /\ i > since[r] /\ i > LastEventID(r)

OnItsWay(r, i) ==
  \/ i \in got[r] \cup Unpublished \cup Excused(r) \cup CarriedPast(r)
  \/ i \in Range(streams[r].queue) \cup streams[r].replay

OwedOK(r) == Owing(r) => \A i \in Ids : Owed(r, i) => OnItsWay(r, i)

(* An event that is still in an emitter's hand while the reader is past it *)
(* will be late.                                                           *)
Accounted(d, i) ==
  i \in got[d] \cup Excused(d) \cup late \/ (i \in Unpublished /\ Overtaken(i))

PassedOK(r) ==
  r \in Dashboard =>
    /\ last[r] # 0 => last[r] \in got[r]
    /\ \A i \in Ids : Wants(r, i) /\ since[r] < i /\ i <= last[r] => Accounted(r, i)

ReaderInv(r) == QueueOK(r) /\ ReplayOK(r) /\ OwedOK(r) /\ PassedOK(r)

EventsInv == TypeOK /\ OneHand /\ \A r \in Reader : ReaderInv(r)

LEMMA EventsInit == Init => EventsInv
<1> SUFFICES ASSUME Init PROVE EventsInv
  OBVIOUS
<1>1. TypeOK /\ Ids = {}
  BY TypeInit, EmptySeq DEF Init, Ids
<1>2. OneHand
  BY DEF Init, OneHand
<1>3. ASSUME NEW r \in Reader PROVE ReaderInv(r)
  <2>1. streams[r] = Closed /\ Phase(r, "away") /\ streams[r].queue = <<>> /\ streams[r].replay = {}
    BY DEF Init, Closed, Phase
  <2>2. QueueOK(r)
    BY <2>1 DEF QueueOK, Range
  <2>3. ReplayOK(r) /\ OwedOK(r)
    BY <1>1, <2>1 DEF ReplayOK, OwedOK, Owing, Phase
  <2>4. PassedOK(r)
    BY <1>1 DEF Init, PassedOK
  <2>5. QED
    BY <2>2, <2>3, <2>4 DEF ReaderInv
<1>4. QED
  BY <1>1, <1>2, <1>3 DEF EventsInv

(* A reader whose own state stays as it is, while others go on. *)
LEMMA ReaderKept ==
  ASSUME TypeOK, TypeOK', NEW x \in Reader, ReaderInv(x), UNCHANGED <<events, inHand>>,
         streams'[x] = streams[x], got'[x] = got[x], since'[x] = since[x],
         x \in Dashboard => last'[x] = last[x],
         dropped[x] \subseteq dropped'[x], cut[x] \subseteq cut'[x], late \subseteq late'
  PROVE  ReaderInv(x)'
<1>1. /\ Ids' = Ids /\ Unpublished' = Unpublished /\ LastEventID(x)' = LastEventID(x)
      /\ \A i \in Ids : Wants(x, i)' = Wants(x, i) /\ Overtaken(i)' = Overtaken(i)
  BY DEF Ids, Unpublished, LastEventID, Wants, Overtaken
<1>2. QueueOK(x)'
  BY <1>1 DEF ReaderInv, QueueOK
<1>3. ReplayOK(x)'
  BY <1>1 DEF ReaderInv, ReplayOK, Phase
<1>4. OwedOK(x)'
  <2>1. Owing(x)' = Owing(x) /\ \A i \in Ids : Owed(x, i)' = Owed(x, i)
    BY <1>1 DEF Owing, Owed, Phase
  <2>2. \A i \in Ids : OnItsWay(x, i) => OnItsWay(x, i)'
    BY <1>1 DEF OnItsWay, Excused, CarriedPast
  <2>3. QED
    BY <1>1, <2>1, <2>2 DEF ReaderInv, OwedOK
<1>5. PassedOK(x)'
  <2>1. \A i \in Ids : Accounted(x, i) => Accounted(x, i)'
    BY <1>1 DEF Accounted, Excused
  <2>2. QED
    BY <1>1, <2>1 DEF ReaderInv, PassedOK
<1>6. QED
  BY <1>2, <1>3, <1>4, <1>5 DEF ReaderInv

LEMMA InsertInv ==
  ASSUME EventsInv, NEW e \in Emitter, NEW k \in Kind, Insert(e, k) PROVE EventsInv'
<1>1. TypeOK /\ TypeOK'
  BY InsertType DEF EventsInv
<1>2. PICK n \in Nat \ {0} :
        /\ n = Len(events) + 1 /\ Ids' = Ids \cup {n} /\ n \notin Ids /\ Ids \subseteq Nat
        /\ \A i \in Ids : i < n /\ events'[i] = events[i]
  <2>1. Len(events) \in Nat
    BY <1>1, IdsFinite DEF TypeOK
  <2>2. /\ Ids' = Ids \cup {Len(events) + 1} /\ Len(events) + 1 \notin Ids
        /\ \A i \in Ids : events'[i] = events[i]
    BY <1>1, InsertIds
  <2>3. Ids \subseteq Nat /\ \A i \in Ids : i < Len(events) + 1
    BY <2>1 DEF Ids
  <2>4. QED
    BY <2>1, <2>2, <2>3
<1>3. /\ UNCHANGED <<streams, last, got, since, dropped, cut, late>>
      /\ inHand[e] = 0 /\ inHand' = [inHand EXCEPT ![e] = n]
  BY <1>2 DEF Insert
<1>4. Unpublished' = Unpublished \cup {n}
  <2>1. inHand'[e] = n /\ \A f \in Emitter \ {e} : inHand'[f] = inHand[f]
    BY <1>1, <1>3 DEF TypeOK
  <2>2. Unpublished' \subseteq Unpublished \cup {n}
    BY <2>1 DEF Unpublished
  <2>3. Unpublished \cup {n} \subseteq Unpublished'
    BY <1>2, <1>3, <2>1 DEF Unpublished
  <2>4. QED
    BY <2>2, <2>3
<1>5. OneHand'
  BY <1>1, <1>2, <1>3 DEF EventsInv, OneHand, TypeOK
<1>6. ASSUME NEW r \in Reader PROVE ReaderInv(r)'
  <2>1. ReaderInv(r) /\ LastEventID(r)' = LastEventID(r)
    BY <1>3 DEF EventsInv, LastEventID
  <2>2. Range(streams[r].queue) \cup streams[r].replay \subseteq Ids
    BY <1>1 DEF TypeOK
  <2>3. \A i \in Ids : Wants(r, i)' = Wants(r, i) /\ (Overtaken(i) => Overtaken(i)')
    BY <1>2, <1>3, <1>4 DEF Wants, Overtaken
  <2>4. QueueOK(r)'
    BY <1>2, <1>3, <1>4, <2>1, <2>2 DEF ReaderInv, QueueOK
  <2>5. ReplayOK(r)'
    <3>1. \A m \in streams[r].replay : m \in Ids /\ m \in Nat /\ m < n
      BY <1>2, <2>2
    <3>2. \A m \in streams[r].replay : ~(n < m)
      BY <3>1
    <3>3. QED
      BY <1>2, <1>3, <2>1, <3>2 DEF ReaderInv, ReplayOK, Phase
  <2>6. OwedOK(r)'
    <3>1. Owing(r)' = Owing(r) /\ \A i \in Ids : Owed(r, i)' = Owed(r, i)
      BY <1>3, <2>1, <2>3 DEF Owing, Owed, Phase
    <3>2. \A i \in Ids : OnItsWay(r, i) => OnItsWay(r, i)'
      BY <1>3, <1>4 DEF OnItsWay, Excused, CarriedPast
    <3>3. OnItsWay(r, n)'
      BY <1>4 DEF OnItsWay
    <3>4. QED
      BY <1>2, <2>1, <3>1, <3>2, <3>3 DEF ReaderInv, OwedOK
  <2>7. PassedOK(r)'
    <3>1. \A i \in Ids : Accounted(r, i) => Accounted(r, i)'
      BY <1>3, <1>4, <2>3 DEF Accounted, Excused
    <3>2. r \in Dashboard => ~(n <= last[r])
      <4>1. 0 < n /\ \A i \in Ids : i \in Nat /\ i < n
        BY <1>2
      <4>2. r \in Dashboard => last[r] \in Ids \cup {0}
        BY <1>1 DEF TypeOK
      <4>3. r \in Dashboard => last[r] \in Nat /\ last[r] < n
        BY <4>1, <4>2
      <4>4. QED
        BY <4>3
    <3>3. QED
      BY <1>2, <1>3, <2>1, <2>3, <3>1, <3>2 DEF ReaderInv, PassedOK
  <2>8. QED
    BY <2>4, <2>5, <2>6, <2>7 DEF ReaderInv
<1>7. QED
  BY <1>1, <1>5, <1>6 DEF EventsInv

(* The event goes to the end of the queues that have room, and is late     *)
(* where a higher one stands before it.                                    *)
LEMMA PublishInv ==
  ASSUME EventsInv, NEW e \in Emitter, Publish(e) PROVE EventsInv'
<1> DEFINE i == inHand[e]
<1>1. TypeOK /\ TypeOK'
  BY PublishType DEF EventsInv
<1>2. /\ i # 0 /\ inHand' = [inHand EXCEPT ![e] = 0]
      /\ streams' = [r \in Reader |-> IF Subscribed(r)
                                      THEN [streams[r] EXCEPT !.queue = Enqueued(streams[r].queue, i)]
                                      ELSE streams[r]]
      /\ \A r \in Reader :
           dropped'[r] = IF Subscribed(r) /\ Len(streams[r].queue) >= Buffer
                           THEN dropped[r] \cup {i} ELSE dropped[r]
      /\ late' = IF Overtaken(i) THEN late \cup {i} ELSE late
      /\ UNCHANGED <<events, last, got, since, cut>>
  BY <1>1 DEF Publish, TypeOK
<1>3. i \in Ids /\ Ids' = Ids /\ Ids \subseteq Nat /\ Ids \subseteq Id
  BY <1>1, <1>2, IdsFinite DEF TypeOK, Ids
<1>4. Unpublished' = Unpublished \ {i} /\ i \in Unpublished
  BY <1>1, <1>2 DEF EventsInv, OneHand, Unpublished, TypeOK
<1>5. OneHand'
  BY <1>1, <1>2 DEF EventsInv, OneHand, TypeOK
<1> HIDE DEF i
<1>6. \A j \in Ids : Overtaken(j) => Overtaken(j)'
  BY <1>3, <1>4 DEF Overtaken
<1>7. ASSUME NEW r \in Reader PROVE ReaderInv(r)'
  <2> DEFINE q == streams[r].queue
  <2>1. /\ ReaderInv(r) /\ LastEventID(r)' = LastEventID(r)
        /\ \A j \in Ids : Wants(r, j)' = Wants(r, j)
    BY <1>2 DEF EventsInv, LastEventID, Wants
  <2>2. /\ streams'[r].phase = streams[r].phase /\ streams'[r].replay = streams[r].replay
        /\ streams'[r].queue = IF Subscribed(r) THEN Enqueued(q, i) ELSE q
    BY <1>1, <1>2 DEF TypeOK, StreamType
  <2>3. q \in Seq(Id) /\ i \in Id /\ Range(q) \subseteq Ids /\ Len(q) \in Nat /\ DOMAIN q = 1..Len(q)
    BY <1>1, <1>3, LenProperties DEF TypeOK, StreamType
  <2> HIDE DEF q
  <2>4. \/ streams'[r].queue = q /\ (Subscribed(r) => i \in dropped'[r])
        \/ streams'[r].queue = Append(q, i)
    <3>1. CASE Len(q) < Buffer
      BY <2>2, <3>1 DEF Enqueued, q
    <3>2. CASE ~(Len(q) < Buffer)
      <4>1. Len(q) >= Buffer
        BY <2>3, <3>2, EventsNumbers
      <4>2. QED
        BY <1>2, <2>2, <3>2, <4>1 DEF Enqueued, q
    <3>3. QED
      BY <3>1, <3>2
  <2>5. Range(streams'[r].queue) \subseteq Range(q) \cup {i} /\ Range(q) \subseteq Range(streams'[r].queue)
        /\ (Subscribed(r) => i \in Range(streams'[r].queue) \cup dropped'[r])
    <3>1. Range(Append(q, i)) = Range(q) \cup {i}
      BY <2>3, QueueAppend
    <3>2. QED
      BY <2>4, <3>1
  <2>6. QueueOK(r)'
    <3>1. /\ Range(q) \cap Unpublished = {}
          /\ \A m, n \in DOMAIN q : m < n /\ q[n] < q[m] => q[n] \in late
      BY <2>1 DEF ReaderInv, QueueOK, q
    <3>2. late \subseteq late'
      BY <1>2
    <3>3. Range(streams'[r].queue) \cap Unpublished' = {}
      BY <1>4, <2>5, <3>1
    <3>4. CASE streams'[r].queue = q
      BY <3>1, <3>2, <3>3, <3>4 DEF QueueOK
    <3>5. CASE streams'[r].queue = Append(q, i)
      <4> DEFINE p == Append(q, i)
      <4>1. /\ p[Len(q) + 1] = i /\ DOMAIN p = 1..(Len(q) + 1)
            /\ \A n \in DOMAIN q : p[n] = q[n]
        BY <2>3, AppendProperties, LenProperties
      <4> HIDE DEF p
      <4>2. ASSUME NEW m \in DOMAIN p, NEW n \in DOMAIN p, m < n, p[n] < p[m]
            PROVE  p[n] \in late'
        <5>1. CASE n \in DOMAIN q
          <6>1. m \in DOMAIN q
            BY <2>3, <4>1, <4>2, <5>1
          <6>2. QED
            BY <3>1, <3>2, <4>1, <4>2, <5>1, <6>1
        <5>2. CASE n \notin DOMAIN q
          <6>1. p[n] = i /\ m \in DOMAIN q /\ p[m] = q[m]
            BY <2>3, <4>1, <4>2, <5>2
          <6>2. q[m] \in Ids \ Unpublished /\ q[m] > i
            BY <1>3, <2>3, <3>1, <4>2, <6>1 DEF Range
          <6>3. Overtaken(i)
            BY <6>2 DEF Overtaken
          <6>4. QED
            BY <1>2, <6>1, <6>3
        <5>3. QED
          BY <5>1, <5>2
      <4>3. QED
        BY <3>3, <3>5, <4>2 DEF QueueOK, p
    <3>6. QED
      BY <2>4, <3>4, <3>5
  <2>7. ReplayOK(r)'
    BY <1>2, <1>3, <2>1, <2>2 DEF ReaderInv, ReplayOK, Phase
  <2>8. OwedOK(r)'
    <3>1. Owing(r)' = Owing(r) /\ \A j \in Ids : Owed(r, j)' = Owed(r, j)
      BY <1>2, <2>1, <2>2 DEF Owing, Owed, Phase
    <3>2. Owing(r) => Subscribed(r)
      BY DEF Owing, Subscribed, Phase
    <3>3. Subscribed(r) => \A j \in Ids : OnItsWay(r, j) => OnItsWay(r, j)'
      BY <1>2, <1>4, <2>2, <2>5 DEF OnItsWay, Excused, CarriedPast, q
    <3>4. QED
      BY <1>3, <2>1, <3>1, <3>2, <3>3 DEF ReaderInv, OwedOK
  <2>9. PassedOK(r)'
    <3>1. \A j \in Ids : Accounted(r, j) => Accounted(r, j)'
      BY <1>2, <1>4, <1>6 DEF Accounted, Excused
    <3>2. QED
      BY <1>2, <1>3, <2>1, <3>1 DEF ReaderInv, PassedOK
  <2>10. QED
    BY <2>6, <2>7, <2>8, <2>9 DEF ReaderInv
<1>8. QED
  BY <1>1, <1>5, <1>7 DEF EventsInv

(* A step of one reader's stream. *)
LEMMA OneReader ==
  ASSUME EventsInv, TypeOK', UNCHANGED <<events, inHand>>, NEW r \in Reader, ReaderInv(r)',
         \A x \in Reader \ {r} : /\ streams'[x] = streams[x] /\ got'[x] = got[x]
                                 /\ since'[x] = since[x] /\ cut'[x] = cut[x],
         \A d \in Dashboard \ {r} : last'[d] = last[d],
         dropped' = dropped, late' = late
  PROVE  EventsInv'
<1>1. OneHand'
  BY DEF EventsInv, OneHand
<1>2. \A x \in Reader \ {r} : ReaderInv(x)'
  BY ReaderKept DEF EventsInv
<1>3. QED
  BY <1>1, <1>2 DEF EventsInv

(* What a step of a stream leaves as it is. *)
LEMMA SameEvents ==
  ASSUME UNCHANGED <<events, inHand>>
  PROVE  /\ Ids' = Ids /\ Unpublished' = Unpublished
         /\ \A r \in Reader : \A i \in Ids : Wants(r, i)' = Wants(r, i)
         /\ \A i \in Ids : Overtaken(i)' = Overtaken(i)
BY DEF Ids, Unpublished, Wants, Overtaken

LEMMA ConnectInv ==
  ASSUME EventsInv, NEW r \in Reader, Connect(r) PROVE EventsInv'
<1>1. TypeOK /\ TypeOK' /\ ReaderInv(r)
  BY ServeType DEF EventsInv, Serve
<1>2. /\ UNCHANGED <<events, inHand, last, dropped, cut, late>>
      /\ streams' = [streams EXCEPT ![r] = [Closed EXCEPT !.phase = "subscribed"]]
      /\ since' = [since EXCEPT ![r] = IF LastEventID(r) = 0 THEN Len(events) ELSE @]
      /\ got' = [got EXCEPT ![r] = IF LastEventID(r) = 0 THEN {} ELSE @]
  BY DEF Connect
<1>3. /\ streams'[r].phase = "subscribed" /\ streams'[r].queue = <<>> /\ streams'[r].replay = {}
      /\ \A x \in Reader \ {r} : streams'[x] = streams[x] /\ got'[x] = got[x] /\ since'[x] = since[x]
      /\ LastEventID(r) = 0 => since'[r] = Len(events)
      /\ LastEventID(r) # 0 => since'[r] = since[r] /\ got'[r] = got[r]
  BY <1>1, <1>2 DEF TypeOK, Closed
<1>4. LastEventID(r)' = LastEventID(r) /\ LastEventID(r) \in Nat
  BY <1>1, <1>2, LastTyped DEF LastEventID
<1>5. Ids' = Ids /\ Ids \subseteq Nat \ {0} /\ \A i \in Ids : ~(i > Len(events))
  <2>1. Len(events) \in Nat
    BY <1>1, IdsFinite DEF TypeOK
  <2>2. QED
    BY <1>2, <2>1 DEF Ids
<1>6. QueueOK(r)' /\ ReplayOK(r)'
  BY <1>3 DEF QueueOK, ReplayOK, Range, Phase
<1>7. OwedOK(r)'
  <2>1. CASE LastEventID(r) = 0
    BY <1>3, <1>5, <2>1 DEF OwedOK, Owed
  <2>2. CASE LastEventID(r) # 0
    BY <1>3, <1>4, <2>2 DEF OwedOK, Owing, Phase
  <2>3. QED
    BY <2>1, <2>2
<1>8. PassedOK(r)'
  <2> SUFFICES ASSUME r \in Dashboard PROVE PassedOK(r)'
    BY DEF PassedOK
  <2>1. LastEventID(r) = last[r] /\ last'[r] = last[r]
    BY <1>2 DEF LastEventID
  <2>2. CASE last[r] = 0
    <3>1. \A i \in Ids : ~(i <= 0)
      BY <1>5
    <3>2. QED
      BY <1>5, <2>1, <2>2, <3>1 DEF PassedOK
  <2>3. CASE last[r] # 0
    <3>1. \A i \in Ids : Wants(r, i)' = Wants(r, i) /\ (Accounted(r, i) => Accounted(r, i)')
      BY <1>2, <1>3, <2>1, <2>3, SameEvents DEF Accounted, Excused
    <3>2. QED
      BY <1>1, <1>3, <1>5, <2>1, <2>3, <3>1 DEF ReaderInv, PassedOK
  <2>4. QED
    BY <2>2, <2>3
<1>9. ReaderInv(r)'
  BY <1>6, <1>7, <1>8 DEF ReaderInv
<1>10. QED
  BY <1>1, <1>2, <1>3, <1>9, OneReader

LEMMA ReplayInv ==
  ASSUME EventsInv, NEW r \in Reader, Replay(r) PROVE EventsInv'
<1>1. TypeOK /\ TypeOK' /\ ReaderInv(r)
  BY ServeType DEF EventsInv, Serve
<1>2. PICK page \in SUBSET Missed(r) :
        /\ FirstOf(page, Missed(r))
        /\ streams' = [streams EXCEPT ![r].replay = page,
                                      ![r].phase = IF page = {} THEN "live" ELSE "replay"]
        /\ cut' = [cut EXCEPT ![r] = @ \cup (Missed(r) \ page)]
  BY DEF Replay
<1>3. UNCHANGED <<events, inHand, last, got, since, dropped, late>> /\ Phase(r, "subscribed")
  BY DEF Replay
<1>4. /\ streams'[r].replay = page /\ streams'[r].queue = streams[r].queue
      /\ streams'[r].phase = (IF page = {} THEN "live" ELSE "replay")
      /\ cut'[r] = cut[r] \cup (Missed(r) \ page)
      /\ \A x \in Reader \ {r} : streams'[x] = streams[x] /\ cut'[x] = cut[x]
  <2> DEFINE t == [streams[r] EXCEPT !.replay = page, !.phase = IF page = {} THEN "live" ELSE "replay"]
  <2>1. streams' = [streams EXCEPT ![r] = t] /\ streams[r] \in StreamType
    BY <1>1, <1>2 DEF TypeOK
  <2>2. /\ t.replay = page /\ t.queue = streams[r].queue
        /\ t.phase = (IF page = {} THEN "live" ELSE "replay")
    BY <2>1 DEF StreamType
  <2> HIDE DEF t
  <2>3. streams'[r] = t /\ \A x \in Reader \ {r} : streams'[x] = streams[x]
    BY <1>1, <2>1 DEF TypeOK
  <2>4. /\ cut'[r] = cut[r] \cup (Missed(r) \ page)
        /\ \A x \in Reader \ {r} : cut'[x] = cut[x]
    BY <1>1, <1>2 DEF TypeOK
  <2>5. QED
    BY <2>2, <2>3, <2>4
<1>5. /\ LastEventID(r)' = LastEventID(r) /\ LastEventID(r) \in Nat
      /\ (LastEventID(r) # 0 => r \in Dashboard)
  BY <1>1, <1>3, LastTyped DEF LastEventID
<1>6. /\ Ids' = Ids /\ Ids \subseteq Nat /\ Unpublished' = Unpublished
      /\ \A i \in Ids : Wants(r, i)' = Wants(r, i) /\ Overtaken(i)' = Overtaken(i)
  BY <1>1, <1>3, SameEvents, IdsFinite DEF TypeOK
<1>7. QueueOK(r)'
  BY <1>1, <1>3, <1>4, <1>6 DEF ReaderInv, QueueOK
<1>8. ReplayOK(r)'
  <2>1. page # {} => r \in Dashboard
    BY <1>5 DEF Missed
  <2>2. ASSUME NEW m \in page
        PROVE  /\ LastEventID(r) < m
               /\ \A i \in Ids : events[i].project = Followed[r] /\ LastEventID(r) < i /\ i < m
                    => i \in page
    <3>1. m \in Missed(r) /\ LastEventID(r) # 0
      BY DEF Missed
    <3>2. m \in Nat /\ LastEventID(r) < m
      BY <1>5, <1>6, <3>1 DEF Missed
    <3>3. ASSUME NEW i \in Ids, events[i].project = Followed[r], LastEventID(r) < i, i < m
          PROVE  i \in page
      <4>1. i \in Missed(r) /\ i \in Nat
        BY <1>5, <1>6, <3>1, <3>3 DEF Missed
      <4>2. i \notin page => m < i
        BY <1>2, <4>1 DEF FirstOf
      <4>3. QED
        BY <3>2, <3>3, <4>1, <4>2
    <3>4. QED
      BY <3>2, <3>3
  <2>3. QED
    BY <1>3, <1>4, <1>5, <1>6, <2>1, <2>2 DEF ReplayOK, Phase
<1>9. OwedOK(r)'
  <2>1. ASSUME NEW i \in Ids, Owed(r, i) PROVE OnItsWay(r, i)'
    <3>1. CASE LastEventID(r) = 0
      <4>1. OnItsWay(r, i)
        BY <1>1, <1>3, <2>1, <3>1 DEF ReaderInv, OwedOK, Owing
      <4>2. streams[r].replay = {}
        BY <1>1, <1>3 DEF ReaderInv, ReplayOK, Phase
      <4>3. QED
        BY <1>3, <1>4, <1>6, <4>1, <4>2 DEF OnItsWay, Excused, CarriedPast
    <3>2. CASE LastEventID(r) # 0
      <4>1. i \in Missed(r)
        BY <2>1, <3>2 DEF Owed, Wants, Missed
      <4>2. i \in page \cup cut'[r]
        BY <1>4, <4>1
      <4>3. QED
        BY <1>4, <4>2 DEF OnItsWay, Excused
    <3>3. QED
      BY <3>1, <3>2
  <2>2. \A i \in Ids : Owed(r, i)' = Owed(r, i)
    BY <1>3, <1>5, <1>6 DEF Owed
  <2>3. QED
    BY <1>6, <2>1, <2>2 DEF OwedOK
<1>10. PassedOK(r)'
  <2>1. \A i \in Ids : Accounted(r, i) => Accounted(r, i)'
    BY <1>3, <1>4, <1>6 DEF Accounted, Excused
  <2>2. QED
    BY <1>1, <1>3, <1>6, <2>1 DEF ReaderInv, PassedOK
<1>11. ReaderInv(r)'
  BY <1>7, <1>8, <1>9, <1>10 DEF ReaderInv
<1>12. QED
  BY <1>1, <1>3, <1>4, <1>11, OneReader

(* The oldest event of a replay: the dashboard is carried past nothing.    *)
LEMMA WriteReplayedInv ==
  ASSUME EventsInv, NEW r \in Reader, WriteReplayed(r) PROVE EventsInv'
<1>1. TypeOK /\ TypeOK' /\ ReaderInv(r)
  BY ServeType DEF EventsInv, Serve
<1>2. PICK i \in streams[r].replay :
        /\ \A j \in streams[r].replay : i <= j
        /\ Show(r, i)
        /\ streams' = [streams EXCEPT ![r].replay = @ \ {i},
                                      ![r].phase = IF streams[r].replay = {i} THEN "live" ELSE @]
  BY DEF WriteReplayed
<1>3. UNCHANGED <<events, inHand, since, dropped, cut, late>> /\ Phase(r, "replay")
  BY DEF WriteReplayed
<1>4. /\ streams'[r].replay = streams[r].replay \ {i} /\ streams'[r].queue = streams[r].queue
      /\ streams'[r].phase = (IF streams[r].replay = {i} THEN "live" ELSE "replay")
      /\ \A x \in Reader \ {r} : streams'[x] = streams[x]
  <2> DEFINE t == [streams[r] EXCEPT !.replay = streams[r].replay \ {i},
                                     !.phase = IF streams[r].replay = {i} THEN "live" ELSE @]
  <2>1. streams' = [streams EXCEPT ![r] = t] /\ streams[r] \in StreamType
    BY <1>1, <1>2 DEF TypeOK
  <2>2. /\ t.replay = streams[r].replay \ {i} /\ t.queue = streams[r].queue
        /\ t.phase = (IF streams[r].replay = {i} THEN "live" ELSE "replay")
    BY <1>3, <2>1 DEF StreamType, Phase
  <2> HIDE DEF t
  <2>3. streams'[r] = t /\ \A x \in Reader \ {r} : streams'[x] = streams[x]
    BY <1>1, <2>1 DEF TypeOK
  <2>4. QED
    BY <2>2, <2>3
<1>5. /\ Ids' = Ids /\ Ids \subseteq Nat /\ Unpublished' = Unpublished
      /\ \A j \in Ids : Wants(r, j)' = Wants(r, j) /\ Overtaken(j)' = Overtaken(j)
  BY <1>1, <1>3, SameEvents, IdsFinite DEF TypeOK
<1>6. r \in Dashboard /\ i \in Ids /\ streams[r].replay \subseteq Ids /\ LastEventID(r) < i
  BY <1>1, <1>3 DEF ReaderInv, ReplayOK, TypeOK
<1>7. /\ got'[r] = got[r] \cup {i} /\ \A x \in Reader \ {r} : got'[x] = got[x]
      /\ last'[r] = i /\ \A d \in Dashboard \ {r} : last'[d] = last[d]
  BY <1>1, <1>2, <1>6, ShowType
<1>8. LastEventID(r) = last[r] /\ LastEventID(r)' = i /\ last[r] \in Nat /\ i \in Nat
  BY <1>1, <1>5, <1>6, <1>7, LastTyped DEF LastEventID
<1>9. QueueOK(r)'
  BY <1>1, <1>3, <1>4, <1>5 DEF ReaderInv, QueueOK
<1>10. ReplayOK(r)'
  <2>1. ASSUME NEW m \in streams[r].replay \ {i}
        PROVE  /\ i < m
               /\ \A j \in Ids : events[j].project = Followed[r] /\ i < j /\ j < m
                    => j \in streams[r].replay \ {i}
    <3>1. m \in Nat /\ i < m
      BY <1>2, <1>5, <1>6, <1>8
    <3>2. ASSUME NEW j \in Ids, events[j].project = Followed[r], i < j, j < m
          PROVE  j \in streams[r].replay \ {i}
      <4>1. j \in Nat /\ LastEventID(r) < j /\ j # i
        BY <1>5, <1>6, <1>8, <3>2
      <4>2. QED
        BY <1>1, <3>2, <4>1 DEF ReaderInv, ReplayOK
    <3>3. QED
      BY <3>1, <3>2
  <2>2. QED
    BY <1>3, <1>4, <1>5, <1>6, <1>8, <2>1 DEF ReplayOK, Phase
<1>11. OwedOK(r)'
  <2>1. ASSUME NEW j \in Ids, Owed(r, j)' PROVE OnItsWay(r, j)'
    <3>1. Owed(r, j)
      BY <1>3, <1>5, <1>6, <1>8, <2>1 DEF Owed
    <3>2. OnItsWay(r, j) /\ j # i
      BY <1>1, <1>3, <1>5, <1>8, <2>1, <3>1 DEF ReaderInv, OwedOK, Owing, Owed, Phase
    <3>3. QED
      BY <1>3, <1>4, <1>5, <1>7, <3>2 DEF OnItsWay, Excused, CarriedPast
  <2>2. QED
    BY <1>5, <2>1 DEF OwedOK
<1>12. PassedOK(r)'
  <2>1. ASSUME NEW j \in Ids, Wants(r, j), since[r] < j, j <= i PROVE Accounted(r, j)'
    <3>1. j \in Nat
      BY <1>5
    <3>2. CASE j <= last[r]
      <4>1. Accounted(r, j)
        BY <1>1, <1>6, <2>1, <3>2 DEF ReaderInv, PassedOK
      <4>2. QED
        BY <1>3, <1>5, <1>7, <4>1 DEF Accounted, Excused
    <3>3. CASE ~(j <= last[r])
      <4>1. LastEventID(r) < j
        BY <1>8, <3>1, <3>3
      <4>2. j < i => j \in streams[r].replay
        BY <1>1, <2>1, <4>1 DEF ReaderInv, ReplayOK, Wants
      <4>3. j = i
        BY <1>2, <1>8, <2>1, <3>1, <4>2
      <4>4. QED
        BY <1>7, <4>3 DEF Accounted
    <3>4. QED
      BY <3>2, <3>3
  <2>2. QED
    BY <1>3, <1>5, <1>6, <1>7, <2>1 DEF PassedOK
<1>13. ReaderInv(r)'
  BY <1>9, <1>10, <1>11, <1>12 DEF ReaderInv
<1>14. QED
  BY <1>1, <1>3, <1>4, <1>7, <1>13, OneReader

(* The head of a queue: what the dashboard is carried past stands behind   *)
(* it and came late, or is still to be published and will be.              *)
LEMMA WriteLiveInv ==
  ASSUME EventsInv, NEW r \in Reader, WriteLive(r) PROVE EventsInv'
<1>1. TypeOK /\ TypeOK' /\ ReaderInv(r)
  BY ServeType DEF EventsInv, Serve
<1>2. PICK i : i = Head(streams[r].queue)
  OBVIOUS
<1>3. PICK q : q = streams[r].queue
  OBVIOUS
<1>4. /\ q # <<>> /\ streams' = [streams EXCEPT ![r].queue = Tail(q)]
      /\ IF Wants(r, i) THEN Show(r, i) ELSE UNCHANGED <<got, last>>
      /\ UNCHANGED <<events, inHand, since, dropped, cut, late>> /\ Phase(r, "live")
  BY <1>1, <1>2, <1>3 DEF WriteLive, TypeOK
<1>5. /\ streams'[r].replay = streams[r].replay /\ streams'[r].queue = Tail(q)
      /\ streams'[r].phase = "live"
      /\ \A x \in Reader \ {r} : streams'[x] = streams[x]
  BY <1>1, <1>4 DEF TypeOK, StreamType, Phase
<1>6. /\ Ids' = Ids /\ Ids \subseteq Nat \ {0} /\ Unpublished' = Unpublished
      /\ \A j \in Ids : Wants(r, j)' = Wants(r, j) /\ Overtaken(j)' = Overtaken(j)
  BY <1>1, <1>4, SameEvents, IdsFinite DEF TypeOK
<1>7. /\ i \in Range(q) /\ i = q[1] /\ 1 \in DOMAIN q /\ Range(q) = {i} \cup Range(Tail(q))
      /\ \A n \in DOMAIN Tail(q) : n \in Nat \ {0} /\ n + 1 \in DOMAIN q /\ Tail(q)[n] = q[n + 1]
      /\ Range(q) \subseteq Ids /\ i \in Ids
  <2>1. q \in Seq(Id) /\ Range(q) \subseteq Ids
    BY <1>1, <1>3 DEF TypeOK, StreamType
  <2>2. QED
    BY <1>2, <1>3, <1>4, <2>1, QueueTail
<1>8. /\ Range(q) \cap Unpublished = {} /\ streams[r].replay = {}
      /\ \A m, n \in DOMAIN q : m < n /\ q[n] < q[m] => q[n] \in late
  BY <1>1, <1>3, <1>4 DEF ReaderInv, QueueOK, ReplayOK, Phase
<1>9. /\ got[r] \subseteq got'[r] /\ (Wants(r, i) => i \in got'[r])
      /\ \A x \in Reader \ {r} : got'[x] = got[x]
      /\ \A d \in Dashboard \ {r} : last'[d] = last[d]
      /\ r \in Dashboard => last'[r] = IF Wants(r, i) THEN i ELSE last[r]
  <2>1. CASE Wants(r, i)
    BY <1>1, <1>4, <1>7, <2>1, ShowType
  <2>2. CASE ~Wants(r, i)
    BY <1>4, <2>2
  <2>3. QED
    BY <2>1, <2>2
<1>10. QueueOK(r)'
  <2>1. ASSUME NEW m \in DOMAIN Tail(q), NEW n \in DOMAIN Tail(q), m < n, Tail(q)[n] < Tail(q)[m]
        PROVE  Tail(q)[n] \in late
    <3>1. m + 1 \in DOMAIN q /\ n + 1 \in DOMAIN q /\ m + 1 < n + 1
      BY <1>7, <2>1
    <3>2. Tail(q)[n] = q[n + 1] /\ Tail(q)[m] = q[m + 1]
      BY <1>7
    <3>3. QED
      BY <1>8, <2>1, <3>1, <3>2
  <2>2. Range(Tail(q)) \cap Unpublished' = {}
    BY <1>6, <1>7, <1>8
  <2>3. late' = late /\ streams'[r].queue = Tail(q)
    BY <1>4, <1>5
  <2> DEFINE t == streams'[r].queue
  <2>4. Range(t) \cap Unpublished' = {}
        /\ \A m, n \in DOMAIN t : m < n /\ t[n] < t[m] => t[n] \in late'
    BY <2>1, <2>2, <2>3
  <2>5. QED
    BY <2>4 DEF QueueOK
<1>11. ReplayOK(r)'
  BY <1>5, <1>8 DEF ReplayOK, Phase
(* What was owed above the last id, or is owed above one that went back. *)
<1>12. \A j \in Ids : Wants(r, j) /\ since[r] < j /\ LastEventID(r) < j /\ j # i => OnItsWay(r, j)'
  <2> SUFFICES ASSUME NEW j \in Ids, Wants(r, j), since[r] < j, LastEventID(r) < j, j # i
               PROVE  OnItsWay(r, j)'
    OBVIOUS
  <2>1. Owed(r, j) /\ Owing(r)
    <3>1. j \in Nat /\ LastEventID(r) \in Nat /\ since[r] \in Nat
      BY <1>1, <1>6, LastTyped, EventsNumbers DEF TypeOK, Id
    <3>2. j > since[r] /\ j > LastEventID(r)
      BY <3>1
    <3>3. QED
      BY <1>4, <3>2 DEF Owed, Owing, Phase
  <2>2. OnItsWay(r, j)
    BY <1>1, <2>1 DEF ReaderInv, OwedOK
  <2>3. QED
    BY <1>3, <1>4, <1>5, <1>6, <1>7, <1>9, <2>2 DEF OnItsWay, Excused, CarriedPast
<1>13. CASE ~Wants(r, i) \/ r \notin Dashboard
  <2>1. LastEventID(r)' = LastEventID(r) /\ LastEventID(r) \in Nat
        /\ (r \in Dashboard => last'[r] = last[r])
    BY <1>1, <1>9, <1>13, LastTyped DEF LastEventID
  <2>2. OwedOK(r)'
    <3> SUFFICES ASSUME NEW j \in Ids, Owed(r, j)' PROVE OnItsWay(r, j)'
      BY <1>6 DEF OwedOK
    <3>1. Wants(r, j) /\ since[r] < j /\ LastEventID(r) < j
      <4>1. j \in Nat /\ since[r] \in Nat
        BY <1>1, <1>6, EventsNumbers DEF TypeOK, Id
      <4>2. j > since[r] /\ j > LastEventID(r) /\ Wants(r, j)
        BY <1>4, <1>6, <2>1 DEF Owed
      <4>3. QED
        BY <2>1, <4>1, <4>2
    <3>2. j # i \/ OnItsWay(r, j)'
      BY <1>9, <3>1 DEF OnItsWay
    <3>3. QED
      BY <1>12, <3>1, <3>2
  <2>3. PassedOK(r)'
    <3>1. \A j \in Ids : Accounted(r, j) => Accounted(r, j)'
      BY <1>4, <1>6, <1>9 DEF Accounted, Excused
    <3>2. QED
      BY <1>1, <1>4, <1>6, <1>9, <2>1, <3>1 DEF ReaderInv, PassedOK
  <2>4. ReaderInv(r)'
    BY <1>10, <1>11, <2>2, <2>3 DEF ReaderInv
  <2>5. QED
    BY <1>1, <1>4, <1>5, <1>9, <2>4, OneReader
<1>14. CASE Wants(r, i) /\ r \in Dashboard
  <2>1. /\ LastEventID(r) = last[r] /\ last[r] \in Nat /\ LastEventID(r)' = i /\ last'[r] = i
        /\ i \in Nat /\ since[r] \in Nat /\ \A j \in Ids : j \in Nat
    BY <1>1, <1>6, <1>7, <1>9, <1>14, LastTyped, EventsNumbers DEF LastEventID, TypeOK, Id
  <2>2. \A j \in Ids : Wants(r, j) /\ since[r] < j /\ j <= last[r] => Accounted(r, j)
    BY <1>1, <1>14 DEF ReaderInv, PassedOK
  <2>3. OwedOK(r)'
    <3> SUFFICES ASSUME NEW j \in Ids, Owed(r, j)' PROVE OnItsWay(r, j)'
      BY <1>6 DEF OwedOK
    <3>1. Wants(r, j) /\ since[r] < j /\ i < j
      <4>1. j > since[r] /\ j > i /\ Wants(r, j)
        BY <1>4, <1>6, <2>1 DEF Owed
      <4>2. QED
        BY <2>1, <4>1
    <3>2. CASE last[r] < j
      BY <1>12, <2>1, <3>1, <3>2
    <3>3. CASE ~(last[r] < j)
      <4>1. j <= last[r] /\ last[r] # 0
        BY <2>1, <3>1, <3>3
      <4>2. Accounted(r, j) /\ last[r] \in got[r]
        BY <1>1, <1>14, <2>2, <3>1, <4>1 DEF ReaderInv, PassedOK
      <4>3. j = last[r] \/ j < last[r]
        BY <2>1, <4>1
      <4>4. j \in got'[r] \cup Unpublished' \cup Excused(r)' \cup CarriedPast(r)'
        BY <1>4, <1>6, <1>9, <1>14, <4>2, <4>3 DEF Accounted, Excused, CarriedPast
      <4>5. QED
        BY <4>4 DEF OnItsWay
    <3>4. QED
      BY <3>2, <3>3
  <2>4. PassedOK(r)'
    <3>1. ASSUME NEW j \in Ids, Wants(r, j), since[r] < j, j <= i PROVE Accounted(r, j)'
      <4>1. CASE j <= last[r]
        <5>1. Accounted(r, j)
          BY <2>2, <3>1, <4>1
        <5>2. QED
          BY <1>4, <1>6, <1>9, <5>1 DEF Accounted, Excused
      <4>2. CASE j = i
        BY <1>9, <1>14, <4>2 DEF Accounted
      <4>3. CASE ~(j <= last[r]) /\ j # i
        <5>1. last[r] < j /\ j < i
          BY <2>1, <3>1, <4>3
        <5>2. Owed(r, j) /\ Owing(r)
          <6>1. j > since[r] /\ j > last[r]
            BY <2>1, <3>1, <5>1
          <6>2. QED
            BY <1>4, <2>1, <3>1, <6>1 DEF Owed, Owing, Phase
        <5>3. OnItsWay(r, j)
          BY <1>1, <5>2 DEF ReaderInv, OwedOK
        <5>4. CASE j \in Range(q)
          <6>1. PICK n \in DOMAIN Tail(q) : j = Tail(q)[n]
            BY <1>7, <4>3, <5>4 DEF Range
          <6>2. n + 1 \in DOMAIN q /\ 1 < n + 1 /\ q[n + 1] = j
            BY <1>7, <6>1
          <6>3. j \in late
            BY <1>7, <1>8, <5>1, <6>2
          <6>4. QED
            BY <1>4, <6>3 DEF Accounted
        <5>5. CASE j \in Unpublished
          <6>1. Overtaken(j)
            <7>1. i \in Ids \ Unpublished /\ i > j
              BY <1>7, <1>8, <2>1, <5>1
            <7>2. QED
              BY <7>1 DEF Overtaken
          <6>2. QED
            BY <1>6, <5>5, <6>1 DEF Accounted
        <5>6. CASE j \in got[r] \cup Excused(r) \cup CarriedPast(r)
          BY <1>4, <1>9, <5>6 DEF Accounted, Excused, CarriedPast
        <5>7. QED
          BY <1>3, <1>8, <5>3, <5>4, <5>5, <5>6 DEF OnItsWay
      <4>4. QED
        BY <4>1, <4>2, <4>3
    <3>2. QED
      BY <1>4, <1>6, <1>9, <1>14, <2>1, <3>1 DEF PassedOK
  <2>5. ReaderInv(r)'
    BY <1>10, <1>11, <2>3, <2>4 DEF ReaderInv
  <2>6. QED
    BY <1>1, <1>4, <1>5, <1>9, <2>5, OneReader
<1>15. QED
  BY <1>13, <1>14

(* A stream that closes owes nothing. *)
LEMMA StreamClosed ==
  ASSUME NEW r \in Reader, streams'[r] = Closed PROVE QueueOK(r)' /\ ReplayOK(r)' /\ OwedOK(r)'
<1>1. streams'[r].phase = "away" /\ streams'[r].queue = <<>> /\ streams'[r].replay = {}
  BY DEF Closed
<1>2. QueueOK(r)'
  BY <1>1 DEF QueueOK, Range
<1>3. QED
  BY <1>1, <1>2 DEF ReplayOK, OwedOK, Owing, Phase

LEMMA DisconnectInv ==
  ASSUME EventsInv, NEW r \in Reader, Disconnect(r) PROVE EventsInv'
<1>1. TypeOK /\ TypeOK' /\ ReaderInv(r)
  BY ServeType DEF EventsInv
<1>2. /\ streams' = [streams EXCEPT ![r] = Closed]
      /\ UNCHANGED <<events, inHand, last, got, since, dropped, cut, late>>
  BY DEF Disconnect
<1>3. streams'[r] = Closed /\ \A x \in Reader \ {r} : streams'[x] = streams[x]
  BY <1>1, <1>2 DEF TypeOK
<1>4. PassedOK(r)'
  <2>1. Ids' = Ids /\ \A i \in Ids : Wants(r, i)' = Wants(r, i)
                        /\ (Accounted(r, i) => Accounted(r, i)')
    BY <1>2, SameEvents DEF Accounted, Excused
  <2>2. QED
    BY <1>1, <1>2, <2>1 DEF ReaderInv, PassedOK
<1>5. ReaderInv(r)'
  BY <1>3, <1>4, StreamClosed DEF ReaderInv
<1>6. QED
  BY <1>1, <1>2, <1>3, <1>5, OneReader

(* What was overtaken in an emitter's hand is published no more. *)
LEMMA RestartInv ==
  ASSUME EventsInv, Restart PROVE EventsInv'
<1>1. TypeOK /\ TypeOK'
  BY TypeStep DEF EventsInv, Next
<1>2. /\ streams' = [r \in Reader |-> Closed] /\ inHand' = [e \in Emitter |-> 0]
      /\ late' = late \cup {i \in Unpublished : Overtaken(i)}
      /\ UNCHANGED <<events, last, got, since, dropped, cut>>
  BY DEF Restart
<1>3. OneHand'
  BY <1>2 DEF OneHand
<1>4. ASSUME NEW r \in Reader PROVE ReaderInv(r)'
  <2>1. streams'[r] = Closed /\ ReaderInv(r)
    BY <1>2 DEF EventsInv
  <2>2. Ids' = Ids /\ \A i \in Ids : Wants(r, i)' = Wants(r, i)
    BY <1>2 DEF Ids, Wants
  <2>3. \A i \in Ids : Accounted(r, i) => Accounted(r, i)'
    BY <1>2 DEF Accounted, Excused
  <2>4. PassedOK(r)'
    BY <1>2, <2>1, <2>2, <2>3 DEF ReaderInv, PassedOK
  <2>5. QED
    BY <2>1, <2>4, StreamClosed DEF ReaderInv
<1>5. QED
  BY <1>1, <1>3, <1>4 DEF EventsInv

LEMMA EventsStep ==
  ASSUME EventsInv, [Next]_vars PROVE EventsInv'
<1>1. CASE UNCHANGED vars
  <2>1. TypeOK /\ TypeOK'
    BY TypeStep DEF EventsInv
  <2>2. UNCHANGED <<events, inHand, streams, last, got, since, dropped, cut, late>>
    BY <1>1 DEF vars
  <2>3. OneHand' /\ \A r \in Reader : ReaderInv(r)'
    BY <2>1, <2>2, ReaderKept DEF EventsInv, OneHand
  <2>4. QED
    BY <2>1, <2>3 DEF EventsInv
<1>2. ASSUME NEW e \in Emitter, Emit(e) PROVE EventsInv'
  BY <1>2, InsertInv, PublishInv DEF Emit
<1>3. ASSUME NEW r \in Reader, Serve(r) \/ Disconnect(r) PROVE EventsInv'
  BY <1>3, ConnectInv, ReplayInv, WriteReplayedInv, WriteLiveInv, DisconnectInv DEF Serve
<1>4. QED
  BY <1>1, <1>2, <1>3, RestartInv DEF Next

(* Where every event is that a reader is owed or was carried past.         *)
THEOREM EventsCorrect == Spec => []EventsInv
BY EventsInit, EventsStep, PTL DEF Spec

(* Nothing falls between the replay and the stream: what an open stream    *)
(* owes its reader was shown or is on its way, but for a full queue, a cut *)
(* replay and what a dashboard was carried past.                           *)
THEOREM NothingBetweenCorrect == Spec => []NothingBetween
<1>1. EventsInv => NothingBetween
  BY DEF EventsInv, ReaderInv, OwedOK, Owing, Owed, OnItsWay, NothingBetween
<1>2. QED
  BY <1>1, EventsCorrect, PTL

(* What a dashboard was carried past was shown to it, or is still to be    *)
(* published, or was lost in one of three ways, whatever the breaks and    *)
(* the restarts.                                                           *)
THEOREM PassedCorrect == Spec => []PassedWasShown
<1>1. EventsInv => PassedWasShown
  BY DEF EventsInv, ReaderInv, PassedOK, Accounted, PassedWasShown, Reader
<1>2. QED
  BY <1>1, EventsCorrect, PTL
=============================================================================
