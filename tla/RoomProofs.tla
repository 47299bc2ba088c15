----------------------------- MODULE RoomProofs -----------------------------
(***************************************************************************)
(* The room's invariants for any agents, hooks, ids and limit.             *)
(*                                                                         *)
(* The argument: what is in the table when MAX(id) is selected was there   *)
(* when the context was read, and then it was shown, below the mark or cut *)
(* off by LIMIT; or it has come since, and then it is in missed.           *)
(***************************************************************************)
EXTENDS Room, TLAPS

USE RoomNames

(* Ids, and the mark of an agent that has none, are numbers. *)
LEMMA IdsAreNumbers == \A x \in Id \cup {0} : x \in Nat /\ x <= x
BY RoomNumbers

USE IdsAreNumbers

(* The three states of a message differ. *)
LEMMA StatesDiffer ==
  /\ Deleted # Unborn
  /\ \A w : Row(w) # Unborn
  /\ \A m \in Id : Posted(m) => messages[m] # Unborn
BY DEF Row, Unborn, Deleted, Posted

(* The mark of room_reads never goes back. *)
LEMMA LaterGrows ==
  ASSUME NEW x \in Id \cup {0}, NEW y \in Id \cup {0}
  PROVE  /\ Later(x, y) \in Id \cup {0}
         /\ \A m \in Nat : m <= Later(x, y) <=> m <= x \/ m <= y
BY DEF Later

(* An empty room satisfies the invariant. *)
LEMMA InitInv == Init => IInv
<1> SUFFICES ASSUME Init PROVE IInv
  OBVIOUS
<1>1. TypeOK
  BY DEF Init, TypeOK, HookType, NoHook, Unborn, Author
<1>2. PostsFresh /\ MarkedKnown
  BY DEF Init, PostsFresh, MarkedKnown
<1>3. \A h \in Hook : HookInv(h)
  BY DEF Init, HookInv, NoHook, At
<1>4. NoRepeat
  BY DEF Init, NoRepeat
<1>5. LostBehindOnly
  BY DEF Init, LostBehindOnly, Others, Posted, Unborn
<1> QED
  BY <1>1, <1>2, <1>3, <1>4, <1>5 DEF IInv

(* Drawing an id disturbs only posting. *)
LEMMA DrawInv == ASSUME IInv, NEW w \in Author, DrawId(w) PROVE IInv'
<1>1. PICK id \in Id :
        /\ messages[id] = Unborn
        /\ \A p \in posting : p.id # id
        /\ posting' = posting \cup {[id |-> id, by |-> w]}
  BY DEF DrawId
<1>2. UNCHANGED <<messages, seen, hooks, shown, marked, missed>>
  BY DEF DrawId
<1>3. TypeOK'
  BY <1>1, <1>2 DEF IInv, TypeOK
<1>4. PostsFresh'
  BY <1>1, <1>2 DEF IInv, PostsFresh, Unborn
<1>5. (\A h \in Hook : HookInv(h))'
  BY <1>2 DEF IInv, HookInv, At, Others, Posted, Unborn
<1>6. MarkedKnown' /\ NoRepeat' /\ LostBehindOnly'
  BY <1>2 DEF IInv, MarkedKnown, NoRepeat, LostBehindOnly, Unread, Others, Posted, Unborn
<1> QED
  BY <1>3, <1>4, <1>5, <1>6 DEF IInv

(* A message that comes is known to nobody, and missed where it comes      *)
(* behind a mark.                                                          *)
LEMMA InsertInv == ASSUME IInv, NEW p \in posting, InsertMessage(p) PROVE IInv'
<1>1. /\ messages' = [messages EXCEPT ![p.id] = Row(p.by)]
      /\ posting' = posting \ {p}
      /\ missed' = [a \in Agent |-> IF Behind(a, p.id) THEN missed[a] \cup {p.id} ELSE missed[a]]
      /\ UNCHANGED <<seen, hooks, shown, marked>>
  BY DEF InsertMessage
<1>2. p.id \in Id /\ p.by \in Author /\ messages[p.id] = Unborn
  BY DEF IInv, TypeOK, PostsFresh
<1>3. /\ \A m \in Id : messages'[m] = IF m = p.id THEN Row(p.by) ELSE messages[m]
      /\ \A m \in Id : messages[m] # Unborn => m # p.id /\ messages'[m] # Unborn
      /\ \A a \in Agent : Others(a)' \subseteq Others(a) \cup {p.id}
  BY <1>1, <1>2 DEF IInv, TypeOK, Others, Posted, Unborn
<1>4. \A a \in Agent : /\ missed[a] \subseteq missed'[a]
                       /\ Behind(a, p.id) => p.id \in missed'[a]
  BY <1>1
<1>5. TypeOK'
  <2>1. messages' \in [Id -> [by: Author, state: {"unborn", "posted", "deleted"}]]
    BY <1>1, <1>2 DEF IInv, TypeOK, Row
  <2>2. missed' \in [Agent -> SUBSET Id]
    BY <1>1, <1>2 DEF IInv, TypeOK
  <2> QED
    BY <1>1, <2>1, <2>2 DEF IInv, TypeOK
<1>6. PostsFresh'
  <2> SUFFICES ASSUME NEW q \in posting, q # p
               PROVE  messages'[q.id] = Unborn
    BY <1>1 DEF IInv, PostsFresh, Unborn
  <2>1. q.id # p.id
    BY DEF IInv, PostsFresh
  <2> QED
    BY <1>3, <2>1 DEF IInv, TypeOK, PostsFresh
<1>7. ASSUME NEW h \in Hook PROVE HookInv(h)'
  <2> DEFINE c == hooks[h]
  <2>1. c' = c /\ c \in HookType /\ HookInv(h)
    BY <1>1 DEF IInv, TypeOK
  <2>2. CASE At(h, "idle")
    BY <1>1, <2>1, <2>2 DEF HookInv, HookType, At
  <2>3. CASE ~At(h, "idle")
    <3>1. c.agent \in Agent /\ c.rows \subseteq Id
      BY <2>1, <2>3 DEF HookType, At
    <3>6. c.agent' = c.agent /\ c.rows' = c.rows /\ c.newest' = c.newest /\ c.after' = c.after
      BY <2>1
    <3>2. \A m \in c.rows : m # p.id /\ messages'[m] # Unborn
      BY <1>3, <2>1, <3>1 DEF HookInv
    <3>3. c.after <= seen'[c.agent]
      BY <1>1, <2>1, <2>3 DEF HookInv
    <3>4. ASSUME At(h, "newest")
          PROVE  Others(c.agent)' \subseteq shown'[c.agent] \cup missed'[c.agent]
      <4>1. Behind(c.agent, p.id)
        BY <3>4 DEF Behind, BehindHook
      <4> QED
        BY <1>1, <1>3, <1>4, <2>1, <3>1, <3>4, <4>1 DEF HookInv
    <3>5. ASSUME At(h, "upsert"), NEW m \in Others(c.agent)'
          PROVE  /\ m \in c.rows => m <= c.newest
                 /\ m <= c.newest => m \in shown'[c.agent] \cup missed'[c.agent]
      <4>1. CASE m = p.id
        <5>1. m <= c.newest => Behind(c.agent, p.id)
          BY <3>5, <4>1 DEF Behind, BehindHook
        <5> QED
          BY <1>4, <3>1, <3>2, <4>1, <5>1
      <4>2. CASE m # p.id
        <5>1. m \in Others(c.agent)
          BY <1>3, <3>5, <3>6, <4>2 DEF Others, Posted
        <5> QED
          BY <1>1, <1>4, <2>1, <3>1, <3>5, <5>1 DEF HookInv
      <4> QED
        BY <4>1, <4>2
    <3> QED
      BY <1>1, <3>2, <3>3, <3>4, <3>5, <3>6 DEF HookInv, At, Unborn
  <2> QED
    BY <2>2, <2>3
<1>8. MarkedKnown'
  BY <1>1, <1>3 DEF IInv, TypeOK, MarkedKnown, Unborn
<1>9. NoRepeat'
  <2> SUFFICES ASSUME NEW a \in Agent, NEW m \in Unread(a, seen[a])', m \in marked[a]
               PROVE  FALSE
    BY <1>1 DEF NoRepeat
  <2>1. m # p.id
    BY <1>2 DEF IInv, MarkedKnown
  <2>2. m \in Unread(a, seen[a])
    BY <1>1, <1>3, <2>1 DEF Unread
  <2> QED
    BY <2>2 DEF IInv, NoRepeat
<1>10. LostBehindOnly'
  <2> SUFFICES ASSUME NEW a \in Agent, NEW m \in Others(a)', m <= seen[a]
               PROVE  m \in shown[a] \cup missed'[a]
    BY <1>1 DEF LostBehindOnly
  <2>1. CASE m = p.id
    BY <1>4, <2>1 DEF Behind
  <2>2. CASE m # p.id
    BY <1>3, <1>4, <2>2 DEF IInv, LostBehindOnly
  <2> QED
    BY <2>1, <2>2
<1> QED
  BY <1>5, <1>6, <1>7, <1>8, <1>9, <1>10 DEF IInv

(* A deleted message is nobody's to be shown. *)
LEMMA DeleteInv == ASSUME IInv, NEW S \in SUBSET Id, DeleteMessage(S) PROVE IInv'
<1>1. /\ messages' = [m \in Id |-> IF m \in S THEN Deleted ELSE messages[m]]
      /\ \A m \in S : Posted(m)
      /\ UNCHANGED <<posting, seen, hooks, shown, marked, missed>>
  BY DEF DeleteMessage
<1>2. /\ \A m \in Id : messages[m] = Unborn <=> messages'[m] = Unborn
      /\ \A m \in Id : messages'[m] # Deleted => messages'[m] = messages[m]
  BY <1>1, StatesDiffer
<1>3. \A m \in Id : Posted(m)' => messages'[m] = messages[m] /\ Posted(m)
  <2> SUFFICES ASSUME NEW m \in Id, messages'[m].state = "posted"
               PROVE  messages'[m] = messages[m] /\ Posted(m)
    BY DEF Posted
  <2>1. messages'[m] # Deleted
    BY DEF Deleted
  <2> QED
    BY <1>2, <2>1 DEF Posted
<1>4. TypeOK'
  BY <1>1 DEF IInv, TypeOK, Deleted, Author
<1>5. PostsFresh'
  BY <1>1, <1>2 DEF IInv, TypeOK, PostsFresh, Unborn
<1>6. ASSUME NEW h \in Hook PROVE HookInv(h)'
  <2>1. hooks[h] \in HookType /\ HookInv(h)
    BY DEF IInv, TypeOK
  <2>2. hooks[h].rows \subseteq Id
    BY <2>1 DEF HookType
  <2>3. Others(hooks[h].agent)' \subseteq Others(hooks[h].agent)
    BY <1>1, <1>3 DEF Others
  <2> QED
    BY <1>1, <1>2, <2>1, <2>2, <2>3 DEF HookInv, At, Unborn
<1>7. MarkedKnown'
  BY <1>1, <1>2 DEF IInv, TypeOK, MarkedKnown, Unborn
<1>8. \A a \in Agent : Others(a)' \subseteq Others(a)
  BY <1>3 DEF Others
<1>9. NoRepeat' /\ LostBehindOnly'
  BY <1>1, <1>8 DEF IInv, NoRepeat, LostBehindOnly, Unread
<1> QED
  BY <1>4, <1>5, <1>6, <1>7, <1>9 DEF IInv

(* A hook's own steps leave the other hooks' parts of the invariant alone. *)
LEMMA OtherHooks ==
  ASSUME IInv, NEW h \in Hook, NEW g \in Hook, g # h, hooks'[g] = hooks[g],
         UNCHANGED messages,
         \A a \in Agent : /\ \A n \in Nat : n <= seen[a] => n <= seen'[a]
                          /\ shown[a] \subseteq shown'[a] /\ missed[a] \subseteq missed'[a],
         seen' \in [Agent -> Id \cup {0}]
  PROVE  HookInv(g)'
<1>1. hooks[g] \in HookType /\ HookInv(g)
  BY DEF IInv, TypeOK
<1>2. CASE At(g, "idle")
  BY <1>1, <1>2 DEF HookInv, HookType, At
<1>3. CASE ~At(g, "idle")
  <2>1. hooks[g].agent \in Agent /\ hooks[g].after \in Id \cup {0}
    BY <1>1, <1>3 DEF HookType, At
  <2>2. hooks[g].after \in Nat
    BY <2>1
  <2>3. Others(hooks[g].agent)' = Others(hooks[g].agent)
    BY DEF Others, Posted
  <2> QED
    BY <1>1, <1>3, <2>1, <2>2, <2>3 DEF HookInv, At, Unborn
<1> QED
  BY <1>2, <1>3

(* A hook that ends, or has ended, promises nothing. *)
LEMMA IdleHook == ASSUME NEW h \in Hook, hooks'[h] = NoHook PROVE HookInv(h)'
BY DEF HookInv, NoHook, At

LEMMA ContextInv == ASSUME IInv, NEW h \in Hook, NEW a \in Agent, CallContext(h, a) PROVE IInv'
<1>1. /\ hooks' = [hooks EXCEPT ![h] = [pc |-> "unread", agent |-> a, after |-> seen[a],
                                       rows |-> {}, newest |-> 0]]
      /\ UNCHANGED <<messages, posting, seen, shown, marked, missed>>
  BY DEF CallContext
<1>2. seen[a] \in Id \cup {0} /\ seen[a] <= seen[a]
  BY DEF IInv, TypeOK
<1>3. TypeOK'
  BY <1>1, <1>2 DEF IInv, TypeOK, HookType, HookPC
<1>4. HookInv(h)'
  <2>1. hooks'[h] = [pc |-> "unread", agent |-> a, after |-> seen[a], rows |-> {}, newest |-> 0]
    BY <1>1 DEF IInv, TypeOK
  <2> QED
    BY <1>1, <1>2, <2>1 DEF HookInv, At
<1>5. \A g \in Hook : g # h => HookInv(g)'
  BY <1>1, OtherHooks DEF IInv, TypeOK
<1>6. (PostsFresh /\ MarkedKnown /\ NoRepeat /\ LostBehindOnly)'
  BY <1>1 DEF IInv, PostsFresh, MarkedKnown, NoRepeat, LostBehindOnly, Unread, Others, Posted, Unborn
<1> QED
  BY <1>3, <1>4, <1>5, <1>6 DEF IInv

(* After the context, what is in the table was shown, is below the mark or *)
(* was cut off.                                                            *)
LEMMA ShowInv == ASSUME IInv, NEW h \in Hook, ShowUnread(h) PROVE IInv'
<1> DEFINE a == hooks[h].agent
           U == Unread(a, hooks[h].after)
<1>1. /\ At(h, "unread")
      /\ UNCHANGED <<messages, posting, seen, marked>>
  BY DEF ShowUnread
<1>2. PICK R \in SUBSET U :
        /\ hooks' = [hooks EXCEPT ![h] = [@ EXCEPT !.pc = "newest", !.rows = R]]
        /\ shown' = [shown EXCEPT ![a] = @ \cup R]
        /\ missed' = [missed EXCEPT ![a] = @ \cup (U \ R)]
  BY DEF ShowUnread
<1>3. /\ hooks[h] \in HookType /\ a \in Agent /\ HookInv(h)
      /\ hooks[h].after \in Id \cup {0} /\ hooks[h].after <= seen[a]
      /\ hooks[h].newest \in Id \cup {0}
  BY <1>1 DEF IInv, TypeOK, HookType, HookInv, At
<1>4. U \subseteq Others(a) /\ Others(a) \subseteq Id
  BY DEF Unread, Others
<1>5. hooks'[h] = [hooks[h] EXCEPT !.pc = "newest", !.rows = R]
  BY <1>2 DEF IInv, TypeOK
<1>6. hooks'[h] \in HookType
  <2>1. hooks[h] \in [pc: HookPC \ {"idle"}, agent: Agent, after: Id \cup {0},
                      rows: SUBSET Id, newest: Id \cup {0}]
    BY <1>1, <1>3 DEF HookType, At
  <2>2. "newest" \in HookPC \ {"idle"} /\ R \in SUBSET Id
    BY <1>4 DEF HookPC
  <2> QED
    BY <1>5, <2>1, <2>2 DEF HookType
<1>7. TypeOK'
  BY <1>1, <1>2, <1>3, <1>4, <1>6 DEF IInv, TypeOK
<1>8. shown'[a] = shown[a] \cup R /\ missed'[a] = missed[a] \cup (U \ R)
  BY <1>2, <1>3 DEF IInv, TypeOK
<1>9. \A b \in Agent : shown[b] \subseteq shown'[b] /\ missed[b] \subseteq missed'[b]
  BY <1>2 DEF IInv, TypeOK
<1>10. Others(a) \subseteq shown'[a] \cup missed'[a]
  <2> SUFFICES ASSUME NEW m \in Others(a) PROVE m \in shown'[a] \cup missed'[a]
    OBVIOUS
  <2>1. CASE m \in U
    BY <1>8, <2>1
  <2>2. CASE m \notin U
    <3>1. m \in Nat /\ hooks[h].after \in Nat /\ seen[a] \in Nat
      BY <1>3, <1>4 DEF IInv, TypeOK
    <3>2. ~(m > hooks[h].after)
      BY <2>2 DEF Unread
    <3>3. m <= seen[a]
      BY <1>3, <3>1, <3>2
    <3> QED
      BY <1>3, <1>9, <3>3 DEF IInv, LostBehindOnly
  <2> QED
    BY <2>1, <2>2
<1>11. HookInv(h)'
  <2>1. hooks'[h].agent = a /\ hooks'[h].rows = R /\ hooks'[h].pc = "newest"
        /\ hooks'[h].after = hooks[h].after
    BY <1>3, <1>5 DEF HookType
  <2>2. \A m \in R : messages[m] # Unborn
    BY <1>4, StatesDiffer DEF Others
  <2>3. Others(hooks[h].agent)' = Others(a)
    BY <1>1, <2>1 DEF Others, Posted
  <2> QED
    BY <1>1, <1>3, <1>10, <2>1, <2>2, <2>3 DEF HookInv, At, Unborn
<1>12. \A g \in Hook : g # h => HookInv(g)'
  BY <1>1, <1>2, <1>9, OtherHooks DEF IInv, TypeOK
<1>13. (PostsFresh /\ MarkedKnown /\ NoRepeat)'
  BY <1>1 DEF IInv, PostsFresh, MarkedKnown, NoRepeat, Unread, Others, Posted, Unborn
<1>14. LostBehindOnly'
  BY <1>1, <1>9 DEF IInv, LostBehindOnly, Others, Posted
<1> QED
  BY <1>7, <1>11, <1>12, <1>13, <1>14 DEF IInv

(* MAX(id) is not below what is in the table. *)
LEMMA SelectInv == ASSUME IInv, NEW h \in Hook, SelectNewest(h) PROVE IInv'
<1> DEFINE a == hooks[h].agent
<1>1. /\ At(h, "newest")
      /\ UNCHANGED <<messages, posting, seen, shown, marked, missed>>
  BY DEF SelectNewest
<1>2. PICK n \in Id \cup {0} :
        /\ Newest(n)
        /\ hooks' = [hooks EXCEPT ![h] = [@ EXCEPT !.pc = "upsert", !.newest = n]]
  BY DEF SelectNewest
<1>3. hooks'[h] = [hooks[h] EXCEPT !.pc = "upsert", !.newest = n]
  BY <1>2 DEF IInv, TypeOK
<1>4. /\ hooks[h] \in [pc: HookPC \ {"idle"}, agent: Agent, after: Id \cup {0},
                       rows: SUBSET Id, newest: Id \cup {0}]
      /\ HookInv(h)
  BY <1>1 DEF IInv, TypeOK, HookType, At
<1>5. hooks'[h] \in HookType
  BY <1>3, <1>4 DEF HookType, HookPC
<1>6. TypeOK'
  BY <1>1, <1>2, <1>5 DEF IInv, TypeOK
<1>7. HookInv(h)'
  <2>1. /\ hooks'[h].agent = a /\ hooks'[h].rows = hooks[h].rows /\ hooks'[h].pc = "upsert"
        /\ hooks'[h].after = hooks[h].after /\ hooks'[h].newest = n
    BY <1>3, <1>4
  <2>2. Others(hooks[h].agent)' = Others(a)
    BY <1>1, <2>1 DEF Others, Posted
  <2>3. Others(a) \subseteq shown[a] \cup missed[a]
    BY <1>1, <1>4 DEF HookInv
  <2>4. \A m \in Others(a) : m <= n
    BY <1>2 DEF Newest, Others
  <2>5. \A m \in hooks[h].rows : messages[m] # Unborn
    BY <1>4 DEF HookInv
  <2>6. hooks[h].after <= seen[a]
    BY <1>1, <1>4 DEF HookInv, At
  <2> QED
    BY <1>1, <2>1, <2>2, <2>3, <2>4, <2>5, <2>6 DEF HookInv, At, Unborn
<1>8. \A g \in Hook : g # h => HookInv(g)'
  BY <1>1, <1>2, OtherHooks DEF IInv, TypeOK
<1>9. (PostsFresh /\ MarkedKnown /\ NoRepeat /\ LostBehindOnly)'
  BY <1>1 DEF IInv, PostsFresh, MarkedKnown, NoRepeat, LostBehindOnly, Unread, Others, Posted, Unborn
<1> QED
  BY <1>6, <1>7, <1>8, <1>9 DEF IInv

(* The mark covers what the hook has shown, and nothing that is neither    *)
(* shown nor missed.                                                       *)
LEMMA UpsertInv == ASSUME IInv, NEW h \in Hook, UpsertMark(h) PROVE IInv'
<1> DEFINE c == hooks[h]
           a == c.agent
<1>1. /\ At(h, "upsert")
      /\ seen' = [seen EXCEPT ![a] = Later(@, c.newest)]
      /\ marked' = [marked EXCEPT ![a] = @ \cup c.rows]
      /\ hooks' = [hooks EXCEPT ![h] = NoHook]
      /\ UNCHANGED <<messages, posting, shown, missed>>
  BY DEF UpsertMark, Done
<1>2. /\ c \in HookType /\ a \in Agent /\ c.rows \subseteq Id
      /\ c.newest \in Id \cup {0} /\ HookInv(h)
  BY <1>1 DEF IInv, TypeOK, HookType, At
<1>3. seen[a] \in Id \cup {0} /\ seen'[a] = Later(seen[a], c.newest)
  BY <1>1, <1>2 DEF IInv, TypeOK
<1>4. /\ seen'[a] \in Id \cup {0}
      /\ \A m \in Nat : m <= seen'[a] <=> m <= seen[a] \/ m <= c.newest
  BY <1>2, <1>3, LaterGrows
<1>5. \A b \in Agent : b # a => seen'[b] = seen[b] /\ marked'[b] = marked[b]
  BY <1>1 DEF IInv, TypeOK
<1>6. marked'[a] = marked[a] \cup c.rows
  BY <1>1, <1>2 DEF IInv, TypeOK
<1>7. TypeOK'
  <2>1. NoHook \in HookType
    BY DEF NoHook, HookType
  <2>2. seen' \in [Agent -> Id \cup {0}]
    BY <1>1, <1>3, <1>4 DEF IInv, TypeOK
  <2>3. marked' \in [Agent -> SUBSET Id]
    BY <1>1, <1>2 DEF IInv, TypeOK
  <2> QED
    BY <1>1, <2>1, <2>2, <2>3 DEF IInv, TypeOK
<1>8. HookInv(h)'
  BY <1>1, IdleHook DEF IInv, TypeOK
<1>9. ASSUME NEW g \in Hook, g # h PROVE HookInv(g)'
  <2>1. \A b \in Agent : \A n \in Nat : n <= seen[b] => n <= seen'[b]
    BY <1>4, <1>5
  <2>2. seen' \in [Agent -> Id \cup {0}]
    BY <1>7 DEF TypeOK
  <2>3. hooks'[g] = hooks[g]
    BY <1>1, <1>9 DEF IInv, TypeOK
  <2> QED
    BY <1>1, <1>9, <2>1, <2>2, <2>3, OtherHooks
<1>10. PostsFresh'
  BY <1>1 DEF IInv, PostsFresh, Unborn
<1>11. MarkedKnown'
  BY <1>1, <1>2, <1>5, <1>6 DEF IInv, MarkedKnown, HookInv, Unborn
<1>12. \A b \in Agent : Others(b)' = Others(b)
  BY <1>1 DEF Others, Posted
<1>13. \A b \in Agent : Others(b) \subseteq Id
  BY DEF Others
<1>14. NoRepeat'
  <2> SUFFICES ASSUME NEW b \in Agent, NEW m \in Unread(b, seen[b])', m \in marked'[b]
               PROVE  FALSE
    BY DEF NoRepeat
  <2>1. m \in Others(b) /\ m \in Nat /\ ~(m <= seen'[b])
    <3>1. m \in Others(b) /\ m > seen'[b]
      BY <1>12 DEF Unread
    <3>2. m \in Nat /\ seen'[b] \in Nat
      BY <1>7, <1>13, <3>1 DEF TypeOK
    <3> QED
      BY <3>1, <3>2
  <2>2. CASE m \in marked[b]
    <3>1. m \notin Unread(b, seen[b])
      BY <2>2 DEF IInv, NoRepeat
    <3>2. seen[b] \in Nat
      BY DEF IInv, TypeOK
    <3>3. m <= seen[b]
      BY <2>1, <3>1, <3>2 DEF Unread
    <3> QED
      BY <1>4, <1>5, <2>1, <3>3
  <2>3. CASE m \notin marked[b]
    <3>1. b = a /\ m \in c.rows
      BY <1>5, <1>6, <2>3
    <3>2. m <= c.newest
      BY <1>1, <1>2, <2>1, <3>1 DEF HookInv
    <3> QED
      BY <1>4, <2>1, <3>1, <3>2
  <2> QED
    BY <2>2, <2>3
<1>15. LostBehindOnly'
  <2> SUFFICES ASSUME NEW b \in Agent, NEW m \in Others(b), m <= seen'[b]
               PROVE  m \in shown[b] \cup missed[b]
    BY <1>1, <1>12 DEF LostBehindOnly
  <2>1. CASE m <= seen[b]
    BY <2>1 DEF IInv, LostBehindOnly
  <2>2. CASE ~(m <= seen[b])
    <3>1. b = a /\ m <= c.newest
      BY <1>4, <1>5, <1>13, <2>2
    <3> QED
      BY <1>1, <1>2, <3>1 DEF HookInv
  <2> QED
    BY <2>1, <2>2
<1> QED
  BY <1>7, <1>8, <1>9, <1>10, <1>11, <1>14, <1>15 DEF IInv

(* A hook that dies has marked nothing. *)
LEMMA DiesInv == ASSUME IInv, NEW h \in Hook, HookDies(h) PROVE IInv'
<1>1. /\ hooks' = [hooks EXCEPT ![h] = NoHook]
      /\ UNCHANGED <<messages, posting, seen, shown, marked, missed>>
  BY DEF HookDies, Done
<1>2. TypeOK'
  BY <1>1 DEF IInv, TypeOK, HookType, NoHook
<1>3. HookInv(h)'
  BY <1>1, IdleHook DEF IInv, TypeOK
<1>4. \A g \in Hook : g # h => HookInv(g)'
  BY <1>1, OtherHooks DEF IInv, TypeOK
<1>5. (PostsFresh /\ MarkedKnown /\ NoRepeat /\ LostBehindOnly)'
  BY <1>1 DEF IInv, PostsFresh, MarkedKnown, NoRepeat, LostBehindOnly, Unread, Others, Posted, Unborn
<1> QED
  BY <1>2, <1>3, <1>4, <1>5 DEF IInv

(* A restart leaves the two tables. *)
LEMMA RestartInv == ASSUME IInv, Restart PROVE IInv'
<1>1. /\ posting' = {}
      /\ hooks' = [h \in Hook |-> NoHook]
      /\ UNCHANGED <<messages, seen, shown, marked, missed>>
  BY DEF Restart
<1>2. TypeOK'
  BY <1>1 DEF IInv, TypeOK, HookType, NoHook
<1>3. (\A h \in Hook : HookInv(h))'
  BY <1>1 DEF HookInv, NoHook, At
<1>4. (PostsFresh /\ MarkedKnown /\ NoRepeat /\ LostBehindOnly)'
  BY <1>1 DEF IInv, PostsFresh, MarkedKnown, NoRepeat, LostBehindOnly, Unread, Others, Posted, Unborn
<1> QED
  BY <1>2, <1>3, <1>4 DEF IInv

(* Every step keeps the invariant. *)
LEMMA StepInv == IInv /\ [Next]_vars => IInv'
<1> SUFFICES ASSUME IInv, [Next]_vars PROVE IInv'
  OBVIOUS
<1>1. ASSUME NEW w \in Author, DrawId(w) PROVE IInv'
  BY <1>1, DrawInv
<1>2. ASSUME NEW p \in posting, InsertMessage(p) PROVE IInv'
  BY <1>2, InsertInv
<1>3. ASSUME NEW S \in SUBSET Id, DeleteMessage(S) PROVE IInv'
  BY <1>3, DeleteInv
<1>4. ASSUME NEW h \in Hook, NEW a \in Agent, CallContext(h, a) PROVE IInv'
  BY <1>4, ContextInv
<1>5. ASSUME NEW h \in Hook, ShowUnread(h) PROVE IInv'
  BY <1>5, ShowInv
<1>6. ASSUME NEW h \in Hook, SelectNewest(h) PROVE IInv'
  BY <1>6, SelectInv
<1>7. ASSUME NEW h \in Hook, UpsertMark(h) PROVE IInv'
  BY <1>7, UpsertInv
<1>8. ASSUME NEW h \in Hook, HookDies(h) PROVE IInv'
  BY <1>8, DiesInv
<1>9. CASE Restart
  BY <1>9, RestartInv
<1>10. CASE UNCHANGED vars
  BY <1>10 DEF vars, IInv, TypeOK, HookInv, At, PostsFresh, MarkedKnown, NoRepeat,
               LostBehindOnly, Unread, Others, Posted, Unborn
<1> QED
  BY <1>1, <1>2, <1>3, <1>4, <1>5, <1>6, <1>7, <1>8, <1>9, <1>10 DEF Next, Run

(* The inductive invariant: what a hook between its two requests keeps,    *)
(* whatever is posted, deleted or marked meanwhile.                        *)
THEOREM RoomInvCorrect == Spec => []IInv
<1>1. Init => IInv
  BY InitInv
<1>2. IInv /\ [Next]_vars => IInv'
  BY StepInv
<1> QED
  BY <1>1, <1>2, PTL DEF Spec

(* UnreadFor and MarkRoomRead: what an agent was shown and marked as read  *)
(* is not shown to it as unread again.                                     *)
THEOREM NoRepeatCorrect == Spec => []NoRepeat
<1>1. IInv => NoRepeat
  BY DEF IInv
<1> QED
  BY <1>1, RoomInvCorrect, PTL

(* A message is lost to an agent only behind its back: inserted between    *)
(* the context and the mark or with an id below the mark, or cut off.      *)
THEOREM LostBehindCorrect == Spec => []LostBehindOnly
<1>1. IInv => LostBehindOnly
  BY DEF IInv
<1> QED
  BY <1>1, RoomInvCorrect, PTL

(* MarkRoomRead with its MAX: a mark, once set, is never taken back.       *)
THEOREM MarkOnlyGrows == Spec => [][\A a \in Agent : seen'[a] >= seen[a]]_vars
<1>1. IInv /\ [Next]_vars => [\A a \in Agent : seen'[a] >= seen[a]]_vars
  <2> SUFFICES ASSUME IInv, Next, NEW a \in Agent PROVE seen'[a] >= seen[a]
    OBVIOUS
  <2>1. seen[a] \in Nat
    BY DEF IInv, TypeOK
  <2>2. ASSUME NEW h \in Hook, UpsertMark(h) PROVE seen'[a] >= seen[a]
    <3>1. ~At(h, "idle") /\ seen' = [seen EXCEPT ![hooks[h].agent] = Later(@, hooks[h].newest)]
      BY <2>2 DEF UpsertMark, At
    <3>2. hooks[h].newest \in Id \cup {0}
      BY <3>1 DEF IInv, TypeOK, HookType, At
    <3>3. Later(seen[a], hooks[h].newest) >= seen[a]
      BY <2>1, <3>2 DEF Later
    <3> QED
      BY <2>1, <3>1, <3>3 DEF IInv, TypeOK
  <2>3. (\A h \in Hook : ~UpsertMark(h)) => seen' = seen
    BY DEF Next, Run, DrawId, InsertMessage, DeleteMessage, CallContext, ShowUnread,
           SelectNewest, HookDies, Restart
  <2> QED
    BY <2>1, <2>2, <2>3
<1> QED
  BY <1>1, RoomInvCorrect, PTL DEF Spec
=============================================================================
