-------------------------------- MODULE Room --------------------------------
(***************************************************************************)
(* The agent room of one project: internal/store/room.go, with the hooks   *)
(* of mode/hook.go that show it to an agent and mark it as read.           *)
(*                                                                         *)
(* A message is its id and its author.  Ids sort in the order they are     *)
(* drawn unless the wall clock is set back; a post draws its id before it  *)
(* waits for the write connection.  Threads, kinds and mentions decide how *)
(* a message is shown, not whether it is; open questions, which are shown  *)
(* again until they are resolved, are left out.                            *)
(***************************************************************************)
EXTENDS Naturals, FiniteSets

CONSTANTS
  Agent,     \* agent names
  Human,     \* HumanAuthor
  Hook,      \* runs of the session start and prompt hooks
  Id,        \* what NewID returns, in the order of the strings
  Limit      \* unread messages in one context: 12

ASSUME RoomNames == Human \notin Agent
ASSUME RoomNumbers == Id \subseteq Nat \ {0} /\ Limit \in Nat \ {0}

VARIABLES
  messages,  \* the table messages: authors by id
  posting,   \* calls of PostMessage between NewID and INSERT
  seen,      \* room_reads.last_seen, 0 for none
  hooks,     \* the hooks that run
  shown,     \* history: messages each agent was shown
  marked,    \* history: those shown by hooks that went on to mark them
  missed     \* history: messages that came behind a reader's back

vars == <<messages, posting, seen, hooks, shown, marked, missed>>
-----------------------------------------------------------------------------
Author == Agent \cup {Human}
Row(w)  == [by |-> w, state |-> "posted"]
Unborn  == [by |-> Human, state |-> "unborn"]
Deleted == [by |-> Human, state |-> "deleted"]

Posted(m) == messages[m].state = "posted"

(* What agents other than the author are to be shown. *)
Others(a) == {m \in Id : Posted(m) /\ messages[m].by # a}

(* Mutant of Unread: authors are compared by author_id, NULL for HUMAN. *)
UnreadByAuthorId(a, after) == {m \in Others(a) : m > after /\ messages[m].by # Human}

Unread(a, after) == {m \in Others(a) : m > after}

(* ORDER BY id LIMIT: R is the beginning of S. *)
Head(R, S) ==
  /\ R \subseteq S
  /\ \A m \in R, n \in S \ R : m < n
  /\ IF Cardinality(S) <= Limit THEN R = S ELSE Cardinality(R) = Limit

(* COALESCE(MAX(id), '') *)
Newest(n) ==
  LET P == {m \in Id : Posted(m)} IN
  /\ n \in P \cup {0}
  /\ \A m \in P : m <= n

(* Mutant of Later: the upsert takes the mark that came last. *)
Latest(old, new) == new

(* MAX(room_reads.last_seen, excluded.last_seen) *)
Later(old, new) == IF new > old THEN new ELSE old

HookPC == {"idle", "unread", "newest", "upsert"}
NoHook == [pc |-> "idle", agent |-> Human, after |-> 0, rows |-> {}, newest |-> 0]

At(h, pc) == hooks[h].pc = pc
Done(h) == hooks' = [hooks EXCEPT ![h] = NoHook]

Init ==
  /\ messages = [m \in Id |-> Unborn]
  /\ posting = {}
  /\ seen = [a \in Agent |-> 0]
  /\ hooks = [h \in Hook |-> NoHook]
  /\ shown = [a \in Agent |-> {}]
  /\ marked = [a \in Agent |-> {}]
  /\ missed = [a \in Agent |-> {}]
-----------------------------------------------------------------------------
(* PostMessage: an id that was never used, then the row. *)
DrawId(w) ==
  \E id \in Id :
    /\ messages[id] = Unborn
    /\ \A p \in posting : p.id # id
    /\ posting' = posting \cup {[id |-> id, by |-> w]}
    /\ UNCHANGED <<messages, seen, hooks, shown, marked, missed>>

(* Message m, which comes now, is not in what agent a's hook h has read,   *)
(* and is in what h will mark.                                             *)
BehindHook(h, a, m) ==
  /\ hooks[h].agent = a
  /\ At(h, "newest") \/ (At(h, "upsert") /\ m <= hooks[h].newest)

Behind(a, m) == m <= seen[a] \/ \E h \in Hook : BehindHook(h, a, m)

(* Mutant of InsertMessage: the post is tried again after it succeeded. *)
InsertMessageTwice(p) ==
  /\ messages' = [messages EXCEPT ![p.id] = Row(p.by)]
  /\ missed' = [a \in Agent |-> IF Behind(a, p.id) THEN missed[a] \cup {p.id} ELSE missed[a]]
  /\ UNCHANGED <<seen, posting, hooks, shown, marked>>

InsertMessage(p) ==
  /\ messages' = [messages EXCEPT ![p.id] = Row(p.by)]
  /\ posting' = posting \ {p}
  /\ missed' = [a \in Agent |-> IF Behind(a, p.id) THEN missed[a] \cup {p.id} ELSE missed[a]]
  /\ UNCHANGED <<seen, hooks, shown, marked>>

(* DeleteMessage: S is a message with its replies. *)
DeleteMessage(S) ==
  /\ S # {} /\ \A m \in S : Posted(m)
  /\ messages' = [m \in Id |-> IF m \in S THEN Deleted ELSE messages[m]]
  /\ UNCHANGED <<posting, seen, hooks, shown, marked, missed>>
-----------------------------------------------------------------------------
(* The hook asks for the context, in it for what is unread, shows it, and  *)
(* has the room marked by a second request.                                *)
CallContext(h, a) ==
  /\ At(h, "idle")
  /\ hooks' = [hooks EXCEPT ![h] = [pc |-> "unread", agent |-> a, after |-> seen[a],
                                    rows |-> {}, newest |-> 0]]
  /\ UNCHANGED <<messages, posting, seen, shown, marked, missed>>

ShowUnread(h) ==
  LET a == hooks[h].agent
      U == Unread(a, hooks[h].after)
  IN
  /\ At(h, "unread")
  /\ \E R \in SUBSET U :
       /\ Head(R, U)
       /\ hooks' = [hooks EXCEPT ![h] = [@ EXCEPT !.pc = "newest", !.rows = R]]
       /\ shown' = [shown EXCEPT ![a] = @ \cup R]
       /\ missed' = [missed EXCEPT ![a] = @ \cup (U \ R)]
  /\ UNCHANGED <<messages, posting, seen, marked>>

SelectNewest(h) ==
  /\ At(h, "newest")
  /\ \E n \in Id \cup {0} :
       /\ Newest(n)
       /\ hooks' = [hooks EXCEPT ![h] = [@ EXCEPT !.pc = "upsert", !.newest = n]]
  /\ UNCHANGED <<messages, posting, seen, shown, marked, missed>>

UpsertMark(h) ==
  LET c == hooks[h] IN
  /\ At(h, "upsert")
  /\ seen' = [seen EXCEPT ![c.agent] = Later(@, c.newest)]
  /\ marked' = [marked EXCEPT ![c.agent] = @ \cup c.rows]
  /\ Done(h)
  /\ UNCHANGED <<messages, posting, shown, missed>>

(* A request fails, or the harness kills the hook. *)
HookDies(h) ==
  /\ ~At(h, "idle")
  /\ Done(h)
  /\ UNCHANGED <<messages, posting, seen, shown, marked, missed>>

(* The daemon is started again; its clients get no answer. *)
Restart ==
  /\ posting' = {}
  /\ hooks' = [h \in Hook |-> NoHook]
  /\ UNCHANGED <<messages, seen, shown, marked, missed>>

Run(h) ==
  \/ \E a \in Agent : CallContext(h, a)
  \/ ShowUnread(h) \/ SelectNewest(h) \/ UpsertMark(h) \/ HookDies(h)

Next ==
  \/ \E w \in Author : DrawId(w)
  \/ \E p \in posting : InsertMessage(p)
  \/ \E S \in SUBSET Id : DeleteMessage(S)
  \/ \E h \in Hook : Run(h)
  \/ Restart

Spec == Init /\ [][Next]_vars
-----------------------------------------------------------------------------
HookType ==
  [pc: {"idle"}, agent: {Human}, after: {0}, rows: {{}}, newest: {0}]
  \cup [pc: HookPC \ {"idle"}, agent: Agent, after: Id \cup {0}, rows: SUBSET Id,
        newest: Id \cup {0}]

TypeOK ==
  /\ messages \in [Id -> [by: Author, state: {"unborn", "posted", "deleted"}]]
  /\ posting \subseteq [id: Id, by: Author]
  /\ seen \in [Agent -> Id \cup {0}]
  /\ hooks \in [Hook -> HookType]
  /\ shown \in [Agent -> SUBSET Id]
  /\ marked \in [Agent -> SUBSET Id]
  /\ missed \in [Agent -> SUBSET Id]

(* "do not repeat these messages on its next turn": what an agent was      *)
(* shown and marked as read is unread for no context that starts now,      *)
(* whatever hooks of the agent overlap (MarkRoomRead, UnreadFor).          *)
NoRepeat == \A a \in Agent : Unread(a, seen[a]) \cap marked[a] = {}

(* A message below an agent's mark was shown to it, or came behind its     *)
(* back: inserted between the context and the mark, or with an id below    *)
(* the mark, or left out by LIMIT.  There is no other way to lose one.     *)
LostBehindOnly ==
  \A a \in Agent : \A m \in Others(a) : m <= seen[a] => m \in shown[a] \cup missed[a]

(* "MarkRoomRead records that this agent has been shown the room": no      *)
(* message is marked as read that the agent was not shown.                 *)
NoneSwallowed ==
  \A a \in Agent : \A m \in Others(a) : m <= seen[a] => m \in shown[a]

(* What makes both inductive.  Rows a hook has shown are in the table      *)
(* until they are deleted, so MAX(id) is not below them; what is in the    *)
(* table by then was shown or has come since.                              *)
HookInv(h) ==
  LET c == hooks[h] IN
  /\ ~At(h, "idle") => c.after <= seen[c.agent]
  /\ \A m \in c.rows : messages[m] # Unborn
  /\ At(h, "newest") => Others(c.agent) \subseteq shown[c.agent] \cup missed[c.agent]
  /\ At(h, "upsert") =>
       \A m \in Others(c.agent) :
         /\ m \in c.rows => m <= c.newest
         /\ m <= c.newest => m \in shown[c.agent] \cup missed[c.agent]

MarkedKnown == \A a \in Agent : \A m \in marked[a] : messages[m] # Unborn

(* An id belongs to one post, and to none that has come. *)
PostsFresh ==
  \A p \in posting : /\ messages[p.id] = Unborn
                     /\ \A q \in posting : q.id = p.id => q = p

IInv ==
  /\ TypeOK
  /\ PostsFresh
  /\ \A h \in Hook : HookInv(h)
  /\ MarkedKnown
  /\ NoRepeat
  /\ LostBehindOnly
=============================================================================
