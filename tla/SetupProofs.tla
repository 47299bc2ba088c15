----------------------------- MODULE SetupProofs -----------------------------
(***************************************************************************)
(* What belongs to the user is kept or can be recovered, for any tools,    *)
(* entries and number of runs, whatever the user saves between two steps   *)
(* of a run and wherever a run is killed.  First the types, with what a    *)
(* dry run does; then what holds of one settings file, step by step of the *)
(* run that has it (FileInv); then what holds of AGENTS.md (MdInv).        *)
(***************************************************************************)
EXTENDS Setup, SequenceTheorems, FiniteSetTheorems, WellFoundedInduction, TLAPS

(* Where a run can be, and what it does for a settings file there. *)
MergePlaces == {"read", "stat", "orig", "bak", "fill", "tmp", "tmpfill", "rename"}
AgentPlaces == {"agents", "agentsfill"}
Places == MergePlaces \cup AgentPlaces \cup {"idle", "asking", "step"}

Steps == Range(Todo(Installed, FALSE))
Marks == {"B", "E"}
Paragraph == Range(Text) \cup Marks
Fields == {"at", "todo", "dry", "saw", "orig", "open", "text"}

RunState == [at: Places, todo: Seq(Steps), dry: BOOLEAN, saw: Content, orig: Content,
             open: {"no", "tmp", "file", "gone"}, text: Seq(Paragraph)]

(* A run by itself. *)
RunOK(r) ==
  /\ r \in RunState
  /\ r.at = "idle" <=> r = Idle
  /\ r.open # "no" <=> r.at = "tmpfill"
  /\ r.at \in MergePlaces => r.todo # << >> /\ Head(r.todo).kind = "merge"
  /\ r.at \in AgentPlaces \cup {"step"} => r.todo # << >>
  /\ r.dry => r.at \in {"step", "read"}

HistOK ==
  /\ DOMAIN hist = {"saw", "first", "overlap", "torn", "commented", "kills", "runs", "wrote", "raced", "lost"}
  /\ hist.saw \in [File -> SUBSET Entry] /\ hist.first \in [File -> SUBSET Entry]
  /\ hist.overlap \in SUBSET File /\ hist.torn \in SUBSET File /\ hist.commented \in SUBSET File
  /\ hist.kills \in Nat /\ hist.runs \in Nat /\ hist.wrote \in 0..Len(Text)
  /\ hist.raced \in SUBSET (1..Len(Text)) /\ hist.lost \in BOOLEAN

Typed ==
  /\ files \in [File -> Content] /\ bak \in [File -> Content] /\ tmp \in [File -> Content]
  /\ md \in Seq(Paragraph) /\ HistOK
  /\ run \in [Run -> RunState] /\ \A p \in Run : RunOK(run[p])
-----------------------------------------------------------------------------
(* What a run has to do: the settings files among it are those kept here.  *)
Every == {Merge(f) : f \in {".claude/settings.json", ".mcp.json", ".factory/hooks.json",
                            ".codex/hooks.json", ".gemini/settings.json", ".cursor/mcp.json",
                            "opencode.json", ".copilot/mcp-config.json"}}
         \cup {Write(f) : f \in {".opencode/plugin/succubus.ts", ".agents/skills/succubus/SKILL.md"}}
         \cup {[kind |-> "agents", file |-> "AGENTS.md"]}

LEMMA Joined ==
  ASSUME NEW S, NEW u \in Seq(S), NEW v \in Seq(S)
  PROVE  u \o v \in Seq(S) /\ Len(u \o v) = Len(u) + Len(v)
  OBVIOUS

LEMMA OwnRange == ASSUME NEW S, NEW u \in Seq(S) PROVE u \in Seq(Range(u))
  BY DEF Range

LEMMA ConfiguresEvery == \A t \in Tools : Configures[t] \in Seq(Every)
<1>1. /\ Claude \in Seq(Every) /\ Channels \in Seq(Every)
  BY DEF Claude, Channels, Every
<1>2. /\ Droid \in Seq(Every) /\ Codex \in Seq(Every)
  BY DEF Droid, Codex, Every
<1>3. /\ Gemini \in Seq(Every) /\ Cursor \in Seq(Every)
  BY DEF Gemini, Cursor, Every
<1>4. /\ OpenCode \in Seq(Every) /\ Copilot \in Seq(Every)
  BY DEF OpenCode, Copilot, Every
<1>5. Plugin \in Seq(Every)
  BY DEF Plugin, Every
<1>6. Claude \o Channels \in Seq(Every) /\ OpenCode \o Plugin \in Seq(Every)
  BY <1>1, <1>4, <1>5, Joined
<1>7. /\ Configures["claude"] = Claude \o Channels /\ Configures["droid"] = Droid
      /\ Configures["codex"] = Codex /\ Configures["gemini"] = Gemini /\ Configures["cursor"] = Cursor
      /\ Configures["opencode"] = OpenCode \o Plugin /\ Configures["copilot"] = Copilot
  BY DEF Configures
<1> QED
  BY <1>1, <1>2, <1>3, <1>4, <1>6, <1>7 DEF Tools

LEMMA OfEvery == ASSUME NEW t \in Tools, NEW dry PROVE Of(t, Installed, dry) \in Seq(Every)
  BY ConfiguresEvery DEF Of

LEMMA TodoEvery == ASSUME NEW dry PROVE Todo(Installed, dry) \in Seq(Every) /\ Todo(Installed, dry) # << >>
<1> DEFINE o(t) == Of(t, Installed, dry)
<1>1. /\ o("claude") \in Seq(Every) /\ o("droid") \in Seq(Every) /\ o("codex") \in Seq(Every)
      /\ o("gemini") \in Seq(Every) /\ o("cursor") \in Seq(Every) /\ o("opencode") \in Seq(Every)
      /\ o("copilot") \in Seq(Every)
  BY OfEvery DEF Tools
<1>2. Contract \in Seq(Every) /\ Skill \in Seq(Every) /\ Len(Skill) = 1
  BY DEF Contract, Skill, Every
<1> HIDE DEF o
<1> DEFINE rest == o("claude") \o o("droid") \o o("codex") \o o("gemini") \o o("cursor")
                   \o o("opencode") \o o("copilot") \o Contract
<1>3. rest \in Seq(Every)
  BY <1>1, <1>2
<1>4. Todo(Installed, dry) = rest \o Skill
  BY DEF Todo, o
<1> HIDE DEF rest
<1>5. rest \o Skill \in Seq(Every) /\ Len(rest \o Skill) = Len(rest) + 1
  BY <1>2, <1>3, Joined
<1>6. rest \o Skill # << >>
  BY <1>3, <1>5
<1> QED
  BY <1>4, <1>5, <1>6

(* No tool that is installed is skipped, so a dry run has the same to do.  *)
LEMMA TodoDry == ASSUME NEW dry PROVE Todo(Installed, dry) = Todo(Installed, FALSE)
<1>1. \A t \in Tools : Of(t, Installed, dry) = Of(t, Installed, FALSE)
  BY DEF Of, Skipped
<1> QED
  BY <1>1 DEF Todo, Tools

LEMMA TodoSteps ==
  ASSUME NEW dry
  PROVE  Todo(Installed, dry) \in Seq(Steps) /\ Todo(Installed, dry) # << >>
  BY TodoEvery, TodoDry, OwnRange DEF Steps

(* What is left. *)
LEMMA Rest ==
  ASSUME NEW u \in Seq(Steps), u # << >>
  PROVE  Head(u) \in Steps /\ Tail(u) \in Seq(Steps)
  OBVIOUS

LEMMA MergeFile == ASSUME NEW s \in Steps, s.kind = "merge" PROVE s.file \in File
  BY DEF Steps, File

LEMMA Blank ==
  /\ Absent \in Content /\ Torn \in Content
  /\ Absent.there = FALSE /\ Absent.user = {} /\ Absent.ours = 0 /\ Absent.form = "json"
  /\ Torn.there = TRUE /\ Torn.user = {} /\ Torn.ours = 0 /\ Torn.form = "torn"
  BY DEF Absent, Torn, Content

LEMMA RunRecord ==
  ASSUME NEW d, DOMAIN d = Fields, d = [x \in DOMAIN d |-> d[x]],
         d.at \in Places, d.todo \in Seq(Steps), d.dry \in BOOLEAN, d.saw \in Content,
         d.orig \in Content, d.open \in {"no", "tmp", "file", "gone"}, d.text \in Seq(Paragraph)
  PROVE  d \in RunState
  BY DEF RunState, Fields

LEMMA IdleOK ==
  /\ RunOK(Idle) /\ Idle.at = "idle" /\ Idle.open = "no" /\ Idle.dry = FALSE
  /\ Idle.todo = << >> /\ Idle.text = << >> /\ Idle.saw = Absent
<1>1. /\ Idle.at = "idle" /\ Idle.open = "no" /\ Idle.dry = FALSE
      /\ Idle.todo = << >> /\ Idle.text = << >> /\ Idle.saw = Absent /\ Idle.orig = Absent
  BY DEF Idle
<1>2. DOMAIN Idle = Fields /\ Idle = [x \in DOMAIN Idle |-> Idle[x]]
  BY DEF Idle, Fields
<1>3. Idle.at \in Places /\ Idle.todo \in Seq(Steps) /\ Idle.text \in Seq(Paragraph)
  BY <1>1 DEF Places
<1>4. Idle \in RunState
  BY <1>1, <1>2, <1>3, Blank, RunRecord
<1> QED
  BY <1>1, <1>4 DEF RunOK, MergePlaces, AgentPlaces

-----------------------------------------------------------------------------
(* The steps of a run, as what becomes of its record.                      *)
Becomes(p, d) == run' = [run EXCEPT ![p] = d]

LEMMA RunFields ==
  ASSUME NEW r \in RunState
  PROVE  /\ DOMAIN r = Fields /\ r = [x \in DOMAIN r |-> r[x]]
         /\ r.at \in Places /\ r.todo \in Seq(Steps) /\ r.dry \in BOOLEAN /\ r.saw \in Content
         /\ r.orig \in Content /\ r.open \in {"no", "tmp", "file", "gone"} /\ r.text \in Seq(Paragraph)
  BY DEF RunState, Fields

(* It goes on within the same thing to do. *)
Went(r, w) == [r EXCEPT !.at = w]
Saw(r, w, c) == [r EXCEPT !.at = w, !.saw = c]
Took(r, w, c) == [r EXCEPT !.at = w, !.orig = c]
Opened(r, w, o) == [r EXCEPT !.at = w, !.open = o]
Wrote(r, w, t) == [r EXCEPT !.at = w, !.text = t]

LEMMA UpdAt ==
  ASSUME NEW r \in RunState, NEW w \in Places
  PROVE  /\ Went(r, w) \in RunState
         /\ Went(r, w).at = w /\ Went(r, w).todo = r.todo /\ Went(r, w).dry = r.dry /\ Went(r, w).saw = r.saw
         /\ Went(r, w).orig = r.orig /\ Went(r, w).open = r.open /\ Went(r, w).text = r.text
<1> DEFINE d == Went(r, w)
<1>1. /\ d.at = w /\ d.todo = r.todo /\ d.dry = r.dry /\ d.saw = r.saw
      /\ d.orig = r.orig /\ d.open = r.open /\ d.text = r.text
  BY RunFields DEF Fields, Went
<1>2. DOMAIN d = Fields /\ d = [x \in DOMAIN d |-> d[x]]
  BY RunFields DEF Went
<1> HIDE DEF d
<1>3. d \in RunState
  BY <1>1, <1>2, RunFields, RunRecord
<1> QED
  BY <1>1, <1>3 DEF d

LEMMA UpdSaw ==
  ASSUME NEW r \in RunState, NEW w \in Places, NEW c \in Content
  PROVE  /\ Saw(r, w, c) \in RunState
         /\ Saw(r, w, c).at = w /\ Saw(r, w, c).todo = r.todo /\ Saw(r, w, c).dry = r.dry /\ Saw(r, w, c).saw = c
         /\ Saw(r, w, c).orig = r.orig /\ Saw(r, w, c).open = r.open /\ Saw(r, w, c).text = r.text
<1> DEFINE d == Saw(r, w, c)
<1>1. /\ d.at = w /\ d.todo = r.todo /\ d.dry = r.dry /\ d.saw = c
      /\ d.orig = r.orig /\ d.open = r.open /\ d.text = r.text
  BY RunFields DEF Fields, Saw
<1>2. DOMAIN d = Fields /\ d = [x \in DOMAIN d |-> d[x]]
  BY RunFields DEF Saw
<1> HIDE DEF d
<1>3. d \in RunState
  BY <1>1, <1>2, RunFields, RunRecord
<1> QED
  BY <1>1, <1>3 DEF d

LEMMA UpdOrig ==
  ASSUME NEW r \in RunState, NEW w \in Places, NEW c \in Content
  PROVE  /\ Took(r, w, c) \in RunState
         /\ Took(r, w, c).at = w /\ Took(r, w, c).todo = r.todo /\ Took(r, w, c).dry = r.dry /\ Took(r, w, c).saw = r.saw
         /\ Took(r, w, c).orig = c /\ Took(r, w, c).open = r.open /\ Took(r, w, c).text = r.text
<1> DEFINE d == Took(r, w, c)
<1>1. /\ d.at = w /\ d.todo = r.todo /\ d.dry = r.dry /\ d.saw = r.saw
      /\ d.orig = c /\ d.open = r.open /\ d.text = r.text
  BY RunFields DEF Fields, Took
<1>2. DOMAIN d = Fields /\ d = [x \in DOMAIN d |-> d[x]]
  BY RunFields DEF Took
<1> HIDE DEF d
<1>3. d \in RunState
  BY <1>1, <1>2, RunFields, RunRecord
<1> QED
  BY <1>1, <1>3 DEF d

LEMMA UpdOpen ==
  ASSUME NEW r \in RunState, NEW w \in Places, NEW o \in {"no", "tmp", "file", "gone"}
  PROVE  /\ Opened(r, w, o) \in RunState
         /\ Opened(r, w, o).at = w /\ Opened(r, w, o).todo = r.todo /\ Opened(r, w, o).dry = r.dry /\ Opened(r, w, o).saw = r.saw
         /\ Opened(r, w, o).orig = r.orig /\ Opened(r, w, o).open = o /\ Opened(r, w, o).text = r.text
<1> DEFINE d == Opened(r, w, o)
<1>1. /\ d.at = w /\ d.todo = r.todo /\ d.dry = r.dry /\ d.saw = r.saw
      /\ d.orig = r.orig /\ d.open = o /\ d.text = r.text
  BY RunFields DEF Fields, Opened
<1>2. DOMAIN d = Fields /\ d = [x \in DOMAIN d |-> d[x]]
  BY RunFields DEF Opened
<1> HIDE DEF d
<1>3. d \in RunState
  BY <1>1, <1>2, RunFields, RunRecord
<1> QED
  BY <1>1, <1>3 DEF d

LEMMA UpdText ==
  ASSUME NEW r \in RunState, NEW w \in Places, NEW t \in Seq(Paragraph)
  PROVE  /\ Wrote(r, w, t) \in RunState
         /\ Wrote(r, w, t).at = w /\ Wrote(r, w, t).todo = r.todo /\ Wrote(r, w, t).dry = r.dry /\ Wrote(r, w, t).saw = r.saw
         /\ Wrote(r, w, t).orig = r.orig /\ Wrote(r, w, t).open = r.open /\ Wrote(r, w, t).text = t
<1> DEFINE d == Wrote(r, w, t)
<1>1. /\ d.at = w /\ d.todo = r.todo /\ d.dry = r.dry /\ d.saw = r.saw
      /\ d.orig = r.orig /\ d.open = r.open /\ d.text = t
  BY RunFields DEF Fields, Wrote
<1>2. DOMAIN d = Fields /\ d = [x \in DOMAIN d |-> d[x]]
  BY RunFields DEF Wrote
<1> HIDE DEF d
<1>3. d \in RunState
  BY <1>1, <1>2, RunFields, RunRecord
<1> QED
  BY <1>1, <1>3 DEF d

(* It has done one thing, and does the next or is done. *)
After(r) == IF Next1(r).at = "idle" THEN Idle ELSE Next1(r)

LEMMA AfterOK ==
  ASSUME NEW r, RunOK(r), r.todo # << >>, r.at \in {"step"} \cup MergePlaces \cup AgentPlaces
  PROVE  LET d == After(r) IN
         /\ RunOK(d) /\ d.at \in {"step", "idle"} /\ d.open = "no"
         /\ d.dry => r.dry
<1> DEFINE n == Next1(r)
<1>1. r \in RunState
  BY DEF RunOK
<1>2. Tail(r.todo) \in Seq(Steps)
  BY <1>1, RunFields, Rest
<1>3. /\ n.at = (IF Tail(r.todo) # << >> THEN "step" ELSE "idle") /\ n.todo = Tail(r.todo)
      /\ n.dry = r.dry /\ n.saw = Absent /\ n.orig = Absent /\ n.open = "no" /\ n.text = << >>
  BY <1>1, RunFields DEF Next1, Fields
<1>4. DOMAIN n = Fields /\ n = [x \in DOMAIN n |-> n[x]]
  BY <1>1, RunFields DEF Next1
<1> HIDE DEF n
<1>5. n \in RunState
  <2>1. n.at \in Places /\ n.text \in Seq(Paragraph) /\ n.todo \in Seq(Steps)
    BY <1>2, <1>3 DEF Places
  <2>2. n.dry \in BOOLEAN
    BY <1>1, <1>3, RunFields
  <2> QED
    BY <1>3, <1>4, <2>1, <2>2, Blank, RunRecord
<1>6. CASE n.at = "idle"
  <2>1. After(r) = Idle
    BY <1>6 DEF After, n
  <2> QED
    BY <2>1, IdleOK
<1>7. CASE n.at # "idle"
  <2>1. After(r) = n /\ n.at = "step" /\ n.todo # << >>
    BY <1>3, <1>7 DEF After, n
  <2>2. n # Idle
    BY <1>7, IdleOK
  <2>3. RunOK(n)
    BY <1>3, <1>5, <2>1, <2>2 DEF RunOK, MergePlaces, AgentPlaces
  <2> QED
    BY <1>3, <2>1, <2>3
<1> QED
  BY <1>6, <1>7

LEMMA DoneIs == ASSUME NEW p, Done(p), run \in [Run -> RunState] PROVE Becomes(p, After(run[p]))
  BY DEF Done, Becomes, After

-----------------------------------------------------------------------------
(* The steps, one by one: what becomes of the run that takes it.           *)
Only(p) ==
  /\ run' \in [Run -> RunState] /\ \A q \in Run : RunOK(run'[q])
  /\ \A q \in Run \ {p} : run'[q] = run[q]

LEMMA OnlyP ==
  ASSUME Typed, NEW p \in Run, NEW d, RunOK(d), Becomes(p, d)
  PROVE  Only(p) /\ run'[p] = d
<1>1. d \in RunState
  BY DEF RunOK
<1>2. run' \in [Run -> RunState] /\ run'[p] = d /\ \A q \in Run \ {p} : run'[q] = run[q]
  BY <1>1 DEF Becomes, Typed
<1>3. \A q \in Run : RunOK(run'[q])
  BY <1>2 DEF Typed
<1> QED
  BY <1>2, <1>3 DEF Only

(* A run that goes on to w with the same thing to do, for a settings file. *)
LEMMA StaysOK ==
  ASSUME NEW r, RunOK(r), r.todo # << >>, NEW d \in RunState, d.todo = r.todo, d.dry = r.dry,
         d.at \in MergePlaces, Head(r.todo).kind = "merge",
         d.open # "no" <=> d.at = "tmpfill", d.dry => d.at = "read"
  PROVE  RunOK(d)
<1>1. d.at # "idle" /\ d # Idle
  BY IdleOK DEF MergePlaces
<1> QED
  BY <1>1 DEF RunOK, AgentPlaces, MergePlaces

LEMMA MergeOf ==
  ASSUME Typed, NEW p \in Run, run[p].at \in MergePlaces \/ Step(p, "merge")
  PROVE  /\ run[p] \in RunState /\ RunOK(run[p]) /\ run[p].todo # << >>
         /\ Head(run[p].todo).kind = "merge" /\ On(p) \in File
         /\ run[p].open # "no" <=> run[p].at = "tmpfill"
         /\ run[p].dry => run[p].at \in {"step", "read"}
<1>1. run[p] \in RunState /\ RunOK(run[p])
  BY DEF Typed
<1>2. run[p].todo # << >> /\ Head(run[p].todo).kind = "merge"
  BY <1>1 DEF RunOK, Step, At
<1>3. On(p) \in File
  BY <1>1, <1>2, RunFields, Rest, MergeFile DEF On
<1> QED
  BY <1>1, <1>2, <1>3 DEF RunOK

LEMMA ReadIs ==
  ASSUME Typed, NEW p \in Run, Read(p)
  PROVE  /\ Only(p) /\ On(p) \in File /\ run[p].at = "step" /\ run'[p].at = "read"
         /\ run'[p].todo = run[p].todo /\ run'[p].saw = files[On(p)] /\ run'[p].open = "no"
         /\ run'[p].dry = run[p].dry
<1> DEFINE d == Saw(run[p], "read", files[On(p)])
<1>0. "read" \in Places
  BY DEF Places, MergePlaces
<1>1. Becomes(p, d)
  BY DEF Read, Becomes, Saw
<1> HIDE DEF d
<1>2. run[p].at = "step" /\ Step(p, "merge")
  BY DEF Read, Step, At
<1>3. run[p] \in RunState /\ RunOK(run[p]) /\ run[p].todo # << >> /\ Head(run[p].todo).kind = "merge"
      /\ On(p) \in File /\ run[p].open = "no"
  BY <1>2, MergeOf
<1>4. files[On(p)] \in Content
  BY <1>3 DEF Typed
<1>5. /\ d \in RunState /\ d.at = "read" /\ d.todo = run[p].todo /\ d.dry = run[p].dry
      /\ d.saw = files[On(p)] /\ d.open = run[p].open
  BY <1>0, <1>3, <1>4, UpdSaw DEF d
<1>6. RunOK(d)
  BY <1>3, <1>5, StaysOK DEF MergePlaces
<1> QED
  BY <1>1, <1>2, <1>3, <1>5, <1>6, OnlyP

(* It goes to a place, all else the same. *)
Steady(p) ==
  /\ run'[p].todo = run[p].todo /\ run'[p].saw = run[p].saw /\ run'[p].dry = run[p].dry

LEMMA GoesIs ==
  ASSUME Typed, NEW p \in Run, NEW w \in MergePlaces \ {"tmpfill"}, Goes(p, w),
         run[p].at \in MergePlaces \ {"tmpfill"}, run[p].dry => w = "read"
  PROVE  /\ Only(p) /\ Steady(p) /\ run'[p].at = w /\ run'[p].open = "no" /\ run'[p].orig = run[p].orig
<1> DEFINE d == Went(run[p], w)
<1>1. Becomes(p, d)
  BY DEF Goes, Becomes, Went
<1> HIDE DEF d
<1>2. run[p] \in RunState /\ RunOK(run[p]) /\ run[p].todo # << >> /\ Head(run[p].todo).kind = "merge"
      /\ run[p].open = "no"
  BY MergeOf
<1>3. /\ d \in RunState /\ d.at = w /\ d.todo = run[p].todo /\ d.dry = run[p].dry /\ d.saw = run[p].saw
      /\ d.orig = run[p].orig /\ d.open = run[p].open
  BY <1>2, UpdAt DEF d, Places
<1>4. RunOK(d)
  BY <1>2, <1>3, StaysOK
<1> QED
  BY <1>1, <1>2, <1>3, <1>4, OnlyP DEF Steady

(* One thing is done. *)
Ended(p) == Only(p) /\ run'[p].at \in {"step", "idle"} /\ run'[p].open = "no" /\ (run'[p].dry => run[p].dry)

LEMMA DoneEnds ==
  ASSUME Typed, NEW p \in Run, Done(p), run[p].todo # << >>,
         run[p].at \in {"step"} \cup MergePlaces \cup AgentPlaces
  PROVE  Ended(p)
<1> DEFINE d == After(run[p])
<1>1. Becomes(p, d)
  BY DoneIs DEF Typed
<1>2. RunOK(d) /\ d.at \in {"step", "idle"} /\ d.open = "no" /\ (d.dry => run[p].dry)
  BY AfterOK DEF Typed
<1> QED
  BY <1>1, <1>2, OnlyP DEF Ended

LEMMA PreviewIs ==
  ASSUME Typed, NEW p \in Run, Preview(p)
  PROVE  Ended(p) /\ run[p].at = "read" /\ On(p) \in File
<1>1. run[p].at = "read" /\ run[p].at \in MergePlaces /\ Done(p)
  BY DEF Preview, At, MergePlaces
<1>2. run[p].todo # << >> /\ On(p) \in File
  BY <1>1, MergeOf
<1> QED
  BY <1>1, <1>2, DoneEnds

LEMMA StatIs ==
  ASSUME Typed, NEW p \in Run, Stat(p)
  PROVE  /\ Only(p) /\ Steady(p) /\ On(p) \in File /\ run[p].at = "read" /\ run'[p].open = "no"
         /\ run'[p].at = (IF files[On(p)].there THEN "stat" ELSE "tmp") /\ run'[p].orig = run[p].orig
<1>1. run[p].at = "read" /\ run[p].at \in MergePlaces \ {"tmpfill"} /\ ~run[p].dry
  BY DEF Stat, At, MergePlaces, DryStops
<1>2. On(p) \in File
  BY <1>1, MergeOf
<1>3. Goes(p, IF files[On(p)].there THEN "stat" ELSE "tmp")
      /\ (IF files[On(p)].there THEN "stat" ELSE "tmp") \in MergePlaces \ {"tmpfill"}
  BY DEF Stat, MergePlaces
<1> QED
  BY <1>1, <1>2, <1>3, GoesIs

LEMMA StatBackupIs ==
  ASSUME Typed, NEW p \in Run, StatBackup(p)
  PROVE  /\ Only(p) /\ Steady(p) /\ On(p) \in File /\ run[p].at = "stat" /\ run'[p].open = "no"
         /\ run'[p].at = (IF ~bak[On(p)].there THEN "orig" ELSE "tmp") /\ run'[p].orig = run[p].orig
<1>1. run[p].at = "stat" /\ run[p].at \in MergePlaces \ {"tmpfill"}
  BY DEF StatBackup, At, MergePlaces
<1>2. On(p) \in File /\ ~run[p].dry
  BY <1>1, MergeOf DEF Typed, RunOK, RunState
<1>3. Goes(p, IF ~bak[On(p)].there THEN "orig" ELSE "tmp")
      /\ (IF ~bak[On(p)].there THEN "orig" ELSE "tmp") \in MergePlaces \ {"tmpfill"}
  BY DEF StatBackup, MergePlaces, NoBackup
<1> QED
  BY <1>1, <1>2, <1>3, GoesIs

LEMMA ReadOriginalIs ==
  ASSUME Typed, NEW p \in Run, ReadOriginal(p)
  PROVE  /\ Only(p) /\ Steady(p) /\ On(p) \in File /\ run[p].at = "orig" /\ run'[p].open = "no"
         /\ run'[p].at = "bak" /\ run'[p].orig = files[On(p)]
<1> DEFINE d == Took(run[p], "bak", files[On(p)])
<1>0. "bak" \in Places
  BY DEF Places, MergePlaces
<1>1. Becomes(p, d)
  BY DEF ReadOriginal, Becomes, Took
<1> HIDE DEF d
<1>2. run[p].at = "orig" /\ run[p].at \in MergePlaces
  BY DEF ReadOriginal, At, MergePlaces
<1>3. run[p] \in RunState /\ RunOK(run[p]) /\ run[p].todo # << >> /\ Head(run[p].todo).kind = "merge"
      /\ run[p].open = "no" /\ On(p) \in File /\ ~run[p].dry
  BY <1>2, MergeOf DEF RunState
<1>4. files[On(p)] \in Content
  BY <1>3 DEF Typed
<1>5. /\ d \in RunState /\ d.at = "bak" /\ d.todo = run[p].todo /\ d.dry = run[p].dry
      /\ d.saw = run[p].saw /\ d.orig = files[On(p)] /\ d.open = run[p].open
  BY <1>0, <1>3, <1>4, UpdOrig DEF d
<1>6. RunOK(d)
  BY <1>3, <1>5, StaysOK DEF MergePlaces
<1> QED
  BY <1>1, <1>2, <1>3, <1>5, <1>6, OnlyP DEF Steady

LEMMA OpenBackupIs ==
  ASSUME Typed, NEW p \in Run, OpenBackup(p)
  PROVE  /\ Only(p) /\ Steady(p) /\ On(p) \in File /\ run[p].at = "bak" /\ run'[p].open = "no"
         /\ run'[p].at = "fill" /\ run'[p].orig = run[p].orig
<1>1. run[p].at = "bak" /\ run[p].at \in MergePlaces \ {"tmpfill"} /\ Goes(p, "fill")
  BY DEF OpenBackup, At, MergePlaces
<1>2. On(p) \in File /\ ~run[p].dry
  BY <1>1, MergeOf DEF Typed, RunOK, RunState
<1> QED
  BY <1>1, <1>2, GoesIs DEF MergePlaces

LEMMA FillBackupIs ==
  ASSUME Typed, NEW p \in Run, FillBackup(p)
  PROVE  /\ Only(p) /\ Steady(p) /\ On(p) \in File /\ run[p].at = "fill" /\ run'[p].open = "no"
         /\ run'[p].at = "tmp" /\ run[p].orig \in Content
<1>1. run[p].at = "fill" /\ run[p].at \in MergePlaces \ {"tmpfill"} /\ Goes(p, "tmp")
  BY DEF FillBackup, At, MergePlaces
<1>2. On(p) \in File /\ ~run[p].dry /\ run[p].orig \in Content
  BY <1>1, MergeOf DEF Typed, RunOK, RunState
<1> QED
  BY <1>1, <1>2, GoesIs DEF MergePlaces

LEMMA OpenTmpIs ==
  ASSUME Typed, NEW p \in Run, OpenTmp(p)
  PROVE  /\ Only(p) /\ Steady(p) /\ On(p) \in File /\ run[p].at = "tmp" /\ run'[p].open = "tmp"
         /\ run'[p].at = "tmpfill"
<1> DEFINE d == Opened(run[p], "tmpfill", "tmp")
<1>0. "tmpfill" \in Places /\ "tmp" \in {"no", "tmp", "file", "gone"}
  BY DEF Places, MergePlaces
<1>1. Becomes(p, d)
  BY DEF OpenTmp, Becomes, Opened
<1> HIDE DEF d
<1>2. run[p].at = "tmp" /\ run[p].at \in MergePlaces
  BY DEF OpenTmp, At, MergePlaces
<1>3. run[p] \in RunState /\ RunOK(run[p]) /\ run[p].todo # << >> /\ Head(run[p].todo).kind = "merge"
      /\ On(p) \in File /\ ~run[p].dry
  BY <1>2, MergeOf DEF RunState
<1>4. /\ d \in RunState /\ d.at = "tmpfill" /\ d.todo = run[p].todo /\ d.dry = run[p].dry
      /\ d.saw = run[p].saw /\ d.open = "tmp"
  <2> DEFINE r == run[p]
             e == Opened(r, "tmpfill", "tmp")
  <2>1. r \in RunState
    BY <1>3
  <2> HIDE DEF r
  <2>2. e \in RunState /\ e.at = "tmpfill" /\ e.todo = r.todo /\ e.dry = r.dry /\ e.saw = r.saw /\ e.open = "tmp"
    BY <1>0, <2>1, UpdOpen
  <2> HIDE DEF e
  <2>3. d = e
    BY DEF d, e, r
  <2> QED
    BY <2>2, <2>3 DEF r
<1>5. RunOK(d)
  BY <1>3, <1>4, StaysOK DEF MergePlaces
<1> QED
  BY <1>1, <1>2, <1>3, <1>4, <1>5, OnlyP DEF Steady

LEMMA FillTmpIs ==
  ASSUME Typed, NEW p \in Run, FillTmp(p)
  PROVE  /\ Only(p) /\ Steady(p) /\ On(p) \in File /\ run[p].at = "tmpfill" /\ run'[p].open = "no"
         /\ run'[p].at = "rename" /\ run[p].saw \in Content
<1> DEFINE d == Opened(run[p], "rename", "no")
<1>0. "rename" \in Places /\ "no" \in {"no", "tmp", "file", "gone"}
  BY DEF Places, MergePlaces
<1>1. Becomes(p, d)
  BY DEF FillTmp, Becomes, Opened
<1> HIDE DEF d
<1>2. run[p].at = "tmpfill" /\ run[p].at \in MergePlaces
  BY DEF FillTmp, At, MergePlaces
<1>3. run[p] \in RunState /\ RunOK(run[p]) /\ run[p].todo # << >> /\ Head(run[p].todo).kind = "merge"
      /\ On(p) \in File /\ ~run[p].dry /\ run[p].saw \in Content
  BY <1>2, MergeOf DEF RunState
<1>4. /\ d \in RunState /\ d.at = "rename" /\ d.todo = run[p].todo /\ d.dry = run[p].dry
      /\ d.saw = run[p].saw /\ d.open = "no"
  <2> DEFINE r == run[p]
             e == Opened(r, "rename", "no")
  <2>1. r \in RunState
    BY <1>3
  <2> HIDE DEF r
  <2>2. e \in RunState /\ e.at = "rename" /\ e.todo = r.todo /\ e.dry = r.dry /\ e.saw = r.saw /\ e.open = "no"
    BY <1>0, <2>1, UpdOpen
  <2> HIDE DEF e
  <2>3. d = e
    BY DEF d, e, r
  <2> QED
    BY <2>2, <2>3 DEF r
<1>5. RunOK(d)
  BY <1>3, <1>4, StaysOK DEF MergePlaces
<1> QED
  BY <1>1, <1>2, <1>3, <1>4, <1>5, OnlyP DEF Steady
LEMMA MovedOK == ASSUME NEW o \in {"no", "tmp", "file", "gone"}
                 PROVE  Moved(o) \in {"no", "tmp", "file", "gone"} /\ (Moved(o) = "no" <=> o = "no")
  BY DEF Moved

Carried(r) == [r EXCEPT !.open = Moved(@)]

LEMMA CarriedOK ==
  ASSUME NEW r, RunOK(r), r.at \in MergePlaces
  PROVE  /\ RunOK(Carried(r)) /\ Carried(r).at = r.at /\ Carried(r).todo = r.todo
         /\ Carried(r).saw = r.saw /\ Carried(r).orig = r.orig /\ Carried(r).dry = r.dry
         /\ Carried(r).open = Moved(r.open)
<1> DEFINE d == Carried(r)
<1>1. r \in RunState /\ r.todo # << >> /\ Head(r.todo).kind = "merge"
      /\ (r.open # "no" <=> r.at = "tmpfill") /\ (r.dry => r.at \in {"step", "read"})
  BY DEF RunOK
<1>2. Moved(r.open) \in {"no", "tmp", "file", "gone"} /\ (Moved(r.open) = "no" <=> r.open = "no")
  BY <1>1, RunFields, MovedOK
<1>3. /\ d.at = r.at /\ d.todo = r.todo /\ d.dry = r.dry /\ d.saw = r.saw
      /\ d.orig = r.orig /\ d.open = Moved(r.open) /\ d.text = r.text
  BY <1>1, RunFields DEF Fields, Carried
<1>4. DOMAIN d = Fields /\ d = [x \in DOMAIN d |-> d[x]]
  BY <1>1, RunFields DEF Carried
<1> HIDE DEF d
<1>5. d \in RunState
  BY <1>1, <1>2, <1>3, <1>4, RunFields, RunRecord
<1>6. RunOK(d)
  BY <1>1, <1>2, <1>3, <1>5, StaysOK DEF MergePlaces
<1> QED
  BY <1>3, <1>6 DEF d

(* A rename may take along what another run has open. *)
Ends(p) ==
  /\ run' \in [Run -> RunState] /\ \A q \in Run : RunOK(run'[q])
  /\ run'[p].at \in {"step", "idle"} /\ run'[p].open = "no" /\ (run'[p].dry => run[p].dry)

Taken(p) == tmp[On(p)].there

LEMMA RenameIs ==
  ASSUME Typed, NEW p \in Run, Rename(p)
  PROVE  /\ Ends(p) /\ On(p) \in File /\ run[p].at = "rename"
         /\ \A q \in Run \ {p} :
              /\ run'[q].at = run[q].at /\ run'[q].todo = run[q].todo /\ run'[q].saw = run[q].saw
              /\ run'[q].orig = run[q].orig /\ run'[q].dry = run[q].dry
              /\ run'[q].open = (IF Taken(p) /\ q \in Merging(On(p)) THEN Moved(run[q].open) ELSE run[q].open)
              /\ q \notin Merging(On(p)) => run'[q] = run[q]
<1> DEFINE d == After(run[p])
<1>1. run[p].at = "rename" /\ run[p].at \in MergePlaces
  BY DEF Rename, At, MergePlaces
<1>2. run[p].todo # << >> /\ On(p) \in File /\ RunOK(run[p])
  BY <1>1, MergeOf
<1>3. RunOK(d) /\ d.at \in {"step", "idle"} /\ d.open = "no" /\ (d.dry => run[p].dry)
  BY <1>1, <1>2, AfterOK
<1>4. CASE ~Taken(p)
  <2>1. Done(p)
    BY <1>4 DEF Rename, Taken
  <2>2. Ended(p)
    BY <1>1, <1>2, <2>1, DoneEnds
  <2> QED
    BY <1>1, <1>2, <1>4, <2>2 DEF Ended, Only, Ends
<1>5. CASE Taken(p)
  <2>1. run' = [q \in Run |-> IF q = p THEN d ELSE IF q \in Merging(On(p)) THEN Carried(run[q]) ELSE run[q]]
    BY <1>5 DEF Rename, Taken, After, Carried
  <2> HIDE DEF d
  <2>2. run'[p] = d /\ \A q \in Run \ {p} : run'[q] = IF q \in Merging(On(p)) THEN Carried(run[q]) ELSE run[q]
    BY <2>1
  <2>3. ASSUME NEW q \in Run \ {p}
        PROVE  /\ RunOK(run'[q]) /\ run'[q].at = run[q].at /\ run'[q].todo = run[q].todo
               /\ run'[q].saw = run[q].saw /\ run'[q].orig = run[q].orig /\ run'[q].dry = run[q].dry
               /\ run'[q].open = (IF q \in Merging(On(p)) THEN Moved(run[q].open) ELSE run[q].open)
               /\ q \notin Merging(On(p)) => run'[q] = run[q]
    <3>1. RunOK(run[q])
      BY DEF Typed
    <3>2. CASE q \in Merging(On(p))
      <4>1. run[q].at \in MergePlaces
        BY <3>2 DEF Merging, MergePlaces
      <4> QED
        BY <2>2, <3>1, <3>2, <4>1, CarriedOK
    <3>3. CASE q \notin Merging(On(p))
      BY <2>2, <3>1, <3>3
    <3> QED
      BY <3>2, <3>3
  <2>4. \A q \in Run : RunOK(run'[q])
    BY <1>3, <2>2, <2>3
  <2>5. \A q \in Run : run'[q] \in RunState
    BY <2>4 DEF RunOK
  <2>6. run' = [q \in Run |-> run'[q]]
    BY <2>1
  <2>7. run' \in [Run -> RunState]
    BY <2>5, <2>6
  <2> QED
    BY <1>1, <1>2, <1>3, <1>5, <2>2, <2>3, <2>4, <2>7 DEF Ends
<1> QED
  BY <1>4, <1>5

-----------------------------------------------------------------------------
(* The steps outside of settings files.                                    *)
Starts(dry) == [Idle EXCEPT !.at = "step", !.dry = dry, !.todo = Todo(Installed, dry)]
Asking == [Idle EXCEPT !.at = "asking"]
Chosen(r) == [r EXCEPT !.at = "step", !.todo = Todo(Installed, FALSE)]

LEMMA IdleFields == Idle \in RunState
  BY IdleOK DEF RunOK

LEMMA StartsOK == ASSUME NEW dry \in BOOLEAN
                  PROVE  RunOK(Starts(dry)) /\ Starts(dry).at = "step" /\ Starts(dry).open = "no"
<1> DEFINE d == Starts(dry)
<1>1. /\ d.at = "step" /\ d.todo = Todo(Installed, dry) /\ d.dry = dry /\ d.saw = Idle.saw
      /\ d.orig = Idle.orig /\ d.open = Idle.open /\ d.text = Idle.text
  BY IdleFields, RunFields DEF Fields, Starts
<1>2. DOMAIN d = Fields /\ d = [x \in DOMAIN d |-> d[x]]
  BY IdleFields, RunFields DEF Starts
<1> HIDE DEF d
<1>3. d.todo \in Seq(Steps) /\ d.todo # << >>
  BY <1>1, TodoSteps
<1>4. d.at \in Places
  BY <1>1 DEF Places
<1>5. d \in RunState
  BY <1>1, <1>2, <1>3, <1>4, IdleFields, RunFields, RunRecord
<1>6. d # Idle
  BY <1>1, IdleOK
<1>7. RunOK(d)
  BY <1>1, <1>3, <1>5, <1>6, IdleOK DEF RunOK, MergePlaces, AgentPlaces
<1> QED
  BY <1>1, <1>7, IdleOK DEF d

LEMMA AskingOK == RunOK(Asking) /\ Asking.at = "asking" /\ Asking.open = "no"
<1> DEFINE d == Asking
<1>1. /\ d.at = "asking" /\ d.todo = Idle.todo /\ d.dry = Idle.dry /\ d.saw = Idle.saw
      /\ d.orig = Idle.orig /\ d.open = Idle.open /\ d.text = Idle.text
  BY IdleFields, RunFields DEF Fields, Asking
<1>2. DOMAIN d = Fields /\ d = [x \in DOMAIN d |-> d[x]]
  BY IdleFields, RunFields DEF Asking
<1> HIDE DEF d
<1>3. d.at \in Places
  BY <1>1 DEF Places
<1>4. d \in RunState
  BY <1>1, <1>2, <1>3, IdleFields, RunFields, RunRecord
<1>5. d # Idle
  BY <1>1, IdleOK
<1>6. RunOK(d)
  BY <1>1, <1>4, <1>5, IdleOK DEF RunOK, MergePlaces, AgentPlaces
<1> QED
  BY <1>1, <1>6, IdleOK DEF d

LEMMA ChosenOK ==
  ASSUME NEW r, RunOK(r), r.at = "asking"
  PROVE  RunOK(Chosen(r)) /\ Chosen(r).at = "step" /\ Chosen(r).open = "no"
<1> DEFINE d == Chosen(r)
<1>1. r \in RunState /\ r.open = "no" /\ ~r.dry
  BY DEF RunOK, RunState
<1>2. /\ d.at = "step" /\ d.todo = Todo(Installed, FALSE) /\ d.dry = r.dry /\ d.saw = r.saw
      /\ d.orig = r.orig /\ d.open = r.open /\ d.text = r.text
  BY <1>1, RunFields DEF Fields, Chosen
<1>3. DOMAIN d = Fields /\ d = [x \in DOMAIN d |-> d[x]]
  BY <1>1, RunFields DEF Chosen
<1> HIDE DEF d
<1>4. d.todo \in Seq(Steps) /\ d.todo # << >>
  BY <1>2, TodoSteps
<1>5. d.at \in Places
  BY <1>2 DEF Places
<1>6. d \in RunState
  BY <1>1, <1>2, <1>3, <1>4, <1>5, RunFields, RunRecord
<1>7. d # Idle
  BY <1>2, IdleOK
<1>8. RunOK(d)
  BY <1>1, <1>2, <1>4, <1>6, <1>7, IdleOK DEF RunOK, MergePlaces, AgentPlaces
<1> QED
  BY <1>1, <1>2, <1>8 DEF d

LEMMA WroteOK ==
  ASSUME NEW r, RunOK(r), r.at = "step", ~r.dry, NEW t \in Seq(Paragraph), r.todo # << >>
  PROVE  LET d == Wrote(r, "agents", t) IN
         RunOK(d) /\ d.at = "agents" /\ d.text = t /\ d.open = "no" /\ d.todo = r.todo /\ d.dry = r.dry
<1> DEFINE d == Wrote(r, "agents", t)
<1>1. r \in RunState /\ r.open = "no"
  BY DEF RunOK
<1>2. "agents" \in Places
  BY DEF Places, AgentPlaces
<1>3. /\ d \in RunState /\ d.at = "agents" /\ d.todo = r.todo /\ d.dry = r.dry /\ d.open = r.open /\ d.text = t
  BY <1>1, <1>2, UpdText
<1> HIDE DEF d
<1>4. d # Idle
  BY <1>3, IdleOK
<1>5. RunOK(d)
  BY <1>1, <1>3, <1>4 DEF RunOK, MergePlaces, AgentPlaces
<1> QED
  BY <1>1, <1>3, <1>5 DEF d

LEMMA FillOK ==
  ASSUME NEW r, RunOK(r), r.at = "agents"
  PROVE  LET d == Went(r, "agentsfill") IN
         RunOK(d) /\ d.at = "agentsfill" /\ d.text = r.text /\ d.open = "no" /\ d.todo = r.todo /\ d.dry = r.dry
<1> DEFINE d == Went(r, "agentsfill")
<1>1. r \in RunState /\ r.open = "no" /\ r.todo # << >> /\ ~r.dry
  BY DEF RunOK, RunState, AgentPlaces
<1>2. "agentsfill" \in Places
  BY DEF Places, AgentPlaces
<1>3. /\ d \in RunState /\ d.at = "agentsfill" /\ d.todo = r.todo /\ d.dry = r.dry /\ d.open = r.open
      /\ d.text = r.text
  BY <1>1, <1>2, UpdAt
<1> HIDE DEF d
<1>4. d # Idle
  BY <1>3, IdleOK
<1>5. RunOK(d)
  BY <1>1, <1>3, <1>4 DEF RunOK, MergePlaces, AgentPlaces
<1> QED
  BY <1>1, <1>3, <1>5 DEF d
-----------------------------------------------------------------------------
(* What AGENTS.md becomes.                                                 *)
Below == {x \in Nat \X Nat : x[1] < x[2]}

LEMMA BelowFounded == IsWellFoundedOn(Below, Nat)
<1>1. OpToRel(<, Nat) = Below
  BY DEF OpToRel, Below
<1> QED
  BY <1>1, NatLessThanWellFounded

LEMMA Least ==
  ASSUME NEW T, T \subseteq Nat, T # {}
  PROVE  \E x \in T : \A y \in T : ~(y < x)
<1>1. \E x \in T : \A y \in T : <<y, x>> \notin Below
  BY BelowFounded, WFMin
<1> QED
  BY <1>1 DEF Below

LEMMA FirstIs ==
  ASSUME NEW S, NEW s \in Seq(S), NEW x
  PROVE  /\ First(s, x) \in 0..Len(s)
         /\ First(s, x) = 0 <=> x \notin Range(s)
         /\ First(s, x) > 0 => s[First(s, x)] = x /\ \A j \in 1..First(s, x) - 1 : s[j] # x
<1> DEFINE At1(i) == s[i] = x /\ \A j \in 1..i - 1 : s[j] # x
<1>1. CASE x \notin Range(s)
  BY <1>1 DEF First
<1>2. CASE x \in Range(s)
  <2> DEFINE T == {i \in 1..Len(s) : s[i] = x}
  <2>1. Len(s) \in Nat /\ DOMAIN s = 1..Len(s)
    OBVIOUS
  <2>2. T # {} /\ T \subseteq Nat
    BY <1>2, <2>1 DEF Range
  <2> HIDE DEF T
  <2>3. \E i \in T : \A j \in T : ~(j < i)
    BY <2>2, Least
  <2>4. \E i \in 1..Len(s) : At1(i)
    BY <2>1, <2>3 DEF T
  <2>5. First(s, x) = CHOOSE i \in 1..Len(s) : At1(i)
    BY <1>2 DEF First
  <2>6. First(s, x) \in 1..Len(s) /\ At1(First(s, x))
    BY <2>4, <2>5
  <2> QED
    BY <1>2, <2>1, <2>6
<1> QED
  BY <1>1, <1>2

LEMMA Part ==
  ASSUME NEW S, NEW s \in Seq(S), NEW m \in Nat \ {0}, NEW n \in Nat, n <= Len(s)
  PROVE  SubSeq(s, m, n) \in Seq(S)
<1>1. \A i \in m..n : s[i] \in S
  OBVIOUS
<1> QED
  BY <1>1, SubSeqProperties

LEMMA CutSeq == ASSUME NEW S, NEW s \in Seq(S) PROVE Cut(s) \in Seq(S)
<1> DEFINE i == First(s, "B")
           j == First(s, "E")
<1>1. Len(s) \in Nat /\ i \in 0..Len(s) /\ j \in 0..Len(s)
  BY FirstIs
<1>2. Cut(s) = IF i > 0 /\ j > i THEN SubSeq(s, 1, i - 1) \o SubSeq(s, j + 1, Len(s)) ELSE s
  BY DEF Cut
<1> HIDE DEF i, j
<1>3. CASE i > 0 /\ j > i
  <2>1. SubSeq(s, 1, i - 1) \in Seq(S) /\ SubSeq(s, j + 1, Len(s)) \in Seq(S)
    BY <1>1, <1>3, Part
  <2>2. SubSeq(s, 1, i - 1) \o SubSeq(s, j + 1, Len(s)) \in Seq(S)
    BY <2>1, Joined
  <2> QED
    BY <1>2, <1>3, <2>2
<1> QED
  BY <1>2, <1>3

LEMMA Rewritten == ASSUME NEW s \in Seq(Paragraph) PROVE Cut(s) \o Block \in Seq(Paragraph)
<1>1. Block \in Seq(Paragraph)
  BY DEF Block, Paragraph, Marks
<1> QED
  BY <1>1, CutSeq, Joined

-----------------------------------------------------------------------------
(* The steps outside of settings files, as steps of the run.               *)
Elsewhere(p) == run'[p].at \notin MergePlaces

LEMMA RunInitIs ==
  ASSUME Typed, NEW p \in Run, NEW dry \in BOOLEAN, RunInit(p, dry)
  PROVE  Only(p) /\ run[p].at = "idle" /\ run'[p].at = "step"
<1>1. Becomes(p, Starts(dry)) /\ run[p].at = "idle"
  BY DEF RunInit, Becomes, Starts, At
<1> QED
  BY <1>1, StartsOK, OnlyP

LEMMA RunSetupIs ==
  ASSUME Typed, NEW p \in Run, RunSetup(p)
  PROVE  Only(p) /\ run[p].at = "idle" /\ run'[p].at = "asking"
<1>1. Becomes(p, Asking) /\ run[p].at = "idle"
  BY DEF RunSetup, Becomes, Asking, At
<1> QED
  BY <1>1, AskingOK, OnlyP

LEMMA ConfirmIs ==
  ASSUME Typed, NEW p \in Run, Confirm(p)
  PROVE  Only(p) /\ run[p].at = "asking" /\ run'[p].at \in {"step", "idle"}
<1>1. run[p].at = "asking" /\ RunOK(run[p])
  BY DEF Confirm, At, Typed
<1>2. Becomes(p, Chosen(run[p])) \/ Becomes(p, Idle)
  BY DEF Confirm, Becomes, Chosen
<1> QED
  BY <1>1, <1>2, ChosenOK, IdleOK, OnlyP

LEMMA ReadAgentsIs ==
  ASSUME Typed, NEW p \in Run, ReadAgents(p)
  PROVE  /\ Only(p) /\ run[p].at = "step" /\ run'[p].at \in {"step", "idle", "agents"}
         /\ run'[p].at = "agents" => run'[p].text = Cut(md) \o Block
         /\ run[p].dry => run'[p].at # "agents"
<1>1. run[p].at = "step" /\ RunOK(run[p]) /\ run[p].todo # << >>
  BY DEF ReadAgents, Step, At, Typed, RunOK, AgentPlaces
<1>2. CASE run[p].dry
  <2>1. Done(p)
    BY <1>2 DEF ReadAgents
  <2> QED
    BY <1>1, <1>2, <2>1, DoneEnds DEF Ended
<1>3. CASE ~run[p].dry
  <2> DEFINE d == Wrote(run[p], "agents", Cut(md) \o Block)
  <2>1. Becomes(p, d)
    BY <1>3 DEF ReadAgents, Becomes, Wrote
  <2>2. Cut(md) \o Block \in Seq(Paragraph)
    BY Rewritten DEF Typed
  <2>3. RunOK(d) /\ d.at = "agents" /\ d.text = Cut(md) \o Block
    BY <1>1, <1>3, <2>2, WroteOK
  <2> HIDE DEF d
  <2> QED
    BY <1>1, <1>3, <2>1, <2>3, OnlyP
<1> QED
  BY <1>2, <1>3

LEMMA TruncateAgentsIs ==
  ASSUME Typed, NEW p \in Run, TruncateAgents(p)
  PROVE  /\ Only(p) /\ run[p].at = "agents" /\ run'[p].at = "agentsfill" /\ run'[p].text = run[p].text
         /\ md' \in Seq(Paragraph)
<1>1. run[p].at = "agents" /\ RunOK(run[p]) /\ run[p].text \in Seq(Paragraph) /\ ~run[p].dry
  BY DEF TruncateAgents, At, Typed, RunOK, RunState
<1>2. Becomes(p, Went(run[p], "agentsfill"))
  BY DEF TruncateAgents, Goes, Becomes, Went
<1>3. PICK n \in 0..Len(run[p].text) - 1 : md' = SubSeq(run[p].text, 1, n)
  BY DEF TruncateAgents
<1>4. Len(run[p].text) \in Nat
  BY <1>1
<1>5. SubSeq(run[p].text, 1, n) \in Seq(Paragraph)
  BY <1>1, <1>4, Part
<1> QED
  BY <1>1, <1>2, <1>3, <1>5, FillOK, OnlyP

LEMMA FillAgentsIs ==
  ASSUME Typed, NEW p \in Run, FillAgents(p)
  PROVE  /\ Only(p) /\ run[p].at = "agentsfill" /\ run'[p].at \in {"step", "idle"}
         /\ md' \in Seq(Paragraph)
<1>1. run[p].at = "agentsfill" /\ RunOK(run[p]) /\ run[p].text \in Seq(Paragraph) /\ run[p].todo # << >>
  BY DEF FillAgents, At, Typed, RunOK, RunState, AgentPlaces
<1>2. Done(p) /\ md' = run[p].text
  BY DEF FillAgents
<1>3. Ended(p)
  BY <1>1, <1>2, DoneEnds DEF AgentPlaces
<1> QED
  BY <1>1, <1>2, <1>3 DEF Ended

LEMMA WritePlainIs ==
  ASSUME Typed, NEW p \in Run, WritePlain(p)
  PROVE  Only(p) /\ run[p].at = "step" /\ run'[p].at \in {"step", "idle"}
<1>1. run[p].at = "step" /\ RunOK(run[p]) /\ run[p].todo # << >> /\ Done(p)
  BY DEF WritePlain, Step, At, Typed, RunOK, AgentPlaces
<1> QED
  BY <1>1, DoneEnds DEF Ended

LEMMA KillIs ==
  ASSUME Typed, NEW p \in Run, Kill(p)
  PROVE  Only(p) /\ run[p].at # "idle" /\ run'[p].at = "idle" /\ run'[p].open = "no"
         /\ (run[p].at = "fill" => On(p) \in File)
<1>1. Becomes(p, Idle) /\ run[p].at # "idle"
  BY DEF Kill, Becomes, At
<1>2. run[p].at = "fill" => On(p) \in File
  BY MergeOf DEF MergePlaces
<1> QED
  BY <1>1, <1>2, IdleOK, OnlyP
-----------------------------------------------------------------------------
(* Every step keeps the types.                                             *)
LEMMA Succ == ASSUME NEW n \in Nat PROVE n + 1 \in Nat
  OBVIOUS

(* A step is counted. *)
LEMMA Counted ==
  ASSUME HistOK,
         \/ hist' = [hist EXCEPT !.runs = @ + 1]
         \/ \E t \in SUBSET File, l \in BOOLEAN : hist' = [hist EXCEPT !.kills = @ + 1, !.torn = t, !.lost = l]
  PROVE  HistOK'
<1>1. hist.runs + 1 \in Nat /\ hist.kills + 1 \in Nat
  <2>1. hist.runs \in Nat /\ hist.kills \in Nat
    BY DEF HistOK
  <2> QED
    BY <2>1, Succ
<1>2. ASSUME hist' = [hist EXCEPT !.runs = @ + 1] PROVE HistOK'
  BY <1>1, <1>2 DEF HistOK
<1>3. ASSUME NEW t \in SUBSET File, NEW l \in BOOLEAN,
             hist' = [hist EXCEPT !.kills = @ + 1, !.torn = t, !.lost = l]
      PROVE  HistOK'
  BY <1>1, <1>3 DEF HistOK
<1> QED
  BY <1>2, <1>3

LEMMA MergedOK ==
  ASSUME NEW c \in Content
  PROVE  /\ Merged(c) \in Content /\ Merged(c).there /\ Merged(c).ours = 1 /\ Merged(c).form = "json"
         /\ c.form = "json" => c.user \ Mentions \subseteq Merged(c).user
  BY DEF Merged, Content

(* A settings file is written. *)
LEMMA FileWritten ==
  ASSUME NEW s \in [File -> Content], NEW f \in File, NEW c \in Content
  PROVE  [s EXCEPT ![f] = c] \in [File -> Content]
  OBVIOUS

LEMMA EditedOK ==
  ASSUME Typed, NEW f \in File, NEW e \in Entry, UserEdits(f, e)
  PROVE  /\ files' \in [File -> Content] /\ \A g \in File \ {f} : files'[g] = files[g]
         /\ files'[f].there /\ files'[f].user = files[f].user \cup {e} /\ files'[f].ours = files[f].ours
         /\ files'[f].form = files[f].form
<1> DEFINE d == [files[f] EXCEPT !.there = TRUE, !.user = @ \cup {e}]
<1>1. files[f] \in Content
  BY DEF Typed
<1>2. files' = [files EXCEPT ![f] = d]
  BY DEF UserEdits, Typed
<1>3. d \in Content /\ d.there /\ d.user = files[f].user \cup {e} /\ d.ours = files[f].ours
      /\ d.form = files[f].form
  BY <1>1 DEF Content
<1> HIDE DEF d
<1> QED
  BY <1>2, <1>3 DEF Typed

LEMMA CommentedOK ==
  ASSUME NEW c \in Content
  PROVE  LET d == [c EXCEPT !.form = "commented"] IN
         /\ d \in Content /\ d.there = c.there /\ d.user = c.user /\ d.ours = c.ours /\ d.form = "commented"
  BY DEF Content

LEMMA InitTyped == Init => Typed
<1> SUFFICES ASSUME Init PROVE Typed
  OBVIOUS
<1>1. files \in [File -> Content] /\ bak \in [File -> Content] /\ tmp \in [File -> Content]
  BY Blank DEF Init
<1>2. md \in Seq(Paragraph)
  BY DEF Init
<1>3. run \in [Run -> RunState] /\ \A p \in Run : RunOK(run[p])
  BY IdleOK, IdleFields DEF Init
<1>4. HistOK
  <2>1. Len(Text) \in Nat
    BY SetupText
  <2> QED
    BY <2>1 DEF Init, HistOK
<1> QED
  BY <1>1, <1>2, <1>3, <1>4 DEF Typed

(* Steps of a run on its settings file. *)
LEMMA MergesTyped == ASSUME Typed, NEW p \in Run, Merges(p) PROVE Typed'
<1> USE DEF Typed
<1>1. CASE Read(p)
  <2>1. Only(p) /\ On(p) \in File
    BY <1>1, ReadIs
  <2>2. HistOK'
    <3>1. files[On(p)].user \in SUBSET Entry
      BY <2>1 DEF Content
    <3> QED
      BY <1>1, <2>1, <3>1 DEF Read, HistOK
  <2> QED
    BY <1>1, <2>1, <2>2 DEF Read, Only
<1>2. CASE Preview(p)
  BY <1>2, PreviewIs DEF Ended, Only, Preview, HistOK
<1>3. CASE Stat(p)
  BY <1>3, StatIs DEF Only, Stat, HistOK
<1>4. CASE StatBackup(p)
  BY <1>4, StatBackupIs DEF Only, StatBackup, HistOK
<1>5. CASE ReadOriginal(p)
  BY <1>5, ReadOriginalIs DEF Only, ReadOriginal, HistOK
<1>6. CASE OpenBackup(p)
  BY <1>6, OpenBackupIs, Blank DEF Only, OpenBackup, HistOK
<1>7. CASE FillBackup(p)
  BY <1>7, FillBackupIs DEF Only, FillBackup, HistOK
<1>8. CASE OpenTmp(p)
  BY <1>8, OpenTmpIs, Blank DEF Only, OpenTmp, HistOK
<1>9. CASE FillTmp(p)
  <2>1. Only(p) /\ On(p) \in File /\ Merged(run[p].saw) \in Content
    BY <1>9, FillTmpIs, MergedOK
  <2>2. files' \in [File -> Content] /\ tmp' \in [File -> Content]
    BY <1>9, <2>1 DEF FillTmp
  <2> QED
    BY <1>9, <2>1, <2>2 DEF Only, FillTmp, HistOK
<1>10. CASE Rename(p)
  <2>1. Ends(p) /\ On(p) \in File
    BY <1>10, RenameIs
  <2>2. files' \in [File -> Content] /\ tmp' \in [File -> Content]
    BY <1>10, <2>1, Blank DEF Rename
  <2> QED
    BY <1>10, <2>1, <2>2 DEF Ends, Rename, HistOK
<1> QED
  BY <1>1, <1>2, <1>3, <1>4, <1>5, <1>6, <1>7, <1>8, <1>9, <1>10 DEF Merges

LEMMA RunsTyped == ASSUME Typed, NEW p \in Run, Runs(p) PROVE Typed'
<1> USE DEF Typed
<1>1. ASSUME NEW dry \in BOOLEAN, RunInit(p, dry) PROVE Typed'
  BY <1>1, RunInitIs, Counted DEF RunInit, Only
<1>2. CASE RunSetup(p)
  BY <1>2, RunSetupIs, Counted DEF RunSetup, Only
<1>3. CASE Confirm(p)
  BY <1>3, ConfirmIs DEF Confirm, Only, HistOK
<1>4. CASE Merges(p)
  BY <1>4, MergesTyped
<1>5. CASE ReadAgents(p)
  BY <1>5, ReadAgentsIs DEF ReadAgents, Only, HistOK
<1>6. CASE TruncateAgents(p)
  BY <1>6, TruncateAgentsIs DEF TruncateAgents, Only, HistOK
<1>7. CASE FillAgents(p)
  BY <1>7, FillAgentsIs DEF FillAgents, Only, HistOK
<1>8. CASE WritePlain(p)
  BY <1>8, WritePlainIs DEF WritePlain, Only, HistOK
<1>9. CASE Kill(p)
  <2> DEFINE t == IF At(p, "fill") THEN hist.torn \cup {On(p)} ELSE hist.torn
             l == hist.lost \/ At(p, "agentsfill")
  <2>1. Only(p) /\ (At(p, "fill") => On(p) \in File)
    BY <1>9, KillIs DEF At
  <2>2. t \in SUBSET File /\ l \in BOOLEAN
    BY <2>1 DEF HistOK
  <2>3. hist' = [hist EXCEPT !.kills = @ + 1, !.torn = t, !.lost = l]
    BY <1>9 DEF Kill
  <2>4. HistOK'
    <3> HIDE DEF t, l
    <3> QED
      BY <2>2, <2>3, Counted
  <2> QED
    BY <1>9, <2>1, <2>4 DEF Kill, Only
<1> QED
  BY <1>1, <1>2, <1>3, <1>4, <1>5, <1>6, <1>7, <1>8, <1>9 DEF Runs

LEMMA UserTyped == ASSUME Typed, User PROVE Typed'
<1>1. ASSUME NEW f \in File, NEW e \in Entry, UserEdits(f, e) PROVE Typed'
  <2>1. files' \in [File -> Content]
    BY <1>1, EditedOK
  <2> QED
    BY <1>1, <2>1 DEF UserEdits, Typed, HistOK
<1>2. ASSUME NEW f \in File, UserComments(f) PROVE Typed'
  <2>1. files' \in [File -> Content]
    BY <1>2, CommentedOK DEF UserComments, Typed
  <2> QED
    BY <1>2, <2>1 DEF UserComments, Typed, HistOK
<1>3. CASE UserWrites
  <2>1. Len(Text) \in Nat /\ hist.wrote \in 0..Len(Text) /\ hist.wrote < Len(Text)
    BY <1>3, SetupText DEF UserWrites, Typed, HistOK
  <2>2. hist.wrote + 1 \in 1..Len(Text)
    BY <2>1
  <2>3. Text[hist.wrote + 1] \in Paragraph
    BY <2>2, SetupText DEF Paragraph
  <2>4. md' \in Seq(Paragraph)
    BY <1>3, <2>3, AppendProperties DEF UserWrites, Typed
  <2>5. HistOK'
    BY <1>3, <2>1, <2>2 DEF UserWrites, Typed, HistOK
  <2> QED
    BY <1>3, <2>4, <2>5 DEF UserWrites, Typed
<1> QED
  BY <1>1, <1>2, <1>3 DEF User

LEMMA NextTyped == ASSUME Typed, [Next]_vars PROVE Typed'
<1>1. CASE User
  BY <1>1, UserTyped
<1>2. ASSUME NEW p \in Run, Runs(p) PROVE Typed'
  BY <1>2, RunsTyped
<1>3. CASE UNCHANGED vars
  BY <1>3 DEF vars, Typed, HistOK
<1> QED
  BY <1>1, <1>2, <1>3 DEF Next

(* Types, where a run can be at each kind of step, and that a dry run gets *)
(* no further than the file it reads.                                      *)
THEOREM TypesHold == Spec => []Typed
<1> QED
  BY InitTyped, NextTyped, PTL DEF Spec

(* A run that is not in the middle of a file is at rest in every field,    *)
(* and one has a file open exactly while it fills it.                      *)
THEOREM TypeCorrect == Spec => []TypeOK
<1>1. Typed => TypeOK
  BY DEF Typed, TypeOK, RunOK, At
<1> QED
  BY <1>1, TypesHold, PTL

(* A rename by another run does not change one that is dry: nothing it has is open. *)
LEMMA DryKept ==
  ASSUME Typed, NEW q \in Run, Rename(q), NEW p \in Run, p # q, run[p].at \in {"step", "read"}
  PROVE  run'[p] = run[p]
<1>1. run[p] \in RunState /\ run[p].open = "no"
  BY DEF Typed, RunOK
<1>2. Carried(run[p]) = run[p]
  BY <1>1, RunFields DEF Carried, Moved, Fields
<1>3. CASE Taken(q)
  BY <1>2, <1>3 DEF Rename, Taken, Carried
<1>4. CASE ~Taken(q)
  BY <1>4, DoneIs DEF Rename, Taken, Becomes, Typed
<1> QED
  BY <1>3, <1>4

LEMMA DryStep ==
  ASSUME Typed, [Next]_vars, NEW p \in Run, run[p].dry, run'[p] # run[p]
  PROVE  UNCHANGED <<files, bak, tmp, md, plain>>
<1>1. RunOK(run[p]) /\ run[p].at \in {"step", "read"} /\ run[p].todo # << >>
  BY DEF Typed, RunOK, MergePlaces, AgentPlaces
<1>2. PICK q \in Run : Runs(q)
  BY DEF Next, User, UserEdits, UserComments, UserWrites, vars
<1>3. ASSUME q # p, Only(q) PROVE FALSE
  BY <1>3 DEF Only
<1>4. CASE Merges(q)
  <2>1. CASE Rename(q)
    <3>1. q # p
      BY <1>1, <2>1, RenameIs
    <3> QED
      BY <1>1, <2>1, <3>1, DryKept
  <2>2. CASE ~Rename(q)
    <3>1. q = p
      BY <1>3, <1>4, <2>2, ReadIs, PreviewIs, StatIs, StatBackupIs, ReadOriginalIs, OpenBackupIs,
         FillBackupIs, OpenTmpIs, FillTmpIs DEF Merges, Ended
    <3>2. Read(q) \/ Preview(q)
      BY <1>1, <1>4, <2>2, <3>1, StatBackupIs, ReadOriginalIs, OpenBackupIs, FillBackupIs, OpenTmpIs,
         FillTmpIs DEF Merges, Stat, DryStops
    <3> QED
      BY <3>2 DEF Read, Preview
  <2> QED
    BY <2>1, <2>2
<1>5. ASSUME NEW dry \in BOOLEAN, RunInit(q, dry) PROVE UNCHANGED <<files, bak, tmp, md, plain>>
  BY <1>5 DEF RunInit
<1>6. CASE RunSetup(q) \/ Confirm(q) \/ ReadAgents(q) \/ Kill(q)
  BY <1>6 DEF RunSetup, Confirm, ReadAgents, Kill
<1>7. CASE TruncateAgents(q)
  BY <1>1, <1>3, <1>7, TruncateAgentsIs
<1>8. CASE FillAgents(q)
  BY <1>1, <1>3, <1>8, FillAgentsIs
<1>9. CASE WritePlain(q)
  BY <1>3, <1>9, WritePlainIs DEF WritePlain
<1> QED
  BY <1>2, <1>4, <1>5, <1>6, <1>7, <1>8, <1>9 DEF Runs

(* Of a dry run no step writes anything, whoever else runs: it leaves      *)
(* before the first write.                                                 *)
THEOREM DryCorrect == Spec => DryWritesNothing
<1>1. Typed /\ [Next]_vars => [\A p \in Run : run[p].dry /\ run'[p] # run[p]
                                => UNCHANGED <<files, bak, tmp, md, plain>>]_vars
  BY DryStep
<1> QED
  BY <1>1, TypesHold, PTL DEF Spec, DryWritesNothing
-----------------------------------------------------------------------------
(* One settings file.  What it looks like whoever runs: *)
Forms(f) ==
  /\ ~files[f].there => files[f].user = {} /\ files[f].form = "json"
  /\ files[f].form = "torn" => f \in hist.overlap
  /\ files[f].form = "commented" => f \in hist.commented
  /\ tmp[f].form # "commented"
  /\ files[f].ours <= 1 /\ tmp[f].ours <= 1

(* who left it half written, unless that run was killed: *)
Whole(f) ==
  hist.kills = 0 =>
    /\ files[f].form = "torn" => \E p \in Merging(f) : run[p].open = "file"
    /\ tmp[f].form = "torn" => \E p \in Merging(f) : run[p].open = "tmp"

(* and for as long as one run at a time has it: what the file keeps, what  *)
(* that run holds, and where the first backup is on its way.               *)
Kept(f) == f \notin hist.commented => hist.saw[f] \ Mentions \subseteq files[f].user

Holds(f, r) ==
  /\ r.at = "tmpfill" => r.open = "tmp"
  /\ r.at = "rename" => tmp[f] = Merged(r.saw)
  /\ f \notin hist.commented => r.saw.form = "json" /\ hist.saw[f] \ Mentions \subseteq r.saw.user

Backs(f, r) ==
  /\ r.at \in {"orig", "bak"} => ~bak[f].there
  /\ r.at \in {"bak", "fill"} => /\ hist.first[f] \subseteq r.orig.user
                                 /\ ~r.orig.there => r.orig.user = {}
  /\ r.at = "fill" => bak[f].there
  /\ r.at \in {"tmp", "tmpfill", "rename"} /\ ~bak[f].there => hist.first[f] = {}

Backed(f) ==
  /\ ~bak[f].there => hist.first[f] \subseteq files[f].user
  /\ bak[f].there => hist.first[f] \subseteq bak[f].user \/ \E p \in Merging(f) : run[p].at = "fill"
  /\ \A p \in Merging(f) : Backs(f, run[p])

Sole(f) ==
  /\ \A p, q \in Merging(f) : p = q
  /\ Kept(f) /\ \A p \in Merging(f) : Holds(f, run[p])
  /\ f \notin hist.torn => Backed(f)

FileInv(f) == Forms(f) /\ Whole(f) /\ (f \notin hist.overlap => Sole(f))
-----------------------------------------------------------------------------
(* Who has a file. *)
LEMMA Has == ASSUME NEW f, NEW p \in Run
             PROVE  p \in Merging(f) <=> run[p].at \in MergePlaces /\ On(p) = f
  BY DEF Merging, MergePlaces

LEMMA HasNext == ASSUME NEW f, NEW p \in Run
                 PROVE  p \in Merging(f)' <=> run'[p].at \in MergePlaces /\ Head(run'[p].todo).file = f
  BY DEF Merging, MergePlaces, On

LEMMA SameRuns ==
  ASSUME NEW p \in Run, Only(p), run[p].at \in MergePlaces, run'[p].at \in MergePlaces,
         run'[p].todo = run[p].todo, NEW f
  PROVE  Merging(f)' = Merging(f)
<1>1. ASSUME NEW q \in Run PROVE q \in Merging(f)' <=> q \in Merging(f)
  <2>1. CASE q = p
    BY <2>1, Has, HasNext DEF On
  <2>2. CASE q # p
    BY <2>2, Has, HasNext DEF On, Only
  <2> QED
    BY <2>1, <2>2
<1>2. Merging(f) \subseteq Run /\ Merging(f)' \subseteq Run
  BY DEF Merging
<1> QED
  BY <1>1, <1>2

LEMMA OneHas ==
  ASSUME NEW f, NEW p \in Merging(f), f \notin hist.overlap, FileInv(f)
  PROVE  Merging(f) = {p}
  BY DEF FileInv, Sole

(* Nothing happens to the file, but that a run may leave it. *)
Apart(g) ==
  /\ files'[g] = files[g] /\ bak'[g] = bak[g] /\ tmp'[g] = tmp[g]
  /\ hist'.saw[g] = hist.saw[g] /\ hist'.first[g] = hist.first[g]
  /\ hist.overlap \subseteq hist'.overlap /\ hist.torn \subseteq hist'.torn
  /\ hist.commented \subseteq hist'.commented
  /\ hist'.kills = 0 => hist.kills = 0

LEMMA ApartHolds ==
  ASSUME NEW g \in File, FileInv(g), Apart(g),
         \A q \in Run : q \in Merging(g)' => q \in Merging(g) /\ run'[q] = run[q],
         \A q \in Run : q \in Merging(g) /\ q \notin Merging(g)' =>
                          \/ run[q].at # "fill" /\ run[q].open \notin {"file", "tmp"}
                          \/ hist'.kills # 0 /\ (run[q].at = "fill" => g \in hist'.torn)
  PROVE  FileInv(g)'
<1>0. Merging(g) \subseteq Run /\ Merging(g)' \subseteq Run
  BY DEF Merging
<1>1. Forms(g)'
  BY DEF FileInv, Forms, Apart
<1>2. Whole(g)'
  BY <1>0 DEF FileInv, Whole, Apart
<1>3. ASSUME g \notin hist'.overlap PROVE Sole(g)'
  <2>1. Sole(g)
    BY <1>3 DEF FileInv, Apart
  <2>2. \A p, q \in Merging(g)' : p = q
    BY <1>0, <2>1 DEF Sole
  <2>3. Kept(g)'
    BY <2>1 DEF Sole, Kept, Apart
  <2>4. ASSUME NEW p \in Merging(g)' PROVE Holds(g, run[p])'
    <3>1. Holds(g, run[p]) /\ run'[p] = run[p]
      BY <1>0, <2>1 DEF Sole
    <3> QED
      BY <3>1 DEF Holds, Apart
  <2>5. ASSUME g \notin hist'.torn PROVE Backed(g)'
    <3>1. Backed(g)
      BY <2>1, <2>5 DEF Sole, Apart
    <3>2. ASSUME NEW p \in Merging(g)' PROVE Backs(g, run[p])'
      <4>1. Backs(g, run[p]) /\ run'[p] = run[p]
        BY <1>0, <3>1 DEF Backed
      <4> QED
        BY <4>1 DEF Backs, Apart
    <3>3. bak'[g].there => hist'.first[g] \subseteq bak'[g].user \/ \E p \in Merging(g)' : run'[p].at = "fill"
      BY <1>0, <2>5, <3>1 DEF Backed, Apart
    <3>4. ~bak'[g].there => hist'.first[g] \subseteq files'[g].user
      BY <3>1 DEF Backed, Apart
    <3> QED
      BY <3>2, <3>3, <3>4 DEF Backed
  <2> QED
    BY <2>2, <2>3, <2>4, <2>5 DEF Sole
<1> QED
  BY <1>1, <1>2, <1>3 DEF FileInv
-----------------------------------------------------------------------------
(* The steps of the run that has it.                                       *)
LEMMA WholeKept ==
  ASSUME NEW p \in Run, Only(p), NEW f, Merging(f) \subseteq Merging(f)', run[p].open = "no", Whole(f),
         hist'.kills = hist.kills, files'[f].form = "torn" => files[f].form = "torn",
         tmp'[f].form = "torn" => tmp[f].form = "torn"
  PROVE  Whole(f)'
<1>1. Merging(f) \subseteq Run
  BY DEF Merging
<1> QED
  BY <1>1 DEF Whole, Only

LEMMA ReadKeeps ==
  ASSUME Typed, NEW p \in Run, Read(p), NEW f \in File, f = On(p), FileInv(f)
  PROVE  FileInv(f)'
<1>1. /\ Only(p) /\ run[p].at = "step" /\ run'[p].at = "read"
      /\ run'[p].todo = run[p].todo /\ run'[p].saw = files[f]
  BY ReadIs
<1>2. /\ files' = files /\ bak' = bak /\ tmp' = tmp
      /\ hist'.kills = hist.kills /\ hist'.torn = hist.torn /\ hist'.commented = hist.commented
      /\ hist'.overlap = (IF Merging(f) # {} THEN hist.overlap \cup {f} ELSE hist.overlap)
      /\ hist'.saw[f] = (IF files[f].form = "json" THEN hist.saw[f] \cup files[f].user ELSE hist.saw[f])
      /\ hist'.first[f] = (IF ~bak[f].there THEN hist.first[f] \cup files[f].user ELSE hist.first[f])
  BY <1>1 DEF Read, Typed, HistOK
<1>4. run[p].open = "no"
  BY <1>1 DEF Typed, RunOK
<1>5. Merging(f)' = Merging(f) \cup {p}
  <2>1. ASSUME NEW q \in Run PROVE q \in Merging(f)' <=> q \in Merging(f) \cup {p}
    <3>1. CASE q = p
      BY <1>1, <3>1, HasNext DEF On, MergePlaces
    <3>2. CASE q # p
      BY <1>1, <3>2, Has, HasNext DEF On, Only
    <3> QED
      BY <3>1, <3>2
  <2>2. Merging(f) \subseteq Run /\ Merging(f)' \subseteq Run
    BY DEF Merging
  <2> QED
    BY <2>1, <2>2
<1>7. Forms(f)'
  BY <1>2 DEF FileInv, Forms
<1>8. Whole(f)'
  BY <1>1, <1>2, <1>4, <1>5, WholeKept DEF FileInv
<1>9. ASSUME f \notin hist'.overlap PROVE Sole(f)'
  <2>1. Merging(f) = {} /\ f \notin hist.overlap /\ Merging(f)' = {p} /\ Sole(f) /\ Forms(f)
    BY <1>2, <1>5, <1>9 DEF FileInv
  <2>2. Kept(f)'
    BY <1>2, <2>1 DEF Sole, Kept
  <2>3. Holds(f, run[p])'
    BY <1>1, <1>2, <1>9, <2>1, <2>2 DEF Holds, Kept, Forms, Content, Typed
  <2>4. ASSUME f \notin hist'.torn PROVE Backed(f)'
    <3>1. Backed(f)
      BY <1>2, <2>1, <2>4 DEF Sole
    <3>2. Backs(f, run[p])'
      BY <1>1 DEF Backs
    <3> QED
      BY <1>2, <2>1, <3>1, <3>2 DEF Backed
  <2> QED
    BY <2>1, <2>2, <2>3, <2>4 DEF Sole
<1> QED
  BY <1>7, <1>8, <1>9 DEF FileInv

(* A run that goes on within a file, which is not written. *)
LEMMA WithinKeeps ==
  ASSUME NEW p \in Run, NEW f \in File, Only(p), FileInv(f), p \in Merging(f), Merging(f)' = Merging(f),
         run[p].open = "no", run[p].at # "fill",
         files' = files, bak' = bak, tmp' = tmp, hist' = hist,
         Holds(f, run[p]) => Holds(f, run[p])', Backed(f) => Backs(f, run[p])'
  PROVE  FileInv(f)'
<1>1. Forms(f)'
  BY DEF FileInv, Forms
<1>2. Whole(f)'
  BY WholeKept DEF FileInv
<1>3. ASSUME f \notin hist'.overlap PROVE Sole(f)'
  <2>1. Merging(f) = {p} /\ Sole(f)
    BY <1>3, OneHas DEF FileInv
  <2>2. Kept(f)'
    BY <2>1 DEF Sole, Kept
  <2>3. Holds(f, run[p])'
    BY <2>1 DEF Sole
  <2>4. ASSUME f \notin hist'.torn PROVE Backed(f)'
    <3>1. Backed(f)
      BY <2>1, <2>4 DEF Sole
    <3> QED
      BY <2>1, <3>1 DEF Backed
  <2> QED
    BY <2>1, <2>2, <2>3, <2>4 DEF Sole
<1> QED
  BY <1>1, <1>2, <1>3 DEF FileInv

LEMMA StatKeeps ==
  ASSUME Typed, NEW p \in Run, Stat(p), NEW f \in File, f = On(p), FileInv(f)
  PROVE  FileInv(f)'
<1>1. /\ Only(p) /\ run[p].at = "read" /\ run'[p].at \in {"stat", "tmp"}
      /\ run'[p].at = "tmp" => ~files[f].there
      /\ run'[p].todo = run[p].todo /\ run'[p].saw = run[p].saw
  BY StatIs DEF Steady
<1>2. files' = files /\ bak' = bak /\ tmp' = tmp /\ hist' = hist
  BY DEF Stat
<1>4. run[p].open = "no" /\ p \in Merging(f)
  BY <1>1, Has DEF Typed, RunOK, MergePlaces
<1>5. Merging(f)' = Merging(f)
  BY <1>1, SameRuns DEF MergePlaces
<1>7. Holds(f, run[p]) => Holds(f, run[p])'
  BY <1>1, <1>2 DEF Holds
<1>8. Backed(f) => Backs(f, run[p])'
  BY <1>1, <1>2 DEF Backs, Backed, FileInv, Forms
<1> QED
  BY <1>1, <1>2, <1>4, <1>5, <1>7, <1>8, WithinKeeps

LEMMA StatBackupKeeps ==
  ASSUME Typed, NEW p \in Run, StatBackup(p), NEW f \in File, f = On(p), FileInv(f)
  PROVE  FileInv(f)'
<1>1. /\ Only(p) /\ run[p].at = "stat" /\ run'[p].at = (IF ~bak[f].there THEN "orig" ELSE "tmp")
      /\ run'[p].todo = run[p].todo /\ run'[p].saw = run[p].saw
  BY StatBackupIs DEF Steady
<1>2. files' = files /\ bak' = bak /\ tmp' = tmp /\ hist' = hist
  BY DEF StatBackup
<1>4. run[p].open = "no" /\ p \in Merging(f)
  BY <1>1, Has DEF Typed, RunOK, MergePlaces
<1>5. Merging(f)' = Merging(f)
  BY <1>1, SameRuns DEF MergePlaces
<1>7. Holds(f, run[p]) => Holds(f, run[p])'
  BY <1>1, <1>2 DEF Holds
<1>8. Backed(f) => Backs(f, run[p])'
  BY <1>1, <1>2 DEF Backs, Backed
<1> QED
  BY <1>1, <1>2, <1>4, <1>5, <1>7, <1>8, WithinKeeps

LEMMA ReadOriginalKeeps ==
  ASSUME Typed, NEW p \in Run, ReadOriginal(p), NEW f \in File, f = On(p), FileInv(f)
  PROVE  FileInv(f)'
<1>1. /\ Only(p) /\ run[p].at = "orig" /\ run'[p].at = "bak" /\ run'[p].orig = files[f]
      /\ run'[p].todo = run[p].todo /\ run'[p].saw = run[p].saw
  BY ReadOriginalIs DEF Steady
<1>2. files' = files /\ bak' = bak /\ tmp' = tmp /\ hist' = hist
  BY DEF ReadOriginal
<1>4. run[p].open = "no" /\ p \in Merging(f)
  BY <1>1, Has DEF Typed, RunOK, MergePlaces
<1>5. Merging(f)' = Merging(f)
  BY <1>1, SameRuns DEF MergePlaces
<1>7. Holds(f, run[p]) => Holds(f, run[p])'
  BY <1>1, <1>2 DEF Holds
<1>8. Backed(f) => Backs(f, run[p])'
  BY <1>1, <1>2, <1>4 DEF Backs, Backed, FileInv, Forms
<1> QED
  BY <1>1, <1>2, <1>4, <1>5, <1>7, <1>8, WithinKeeps

LEMMA OpenBackupKeeps ==
  ASSUME Typed, NEW p \in Run, OpenBackup(p), NEW f \in File, f = On(p), FileInv(f)
  PROVE  FileInv(f)'
<1>1. /\ Only(p) /\ run[p].at = "bak" /\ run'[p].at = "fill" /\ run'[p].orig = run[p].orig
      /\ run'[p].todo = run[p].todo /\ run'[p].saw = run[p].saw
  BY OpenBackupIs DEF Steady
<1>2. files' = files /\ bak'[f] = Torn /\ tmp' = tmp /\ hist' = hist
  BY <1>1 DEF OpenBackup, Typed
<1>4. run[p].open = "no" /\ p \in Merging(f)
  BY <1>1, Has DEF Typed, RunOK, MergePlaces
<1>5. Merging(f)' = Merging(f)
  BY <1>1, SameRuns DEF MergePlaces
<1>7. Forms(f)'
  BY <1>2 DEF FileInv, Forms
<1>8. Whole(f)'
  BY <1>1, <1>2, <1>4, <1>5, WholeKept DEF FileInv
<1>9. ASSUME f \notin hist'.overlap PROVE Sole(f)'
  <2>1. Merging(f) = {p} /\ Sole(f)
    BY <1>2, <1>4, <1>9, OneHas DEF FileInv
  <2>2. Kept(f)'
    BY <1>2, <2>1 DEF Sole, Kept
  <2>3. Holds(f, run[p])'
    BY <1>1, <1>2, <2>1 DEF Sole, Holds
  <2>4. ASSUME f \notin hist'.torn PROVE Backed(f)'
    <3>1. Backs(f, run[p])
      BY <1>2, <2>1, <2>4 DEF Sole, Backed
    <3>2. Backs(f, run[p])'
      BY <1>1, <1>2, <3>1, Blank DEF Backs
    <3>3. \E q \in Merging(f)' : run'[q].at = "fill"
      BY <1>1, <1>4, <1>5
    <3>4. \A q \in Merging(f)' : Backs(f, run[q])'
      BY <1>5, <2>1, <3>2
    <3> QED
      BY <1>2, <3>3, <3>4, Blank DEF Backed
  <2> QED
    BY <1>5, <2>1, <2>2, <2>3, <2>4 DEF Sole
<1> QED
  BY <1>7, <1>8, <1>9 DEF FileInv

LEMMA FillBackupKeeps ==
  ASSUME Typed, NEW p \in Run, FillBackup(p), NEW f \in File, f = On(p), FileInv(f)
  PROVE  FileInv(f)'
<1>1. /\ Only(p) /\ run[p].at = "fill" /\ run'[p].at = "tmp"
      /\ run'[p].todo = run[p].todo /\ run'[p].saw = run[p].saw
  BY FillBackupIs DEF Steady
<1>2. files' = files /\ bak'[f] = run[p].orig /\ tmp' = tmp /\ hist' = hist
  BY <1>1 DEF FillBackup, Typed
<1>4. run[p].open = "no" /\ p \in Merging(f)
  BY <1>1, Has DEF Typed, RunOK, MergePlaces
<1>5. Merging(f)' = Merging(f)
  BY <1>1, SameRuns DEF MergePlaces
<1>7. Forms(f)'
  BY <1>2 DEF FileInv, Forms
<1>8. Whole(f)'
  BY <1>1, <1>2, <1>4, <1>5, WholeKept DEF FileInv
<1>9. ASSUME f \notin hist'.overlap PROVE Sole(f)'
  <2>1. Merging(f) = {p} /\ Sole(f)
    BY <1>2, <1>4, <1>9, OneHas DEF FileInv
  <2>2. Kept(f)'
    BY <1>2, <2>1 DEF Sole, Kept
  <2>3. Holds(f, run[p])'
    BY <1>1, <1>2, <2>1 DEF Sole, Holds
  <2>4. ASSUME f \notin hist'.torn PROVE Backed(f)'
    <3>1. Backs(f, run[p])
      BY <1>2, <2>1, <2>4 DEF Sole, Backed
    <3>2. hist.first[f] \subseteq run[p].orig.user /\ (~run[p].orig.there => hist.first[f] = {})
      BY <1>1, <3>1 DEF Backs
    <3>3. Backs(f, run[p])'
      BY <1>1, <1>2, <3>2 DEF Backs
    <3>4. \A q \in Merging(f)' : Backs(f, run[q])'
      BY <1>5, <2>1, <3>3
    <3> QED
      BY <1>2, <3>2, <3>4 DEF Backed
  <2> QED
    BY <1>5, <2>1, <2>2, <2>3, <2>4 DEF Sole
<1> QED
  BY <1>7, <1>8, <1>9 DEF FileInv
LEMMA OpenTmpKeeps ==
  ASSUME Typed, NEW p \in Run, OpenTmp(p), NEW f \in File, f = On(p), FileInv(f)
  PROVE  FileInv(f)'
<1>1. /\ Only(p) /\ run[p].at = "tmp" /\ run'[p].at = "tmpfill" /\ run'[p].open = "tmp"
      /\ run'[p].todo = run[p].todo /\ run'[p].saw = run[p].saw
  BY OpenTmpIs DEF Steady
<1>2. files' = files /\ bak' = bak /\ tmp'[f] = Torn /\ hist' = hist
  BY <1>1 DEF OpenTmp, Typed
<1>3. run[p].open = "no" /\ p \in Merging(f)
  BY <1>1, Has DEF Typed, RunOK, MergePlaces
<1>4. Merging(f)' = Merging(f)
  BY <1>1, SameRuns DEF MergePlaces
<1>5. Forms(f)'
  BY <1>2, Blank DEF FileInv, Forms
<1>6. Whole(f)'
  <2>1. Merging(f) \subseteq Run
    BY DEF Merging
  <2>2. \E q \in Merging(f)' : run'[q].open = "tmp"
    BY <1>1, <1>3, <1>4
  <2>3. ASSUME NEW q \in Merging(f), run[q].open = "file" PROVE run'[q].open = "file"
    BY <1>1, <1>3, <2>1, <2>3 DEF Only
  <2> QED
    BY <1>2, <1>4, <2>2, <2>3 DEF FileInv, Whole
<1>7. ASSUME f \notin hist'.overlap PROVE Sole(f)'
  <2>1. Merging(f) = {p} /\ Sole(f)
    BY <1>2, <1>3, <1>7, OneHas DEF FileInv
  <2>2. Kept(f)'
    BY <1>2, <2>1 DEF Sole, Kept
  <2>3. Holds(f, run[p])'
    BY <1>1, <1>2, <2>1 DEF Sole, Holds
  <2>4. ASSUME f \notin hist'.torn PROVE Backed(f)'
    <3>1. Backed(f) /\ Backs(f, run[p])
      BY <1>2, <2>1, <2>4 DEF Sole, Backed
    <3>2. Backs(f, run[p])'
      BY <1>1, <1>2, <3>1 DEF Backs
    <3>3. \A q \in Merging(f)' : Backs(f, run[q])'
      BY <1>4, <2>1, <3>2
    <3> QED
      BY <1>1, <1>2, <1>4, <2>1, <3>1, <3>3 DEF Backed
  <2> QED
    BY <1>4, <2>1, <2>2, <2>3, <2>4 DEF Sole
<1> QED
  BY <1>5, <1>6, <1>7 DEF FileInv

LEMMA FillTmpKeeps ==
  ASSUME Typed, NEW p \in Run, FillTmp(p), NEW f \in File, f = On(p), FileInv(f)
  PROVE  FileInv(f)'
<1>1. /\ Only(p) /\ run[p].at = "tmpfill" /\ run'[p].at = "rename" /\ run'[p].open = "no"
      /\ run'[p].todo = run[p].todo /\ run'[p].saw = run[p].saw /\ run[p].saw \in Content
  BY FillTmpIs DEF Steady
<1>2. /\ bak' = bak /\ hist' = hist
      /\ tmp'[f] = (IF run[p].open = "tmp" THEN Merged(run[p].saw) ELSE tmp[f])
      /\ files'[f] = (IF run[p].open = "file" THEN Merged(run[p].saw) ELSE files[f])
  BY <1>1 DEF FillTmp, Typed
<1>3. p \in Merging(f) /\ Merging(f) \subseteq Run
  BY <1>1, Has DEF MergePlaces, Merging
<1>4. Merging(f)' = Merging(f)
  BY <1>1, SameRuns DEF MergePlaces
<1>5. Forms(f)'
  BY <1>1, <1>2, MergedOK DEF FileInv, Forms
<1>6. Whole(f)'
  <2>1. ASSUME NEW q \in Merging(f), run[q].open # run[p].open PROVE run'[q].open = run[q].open
    BY <1>1, <1>3, <2>1 DEF Only
  <2>2. Merged(run[p].saw).form # "torn"
    BY <1>1, MergedOK
  <2>3. hist.kills = 0 /\ files'[f].form = "torn" => \E q \in Merging(f) : run'[q].open = "file"
    BY <1>2, <2>1, <2>2 DEF FileInv, Whole
  <2>4. hist.kills = 0 /\ tmp'[f].form = "torn" => \E q \in Merging(f) : run'[q].open = "tmp"
    BY <1>2, <2>1, <2>2 DEF FileInv, Whole
  <2> QED
    BY <1>2, <1>4, <2>3, <2>4 DEF Whole
<1>7. ASSUME f \notin hist'.overlap PROVE Sole(f)'
  <2>1. Merging(f) = {p} /\ Sole(f)
    BY <1>2, <1>3, <1>7, OneHas DEF FileInv
  <2>2. Holds(f, run[p]) /\ run[p].open = "tmp"
    BY <1>1, <2>1 DEF Sole, Holds
  <2>3. files'[f] = files[f] /\ tmp'[f] = Merged(run[p].saw)
    BY <1>2, <2>2
  <2>4. Kept(f)'
    BY <1>2, <2>1, <2>3 DEF Sole, Kept
  <2>5. Holds(f, run[p])'
    BY <1>1, <1>2, <2>2, <2>3 DEF Holds
  <2>6. ASSUME f \notin hist'.torn PROVE Backed(f)'
    <3>1. Backed(f) /\ Backs(f, run[p])
      BY <1>2, <2>1, <2>6 DEF Sole, Backed
    <3>2. Backs(f, run[p])'
      BY <1>1, <1>2, <3>1 DEF Backs
    <3>3. \A q \in Merging(f)' : Backs(f, run[q])'
      BY <1>4, <2>1, <3>2
    <3> QED
      BY <1>1, <1>2, <1>4, <2>1, <2>3, <3>1, <3>3 DEF Backed
  <2> QED
    BY <1>4, <2>1, <2>4, <2>5, <2>6 DEF Sole
<1> QED
  BY <1>5, <1>6, <1>7 DEF FileInv

(* The file that was prepared takes the place of the other, and whoever    *)
(* still writes to it writes to the settings file now.                     *)
LEMMA RenameKeeps ==
  ASSUME Typed, NEW p \in Run, Rename(p), NEW f \in File, f = On(p), FileInv(f)
  PROVE  FileInv(f)'
<1>1. /\ run[p].at = "rename" /\ run'[p].at \in {"step", "idle"} /\ run[p].open = "no"
      /\ \A q \in Run \ {p} :
           /\ run'[q].at = run[q].at /\ run'[q].todo = run[q].todo /\ run'[q].saw = run[q].saw
           /\ run'[q].orig = run[q].orig
           /\ run'[q].open = (IF Taken(p) /\ q \in Merging(f) THEN Moved(run[q].open) ELSE run[q].open)
  BY RenameIs DEF Ends, Typed, RunOK
<1>2. /\ bak' = bak /\ hist' = hist
      /\ files'[f] = (IF Taken(p) THEN tmp[f] ELSE files[f])
      /\ tmp'[f] = (IF Taken(p) THEN Absent ELSE tmp[f])
  BY <1>1 DEF Rename, Typed, Taken
<1>3. p \in Merging(f) /\ Merging(f) \subseteq Run
  BY <1>1, Has DEF MergePlaces, Merging
<1>4. Merging(f)' = Merging(f) \ {p}
  <2>1. ASSUME NEW q \in Run PROVE q \in Merging(f)' <=> q \in Merging(f) \ {p}
    <3>1. CASE q = p
      BY <1>1, <3>1, HasNext DEF MergePlaces
    <3>2. CASE q # p
      BY <1>1, <3>2, Has, HasNext DEF On
    <3> QED
      BY <3>1, <3>2
  <2>2. Merging(f)' \subseteq Run
    BY DEF Merging
  <2> QED
    BY <1>3, <2>1, <2>2
<1>5. f \notin hist.overlap => /\ Merging(f) = {p} /\ Sole(f) /\ tmp[f] = Merged(run[p].saw)
                               /\ run[p].saw \in Content /\ Taken(p) /\ Holds(f, run[p])
  <2>1. ASSUME f \notin hist.overlap PROVE Merging(f) = {p} /\ Sole(f)
    BY <1>3, <2>1, OneHas DEF FileInv
  <2>2. ASSUME f \notin hist.overlap PROVE tmp[f] = Merged(run[p].saw) /\ Holds(f, run[p])
    BY <1>1, <2>1, <2>2 DEF Sole, Holds
  <2>3. run[p].saw \in Content
    BY DEF Typed, RunState
  <2> QED
    BY <2>1, <2>2, <2>3, MergedOK DEF Taken
<1>6. Forms(f)'
  BY <1>2, <1>5, MergedOK, Blank DEF FileInv, Forms, Taken
<1>7. Whole(f)'
  <2>1. CASE Taken(p)
    <3>1. ASSUME NEW q \in Merging(f), run[q].open = "tmp" PROVE q \in Merging(f)' /\ run'[q].open = "file"
      BY <1>1, <1>3, <1>4, <2>1, <3>1 DEF Moved
    <3> QED
      BY <1>2, <2>1, <3>1, Blank DEF FileInv, Whole
  <2>2. CASE ~Taken(p)
    <3>1. ASSUME NEW q \in Merging(f), run[q].open # "no" PROVE q \in Merging(f)' /\ run'[q].open = run[q].open
      BY <1>1, <1>3, <1>4, <2>2, <3>1
    <3> QED
      BY <1>2, <2>2, <3>1 DEF FileInv, Whole
  <2> QED
    BY <2>1, <2>2
<1>8. ASSUME f \notin hist'.overlap PROVE Sole(f)'
  <2>1. /\ Merging(f) = {p} /\ Merging(f)' = {} /\ Sole(f) /\ files'[f] = Merged(run[p].saw)
        /\ Holds(f, run[p]) /\ run[p].saw \in Content
    BY <1>2, <1>4, <1>5, <1>8
  <2>2. Kept(f)'
    BY <1>2, <2>1, MergedOK DEF Holds, Kept
  <2>3. ASSUME f \notin hist'.torn PROVE Backed(f)'
    <3>1. Backed(f) /\ Backs(f, run[p])
      BY <1>2, <2>1, <2>3 DEF Sole, Backed
    <3>2. ~bak[f].there => hist.first[f] = {}
      BY <1>1, <3>1 DEF Backs
    <3>3. bak[f].there => hist.first[f] \subseteq bak[f].user
      BY <1>1, <2>1, <3>1 DEF Backed
    <3> QED
      BY <1>2, <2>1, <3>2, <3>3 DEF Backed
  <2> QED
    BY <2>1, <2>2, <2>3 DEF Sole
<1> QED
  BY <1>6, <1>7, <1>8 DEF FileInv

-----------------------------------------------------------------------------
(* The steps of the user.                                                  *)
LEMMA EditKeeps ==
  ASSUME Typed, NEW f \in File, NEW e \in Entry, UserEdits(f, e), FileInv(f)
  PROVE  FileInv(f)'
<1>1. /\ files'[f].there /\ files'[f].user = files[f].user \cup {e} /\ files'[f].ours = files[f].ours
      /\ files'[f].form = files[f].form
  BY EditedOK
<1>2. bak' = bak /\ tmp' = tmp /\ hist' = hist /\ run' = run /\ Merging(f)' = Merging(f)
  BY DEF UserEdits, Merging, On
<1>3. Forms(f)'
  BY <1>1, <1>2 DEF FileInv, Forms
<1>4. Whole(f)'
  BY <1>1, <1>2 DEF FileInv, Whole
<1>5. ASSUME f \notin hist'.overlap PROVE Sole(f)'
  <2>1. Sole(f)
    BY <1>2, <1>5 DEF FileInv
  <2>2. Kept(f)'
    BY <1>1, <1>2, <2>1 DEF Sole, Kept
  <2>3. ASSUME NEW q \in Merging(f)' PROVE Holds(f, run[q])'
    BY <1>2, <2>1 DEF Sole, Holds
  <2>4. ASSUME f \notin hist'.torn PROVE Backed(f)'
    BY <1>1, <1>2, <2>1, <2>4 DEF Sole, Backed, Backs
  <2> QED
    BY <1>2, <2>1, <2>2, <2>3, <2>4 DEF Sole
<1> QED
  BY <1>3, <1>4, <1>5 DEF FileInv

LEMMA CommentKeeps ==
  ASSUME Typed, NEW f \in File, UserComments(f), FileInv(f)
  PROVE  FileInv(f)'
<1>1. /\ files'[f].there /\ files'[f].user = files[f].user /\ files'[f].ours = files[f].ours
      /\ files'[f].form = "commented"
  BY CommentedOK DEF UserComments, Typed
<1>2. /\ bak' = bak /\ tmp' = tmp /\ run' = run /\ Merging(f)' = Merging(f) /\ f \in hist'.commented
      /\ hist'.saw = hist.saw /\ hist'.first = hist.first /\ hist'.overlap = hist.overlap
      /\ hist'.torn = hist.torn /\ hist'.kills = hist.kills
  BY DEF UserComments, Merging, On, Typed, HistOK
<1>3. Forms(f)'
  BY <1>1, <1>2 DEF FileInv, Forms
<1>4. Whole(f)'
  BY <1>1, <1>2 DEF FileInv, Whole
<1>5. ASSUME f \notin hist'.overlap PROVE Sole(f)'
  <2>1. Sole(f)
    BY <1>2, <1>5 DEF FileInv
  <2>2. Kept(f)'
    BY <1>2 DEF Kept
  <2>3. ASSUME NEW q \in Merging(f)' PROVE Holds(f, run[q])'
    BY <1>2, <2>1 DEF Sole, Holds
  <2>4. ASSUME f \notin hist'.torn PROVE Backed(f)'
    BY <1>1, <1>2, <2>1, <2>4 DEF Sole, Backed, Backs
  <2> QED
    BY <1>2, <2>1, <2>2, <2>3, <2>4 DEF Sole
<1> QED
  BY <1>3, <1>4, <1>5 DEF FileInv
-----------------------------------------------------------------------------
(* Every step keeps what holds of every settings file.                     *)
FilesInv == \A f \in File : FileInv(f)

LEMMA InitFiles == Init => FilesInv
<1> SUFFICES ASSUME Init, NEW f \in File PROVE FileInv(f)
  BY DEF FilesInv
<1>1. files[f] = Absent /\ tmp[f] = Absent /\ bak[f] = Absent /\ hist.saw[f] = {} /\ hist.first[f] = {}
  BY DEF Init
<1>2. Merging(f) = {}
  BY IdleOK DEF Init, Merging
<1>3. Forms(f) /\ Whole(f)
  BY <1>1, Blank DEF Forms, Whole
<1>4. Sole(f)
  BY <1>1, <1>2 DEF Sole, Kept, Backed
<1> QED
  BY <1>3, <1>4 DEF FileInv

LEMMA NotTouched ==
  ASSUME NEW g \in File, files' = files, bak' = bak, tmp' = tmp,
         \/ hist' = hist
         \/ /\ hist'.saw = hist.saw /\ hist'.first = hist.first /\ hist'.overlap = hist.overlap
            /\ hist.torn \subseteq hist'.torn /\ hist'.commented = hist.commented
            /\ (hist'.kills = 0 => hist.kills = 0)
  PROVE  Apart(g)
  BY DEF Apart

(* A run that is or gets out of the file, and has nothing of it open.      *)
LEMMA OutOfIt ==
  ASSUME Typed, NEW p \in Run, Only(p), NEW g \in File, FileInv(g), Apart(g), p \notin Merging(g)',
         p \in Merging(g) => run[p].at \notin {"fill", "tmpfill"}
  PROVE  FileInv(g)'
<1>1. \A q \in Run \ {p} : run'[q] = run[q] /\ (q \in Merging(g)' <=> q \in Merging(g))
  BY Has, HasNext DEF Only, On
<1>2. p \in Merging(g) => run[p].at # "fill" /\ run[p].open \notin {"file", "tmp"}
  BY DEF Typed, RunOK
<1> QED
  BY <1>1, <1>2, ApartHolds

LEMMA Killed ==
  ASSUME Typed, NEW p \in Run, Kill(p), NEW g \in File, FileInv(g)
  PROVE  FileInv(g)'
<1>1. Only(p) /\ run'[p].at = "idle"
  BY KillIs
<1>2. /\ files' = files /\ bak' = bak /\ tmp' = tmp /\ hist'.saw = hist.saw /\ hist'.first = hist.first
      /\ hist'.overlap = hist.overlap /\ hist'.commented = hist.commented
      /\ hist'.kills = hist.kills + 1
      /\ hist'.torn = (IF run[p].at = "fill" THEN hist.torn \cup {On(p)} ELSE hist.torn)
  BY DEF Kill, Typed, HistOK, At
<1>3. hist'.kills # 0
  <2>1. hist.kills \in Nat
    BY DEF Typed, HistOK
  <2> QED
    BY <1>2, <2>1
<1>4. Apart(g)
  BY <1>2, <1>3, NotTouched
<1>5. \A q \in Run \ {p} : run'[q] = run[q] /\ (q \in Merging(g)' <=> q \in Merging(g))
  BY <1>1, Has, HasNext DEF Only, On
<1>6. p \notin Merging(g)'
  BY <1>1, HasNext DEF MergePlaces
<1>7. p \in Merging(g) => hist'.kills # 0 /\ (run[p].at = "fill" => g \in hist'.torn)
  BY <1>2, <1>3, Has
<1> QED
  BY <1>4, <1>5, <1>6, <1>7, ApartHolds

(* What a run does for one file leaves the others. *)
LEMMA OtherFile ==
  ASSUME Typed, NEW p \in Run, Merges(p), NEW g \in File, FileInv(g), g # On(p)
  PROVE  FileInv(g)'
<1>1. ASSUME Only(p), Apart(g), run'[p].todo = run[p].todo PROVE FileInv(g)'
  <2>1. p \notin Merging(g) /\ p \notin Merging(g)'
    BY <1>1, Has, HasNext DEF On
  <2> QED
    BY <1>1, <2>1, OutOfIt
<1>2. CASE Read(p)
  <2>1. Only(p) /\ run'[p].todo = run[p].todo /\ On(p) \in File
    BY <1>2, ReadIs
  <2>2. Apart(g)
    BY <1>2, <2>1 DEF Read, Apart, Typed, HistOK
  <2> QED
    BY <1>1, <2>1, <2>2
<1>3. CASE Preview(p)
  <2>1. Only(p) /\ p \notin Merging(g)' /\ p \notin Merging(g)
    BY <1>3, PreviewIs, Has, HasNext DEF Ended, MergePlaces
  <2>2. Apart(g)
    BY <1>3, NotTouched DEF Preview
  <2> QED
    BY <2>1, <2>2, OutOfIt
<1>4. CASE Stat(p)
  BY <1>1, <1>4, StatIs, NotTouched DEF Stat, Steady
<1>5. CASE StatBackup(p)
  BY <1>1, <1>5, StatBackupIs, NotTouched DEF StatBackup, Steady
<1>6. CASE ReadOriginal(p)
  BY <1>1, <1>6, ReadOriginalIs, NotTouched DEF ReadOriginal, Steady
<1>7. CASE OpenBackup(p)
  BY <1>1, <1>7, OpenBackupIs DEF OpenBackup, Steady, Apart, Typed
<1>8. CASE FillBackup(p)
  BY <1>1, <1>8, FillBackupIs DEF FillBackup, Steady, Apart, Typed
<1>9. CASE OpenTmp(p)
  BY <1>1, <1>9, OpenTmpIs DEF OpenTmp, Steady, Apart, Typed
<1>10. CASE FillTmp(p)
  <2>1. Only(p) /\ run'[p].todo = run[p].todo /\ On(p) \in File
    BY <1>10, FillTmpIs DEF Steady
  <2>2. Apart(g)
    BY <1>10, <2>1 DEF FillTmp, Apart, Typed
  <2> QED
    BY <1>1, <2>1, <2>2
<1>11. CASE Rename(p)
  <2>1. Apart(g)
    BY <1>11, RenameIs DEF Rename, Apart, Typed
  <2>2. p \notin Merging(g) /\ p \notin Merging(g)'
    BY <1>11, RenameIs, Has, HasNext DEF Ends, MergePlaces
  <2>3. ASSUME NEW q \in Run \ {p} PROVE q \in Merging(g)' <=> q \in Merging(g)
    BY <1>11, RenameIs, Has, HasNext DEF On
  <2>4. ASSUME NEW q \in Run \ {p}, q \in Merging(g) PROVE run'[q] = run[q]
    BY <1>11, <2>4, RenameIs, Has
  <2> QED
    BY <2>1, <2>2, <2>3, <2>4, ApartHolds
<1> QED
  BY <1>2, <1>3, <1>4, <1>5, <1>6, <1>7, <1>8, <1>9, <1>10, <1>11 DEF Merges

LEMMA OwnFile ==
  ASSUME Typed, NEW p \in Run, Merges(p), NEW f \in File, FileInv(f), f = On(p)
  PROVE  FileInv(f)'
<1>1. CASE Preview(p)
  <2>1. Only(p) /\ p \notin Merging(f)' /\ run[p].at = "read"
    BY <1>1, PreviewIs, HasNext DEF Ended, MergePlaces
  <2>2. Apart(f)
    BY <1>1, NotTouched DEF Preview
  <2> QED
    BY <2>1, <2>2, OutOfIt
<1> QED
  BY <1>1, ReadKeeps, StatKeeps, StatBackupKeeps, ReadOriginalKeeps, OpenBackupKeeps, FillBackupKeeps,
     OpenTmpKeeps, FillTmpKeeps, RenameKeeps DEF Merges

(* What a run does elsewhere leaves them all. *)
LEMMA ElsewhereKeeps ==
  ASSUME Typed, NEW p \in Run, NEW g \in File, FileInv(g),
         \/ \E dry \in BOOLEAN : RunInit(p, dry)
         \/ RunSetup(p) \/ Confirm(p) \/ ReadAgents(p) \/ TruncateAgents(p) \/ FillAgents(p) \/ WritePlain(p)
  PROVE  FileInv(g)'
<1>1. /\ Only(p) /\ run[p].at \notin MergePlaces /\ run'[p].at \notin MergePlaces
  BY RunInitIs, RunSetupIs, ConfirmIs, ReadAgentsIs, TruncateAgentsIs, FillAgentsIs, WritePlainIs
  DEF MergePlaces
<1>2. files' = files /\ bak' = bak /\ tmp' = tmp
  BY DEF RunInit, RunSetup, Confirm, ReadAgents, TruncateAgents, FillAgents, WritePlain
<1>3. /\ hist'.saw = hist.saw /\ hist'.first = hist.first /\ hist'.overlap = hist.overlap
      /\ hist'.torn = hist.torn /\ hist'.commented = hist.commented /\ hist'.kills = hist.kills
  BY DEF RunInit, RunSetup, Confirm, ReadAgents, TruncateAgents, FillAgents, WritePlain, Typed, HistOK
<1>4. Apart(g)
  BY <1>2, <1>3 DEF Apart
<1>5. p \notin Merging(g) /\ p \notin Merging(g)'
  BY <1>1, Has, HasNext
<1> QED
  BY <1>1, <1>4, <1>5, OutOfIt

LEMMA UserKeeps ==
  ASSUME Typed, User, NEW g \in File, FileInv(g)
  PROVE  FileInv(g)'
<1>1. ASSUME run' = run, Apart(g) PROVE FileInv(g)'
  <2>1. Merging(g)' = Merging(g)
    BY <1>1 DEF Merging, On
  <2> QED
    BY <1>1, <2>1, ApartHolds
<1>2. ASSUME NEW f \in File, NEW e \in Entry, UserEdits(f, e) PROVE FileInv(g)'
  <2>1. CASE f = g
    BY <1>2, <2>1, EditKeeps
  <2>2. CASE f # g
    BY <1>1, <1>2, <2>2, EditedOK DEF UserEdits, Apart
  <2> QED
    BY <2>1, <2>2
<1>3. ASSUME NEW f \in File, UserComments(f) PROVE FileInv(g)'
  <2>1. CASE f = g
    BY <1>3, <2>1, CommentKeeps
  <2>2. CASE f # g
    BY <1>1, <1>3, <2>2 DEF UserComments, Apart, Typed, HistOK
  <2> QED
    BY <2>1, <2>2
<1>4. CASE UserWrites
  BY <1>1, <1>4 DEF UserWrites, Apart, Typed, HistOK
<1> QED
  BY <1>2, <1>3, <1>4 DEF User

LEMMA NextFiles == ASSUME Typed, FilesInv, [Next]_vars PROVE FilesInv'
<1>1. File' = File
  OBVIOUS
<1>2. ASSUME NEW g \in File PROVE FileInv(g)'
  <2>1. FileInv(g)
    BY DEF FilesInv
  <2>2. CASE User
    BY <2>1, <2>2, UserKeeps
  <2>3. ASSUME NEW p \in Run, Runs(p) PROVE FileInv(g)'
    BY <2>1, <2>3, OtherFile, OwnFile, ElsewhereKeeps, Killed DEF Runs
  <2>4. CASE UNCHANGED vars
    <3>1. Merging(g)' = Merging(g)
      BY <2>4 DEF Merging, On, vars
    <3> QED
      BY <2>1, <2>4, <3>1, ApartHolds DEF Apart, vars
  <2> QED
    BY <2>2, <2>3, <2>4 DEF Next
<1> QED
  BY <1>2 DEF FilesInv

(* What holds of a settings file between the steps of any runs, of the     *)
(* user and of kills: its forms, that it is whole, and while one run has   *)
(* it, what that run prepared and what the backup has.                     *)
THEOREM FilesHold == Spec => []FilesInv
<1> QED
  BY InitFiles, NextFiles, TypesHold, PTL DEF Spec

(* What a run has read of the user's entries stays in the settings file,   *)
(* through any number of runs and kills, while one merges at a time and    *)
(* the file parses.                                                        *)
THEOREM KeepsCorrect == Spec => []MergeKeeps
<1>1. FilesInv => MergeKeeps
  BY DEF FilesInv, FileInv, Sole, Kept, MergeKeeps
<1> QED
  BY <1>1, FilesHold, PTL

(* What a file held before its first rewrite is in it, in its backup, or   *)
(* held by the run on its way there.                                       *)
THEOREM BackupCorrect == Spec => []Recoverable
<1>1. ASSUME Typed, FilesInv, NEW f \in File \ (hist.overlap \cup hist.torn)
      PROVE  hist.first[f] \subseteq files[f].user \cup bak[f].user \cup UNION {run[p].orig.user : p \in Merging(f)}
  <2>1. Backed(f)
    BY <1>1 DEF FilesInv, FileInv, Sole
  <2>2. CASE ~bak[f].there \/ hist.first[f] \subseteq bak[f].user
    BY <2>1, <2>2 DEF Backed
  <2>3. ASSUME NEW p \in Merging(f), run[p].at = "fill"
        PROVE  hist.first[f] \subseteq UNION {run[q].orig.user : q \in Merging(f)}
    <3>1. hist.first[f] \subseteq run[p].orig.user
      BY <2>1, <2>3 DEF Backed, Backs
    <3> QED
      BY <2>3, <3>1
  <2> QED
    BY <2>1, <2>2, <2>3 DEF Backed
<1>2. Typed /\ FilesInv => Recoverable
  BY <1>1 DEF Recoverable
<1> QED
  BY <1>2, TypesHold, FilesHold, PTL

(* A settings file is half written only where two runs shared the file     *)
(* they prepare, and while one writes or because one was killed.           *)
THEOREM WholeCorrect == Spec => []NeverTorn
<1>1. Typed /\ FilesInv => NeverTorn
  <2> SUFFICES ASSUME Typed, FilesInv, NEW f \in File, files[f].form = "torn"
               PROVE  f \in hist.overlap /\ (hist.kills > 0 \/ \E p \in Merging(f) : run[p].open = "file")
    BY DEF NeverTorn
  <2>1. Forms(f) /\ Whole(f)
    BY DEF FilesInv, FileInv
  <2>2. hist.kills \in Nat
    BY DEF Typed, HistOK
  <2>3. hist.kills = 0 \/ hist.kills > 0
    BY <2>2
  <2> QED
    BY <2>1, <2>3 DEF Forms, Whole
<1> QED
  BY <1>1, TypesHold, FilesHold, PTL
-----------------------------------------------------------------------------
(* AGENTS.md: our block is there once, and in one piece.                   *)
OneB(s) == \A i, j \in 1..Len(s) : s[i] = "B" /\ s[j] = "B" => i = j

Good(s) ==
  /\ OneB(s)
  /\ \A i \in 1..Len(s) : s[i] = "B" => i < Len(s) /\ s[i + 1] = "E"
  /\ \A i \in 1..Len(s) : s[i] = "E" => i > 1 /\ s[i - 1] = "B"

Free(s) == \A i \in 1..Len(s) : s[i] # "B" /\ s[i] # "E"

LEMMA Elements == ASSUME NEW S, NEW s \in Seq(S)
                  PROVE  Range(s) = {s[i] : i \in 1..Len(s)} /\ Len(s) \in Nat
  BY DEF Range

LEMMA JoinedAt ==
  ASSUME NEW S, NEW u \in Seq(S), NEW v \in Seq(S)
  PROVE  /\ Len(u \o v) = Len(u) + Len(v) /\ Len(u) \in Nat /\ Len(v) \in Nat
         /\ \A k \in 1..Len(u) : (u \o v)[k] = u[k]
         /\ \A k \in Len(u) + 1..Len(u) + Len(v) : (u \o v)[k] = v[k - Len(u)]
  OBVIOUS

(* A block after text without one. *)
LEMMA BlockLast ==
  ASSUME NEW u \in Seq(Paragraph), Free(u)
  PROVE  Good(u \o Block) /\ \A i \in 1..Len(u) : u[i] \in Range(u \o Block)
<1> DEFINE w == u \o Block
<1>1. Block \in Seq(Paragraph) /\ Len(Block) = 2 /\ Block[1] = "B" /\ Block[2] = "E"
  BY DEF Block, Paragraph, Marks
<1>2. Len(u) \in Nat
  OBVIOUS
<1>3. /\ Len(w) = Len(u) + 2 /\ \A k \in 1..Len(u) : w[k] = u[k]
      /\ w[Len(u) + 1] = "B" /\ w[Len(u) + 2] = "E"
  <2>1. /\ Len(w) = Len(u) + Len(Block)
        /\ \A k \in 1..Len(u) : w[k] = u[k]
        /\ \A k \in Len(u) + 1..Len(u) + Len(Block) : w[k] = Block[k - Len(u)]
    BY <1>1, JoinedAt
  <2> HIDE DEF w
  <2>2. w[Len(u) + 1] = Block[1] /\ w[Len(u) + 2] = Block[2]
    BY <1>1, <1>2, <2>1
  <2> QED
    BY <1>1, <2>1, <2>2
<1>4. w \in Seq(Paragraph)
  BY <1>1, Joined
<1> HIDE DEF w
<1>5. \A k \in 1..Len(u) : w[k] # "B" /\ w[k] # "E"
  BY <1>3 DEF Free
<1>6. \A k \in 1..Len(w) : /\ w[k] = "B" => k = Len(u) + 1
                           /\ w[k] = "E" => k = Len(u) + 2
  BY <1>2, <1>3, <1>5
<1>7. Good(w)
  BY <1>2, <1>3, <1>6 DEF Good, OneB
<1>8. \A i \in 1..Len(u) : u[i] \in Range(w)
  BY <1>2, <1>3, <1>4, Elements
<1> QED
  BY <1>7, <1>8 DEF w

(* What init cuts out of a good text is our block and nothing else.        *)
LEMMA CutGood ==
  ASSUME NEW s \in Seq(Paragraph), Good(s)
  PROVE  /\ Cut(s) \in Seq(Paragraph) /\ Free(Cut(s))
         /\ \A k \in 1..Len(s) : s[k] # "B" /\ s[k] # "E" => \E m \in 1..Len(Cut(s)) : Cut(s)[m] = s[k]
<1> DEFINE i == First(s, "B")
           j == First(s, "E")
<1>1. /\ Len(s) \in Nat /\ i \in 0..Len(s) /\ j \in 0..Len(s)
      /\ i = 0 <=> "B" \notin Range(s)
      /\ j = 0 <=> "E" \notin Range(s)
      /\ i > 0 => s[i] = "B"
      /\ j > 0 => s[j] = "E"
  BY FirstIs
<1>2. Range(s) = {s[k] : k \in 1..Len(s)}
  BY Elements
<1>3. Cut(s) = IF i > 0 /\ j > i THEN SubSeq(s, 1, i - 1) \o SubSeq(s, j + 1, Len(s)) ELSE s
  BY DEF Cut
<1> HIDE DEF i, j
<1>4. CASE i = 0
  <2>1. \A k \in 1..Len(s) : s[k] # "B"
    BY <1>1, <1>2, <1>4
  <2>2. \A k \in 1..Len(s) : s[k] # "E"
    BY <1>1, <2>1 DEF Good
  <2>3. Cut(s) = s
    BY <1>3, <1>4
  <2> QED
    BY <2>1, <2>2, <2>3 DEF Free
<1>5. CASE i > 0
  <2>1. s[i] = "B" /\ i < Len(s) /\ s[i + 1] = "E" /\ i \in 1..Len(s)
    BY <1>1, <1>5 DEF Good
  <2>2. j > 0 /\ s[j] = "E" /\ j \in 1..Len(s)
    BY <1>1, <1>2, <2>1
  <2>3. s[j - 1] = "B" /\ j - 1 \in 1..Len(s)
    BY <1>1, <2>2 DEF Good
  <2>4. j = i + 1
    BY <1>1, <2>1, <2>3 DEF Good, OneB
  <2>5. \A k \in 1..Len(s) : k # i /\ k # j => s[k] # "B" /\ s[k] # "E"
    <3>1. \A k \in 1..Len(s) : s[k] = "B" => k = i
      BY <2>1 DEF Good, OneB
    <3>2. \A k \in 1..Len(s) : s[k] = "E" => k - 1 \in 1..Len(s) /\ s[k - 1] = "B"
      BY <1>1 DEF Good
    <3>3. \A k \in 1..Len(s) : s[k] = "E" => k = j
      BY <1>1, <2>4, <3>1, <3>2
    <3> QED
      BY <3>1, <3>3
  <2> DEFINE u == SubSeq(s, 1, i - 1)
             v == SubSeq(s, j + 1, Len(s))
  <2>6. /\ u \in Seq(Paragraph) /\ Len(u) = i - 1 /\ \A k \in 1..i - 1 : u[k] = s[k]
    BY <1>1, <2>1
  <2>7. /\ v \in Seq(Paragraph) /\ Len(v) = Len(s) - j /\ \A k \in 1..Len(s) - j : v[k] = s[j + k]
    BY <1>1, <2>2
  <2>8. Cut(s) = u \o v
    <3>1. i > 0 /\ j > i
      BY <1>1, <1>5, <2>4
    <3> QED
      BY <1>3, <3>1
  <2> HIDE DEF u, v
  <2> DEFINE w == u \o v
  <2>9. /\ w \in Seq(Paragraph) /\ Len(w) = Len(u) + Len(v)
        /\ \A k \in 1..Len(u) : w[k] = u[k]
        /\ \A k \in Len(u) + 1..Len(u) + Len(v) : w[k] = v[k - Len(u)]
    BY <2>6, <2>7, Joined, JoinedAt
  <2>10. Cut(s) = w
    BY <2>8
  <2> HIDE DEF w
  <2>11. Len(w) = Len(s) - 2
    BY <1>1, <2>2, <2>4, <2>6, <2>7, <2>9
  <2>12. \A k \in 1..Len(w) : w[k] = IF k < i THEN s[k] ELSE s[k + 2]
    <3>1. \A k \in 1..Len(w) : k < i => w[k] = s[k]
      BY <1>1, <2>6, <2>9
    <3>2. ASSUME NEW k \in 1..Len(w), ~(k < i) PROVE w[k] = s[k + 2]
      <4>1. k \in Len(u) + 1..Len(u) + Len(v) /\ k - Len(u) \in 1..Len(s) - j /\ j + (k - Len(u)) = k + 2
        BY <1>1, <2>1, <2>4, <2>6, <2>7, <2>9, <2>11, <3>2
      <4>2. w[k] = v[k - Len(u)] /\ v[k - Len(u)] = s[j + (k - Len(u))]
        BY <2>7, <2>9, <4>1
      <4> QED
        BY <4>1, <4>2
    <3> QED
      BY <1>1, <3>1, <3>2
  <2>13. Free(w)
    BY <1>1, <2>1, <2>4, <2>5, <2>11, <2>12 DEF Free
  <2>14. ASSUME NEW k \in 1..Len(s), s[k] # "B", s[k] # "E" PROVE \E m \in 1..Len(w) : w[m] = s[k]
    <3>1. k # i /\ k # j
      BY <2>1, <2>2, <2>14
    <3>2. CASE k < i
      BY <1>1, <2>1, <2>11, <2>12, <3>2
    <3>3. CASE k > j
      <4>1. k - 2 \in 1..Len(w) /\ ~(k - 2 < i) /\ (k - 2) + 2 = k
        BY <1>1, <2>1, <2>4, <2>11, <3>3
      <4> QED
        BY <2>12, <4>1
    <3> QED
      BY <1>1, <2>4, <3>1, <3>2, <3>3
  <2> QED
    BY <2>9, <2>10, <2>13, <2>14
<1> QED
  BY <1>1, <1>4, <1>5
-----------------------------------------------------------------------------
(* What holds of AGENTS.md unless two runs had it at once or one was       *)
(* killed over it: one run at a time has it, what that run writes back has *)
(* everything the user wrote but what was written under its hands, and     *)
(* while none is in the middle of writing, so has the file.                *)
Writes(p) == run[p].at \in AgentPlaces
Has1(s) == \A i \in 1..hist.wrote : i \in hist.raced \/ Text[i] \in Range(s)

MdInv ==
  /\ \A p, q \in Run : Writes(p) /\ Writes(q) => p = q
  /\ \A p \in Run : Writes(p) => Good(run[p].text) /\ Has1(run[p].text)
  /\ (\A p \in Run : run[p].at # "agentsfill") => Good(md) /\ Has1(md)
  /\ OneB(md)

AgentsInv == ~hist.lost => MdInv

LEMMA GoodOne == ASSUME NEW s, Good(s) PROVE OneB(s)
  BY DEF Good

LEMMA Prefix ==
  ASSUME NEW s \in Seq(Paragraph), OneB(s), NEW n \in 0..Len(s) - 1
  PROVE  OneB(SubSeq(s, 1, n))
<1>1. Len(s) \in Nat
  OBVIOUS
<1>2. Len(SubSeq(s, 1, n)) = n /\ \A k \in 1..n : SubSeq(s, 1, n)[k] = s[k]
  BY <1>1
<1> QED
  BY <1>1, <1>2 DEF OneB

LEMMA TextIs == ASSUME NEW i \in 1..Len(Text)
                PROVE  Text[i] \in Paragraph /\ Text[i] # "B" /\ Text[i] # "E"
<1>1. Text \in Seq(Range(Text))
  BY SetupText
<1>2. Text[i] \in Range(Text)
  BY <1>1
<1> QED
  BY <1>2, SetupText DEF Paragraph

LEMMA Appended ==
  ASSUME NEW s \in Seq(Paragraph), NEW x \in Paragraph, x # "B", x # "E"
  PROVE  /\ OneB(s) => OneB(Append(s, x))
         /\ Good(s) => Good(Append(s, x))
         /\ \A y : y \in Range(s) => y \in Range(Append(s, x))
         /\ x \in Range(Append(s, x))
<1> DEFINE w == Append(s, x)
<1>1. /\ Len(s) \in Nat /\ Len(w) = Len(s) + 1 /\ w \in Seq(Paragraph)
      /\ \A k \in 1..Len(s) : w[k] = s[k]
      /\ w[Len(s) + 1] = x
  BY AppendProperties
<1> HIDE DEF w
<1>2. OneB(s) => OneB(w)
  BY <1>1 DEF OneB
<1>3. ASSUME Good(s) PROVE Good(w)
  <2>1. \A k \in 1..Len(w) : w[k] = "B" \/ w[k] = "E" => k \in 1..Len(s) /\ w[k] = s[k]
    BY <1>1
  <2>2. \A k \in 1..Len(w) : w[k] = "B" => k < Len(w) /\ w[k + 1] = "E"
    BY <1>1, <1>3, <2>1 DEF Good
  <2>3. \A k \in 1..Len(w) : w[k] = "E" => k > 1 /\ w[k - 1] = "B"
    BY <1>1, <1>3, <2>1 DEF Good
  <2> QED
    BY <1>2, <1>3, <2>2, <2>3 DEF Good
<1>4. Range(s) = {s[k] : k \in 1..Len(s)} /\ Range(w) = {w[k] : k \in 1..Len(w)}
  BY <1>1, Elements
<1>5. \A y : y \in Range(s) => y \in Range(w)
  BY <1>1, <1>4
<1>6. x \in Range(w)
  BY <1>1, <1>4
<1> QED
  BY <1>2, <1>3, <1>5, <1>6 DEF w

(* What a run writes back. *)
LEMMA RewrittenGood ==
  ASSUME Typed, Good(md), Has1(md)
  PROVE  Good(Cut(md) \o Block) /\ Has1(Cut(md) \o Block)
<1> DEFINE c == Cut(md)
<1>1. md \in Seq(Paragraph) /\ hist.wrote \in 0..Len(Text) /\ Len(Text) \in Nat
  BY SetupText DEF Typed, HistOK
<1>2. /\ c \in Seq(Paragraph) /\ Free(c)
      /\ \A k \in 1..Len(md) : md[k] # "B" /\ md[k] # "E" => \E m \in 1..Len(c) : c[m] = md[k]
  BY <1>1, CutGood
<1> HIDE DEF c
<1>3. Good(c \o Block) /\ \A m \in 1..Len(c) : c[m] \in Range(c \o Block)
  BY <1>2, BlockLast
<1>4. ASSUME NEW i \in 1..hist.wrote, i \notin hist.raced PROVE Text[i] \in Range(c \o Block)
  <2>1. Text[i] \in Range(md)
    BY <1>4 DEF Has1
  <2>2. Text[i] # "B" /\ Text[i] # "E"
    BY <1>1, TextIs
  <2>3. PICK k \in 1..Len(md) : md[k] = Text[i]
    BY <1>1, <2>1, Elements
  <2>4. \E m \in 1..Len(c) : c[m] = Text[i]
    BY <1>2, <2>2, <2>3
  <2> QED
    BY <1>3, <2>4
<1>5. Has1(c \o Block)
  BY <1>4 DEF Has1
<1> QED
  BY <1>3, <1>5 DEF c
(* Nothing happens to AGENTS.md, but that a run may leave it. *)
LEMMA QuietAgents ==
  ASSUME AgentsInv, md' = md, hist'.wrote = hist.wrote, hist'.raced = hist.raced, hist.lost => hist'.lost,
         \A q \in Run : run'[q].at \in AgentPlaces => run'[q].at = run[q].at /\ run'[q].text = run[q].text,
         \A q \in Run : run[q].at = "agentsfill" => run'[q].at = "agentsfill" \/ hist'.lost
  PROVE  AgentsInv'
<1> SUFFICES ASSUME ~hist'.lost PROVE MdInv'
  BY DEF AgentsInv
<1>1. MdInv
  BY DEF AgentsInv
<1>2. \A p, q \in Run : Writes(p)' /\ Writes(q)' => p = q
  BY <1>1 DEF MdInv, Writes
<1>3. \A p \in Run : Writes(p)' => Good(run'[p].text) /\ Has1(run[p].text)'
  BY <1>1 DEF MdInv, Writes, Has1
<1>4. (\A p \in Run : run'[p].at # "agentsfill") => Good(md') /\ Has1(md)'
  BY <1>1 DEF MdInv, Has1
<1>5. OneB(md')
  BY <1>1 DEF MdInv
<1> QED
  BY <1>2, <1>3, <1>4, <1>5 DEF MdInv

LEMMA QuietRun ==
  ASSUME AgentsInv, NEW p \in Run, Only(p), run[p].at \notin AgentPlaces, run'[p].at \notin AgentPlaces,
         md' = md, hist'.wrote = hist.wrote, hist'.raced = hist.raced, hist.lost => hist'.lost
  PROVE  AgentsInv'
<1>1. \A q \in Run : run'[q].at \in AgentPlaces => run'[q].at = run[q].at /\ run'[q].text = run[q].text
  BY DEF Only
<1>2. \A q \in Run : run[q].at = "agentsfill" => run'[q].at = "agentsfill"
  BY DEF Only, AgentPlaces
<1> QED
  BY <1>1, <1>2, QuietAgents

LEMMA InitAgents == Init => AgentsInv
<1> SUFFICES ASSUME Init PROVE MdInv
  BY DEF AgentsInv
<1>1. md = << >> /\ hist.wrote = 0 /\ \A p \in Run : run[p].at = "idle"
  BY IdleOK DEF Init
<1>2. 1..Len(md) = {} /\ 1..hist.wrote = {}
  BY <1>1
<1> QED
  BY <1>1, <1>2 DEF MdInv, Writes, Good, OneB, Has1, AgentPlaces

LEMMA MergesAgents == ASSUME Typed, AgentsInv, NEW p \in Run, Merges(p) PROVE AgentsInv'
<1>1. md' = md /\ hist'.wrote = hist.wrote /\ hist'.raced = hist.raced /\ hist'.lost = hist.lost
  BY DEF Merges, Read, Preview, Stat, StatBackup, ReadOriginal, OpenBackup, FillBackup, OpenTmp, FillTmp,
     Rename, Typed, HistOK
<1>2. CASE Rename(p)
  <2>1. run[p].at = "rename" /\ run'[p].at \in {"step", "idle"}
    BY <1>2, RenameIs DEF Ends
  <2>2. ASSUME NEW q \in Run \ {p}, run[q].at \in AgentPlaces \/ run'[q].at \in AgentPlaces
        PROVE  run'[q] = run[q]
    <3>1. run'[q].at = run[q].at
      BY <1>2, RenameIs
    <3>2. q \notin Merging(On(p))
      BY <2>2, <3>1, Has DEF AgentPlaces, MergePlaces
    <3> QED
      BY <1>2, <3>2, RenameIs
  <2>3. \A q \in Run : run'[q].at \in AgentPlaces => run'[q].at = run[q].at /\ run'[q].text = run[q].text
    BY <2>1, <2>2 DEF AgentPlaces
  <2>4. \A q \in Run : run[q].at = "agentsfill" => run'[q].at = "agentsfill"
    BY <2>1, <2>2 DEF AgentPlaces
  <2> QED
    BY <1>1, <2>3, <2>4, QuietAgents
<1>3. CASE ~Rename(p)
  <2>1. Only(p) /\ run[p].at \notin AgentPlaces /\ run'[p].at \notin AgentPlaces
    BY <1>3, ReadIs, PreviewIs, StatIs, StatBackupIs, ReadOriginalIs, OpenBackupIs, FillBackupIs,
       OpenTmpIs, FillTmpIs DEF Merges, Ended, AgentPlaces
  <2> QED
    BY <1>1, <2>1, QuietRun
<1> QED
  BY <1>2, <1>3

LEMMA ReadAgentsKeeps == ASSUME Typed, AgentsInv, NEW p \in Run, ReadAgents(p) PROVE AgentsInv'
<1>1. /\ Only(p) /\ run[p].at = "step" /\ run'[p].at \in {"step", "idle", "agents"}
      /\ run'[p].at = "agents" => run'[p].text = Cut(md) \o Block
  BY ReadAgentsIs
<1>2. md' = md /\ hist'.wrote = hist.wrote /\ hist'.raced = hist.raced
      /\ hist'.lost = (hist.lost \/ OnAgents # {})
  BY DEF ReadAgents, Typed, HistOK
<1>3. CASE run'[p].at # "agents"
  BY <1>1, <1>2, <1>3, QuietRun DEF AgentPlaces
<1>4. CASE run'[p].at = "agents"
  <2> SUFFICES ASSUME ~hist'.lost PROVE MdInv'
    BY DEF AgentsInv
  <2>1. MdInv /\ OnAgents = {}
    BY <1>2 DEF AgentsInv
  <2>2. \A q \in Run : run[q].at \notin AgentPlaces
    BY <2>1 DEF OnAgents, AgentPlaces
  <2>3. Good(md) /\ Has1(md)
    BY <2>1, <2>2 DEF MdInv, AgentPlaces
  <2>4. Good(run'[p].text) /\ Has1(run'[p].text)
    BY <1>1, <1>4, <2>3, RewrittenGood
  <2>5. \A q \in Run : run'[q].at \in AgentPlaces => q = p
    BY <1>1, <2>2 DEF Only
  <2>6. Has1(run[p].text)' /\ Has1(md)'
    BY <1>2, <2>3, <2>4 DEF Has1
  <2> QED
    BY <1>2, <2>1, <2>3, <2>4, <2>5, <2>6 DEF MdInv, Writes
<1> QED
  BY <1>3, <1>4

LEMMA TruncateAgentsKeeps == ASSUME Typed, AgentsInv, NEW p \in Run, TruncateAgents(p) PROVE AgentsInv'
<1>1. Only(p) /\ run[p].at = "agents" /\ run'[p].at = "agentsfill" /\ run'[p].text = run[p].text
  BY TruncateAgentsIs
<1>2. hist' = hist
  BY DEF TruncateAgents
<1> SUFFICES ASSUME ~hist.lost PROVE MdInv'
  BY <1>2 DEF AgentsInv
<1>3. MdInv /\ Good(run[p].text)
  BY <1>1 DEF AgentsInv, MdInv, Writes, AgentPlaces
<1>4. OneB(md')
  <2>1. run[p].text \in Seq(Paragraph)
    BY DEF Typed, RunState
  <2>2. PICK n \in 0..Len(run[p].text) - 1 : md' = SubSeq(run[p].text, 1, n)
    BY DEF TruncateAgents
  <2>3. OneB(SubSeq(run[p].text, 1, n))
    BY <1>3, <2>1, Prefix, GoodOne
  <2> QED
    BY <2>2, <2>3
<1>5. \A q \in Run : (run'[q].at \in AgentPlaces <=> run[q].at \in AgentPlaces) /\ run'[q].text = run[q].text
  BY <1>1 DEF Only, AgentPlaces
<1>6. \A q \in Run : Writes(q)' => Good(run'[q].text) /\ Has1(run[q].text)'
  BY <1>2, <1>3, <1>5 DEF MdInv, Writes, Has1
<1>7. \A q, r \in Run : Writes(q)' /\ Writes(r)' => q = r
  BY <1>3, <1>5 DEF MdInv, Writes
<1> QED
  BY <1>1, <1>4, <1>6, <1>7 DEF MdInv

LEMMA FillAgentsKeeps == ASSUME Typed, AgentsInv, NEW p \in Run, FillAgents(p) PROVE AgentsInv'
<1>1. Only(p) /\ run[p].at = "agentsfill" /\ run'[p].at \in {"step", "idle"}
  BY FillAgentsIs
<1>2. hist' = hist /\ md' = run[p].text
  BY DEF FillAgents
<1> SUFFICES ASSUME ~hist.lost PROVE MdInv'
  BY <1>2 DEF AgentsInv
<1>3. MdInv /\ Good(run[p].text) /\ Has1(run[p].text)
  BY <1>1 DEF AgentsInv, MdInv, Writes, AgentPlaces
<1>4. \A q \in Run : run'[q].at \notin AgentPlaces
  <2>1. \A q \in Run \ {p} : run[q].at \notin AgentPlaces
    BY <1>1, <1>3 DEF MdInv, Writes, AgentPlaces
  <2> QED
    BY <1>1, <2>1 DEF Only, AgentPlaces
<1>5. Good(md') /\ Has1(md)' /\ OneB(md')
  BY <1>2, <1>3, GoodOne DEF Has1
<1> QED
  BY <1>4, <1>5 DEF MdInv, Writes

LEMMA KillAgents == ASSUME Typed, AgentsInv, NEW p \in Run, Kill(p) PROVE AgentsInv'
<1>1. Only(p) /\ run'[p].at = "idle"
  BY KillIs
<1>2. /\ md' = md /\ hist'.wrote = hist.wrote /\ hist'.raced = hist.raced
      /\ hist'.lost = (hist.lost \/ run[p].at = "agentsfill")
  BY DEF Kill, Typed, HistOK, At
<1>3. \A q \in Run : run'[q].at \in AgentPlaces => run'[q].at = run[q].at /\ run'[q].text = run[q].text
  BY <1>1 DEF Only, AgentPlaces
<1>4. \A q \in Run : run[q].at = "agentsfill" => run'[q].at = "agentsfill" \/ hist'.lost
  BY <1>1, <1>2 DEF Only
<1> QED
  BY <1>2, <1>3, <1>4, QuietAgents

LEMMA WritesKeeps == ASSUME Typed, AgentsInv, UserWrites PROVE AgentsInv'
<1> DEFINE n == hist.wrote + 1
<1>1. /\ run' = run /\ md' = Append(md, Text[n]) /\ hist'.wrote = n /\ hist'.lost = hist.lost
      /\ hist'.raced = (IF OnAgents = {} THEN hist.raced ELSE hist.raced \cup {n})
  BY DEF UserWrites, Typed, HistOK
<1>2. hist.wrote \in Nat /\ n \in 1..Len(Text) /\ md \in Seq(Paragraph)
  BY SetupText DEF UserWrites, Typed, HistOK
<1>3. Text[n] \in Paragraph /\ Text[n] # "B" /\ Text[n] # "E"
  BY <1>2, TextIs
<1>4. PICK x \in Paragraph : x = Text[n] /\ x # "B" /\ x # "E" /\ md' = Append(md, x)
  BY <1>1, <1>3
<1>5. /\ OneB(md) => OneB(md')
      /\ Good(md) => Good(md')
      /\ \A y : y \in Range(md) => y \in Range(md')
      /\ x \in Range(md')
  BY <1>2, <1>4, Appended
<1> SUFFICES ASSUME ~hist.lost PROVE MdInv'
  BY <1>1 DEF AgentsInv
<1>6. MdInv
  BY DEF AgentsInv
<1>7. hist'.wrote = hist.wrote + 1 /\ Text[hist.wrote + 1] \in Range(md')
  BY <1>1, <1>4, <1>5
<1>8. \A i \in 1..hist'.wrote : i \in 1..hist.wrote \/ i = hist.wrote + 1
  BY <1>2, <1>7
<1>9. ASSUME Has1(md) PROVE Has1(md)'
  BY <1>1, <1>5, <1>7, <1>8, <1>9 DEF Has1
<1>10. ASSUME NEW q \in Run, Writes(q), Has1(run[q].text) PROVE Has1(run[q].text)'
  <2>1. OnAgents # {}
    BY <1>10 DEF Writes, OnAgents, AgentPlaces
  <2> QED
    BY <1>1, <1>8, <1>10, <2>1 DEF Has1
<1>11. \A q \in Run : Writes(q)' => Good(run'[q].text) /\ Has1(run[q].text)'
  BY <1>1, <1>6, <1>10 DEF MdInv, Writes
<1> QED
  BY <1>1, <1>5, <1>6, <1>9, <1>11 DEF MdInv, Writes

LEMMA NextAgents == ASSUME Typed, AgentsInv, [Next]_vars PROVE AgentsInv'
<1>1. CASE User
  <2>1. ASSUME NEW f \in File, NEW e \in Entry, UserEdits(f, e) PROVE AgentsInv'
    BY <2>1, QuietAgents DEF UserEdits
  <2>2. ASSUME NEW f \in File, UserComments(f) PROVE AgentsInv'
    <3>1. md' = md /\ run' = run /\ hist'.wrote = hist.wrote /\ hist'.raced = hist.raced /\ hist'.lost = hist.lost
      BY <2>2 DEF UserComments, Typed, HistOK
    <3> QED
      BY <3>1, QuietAgents
  <2> QED
    BY <1>1, <2>1, <2>2, WritesKeeps DEF User
<1>2. ASSUME NEW p \in Run, Runs(p) PROVE AgentsInv'
  <2>1. ASSUME \/ \E dry \in BOOLEAN : RunInit(p, dry)
               \/ RunSetup(p) \/ Confirm(p) \/ WritePlain(p)
        PROVE  AgentsInv'
    <3>1. Only(p) /\ run[p].at \notin AgentPlaces /\ run'[p].at \notin AgentPlaces
      BY <2>1, RunInitIs, RunSetupIs, ConfirmIs, WritePlainIs DEF AgentPlaces
    <3>2. md' = md /\ hist'.wrote = hist.wrote /\ hist'.raced = hist.raced /\ hist'.lost = hist.lost
      BY <2>1 DEF RunInit, RunSetup, Confirm, WritePlain, Typed, HistOK
    <3> QED
      BY <3>1, <3>2, QuietRun
  <2> QED
    BY <1>2, <2>1, MergesAgents, ReadAgentsKeeps, TruncateAgentsKeeps, FillAgentsKeeps, KillAgents DEF Runs
<1>3. CASE UNCHANGED vars
  BY <1>3, QuietAgents DEF vars
<1> QED
  BY <1>1, <1>2, <1>3 DEF Next

(* What holds of AGENTS.md: its marks are those of one block of ours, and  *)
(* what a run is about to write has what the user wrote before it read.    *)
THEOREM AgentsHold == Spec => []AgentsInv
<1> QED
  BY InitAgents, NextAgents, TypesHold, PTL DEF Spec

LEMMA OneCounts == ASSUME NEW s \in Seq(Paragraph), OneB(s) PROVE Count(s, "B") <= 1
<1> DEFINE T == {i \in 1..Len(s) : s[i] = "B"}
<1>1. \A i, j \in T : i = j
  BY DEF OneB
<1> HIDE DEF T
<1>2. T = {} \/ \E i \in T : T = {i}
  BY <1>1
<1>3. Cardinality(T) = 0 \/ Cardinality(T) = 1
  <2>1. CASE T = {}
    BY <2>1, FS_EmptySet
  <2>2. ASSUME NEW i, T = {i} PROVE Cardinality(T) = 1
    BY <2>2, FS_Singleton
  <2> QED
    BY <1>2, <2>1, <2>2
<1> QED
  BY <1>3 DEF Count, T

(* Of ours there is one entry in a settings file and one block in          *)
(* AGENTS.md, however often init is run and wherever it is killed but in   *)
(* the middle of AGENTS.md.                                                *)
THEOREM IdempotentCorrect == Spec => []ReRunsAreIdempotent
<1>1. Typed /\ FilesInv /\ AgentsInv => ReRunsAreIdempotent
  <2> SUFFICES ASSUME Typed, FilesInv, AgentsInv PROVE ReRunsAreIdempotent
    OBVIOUS
  <2>1. \A f \in File : files[f].ours <= 1
    BY DEF FilesInv, FileInv, Forms
  <2>2. hist.lost \/ Count(md, "B") <= 1
    BY OneCounts DEF AgentsInv, MdInv, Typed
  <2> QED
    BY <2>1, <2>2 DEF ReRunsAreIdempotent
<1> QED
  BY <1>1, TypesHold, FilesHold, AgentsHold, PTL

(* What the user wrote in AGENTS.md is in it, or in the hands of the run   *)
(* that is writing it, but for what was written while a run had it.        *)
THEOREM KeptCorrect == Spec => []AgentsKept
<1>1. AgentsInv => AgentsKept
  <2> SUFFICES ASSUME AgentsInv, ~hist.lost, NEW i \in 1..hist.wrote
               PROVE  \/ i \in hist.raced \/ Text[i] \in Range(md)
                      \/ \E p \in Run : At(p, "agentsfill") /\ Text[i] \in Range(run[p].text)
    BY DEF AgentsKept
  <2>1. MdInv
    BY DEF AgentsInv
  <2>2. CASE \A p \in Run : run[p].at # "agentsfill"
    BY <2>1, <2>2 DEF MdInv, Has1
  <2>3. ASSUME NEW p \in Run, run[p].at = "agentsfill"
        PROVE  i \in hist.raced \/ Text[i] \in Range(run[p].text)
    BY <2>1, <2>3 DEF MdInv, Writes, AgentPlaces, Has1
  <2> QED
    BY <2>2, <2>3 DEF At
<1> QED
  BY <1>1, AgentsHold, PTL
=============================================================================
