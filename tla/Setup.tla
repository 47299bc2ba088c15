------------------------------- MODULE Setup -------------------------------
(***************************************************************************)
(* `succubus setup` and `succubus init` (mode/setup.go, mode/init.go):     *)
(* merging into settings that belong to the user, on a file system of      *)
(* which another run, the user and a kill at any point may be part.        *)
(*                                                                         *)
(* Of a settings file there are the entries of the user, how many of ours, *)
(* and its form; AGENTS.md is its paragraphs, with the marks "B"  *)
(* and "E" around our block.  A file is written by truncating it and then  *)
(* filling it; a rename takes along who still writes.                      *)
(***************************************************************************)
EXTENDS Naturals, Sequences, FiniteSets, Functions

CONSTANTS
  Run,        \* runs of init, by hand or from setup
  Installed,  \* the tools that are found
  Entry,      \* what a user writes
  Mentions,   \* the hooks among them that mention succubus
  Comments,   \* whether users leave files a JSON parser refuses
  Where,      \* what the directory is: a project, bare, home, the root
  Text,       \* the paragraphs users add to AGENTS.md, in order
  MaxKills,   \* bound: how often a run is killed
  MaxRuns     \* bound: how many runs are started

ASSUME SetupText == Text \in Seq(Range(Text)) /\ Range(Text) \cap {"B", "E"} = {}
ASSUME SetupEntries == Mentions \subseteq Entry /\ Comments \in BOOLEAN /\ MaxKills \in Nat /\ MaxRuns \in Nat

VARIABLES
  files,   \* settings files
  bak,     \* their .succubus-bak
  tmp,     \* their .tmp
  md,      \* AGENTS.md
  plain,   \* files of ours alone that are there
  run,     \* where a run is
  hist     \* history, see below

vars == <<files, bak, tmp, md, plain, run, hist>>
-----------------------------------------------------------------------------
(* What init does for a tool, in order. *)
Merge(f) == [kind |-> "merge", file |-> f]
Write(f) == [kind |-> "write", file |-> f]

Claude   == <<Merge(".claude/settings.json")>>
Channels == <<Merge(".mcp.json")>>
Droid    == <<Merge(".factory/hooks.json")>>
Codex    == <<Merge(".codex/hooks.json")>>
Gemini   == <<Merge(".gemini/settings.json")>>
Cursor   == <<Merge(".cursor/mcp.json")>>
OpenCode == <<Merge("opencode.json")>>
Plugin   == <<Write(".opencode/plugin/succubus.ts")>>
Copilot  == <<Merge(".copilot/mcp-config.json")>>
Contract == <<[kind |-> "agents", file |-> "AGENTS.md"]>>
Skill    == <<Write(".agents/skills/succubus/SKILL.md")>>

Tools == {"claude", "droid", "codex", "gemini", "cursor", "opencode", "copilot"}

ASSUME SetupTools == Installed \subseteq Tools

Configures ==
  [claude |-> Claude \o Channels, droid |-> Droid, codex |-> Codex, gemini |-> Gemini,
   cursor |-> Cursor, opencode |-> OpenCode \o Plugin, copilot |-> Copilot]

(* Init: the tools that are wanted, then what reaches every agent; droid   *)
(* and codex are skipped when their directory is missing.                  *)
Skipped(t, dry) == t \in {"droid", "codex"} \ Installed /\ ~dry

Of(t, want, dry) == IF t \in want /\ ~Skipped(t, dry) THEN Configures[t] ELSE <<>>

Todo(want, dry) ==
  Of("claude", want, dry) \o Of("droid", want, dry) \o Of("codex", want, dry) \o Of("gemini", want, dry)
  \o Of("cursor", want, dry) \o Of("opencode", want, dry) \o Of("copilot", want, dry)
  \o Contract \o Skill

File == {s.file : s \in {x \in Range(Todo(Installed, FALSE)) : x.kind = "merge"}}

Absent == [there |-> FALSE, user |-> {}, ours |-> 0, form |-> "json"]
Torn   == [there |-> TRUE, user |-> {}, ours |-> 0, form |-> "torn"]
Idle   == [at |-> "idle", todo |-> <<>>, dry |-> FALSE, saw |-> Absent, orig |-> Absent, open |-> "no", text |-> <<>>]

Init ==
  /\ files = [f \in File |-> Absent]
  /\ bak = [f \in File |-> Absent] /\ tmp = [f \in File |-> Absent]
  /\ md = <<>> /\ plain = {}
  /\ run = [p \in Run |-> Idle]
  /\ hist = [saw |-> [f \in File |-> {}], first |-> [f \in File |-> {}],
             overlap |-> {}, torn |-> {}, commented |-> {}, kills |-> 0, runs |-> 0,
             wrote |-> 0, raced |-> {}, lost |-> FALSE]

On(p) == Head(run[p].todo).file
At(p, where) == run[p].at = where
Merging(f) == {p \in Run : run[p].at \in {"read", "stat", "orig", "bak", "fill", "tmp", "tmpfill", "rename"}
                           /\ On(p) = f}

Next1(r) == [r EXCEPT !.todo = Tail(@), !.saw = Absent, !.orig = Absent, !.open = "no", !.text = <<>>,
                      !.at = IF Tail(r.todo) # <<>> THEN "step" ELSE "idle"]

(* Mutant of Done: the flags of a run are left for the next. *)
DoneKept(p) == run' = [run EXCEPT ![p] = Next1(@)]

Done(p) == run' = [run EXCEPT ![p] = IF Next1(@).at = "idle" THEN Idle ELSE Next1(@)]
Goes(p, where) == run' = [run EXCEPT ![p].at = where]
-----------------------------------------------------------------------------
(* identity.IsRegisterable and checkProjectRoot *)
Accepted(dry) == Where = "project" \/ (Where = "bare" /\ dry)

RunInit(p, dry) ==
  /\ At(p, "idle") /\ Accepted(dry) /\ hist.runs < MaxRuns
  /\ run' = [run EXCEPT ![p] = [Idle EXCEPT !.at = "step", !.dry = dry, !.todo = Todo(Installed, dry)]]
  /\ hist' = [hist EXCEPT !.runs = @ + 1]
  /\ UNCHANGED <<files, bak, tmp, md, plain>>

(* Setup shows a plan and asks; without a terminal the answer is no. *)
RunSetup(p) ==
  /\ At(p, "idle") /\ Accepted(FALSE) /\ Installed # {} /\ hist.runs < MaxRuns
  /\ run' = [run EXCEPT ![p] = [Idle EXCEPT !.at = "asking"]]
  /\ hist' = [hist EXCEPT !.runs = @ + 1]
  /\ UNCHANGED <<files, bak, tmp, md, plain>>

Confirm(p) ==
  /\ At(p, "asking")
  /\ \/ run' = [run EXCEPT ![p] = [@ EXCEPT !.at = "step", !.todo = Todo(Installed, FALSE)]]
     \/ run' = [run EXCEPT ![p] = Idle]
  /\ UNCHANGED <<files, bak, tmp, md, plain, hist>>
-----------------------------------------------------------------------------
Step(p, kind) == At(p, "step") /\ Head(run[p].todo).kind = kind

(* mergeJSONFile: what cannot be parsed is an empty object. *)
Read(p) ==
  LET f == On(p) IN
  /\ Step(p, "merge")
  /\ run' = [run EXCEPT ![p] = [@ EXCEPT !.at = "read", !.saw = files[f]]]
  /\ hist' = [hist EXCEPT
       !.saw[f] = IF files[f].form = "json" THEN @ \cup files[f].user ELSE @,
       !.first[f] = IF ~bak[f].there THEN @ \cup files[f].user ELSE @,
       !.overlap = IF Merging(f) # {} THEN @ \cup {f} ELSE @]
  /\ UNCHANGED <<files, bak, tmp, md, plain>>

(* Mutant of Merged: a file of our own. *)
MergedFresh(c) == [there |-> TRUE, user |-> {}, ours |-> 1, form |-> "json"]

(* Mutant of Merged: appended without dropping the previous one. *)
MergedStacked(c) ==
  [there |-> TRUE, user |-> IF c.form = "json" THEN c.user \ Mentions ELSE {}, form |-> "json",
   ours |-> IF c.form = "json" THEN c.ours + 1 ELSE 1]

(* appendHook, and the server by its key: hooks that mention succubus are  *)
(* dropped, ours is there once.                                            *)
Merged(c) ==
  [there |-> TRUE, user |-> IF c.form = "json" THEN c.user \ Mentions ELSE {}, ours |-> 1, form |-> "json"]

(* Mutant of DryStops: dry runs go on. *)
DryStopsNot(p) == FALSE

DryStops(p) == run[p].dry

Preview(p) ==
  /\ At(p, "read") /\ DryStops(p) /\ Done(p)
  /\ UNCHANGED <<files, bak, tmp, md, plain, hist>>

Stat(p) ==
  /\ At(p, "read") /\ ~DryStops(p)
  /\ Goes(p, IF files[On(p)].there THEN "stat" ELSE "tmp")
  /\ UNCHANGED <<files, bak, tmp, md, plain, hist>>

(* Mutant of NoBackup: a copy every time. *)
NoBackupAlways(f) == TRUE

NoBackup(f) == ~bak[f].there

StatBackup(p) ==
  /\ At(p, "stat")
  /\ Goes(p, IF NoBackup(On(p)) THEN "orig" ELSE "tmp")
  /\ UNCHANGED <<files, bak, tmp, md, plain, hist>>

ReadOriginal(p) ==
  /\ At(p, "orig")
  /\ run' = [run EXCEPT ![p] = [@ EXCEPT !.at = "bak", !.orig = files[On(p)]]]
  /\ UNCHANGED <<files, bak, tmp, md, plain, hist>>

OpenBackup(p) ==
  /\ At(p, "bak") /\ Goes(p, "fill")
  /\ bak' = [bak EXCEPT ![On(p)] = Torn]
  /\ UNCHANGED <<files, tmp, md, plain, hist>>

FillBackup(p) ==
  /\ At(p, "fill") /\ Goes(p, "tmp")
  /\ bak' = [bak EXCEPT ![On(p)] = run[p].orig]
  /\ UNCHANGED <<files, tmp, md, plain, hist>>

(* Mutant of OpenTmp: the file itself is opened. *)
OpenTmpInPlace(p) ==
  /\ At(p, "tmp")
  /\ run' = [run EXCEPT ![p] = [@ EXCEPT !.at = "tmpfill", !.open = "file"]]
  /\ files' = [files EXCEPT ![On(p)] = Torn]
  /\ UNCHANGED <<bak, tmp, md, plain, hist>>

OpenTmp(p) ==
  /\ At(p, "tmp")
  /\ run' = [run EXCEPT ![p] = [@ EXCEPT !.at = "tmpfill", !.open = "tmp"]]
  /\ tmp' = [tmp EXCEPT ![On(p)] = Torn]
  /\ UNCHANGED <<files, bak, md, plain, hist>>

(* What is written goes where the opened file is by now. *)
FillTmp(p) ==
  LET f == On(p)
      out == Merged(run[p].saw)
  IN
  /\ At(p, "tmpfill")
  /\ run' = [run EXCEPT ![p] = [@ EXCEPT !.at = "rename", !.open = "no"]]
  /\ tmp' = IF run[p].open = "tmp" THEN [tmp EXCEPT ![f] = out] ELSE tmp
  /\ files' = IF run[p].open = "file" THEN [files EXCEPT ![f] = out] ELSE files
  /\ UNCHANGED <<bak, md, plain, hist>>

Moved(o) == CASE o = "tmp" -> "file" [] o = "file" -> "gone" [] OTHER -> o

(* os.Rename: an error when another run has taken the file away. *)
Rename(p) ==
  LET f == On(p) IN
  /\ At(p, "rename")
  /\ IF tmp[f].there
     THEN /\ files' = [files EXCEPT ![f] = tmp[f]]
          /\ tmp' = [tmp EXCEPT ![f] = Absent]
          /\ run' = [q \in Run |-> IF q = p THEN IF Next1(run[p]).at = "idle" THEN Idle ELSE Next1(run[p])
                                   ELSE IF q \in Merging(f) THEN [run[q] EXCEPT !.open = Moved(@)]
                                   ELSE run[q]]
     ELSE Done(p) /\ UNCHANGED <<files, tmp>>
  /\ UNCHANGED <<bak, md, plain, hist>>
-----------------------------------------------------------------------------
Block == <<"B", "E">>

First(s, x) ==
  IF x \in Range(s) THEN CHOOSE i \in 1..Len(s) : s[i] = x /\ \A j \in 1..i - 1 : s[j] # x ELSE 0

(* Mutant of Cut: everything from our block on. *)
CutRest(s) == IF First(s, "B") = 0 THEN s ELSE SubSeq(s, 1, First(s, "B") - 1)

(* A previous block is cut out, when an end follows its beginning. *)
Cut(s) ==
  LET i == First(s, "B")
      j == First(s, "E")
  IN IF i > 0 /\ j > i THEN SubSeq(s, 1, i - 1) \o SubSeq(s, j + 1, Len(s)) ELSE s

OnAgents == {p \in Run : run[p].at \in {"agents", "agentsfill"}}

(* initAgentsMD *)
ReadAgents(p) ==
  /\ Step(p, "agents")
  /\ IF run[p].dry THEN Done(p)
     ELSE run' = [run EXCEPT ![p] = [@ EXCEPT !.at = "agents", !.text = Cut(md) \o Block]]
  /\ hist' = [hist EXCEPT !.lost = @ \/ OnAgents # {}]
  /\ UNCHANGED <<files, bak, tmp, md, plain>>

TruncateAgents(p) ==
  /\ At(p, "agents") /\ Goes(p, "agentsfill")
  /\ \E n \in 0..Len(run[p].text) - 1 : md' = SubSeq(run[p].text, 1, n)
  /\ UNCHANGED <<files, bak, tmp, plain, hist>>

FillAgents(p) ==
  /\ At(p, "agentsfill") /\ Done(p)
  /\ md' = run[p].text
  /\ UNCHANGED <<files, bak, tmp, plain, hist>>

(* installOpenCodePlugin, installSkill *)
WritePlain(p) ==
  /\ Step(p, "write") /\ Done(p)
  /\ plain' = IF run[p].dry THEN plain ELSE plain \cup {On(p)}
  /\ UNCHANGED <<files, bak, tmp, md, hist>>

Kill(p) ==
  /\ ~At(p, "idle") /\ hist.kills < MaxKills
  /\ run' = [run EXCEPT ![p] = Idle]
  /\ hist' = [hist EXCEPT !.kills = @ + 1,
                          !.torn = IF At(p, "fill") THEN @ \cup {On(p)} ELSE @,
                          !.lost = @ \/ At(p, "agentsfill")]
  /\ UNCHANGED <<files, bak, tmp, md, plain>>
-----------------------------------------------------------------------------
(* The user, or the tool itself, saves a settings file. *)
UserEdits(f, e) ==
  /\ e \notin files[f].user /\ files[f].form # "torn"
  /\ files' = [files EXCEPT ![f].there = TRUE, ![f].user = @ \cup {e}]
  /\ UNCHANGED <<bak, tmp, md, plain, run, hist>>

UserComments(f) ==
  /\ Comments /\ files[f].there /\ files[f].form = "json"
  /\ files' = [files EXCEPT ![f].form = "commented"]
  /\ hist' = [hist EXCEPT !.commented = @ \cup {f}]
  /\ UNCHANGED <<bak, tmp, md, plain, run>>

UserWrites ==
  /\ hist.wrote < Len(Text)
  /\ md' = Append(md, Text[hist.wrote + 1])
  /\ hist' = [hist EXCEPT !.wrote = @ + 1,
                          !.raced = IF OnAgents = {} THEN @ ELSE @ \cup {hist.wrote + 1}]
  /\ UNCHANGED <<files, bak, tmp, plain, run>>

Merges(p) ==
  \/ Read(p) \/ Preview(p) \/ Stat(p) \/ StatBackup(p) \/ ReadOriginal(p)
  \/ OpenBackup(p) \/ FillBackup(p) \/ OpenTmp(p) \/ FillTmp(p) \/ Rename(p)

Runs(p) ==
  \/ \E dry \in BOOLEAN : RunInit(p, dry)
  \/ RunSetup(p) \/ Confirm(p) \/ Merges(p)
  \/ ReadAgents(p) \/ TruncateAgents(p) \/ FillAgents(p) \/ WritePlain(p)
  \/ Kill(p)

User ==
  \/ \E f \in File, e \in Entry : UserEdits(f, e)
  \/ \E f \in File : UserComments(f)
  \/ UserWrites

Next == User \/ \E p \in Run : Runs(p)

Spec == Init /\ [][Next]_vars
-----------------------------------------------------------------------------
(* hist: by file, the user's entries that a run has read from a file that  *)
(* parses (saw) and from one without a backup (first); the files two runs  *)
(* merged at once (overlap), of which a backup was left half written       *)
(* (torn), that a user has left unparsable (commented).  And of AGENTS.md  *)
(* the paragraphs written so far and while a run had it (raced), and       *)
(* whether two runs had it or one was killed writing it (lost).            *)
Content == [there: BOOLEAN, user: SUBSET Entry, ours: Nat, form: {"json", "commented", "torn"}]

TypeOK ==
  /\ files \in [File -> Content] /\ bak \in [File -> Content] /\ tmp \in [File -> Content]
  /\ \A p \in Run : At(p, "idle") <=> run[p] = Idle
  /\ \A p \in Run : run[p].open # "no" <=> At(p, "tmpfill")

(* "Merging into existing settings rather than overwriting them": what a   *)
(* run has read of the user's stays, whenever runs are killed, as long as  *)
(* one runs at a time and the file parses.                                 *)
MergeKeeps ==
  \A f \in File \ (hist.overlap \cup hist.commented) :
    hist.saw[f] \ Mentions \subseteq files[f].user

(* "Back up before the first rewrite so a bad merge is recoverable": what  *)
(* a file held before it is in the file or in the backup, parsable or not, *)
(* unless a run is killed over the backup or two run at once.              *)
Recoverable ==
  \A f \in File \ (hist.overlap \cup hist.torn) :
    hist.first[f] \subseteq files[f].user \cup bak[f].user
                           \cup UNION {run[p].orig.user : p \in Merging(f)}

(* "Writes it back atomically": a settings file is never half written, but *)
(* for two runs that share its .tmp, and then only while one still writes  *)
(* or when it is killed.                                                   *)
NeverTorn ==
  \A f \in File : files[f].form = "torn" =>
    /\ f \in hist.overlap
    /\ hist.kills > 0 \/ \E p \in Merging(f) : run[p].open = "file"

(* "So re-running init is idempotent": one entry and one block of ours,    *)
(* and everything the user wrote around it.                                *)
Count(s, x) == Cardinality({i \in 1..Len(s) : s[i] = x})

ReRunsAreIdempotent ==
  /\ \A f \in File : files[f].ours <= 1
  /\ hist.lost \/ Count(md, "B") <= 1

AgentsKept ==
  hist.lost \/ \A i \in 1..hist.wrote :
    \/ i \in hist.raced \/ Text[i] \in Range(md)
    \/ \E p \in Run : At(p, "agentsfill") /\ Text[i] \in Range(run[p].text)

(* "Show what would change without writing." *)
DryWritesNothing ==
  [][\A p \in Run : run[p].dry /\ run'[p] # run[p] => UNCHANGED <<files, bak, tmp, md, plain>>]_vars

(* init.go: "merging into existing settings rather than overwriting them   *)
(* -- these files belong to the user, not to us".  The code starts from an *)
(* empty object when the file does not parse.                              *)
MergedNotOverwritten ==
  [][\A p \in Run : At(p, "rename") /\ files' # files /\ run'[p] # run[p] =>
       run[p].saw.user \ Mentions \subseteq files'[On(p)].user]_vars
=============================================================================
