------------------------------ MODULE Copilot ------------------------------
(***************************************************************************)
(* `ctx project check | refresh | wiki | ask` (libs/copilot/orchestrator.py *)
(* behind apps/cli/commands/project_cmd.py) next to everybody else who     *)
(* scans the project and writes its wiki: the daemon, `ctx scan`, `ctx     *)
(* wiki update`, a user who removes directories.                           *)
(*                                                                         *)
(* A check looks at the project twice: at its index and registry entry     *)
(* (build_health_card), then at its wiki and configuration.  What it saw   *)
(* becomes a list of degraded modes, each with a hint that names a command *)
(* to run; the user here may follow one hint and check again.              *)
(***************************************************************************)
EXTENDS WikiPages

CONSTANTS
  Qdrant,     \* qdrant.enabled
  MaxCommands \* bound: commands the user starts, but for watching a background refresh

ASSUME CopilotAssumption ==
  /\ WikiPagesAssumption
  /\ Qdrant \in BOOLEAN
  /\ MaxCommands \in Nat

VARIABLES
  lastScan, \* config.yaml: the time of the project's last scan, "never" if it has no entry
  flow,     \* the command the user runs
  commands  \* how many there were

vars == <<scanned, source, row, article, arch, index, updater, calm, events,
          lastScan, flow, commands>>

Mode == {"not_scanned", "stale_scan", "wiki_missing", "wiki_stale", "qdrant_off", "ambiguous"}

Checking == {"check", "watch", "ask", "ask --refresh"}
Refreshing == {"refresh", "refresh --no-wiki", "refresh --wiki-background"}
Writing == {"wiki --refresh", "wiki --refresh --all", "wiki --refresh --background"}

\* No command: none of its degraded modes, no answer.  `advised` is the hint the user
\* follows, as long as nobody else acts; `work` is what the command's own wiki update
\* came to; `had`, `may` and `lost` say of an ask whether there was an index at its
\* start, whether it may scan, and whether the index has been removed since.
Quiet == [pc |-> "idle", command |-> "none", scanned |-> FALSE, stale |-> FALSE, modes |-> {},
          advised |-> "none", work |-> "none", coverage |-> "none",
          had |-> FALSE, may |-> FALSE, lost |-> FALSE]

TypeOK ==
  /\ PagesTypeOK
  /\ lastScan \in {"never", "fresh", "old"}
  /\ flow.pc \in {"idle", "index", "modes", "report", "scan", "wiki", "update", "pack", "answer"}
  /\ flow.command \in Checking \cup Refreshing \cup Writing \cup {"none"}
  /\ flow.modes \subseteq Mode
  /\ flow.advised \in Mode \cup {"none"}
  /\ flow.coverage \in {"none", "unavailable", "ambiguous", "medium or high"}
  /\ flow.pc = "idle" => flow = Quiet

-----------------------------------------------------------------------------
\* What the second half of check_project makes of what the first half saw.
Degraded ==
  (IF ~flow.scanned THEN {"not_scanned"} ELSE IF flow.stale THEN {"stale_scan"} ELSE {})
  \cup (IF ~index.there THEN {"wiki_missing"} ELSE IF Dirty # {} THEN {"wiki_stale"} ELSE {})
  \cup (IF Qdrant THEN {} ELSE {"qdrant_off"})

\* The commands that DEGRADED_MODE_HINTS names; the other modes' hints name none.
Hinted == [not_scanned |-> "refresh", stale_scan |-> "refresh",
           wiki_missing |-> "wiki --refresh", wiki_stale |-> "wiki --refresh"]

-----------------------------------------------------------------------------
Init ==
  /\ PagesInit
  /\ lastScan = "never"
  /\ flow = Quiet
  /\ commands = 0

\* With no background refresh running, `check --watch` is a check.
Begin(c) ==
  /\ flow.pc = "idle"
  /\ \/ c # "watch" /\ commands < MaxCommands /\ commands' = commands + 1
     \/ c = "watch" /\ Running("bg") /\ UNCHANGED commands
  /\ flow' = [Quiet EXCEPT !.command = c,
                           !.pc = IF c \in Checking THEN "index"
                                  ELSE IF c \in Refreshing THEN "scan" ELSE "wiki",
                           !.may = c = "ask --refresh",
                           !.had = c \in {"ask", "ask --refresh"} /\ scanned]
  /\ UNCHANGED <<wikiVars, lastScan>>

\* build_health_card: is there an index, and how old is the last scan?
CheckIndex ==
  /\ flow.pc = "index"
  /\ flow' = [flow EXCEPT !.pc = "modes", !.scanned = scanned, !.stale = lastScan = "old"]
  /\ UNCHANGED <<wikiVars, lastScan, commands>>

\* A registry that does not parse ends the command there, although check_project says
\* that all it composes degrades (orchestrator.py:119).
CheckFails ==
  /\ flow.pc = "index"
  /\ flow' = Quiet
  /\ UNCHANGED <<wikiVars, lastScan, commands>>

\* INDEX.md, the dirty modules, the configuration.  An ask without an index scans, once,
\* if it may, and gives up otherwise.
CheckModes ==
  /\ flow.pc = "modes"
  /\ flow' = [flow EXCEPT
       !.modes = Degraded,
       !.pc = IF flow.command \in {"check", "watch"} THEN "report"
              ELSE IF flow.scanned THEN "pack"
              ELSE IF flow.command = "ask --refresh" THEN "scan" ELSE "answer",
       !.coverage = IF flow.command = "ask" /\ ~flow.scanned THEN "unavailable" ELSE "none"]
  /\ UNCHANGED <<wikiVars, lastScan, commands>>

\* The pack: retrieval and its trace, or not_indexed if the cache has gone meanwhile.
Pack ==
  /\ flow.pc = "pack"
  /\ \E coverage \in IF scanned THEN {"ambiguous", "medium or high"} ELSE {"unavailable"} :
       flow' = [flow EXCEPT
         !.pc = "answer", !.coverage = coverage,
         !.modes = @ \cup CASE coverage = "ambiguous" -> {"ambiguous"}
                            [] coverage = "unavailable" -> {"not_scanned"}
                            [] OTHER -> {}]
  /\ UNCHANGED <<wikiVars, lastScan, commands>>

\* Variant of RefreshScan, for the mutant of AskIsHonest: the index is not looked at again.
RefreshScanUnseen ==
  /\ flow.pc = "scan"
  /\ \E new \in Sources : Scan(new)
  /\ flow' = CASE flow.command = "ask --refresh" -> [flow EXCEPT !.pc = "modes", !.command = "ask"]
               [] flow.command = "refresh --no-wiki" -> Quiet
               [] OTHER -> [flow EXCEPT !.pc = "wiki"]
  /\ UNCHANGED <<lastScan, commands>>

\* scan_project in refresh_project.  The time of the last scan stays what it was in the
\* registry: only the daemon writes it.
RefreshScan ==
  /\ flow.pc = "scan"
  /\ \E new \in Sources : Scan(new)
  /\ flow' = CASE flow.command = "ask --refresh" -> [flow EXCEPT !.pc = "index", !.command = "ask"]
               [] flow.command = "refresh --no-wiki" -> Quiet
               [] OTHER -> [flow EXCEPT !.pc = "wiki"]
  /\ UNCHANGED <<lastScan, commands>>

\* refresh_wiki in the background: unless such a refresh runs (its lock is the subject of
\* the module WikiRefresh).
RefreshInBackground ==
  /\ flow.pc = "wiki" /\ scanned
  /\ \/ flow.command = "refresh --wiki-background" /\ Start("bg", Dirty)
     \/ /\ flow.command = "wiki --refresh --background"
        /\ \E chosen \in {Dirty, Tracked} : Start("bg", chosen)
     \/ /\ flow.command \in {"refresh --wiki-background", "wiki --refresh --background"}
        /\ Running("bg")
        /\ UNCHANGED wikiVars
  /\ flow' = Quiet
  /\ UNCHANGED <<lastScan, commands>>

\* refresh_wiki in this process, skipped without an index.
RefreshHere ==
  /\ flow.pc = "wiki"
  /\ \/ ~scanned /\ flow' = Quiet /\ UNCHANGED wikiVars
     \/ /\ flow.command \in {"refresh", "wiki --refresh", "wiki --refresh --all"}
        /\ Start("sync", IF flow.command = "wiki --refresh --all" THEN Tracked ELSE Dirty)
        /\ flow' = [flow EXCEPT !.pc = "update", !.work = IF Dirty = {} THEN "none" ELSE "done"]
  /\ UNCHANGED <<lastScan, commands>>

\* _run_wiki_update_in_process, module by module.
RefreshModule ==
  /\ UpdaterStep("sync")
  /\ flow' = IF updater'["sync"].flawless THEN flow ELSE [flow EXCEPT !.work = "failed"]
  /\ UNCHANGED <<lastScan, commands>>

\* The update has come to its end.  A user who was following a hint checks again.
RefreshEnds ==
  /\ flow.pc = "update" /\ ~Running("sync")
  /\ flow' = IF flow.advised = "none" THEN Quiet
             ELSE [flow EXCEPT !.pc = "index", !.command = "check", !.modes = {}]
  /\ UNCHANGED <<wikiVars, lastScan, commands>>

\* watch_check_project checks again while the background refresh runs, for some time.
WatchAgain ==
  /\ flow.pc = "report" /\ flow.command = "watch" /\ Running("bg")
  /\ flow' = [flow EXCEPT !.pc = "index", !.modes = {}]
  /\ UNCHANGED <<wikiVars, lastScan, commands>>

\* The user runs the command a hint of the report names.
FollowHint ==
  /\ flow.pc = "report" /\ flow.command = "check" /\ flow.advised = "none"
  /\ \E mode \in flow.modes \cap DOMAIN Hinted :
       flow' = [Quiet EXCEPT !.pc = IF Hinted[mode] = "refresh" THEN "scan" ELSE "wiki",
                             !.command = Hinted[mode], !.advised = mode]
  /\ UNCHANGED <<wikiVars, lastScan, commands>>

\* The report or the answer is on the screen.
End ==
  /\ flow.pc \in {"report", "answer"}
  /\ flow' = Quiet
  /\ UNCHANGED <<wikiVars, lastScan, commands>>

\* The user stops the command while it updates the wiki.
Interrupt ==
  /\ Kill("sync")
  /\ flow' = Quiet
  /\ UNCHANGED <<lastScan, commands>>

-----------------------------------------------------------------------------
\* Everybody else.
Disturbed(gone) ==
  /\ flow' = IF flow.pc = "idle" THEN flow
             ELSE [flow EXCEPT !.advised = "none", !.lost = @ \/ (gone /\ flow.command \in {"ask", "ask --refresh"})]
  /\ UNCHANGED commands

\* A scan by the daemon, which writes its time if the project is registered, or by `ctx
\* scan`, which does not.
OtherScan ==
  /\ \E new \in Sources : Scan(new)
  /\ lastScan' \in {lastScan, "fresh"}
  /\ Disturbed(FALSE)

\* 24 hours without a scan by the daemon.
ScanAges ==
  /\ lastScan = "fresh"
  /\ lastScan' = "old"
  /\ Disturbed(FALSE)
  /\ UNCHANGED wikiVars

OtherUpdate ==
  /\ StartCli \/ UpdaterStep("cli") \/ UpdaterStep("bg") \/ Kill("cli") \/ Kill("bg")
  /\ Disturbed(FALSE)
  /\ UNCHANGED lastScan

RemoveDirectory ==
  /\ \/ RemoveWiki /\ Disturbed(FALSE)
     \/ RemoveContext /\ Disturbed(TRUE)
  /\ UNCHANGED lastScan

Next ==
  \/ \E c \in Checking \cup Refreshing \cup Writing : Begin(c)
  \/ CheckIndex \/ CheckFails \/ CheckModes \/ Pack
  \/ RefreshScan \/ RefreshInBackground \/ RefreshHere \/ RefreshModule \/ RefreshEnds
  \/ WatchAgain \/ FollowHint \/ End \/ Interrupt
  \/ OtherScan \/ ScanAges \/ OtherUpdate \/ RemoveDirectory

Spec == Init /\ [][Next]_vars

-----------------------------------------------------------------------------
\* The hints of check_project lead somewhere: when the command a hint names has ended
\* and nobody else has acted, the next check does not give the same hint again.  Two
\* cases are left out because there it does: the age of the last scan, which `ctx project
\* refresh` does not renew, and a wiki that is missing while no module is dirty, for then
\* the refresh ends before it writes INDEX.md (orchestrator.py:393).
HintsClear ==
  flow.pc = "report" =>
    /\ flow.advised = "not_scanned" => flow.advised \notin flow.modes
    /\ flow.advised = "wiki_missing" /\ flow.work # "none" => flow.advised \notin flow.modes
    /\ flow.advised = "wiki_stale" /\ flow.work # "failed" => flow.advised \notin flow.modes

\* ask_project says "unavailable" only if it must: it may not scan and there was no index
\* when the question came, or the index was removed while it was answered.  Its degraded
\* modes say "not scanned" exactly then.
AskIsHonest ==
  flow.pc = "answer" =>
    /\ flow.coverage = "unavailable" => flow.lost \/ ~(flow.had \/ flow.may)
    /\ flow.coverage = "unavailable" <=> "not_scanned" \in flow.modes
=============================================================================
