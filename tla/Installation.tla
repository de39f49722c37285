---------------------------- MODULE Installation ----------------------------
(***************************************************************************)
(* `ctx mcp install` and `uninstall`, `ctx setup`, the launchd service and *)
(* the files of other programs they edit: Claude's registry of servers     *)
(* (through its command line), CLAUDE.md, settings.json and the launchd    *)
(* plist.  Files are written in place, so each write is a truncation and a *)
(* step that fills the file; a kill between the two loses the old text.    *)
(* The operator runs one command at a time, edits the files in between,    *)
(* and otherwise follows the hints of the doctor.                          *)
(***************************************************************************)
EXTENDS Doctor, FiniteSets

CONSTANTS
    Scopes,     \* of an installation: a subset of {"user", "project", "local"}
    Lines,      \* what the user writes into a CLAUDE.md
    Versions,   \* of the package, in this order, as a sequence
    MaxUpsets,  \* bound: edits, upgrades, kills, failures and commands nobody hinted at
    Provider    \* [llm, budget]: the state of the provider, which no command here changes

ASSUME InstallationAssumption ==
    /\ "user" \in Scopes /\ Scopes \subseteq {"user", "project", "local"}
    /\ {1, 2} \subseteq DOMAIN Versions
    /\ Lines \cap ToSet(Versions) = {}
    /\ (Lines \cup ToSet(Versions)) \cap {"start", "end", "scan_note"} = {}

Files == {"home", "cwd"}
Hooks == {"PreToolUse", "PostToolUse"}
Interpreters == {"python", "moved"}

VARIABLES
    cli,        \* whether Claude's command line is on the PATH
    claude,     \* what `claude mcp add` does with a server that is there: "replaces" or "refuses"
    servers,    \* Claude's registry: by scope the interpreter of the entry, or None
    guide,      \* the CLAUDE.md of the home directory and of the project, as sequences of lines
    config,     \* the kind of ~/.lvdcp/config.yaml
    project,    \* [registered, cached, gone]: the project in the current directory
    timeline,   \* the timeline store as the doctor sees it: "absent", "fresh", "stale" or "broken"
    settings,   \* ~/.claude/settings.json: [text, legacy, hooks]; hooks by event, whose entries match it
    plist,      \* the interpreter in the plist, or None
    job,        \* the interpreter of the job launchd holds, or None
    interp,     \* the interpreter the commands run on
    version,    \* the version of the package
    op,         \* the command that is running, or Idle
    said,       \* what the last command claimed: the scope it installed, and so on
    mine,       \* what the user wrote into each CLAUDE.md and may still expect there, for GuideKept: as UserLines
    upsets

vars == << cli, claude, servers, guide, config, project, timeline, settings, plist, job, interp, version, op, said,
           mine, upsets >>
host == << cli, claude, interp, version >>
service == << plist, job >>

Idle == [cmd |-> "idle"]
FileOf(s) == IF s = "user" THEN "home" ELSE "cwd"   \* project and local share the file of the project
Block == << "start", version, "end" >>

WithSection(doc) ==
    IF SectionStart(doc) = 0 THEN doc \o Block
    ELSE SubSeq(doc, 1, SectionStart(doc) - 1) \o Block \o SubSeq(doc, SectionEnd(doc) + 1, Len(doc))

WithoutSection(doc) ==
    IF SectionStart(doc) = 0 THEN doc
    ELSE SubSeq(doc, 1, SectionStart(doc) - 1) \o SubSeq(doc, SectionEnd(doc) + 1, Len(doc))

\* `ctx scan` adds a section of its own to the project's file, once; no command removes it.
WithScanNote(doc) == IF Contains(doc, "scan_note") THEN doc ELSE Append(doc, "scan_note")

\* The user's lines in their order: the pairs of lines of which the first stands at or before the second.
UserLines(doc) == {p \in Lines \X Lines : \E i, j \in DOMAIN doc : i <= j /\ doc[i] = p[1] /\ doc[j] = p[2]}

\* An entry is added for every event for which no entry with the same matcher is there, be it the user's.
MergedHooks == [e \in Hooks |-> IF settings.hooks[e] = {} THEN {"ours"} ELSE settings.hooks[e]]

\* The scripts the hooks run: the directory they would be copied from is apps/cli/mcp/hooks, and they are in
\* apps/mcp/hooks.
HookScripts == {}

Machine ==
    [cli |-> cli, servers |-> servers, serves |-> TRUE, config |-> config, registered |-> project.registered,
     cached |-> project.cached, gone |-> project.gone, home |-> guide["home"], settings |-> settings,
     timeline |-> timeline, version |-> version, versions |-> ToSet(Versions), llm |-> Provider.llm,
     budget |-> Provider.budget]

Init ==
    /\ cli \in BOOLEAN
    /\ claude \in {"replaces", "refuses"}
    /\ servers = [s \in Scopes |-> None]
    /\ guide = [f \in Files |-> <<>>]
    /\ config = "missing"
    /\ project = [registered |-> FALSE, cached |-> FALSE, gone |-> FALSE]
    /\ timeline = "absent"
    /\ settings \in [text : {"json"}, legacy : BOOLEAN, hooks : {[e \in Hooks |-> {}], [e \in Hooks |-> IF e = "PreToolUse" THEN {"users"} ELSE {}]}]
    /\ plist = None /\ job = None
    /\ interp = "python" /\ version = Versions[1]
    /\ op = Idle /\ said = {} /\ mine = [f \in Files |-> {}] /\ upsets = 0

Upset == upsets < MaxUpsets /\ upsets' = upsets + 1
Goto(step) == op' = [op EXCEPT !.at = step] /\ UNCHANGED said
Done(claims) == op' = Idle /\ said' = claims
\* A command of its own ends here; setup goes on with its next part.
Leave(claims, next) ==
    IF op.cmd = "setup" THEN op' = [op EXCEPT !.at = next, !.claims = @ \cup claims] /\ UNCHANGED said
    ELSE Done(claims)

Start(cmd, s, first) ==
    op = Idle /\ op' = [cmd |-> cmd, scope |-> s, at |-> first, text |-> <<>>, claims |-> {}] /\ said' = {}

\* ------------------------------------------------------------- install ---

\* `claude mcp add`: an entry that is there may be refused; a call that times out may have had its effect.
AddOutcomes ==
    CASE ~cli -> {"error"}
      [] servers[op.scope] # None /\ claude = "refuses" -> {"error", "timeout"}
      [] OTHER -> {"ok", "timeout"}

AddServer ==
    /\ op.cmd \in {"install", "setup"} /\ op.at = "add"
    /\ \E outcome \in AddOutcomes :
          CASE outcome = "ok" -> /\ servers' = [servers EXCEPT ![op.scope] = interp]
                                 /\ Goto("config") /\ UNCHANGED upsets
            [] outcome = "error" -> Leave({}, "wiki") /\ UNCHANGED << servers, upsets >>
            [] outcome = "timeout" -> \* nobody catches it
                                 /\ servers' \in {servers, [servers EXCEPT ![op.scope] = interp]}
                                 /\ Done({}) /\ Upset
    /\ UNCHANGED << guide, config, project, timeline, settings, service, host, mine >>

BootstrapConfig ==
    /\ op.cmd \in {"install", "setup"} /\ op.at = "config"
    /\ config' = IF config = "missing" THEN "ok" ELSE config
    /\ Goto("guide")
    /\ UNCHANGED << servers, guide, project, timeline, settings, service, host, mine, upsets >>

\* What the file holds is read and then truncated; lines behind a section that has lost its end go with it.
OpenGuide ==
    LET f == FileOf(op.scope)
        new == IF op.cmd = "uninstall" THEN WithoutSection(guide[f]) ELSE WithSection(guide[f])
        cut == IF Contains(guide[f], "end") \/ SectionStart(guide[f]) = 0 THEN guide[f]
               ELSE SubSeq(guide[f], 1, SectionStart(guide[f]))
    IN  /\ op.cmd \in {"install", "setup", "uninstall"} /\ op.at = "guide"
        /\ IF op.cmd = "uninstall" /\ SectionStart(guide[f]) = 0
           THEN Goto("legacy") /\ UNCHANGED << guide, mine >>
           ELSE /\ guide' = [guide EXCEPT ![f] = <<>>]
                /\ mine' = [mine EXCEPT ![f] = UserLines(cut)]
                /\ op' = [op EXCEPT !.at = "write", !.text = new] /\ UNCHANGED said
        /\ UNCHANGED << servers, config, project, timeline, settings, service, host, upsets >>

WriteGuide ==
    /\ op.cmd \in {"install", "setup", "uninstall"} /\ op.at = "write"
    /\ guide' = [guide EXCEPT ![FileOf(op.scope)] = op.text]
    /\ op' = [op EXCEPT !.at = IF op.cmd = "uninstall" THEN "legacy" ELSE "hooks", !.text = <<>>] /\ UNCHANGED said
    /\ UNCHANGED << servers, config, project, timeline, settings, service, host, mine, upsets >>

\* settings.json is read and truncated; one that does not parse ends the command, setup included.
OpenSettings ==
    /\ op.cmd \in {"install", "setup"} /\ op.at = "hooks"
    /\ IF settings.text = "torn" THEN Done({}) /\ UNCHANGED settings
       ELSE settings' = [settings EXCEPT !.text = "torn"] /\ Goto("merge")
    /\ UNCHANGED << servers, guide, config, project, timeline, service, host, mine, upsets >>

MergeHooks ==
    /\ op.cmd \in {"install", "setup"} /\ op.at = "merge"
    /\ settings' = [settings EXCEPT !.text = "json", !.hooks = MergedHooks]
    /\ Leave({op.scope, "hooks"}, "wiki")
    /\ UNCHANGED << servers, guide, config, project, timeline, service, host, mine, upsets >>

\* ----------------------------------------------------------- uninstall ---

\* An error of `claude mcp remove` is swallowed.
RemoveServer ==
    /\ op.cmd = "uninstall" /\ op.at = "remove"
    /\ \/ cli /\ servers' = [servers EXCEPT ![op.scope] = None] /\ UNCHANGED upsets
       \/ ~cli /\ UNCHANGED << servers, upsets >>
       \/ cli /\ Upset /\ UNCHANGED servers
    /\ Goto("guide")
    /\ UNCHANGED << guide, config, project, timeline, settings, service, host, mine >>

\* --legacy-clean: a file that does not parse or holds no entry is left alone.
CleanLegacy ==
    /\ op.cmd = "uninstall" /\ op.at = "legacy"
    /\ IF settings.text = "json" /\ settings.legacy /\ op.claims = {"clean"}
       THEN settings' = [settings EXCEPT !.text = "torn"] /\ Goto("scrub")
       ELSE Done({}) /\ UNCHANGED settings
    /\ UNCHANGED << servers, guide, config, project, timeline, service, host, mine, upsets >>

\* The entry is taken out of the data but not of the file, for the mutant of HintsLeadToHealth.
ScrubLegacyUnsaved ==
    /\ op.cmd = "uninstall" /\ op.at = "scrub"
    /\ settings' = [settings EXCEPT !.text = "json"]
    /\ Done({})
    /\ UNCHANGED << servers, guide, config, project, timeline, service, host, mine, upsets >>

ScrubLegacy ==
    /\ op.cmd = "uninstall" /\ op.at = "scrub"
    /\ settings' = [settings EXCEPT !.text = "json", !.legacy = FALSE]
    /\ Done({})
    /\ UNCHANGED << servers, guide, config, project, timeline, service, host, mine, upsets >>

\* ---------------------------------------------------- scan, wiki, setup ---

\* Setup as on macOS: elsewhere it skips the service.  The scan registers the project unless the configuration cannot be
\* read, enters it in the timeline unless that cannot be opened or is switched off, and adds its note to CLAUDE.md.
Scan ==
    /\ op.cmd \in {"scan", "setup"} /\ op.at = "scan"
    /\ IF project.gone THEN Done({}) /\ UNCHANGED << config, project, timeline >>
       ELSE /\ config' = IF config = "missing" THEN "ok" ELSE config
            /\ project' = [project EXCEPT !.cached = TRUE, !.registered = @ \/ config \in {"missing"} \cup Valid]
            /\ timeline' = IF timeline # "broken" /\ config \in {"missing", "ok"} THEN "fresh" ELSE timeline
            /\ Goto("note")
    /\ UNCHANGED << servers, guide, settings, service, host, mine, upsets >>

OpenNote ==
    /\ op.cmd \in {"scan", "setup"} /\ op.at = "note"
    /\ IF Contains(guide["cwd"], "scan_note")
       THEN Leave({}, IF cli THEN "add" ELSE "wiki") /\ UNCHANGED guide
       ELSE /\ guide' = [guide EXCEPT !["cwd"] = <<>>]
            /\ op' = [op EXCEPT !.at = "write_note", !.text = WithScanNote(guide["cwd"])] /\ UNCHANGED said
    /\ UNCHANGED << servers, config, project, timeline, settings, service, host, mine, upsets >>

WriteNote ==
    /\ op.cmd \in {"scan", "setup"} /\ op.at = "write_note"
    /\ guide' = [guide EXCEPT !["cwd"] = op.text]
    /\ IF op.cmd = "setup"
       THEN op' = [op EXCEPT !.at = IF cli THEN "add" ELSE "wiki", !.text = <<>>] /\ UNCHANGED said
       ELSE Done({})
    /\ UNCHANGED << servers, config, project, timeline, settings, service, host, mine, upsets >>

\* The wiki is switched on in the configuration, which must parse.
EnableWiki ==
    /\ op.cmd = "setup" /\ op.at = "wiki"
    /\ IF cli /\ config \in {"malformed", "odd"} THEN Done({}) /\ UNCHANGED config
       ELSE config' = (IF cli /\ config = "missing" THEN "ok" ELSE config) /\ Goto("plist")
    /\ UNCHANGED << servers, guide, project, timeline, settings, service, host, mine, upsets >>

\* ------------------------------------------------------------- service ---

WritePlist ==
    /\ op.cmd \in {"install_service", "setup"} /\ op.at = "plist"
    /\ plist' = interp
    /\ Goto("bootstrap")
    /\ UNCHANGED << servers, guide, config, project, timeline, settings, job, host, mine, upsets >>

\* launchd refuses a label it already holds, and any label without a desktop session.
BootstrapOutcomes == IF job = None THEN {"ok", "error"} ELSE {"error"}
BootoutOutcomes == IF job # None THEN {"ok", "error"} ELSE {"error"}

\* The error of a bootstrap where the return code is not looked at, for the mutant of WhatIsSaidHolds.
BootstrapUnchecked ==
    /\ op.cmd \in {"install_service", "setup"} /\ op.at = "bootstrap"
    /\ job' = IF job = None THEN plist ELSE job
    /\ Done(op.claims \cup {"service"})
    /\ UNCHANGED << servers, guide, config, project, timeline, settings, plist, host, mine, upsets >>

Bootstrap ==
    /\ op.cmd \in {"install_service", "setup"} /\ op.at = "bootstrap"
    /\ \E outcome \in BootstrapOutcomes :
          /\ IF outcome = "ok" THEN job' = plist /\ Done(op.claims \cup {"service"})
             ELSE UNCHANGED job /\ Done(op.claims)
          /\ IF outcome = "error" /\ job = None THEN Upset ELSE UNCHANGED upsets
    /\ UNCHANGED << servers, guide, config, project, timeline, settings, plist, host, mine >>

Bootout ==
    /\ op.cmd = "uninstall_service" /\ op.at = "bootout"
    /\ \E outcome \in BootoutOutcomes :
          /\ IF outcome = "ok" THEN job' = None /\ op' = [op EXCEPT !.at = "unlink", !.claims = {"no_service"}]
             ELSE UNCHANGED job /\ op' = [op EXCEPT !.at = "unlink"]
          /\ IF outcome = "error" /\ job # None THEN Upset ELSE UNCHANGED upsets
    /\ UNCHANGED << servers, guide, config, project, timeline, settings, plist, host, mine, said >>

Unlink ==
    /\ op.cmd = "uninstall_service" /\ op.at = "unlink"
    /\ plist' = None
    /\ Done(op.claims)
    /\ UNCHANGED << servers, guide, config, project, timeline, settings, job, host, mine, upsets >>

\* ------------------------------------------- what happens from outside ---

RunInstall == \E s \in Scopes : Start("install", s, "add") /\ Upset
RunSetup == \E s \in Scopes : Start("setup", s, "scan") /\ Upset
RunUninstall ==
    \E s \in Scopes, clean \in SUBSET {"clean"} :
        /\ op = Idle /\ Upset /\ said' = {}
        /\ op' = [cmd |-> "uninstall", scope |-> s, at |-> "remove", text |-> <<>>, claims |-> clean]
RunScan == Start("scan", "user", "scan") /\ Upset
RunService ==
    /\ Upset
    /\ \/ Start("install_service", "user", "plist")
       \/ Start("uninstall_service", "user", "bootout")
Commands ==
    /\ RunInstall \/ RunSetup \/ RunUninstall \/ RunScan \/ RunService
    /\ UNCHANGED << servers, guide, config, project, timeline, settings, service, host, mine >>

\* `ctx watch add`: the directory must be there and the configuration must parse.
WatchAdd ==
    /\ op = Idle /\ Upset /\ said' = {}
    /\ ~project.gone /\ ~project.registered /\ config \in {"missing"} \cup Valid
    /\ config' = (IF config = "missing" THEN "ok" ELSE config) /\ project' = [project EXCEPT !.registered = TRUE]
    /\ UNCHANGED << servers, guide, timeline, settings, service, host, op, mine >>

\* `ctx watch remove`.
WatchRemove ==
    /\ op = Idle /\ config \in Valid
    /\ project' = [project EXCEPT !.registered = FALSE] /\ said' = {}
    /\ UNCHANGED << cli, config, timeline, op >>

WriteLine ==
    /\ op = Idle /\ Upset /\ said' = {}
    /\ \E f \in Files, line \in Lines :
          /\ \A g \in Files : ~Contains(guide[g], line)
          /\ guide' = [guide EXCEPT ![f] = Append(@, line)]
          /\ mine' = [mine EXCEPT ![f] = @ \cup ({p[1] : p \in @} \cup {line}) \X {line}]
    /\ UNCHANGED << servers, config, project, timeline, settings, service, host, op >>

\* The end marker of the managed section gets lost in an edit.
LoseEnd ==
    /\ op = Idle /\ Upset /\ said' = {}
    /\ \E f \in Files : \E i \in DOMAIN guide[f] :
          guide[f][i] = "end" /\ guide' = [guide EXCEPT ![f] = RemoveAt(@, i)]
    /\ UNCHANGED << servers, config, project, timeline, settings, service, host, op, mine >>

EditConfig ==
    /\ op = Idle /\ Upset /\ said' = {}
    /\ \/ config' \in {"malformed", "odd"} \ {config} /\ project' = [project EXCEPT !.registered = FALSE]
       \/ config \in Valid /\ config' \in Valid \ {config} /\ UNCHANGED project
    /\ UNCHANGED << servers, guide, timeline, settings, service, host, op, mine >>

Upgrade ==
    /\ op = Idle /\ Upset /\ said' = {}
    /\ \/ version = Versions[1] /\ version' = Versions[2] /\ UNCHANGED interp
       \/ interp = "python" /\ interp' = "moved" /\ UNCHANGED version
    /\ UNCHANGED << servers, guide, config, project, timeline, settings, service, cli, claude, op, mine >>

WeekPasses ==
    /\ op = Idle /\ Upset /\ timeline = "fresh"
    /\ timeline' \in {"stale", "broken"}
    /\ UNCHANGED << servers, guide, config, project, settings, service, host, op, said, mine >>

ProjectVanishes ==
    /\ op = Idle /\ Upset /\ ~project.gone
    /\ project' = [project EXCEPT !.gone = TRUE, !.cached = FALSE]
    /\ UNCHANGED << servers, guide, config, timeline, settings, service, host, op, said, mine >>

\* The next login: launchd loads what is in the directory.
Login ==
    /\ op = Idle /\ Upset /\ job # plist
    /\ job' = plist
    /\ UNCHANGED << servers, guide, config, project, timeline, settings, plist, host, op, said, mine >>

Kill ==
    /\ op # Idle /\ Upset
    /\ op' = Idle /\ said' = {}
    /\ mine' = CASE op.at = "write" -> [mine EXCEPT ![FileOf(op.scope)] = {}]
                 [] op.at = "write_note" -> [mine EXCEPT !["cwd"] = {}]
                 [] OTHER -> mine
    /\ UNCHANGED << servers, guide, config, project, timeline, settings, service, host >>

\* The operator runs the doctor and does what its first hint says.
FollowHint == \E m \in {Machine} : \E hint \in {FirstHint(m)} :
    /\ op = Idle
    /\ \/ hint = "install_claude" /\ cli' = TRUE /\ said' = {} /\ UNCHANGED << config, project, timeline, op >>
       \/ /\ hint = "delete_config"
          /\ config' = "missing" /\ project' = [project EXCEPT !.registered = FALSE] /\ said' = {}
          /\ UNCHANGED << cli, timeline, op >>
       \/ hint = "install" /\ Start("install", "user", "add") /\ UNCHANGED << cli, config, project, timeline >>
       \/ hint = "clean_legacy" /\ said' = {}
          /\ op' = [cmd |-> "uninstall", scope |-> "user", at |-> "remove", text |-> <<>>, claims |-> {"clean"}]
          /\ UNCHANGED << cli, config, project, timeline >>
       \/ hint = "scan" /\ ~project.gone /\ Start("scan", "user", "scan") /\ UNCHANGED << cli, config, project, timeline >>
       \/ hint = "unregister" /\ WatchRemove
       \/ hint = "delete_timeline" /\ timeline' = "absent" /\ said' = {} /\ UNCHANGED << cli, config, project, op >>
    /\ UNCHANGED << claude, servers, guide, settings, service, interp, version, mine, upsets >>

Step ==
    /\ op # Idle
    /\ \/ AddServer \/ BootstrapConfig \/ OpenGuide \/ WriteGuide \/ OpenSettings \/ MergeHooks
       \/ RemoveServer \/ CleanLegacy \/ ScrubLegacy \/ Scan \/ OpenNote \/ WriteNote \/ EnableWiki
       \/ WritePlist \/ Bootstrap \/ Bootout \/ Unlink

Next ==
    \/ Step \/ Commands \/ WatchAdd \/ WriteLine \/ LoseEnd \/ EditConfig \/ Upgrade \/ WeekPasses \/ ProjectVanishes
    \/ Login \/ Kill \/ FollowHint

\* A command runs to its end, and the operator does not stop at a hint.
Spec == Init /\ [][Next]_vars /\ WF_vars(Step) /\ WF_vars(FollowHint)

\* ---------------------------------------------------------- properties ---

\* Between writes, a CLAUDE.md holds what the user wrote, once and in order, and at most one managed section, through any
\* sequence of installs, updates, scans and uninstalls of any scope; excused are only a kill between the truncation
\* and the write, and lines behind a section whose end marker was lost.
GuideKept ==
    \A f \in Files :
        ~(op # Idle /\ ((op.at = "write" /\ FileOf(op.scope) = f) \/ (op.at = "write_note" /\ f = "cwd")))
        => /\ UserLines(guide[f]) = mine[f]
           /\ \A i, j \in DOMAIN guide[f] :
                 guide[f][i] = guide[f][j] /\ guide[f][i] \in Lines \cup {"start"} => i = j

\* What install, setup and the service commands report as done is so: the server is registered with the interpreter
\* in use and the managed section is the current one, every hook event has an entry, the job launchd holds runs what
\* the plist says, and a removed service is neither loaded nor installed.
WhatIsSaidHolds ==
    /\ \A s \in said \cap Scopes : /\ servers[s] = interp
                                /\ VersionFound(guide[FileOf(s)], ToSet(Versions)) = version
                                /\ Contains(guide[FileOf(s)], "end")
    /\ "hooks" \in said => settings.text = "json" /\ \A e \in Hooks : settings.hooks[e] # {}
    /\ "service" \in said => job = interp /\ plist = interp
    /\ "no_service" \in said => job = None /\ plist = None

\* An operator who does what the doctor's hints say ends with a doctor that has nothing more to say of the
\* installation, whatever went wrong before; provided the doctor reports at all (a configuration that parses but has
\* another shape crashes it), that claude replaces an entry it has, and that no project that was ever scanned is gone.
HintsLeadToHealth ==
    <>[](claude = "refuses" \/ config = "odd" \/ project.gone \/ \E m \in {Machine} : Installed(m))
=============================================================================
