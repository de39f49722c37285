------------------------------- MODULE Doctor -------------------------------
(***************************************************************************)
(* `ctx mcp doctor`: what each check reports of a machine, the exit code,  *)
(* and the first hint an operator would follow.  A machine is a record;    *)
(* the text of the details is left out.  "CRASH" is an exception that no   *)
(* handler of the check catches: the command ends without a report.        *)
(***************************************************************************)
EXTENDS Naturals, Sequences, SequencesExt

None == "none"

\* The position of the managed section's first line in a CLAUDE.md, 0 without one.
SectionStart(doc) == SelectInSeq(doc, LAMBDA t : t = "start")
\* The end of the file whether or not there is an end marker, for the mutant of GuideKept.
SectionEndOfFile(doc) == Len(doc)

\* The position of its last line; the end of the file when the end marker is missing.
SectionEnd(doc) ==
    LET e == SelectInSubSeq(doc, SectionStart(doc) + 1, Len(doc), LAMBDA t : t = "end")
    IN  IF e = 0 THEN Len(doc) ELSE e

\* The version the doctor finds: the first version mark of the file, wherever it is.
VersionFound(doc, Versions) ==
    LET i == SelectInSeq(doc, LAMBDA t : t \in Versions) IN IF i = 0 THEN None ELSE doc[i]

CheckCli(m) == IF m.cli THEN "PASS" ELSE "WARN"

\* `claude mcp list`: any scope will do, and whether the entry still starts is not looked at.
Listed(m) == m.cli /\ \E s \in DOMAIN m.servers : m.servers[s] # None
CheckList(m) == IF Listed(m) THEN "PASS" ELSE "FAIL"

\* The doctor starts the interpreter it runs on itself, not the one that was registered.
CheckHandshake(m) == IF m.serves THEN "PASS" ELSE "FAIL"

\* The configuration file is missing, valid ("untracked" with timeline.enabled: false, else "ok"), not YAML at all
\* ("malformed"), or YAML of another shape than a mapping with a list of projects ("odd": a list at the top, projects as
\* a mapping, a project without root).
Valid == {"ok", "untracked"}
CheckConfig(m) == IF m.config \in Valid THEN "PASS" ELSE "FAIL"

CheckCaches(m) ==
    CASE m.config \in {"missing", "malformed"} -> "WARN"
      [] m.config = "odd" -> "CRASH"
      [] m.config \in Valid -> IF m.registered /\ ~m.cached THEN "WARN" ELSE "PASS"

CheckGuide(m) ==
    IF SectionStart(m.home) # 0 /\ VersionFound(m.home, m.versions) = m.version THEN "PASS" ELSE "WARN"

\* A settings.json that does not parse is taken for clean.
CheckLegacy(m) == IF m.settings.text = "json" /\ m.settings.legacy THEN "WARN" ELSE "PASS"

CheckProvider(m) == IF m.llm \in {"off", "ok"} THEN "PASS" ELSE "WARN"

CheckBudget(m) ==
    CASE m.llm = "off" -> "PASS"
      [] m.budget = "exceeded" -> "FAIL"
      [] m.budget = "warning" -> "WARN"
      [] OTHER -> "PASS"

\* Every project that was ever scanned must have been scanned within the week, unless timelines are switched off: a
\* configuration that cannot be loaded counts as the default one, in which they are on.
CheckTimeline(m) ==
    CASE m.config = "untracked" -> "PASS"
      [] m.timeline = "broken" -> "FAIL"
      [] m.timeline \in {"absent", "stale"} -> "WARN"
      [] m.timeline = "fresh" -> "PASS"

Report(m) ==
    << CheckCli(m), CheckList(m), CheckHandshake(m), CheckConfig(m), CheckCaches(m), CheckGuide(m), CheckLegacy(m),
       CheckProvider(m), CheckBudget(m), CheckTimeline(m) >>

Crashes(m) == "CRASH" \in ToSet(Report(m))

ExitCode(m) ==
    CASE "FAIL" \in ToSet(Report(m)) -> 2
      [] "WARN" \in ToSet(Report(m)) -> 1
      [] OTHER -> 0

\* The state of the installation proper: everything but the provider and its budget.
Installed(m) ==
    \A r \in {CheckCli(m), CheckList(m), CheckHandshake(m), CheckConfig(m), CheckCaches(m), CheckGuide(m),
              CheckLegacy(m), CheckTimeline(m)} : r = "PASS"

\* What the first hint of the report tells the operator to do, the provider and its budget aside; for a project without
\* cache, to scan it or to unregister it.
FirstHint(m) ==
    CASE Crashes(m) -> "nothing"
      [] CheckCli(m) # "PASS" -> "install_claude"
      [] CheckList(m) # "PASS" -> "install"
      [] CheckConfig(m) # "PASS" -> IF m.config = "malformed" THEN "delete_config" ELSE "install"
      [] CheckCaches(m) # "PASS" -> IF m.gone THEN "unregister" ELSE "scan"
      [] CheckGuide(m) # "PASS" -> "install"
      [] CheckLegacy(m) # "PASS" -> "clean_legacy"
      [] CheckTimeline(m) # "PASS" -> IF m.timeline = "broken" THEN "delete_timeline" ELSE "scan"
      [] OTHER -> "nothing"
=============================================================================
