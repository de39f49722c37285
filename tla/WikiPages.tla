----------------------------- MODULE WikiPages -----------------------------
(***************************************************************************)
(* The wiki of one project as its files show it: the articles under        *)
(* .context/wiki/modules, INDEX.md and architecture.md, the three programs *)
(* that write them (`ctx wiki update`, the copilot's refresh in the calling *)
(* process, the copilot's refresh in the background) and `ctx wiki lint`,  *)
(* which compares them with the index of the sources.                      *)
(*                                                                         *)
(* An article is abstracted to whether it says anything, the sources of a  *)
(* module to a version, which stands for the module's hash.  A call of the *)
(* Claude CLI, the writing of its answer and the mark in wiki_state are    *)
(* one step: the mark takes its hash from the start of the update, so a    *)
(* scan in between is as good as one before (for a kill see Kill).         *)
(***************************************************************************)
EXTENDS FiniteSets, Naturals

CONSTANTS
  Module,     \* modules: the first two segments of a path
  Stem,       \* names of article files, without ".md"
  ArticleOf,  \* [Module -> Stem]: wiki_filename
  LintNameOf, \* [Module -> Stem]: the name lint expects
  VersionsOf, \* [Module -> SUBSET Nat]: what a scan finds of a module, 0 if nothing
  MaxEvents   \* bound: scans, updates, kills and removed directories in a behaviour

WikiPagesAssumption ==
  /\ ArticleOf \in [Module -> Stem]
  /\ LintNameOf \in [Module -> Stem]
  /\ VersionsOf \in [Module -> SUBSET Nat]
  /\ MaxEvents \in Nat

\* `ctx wiki update`, refresh_wiki in the calling process, _wiki_bg_runner.
Updater == {"cli", "sync", "bg"}

VARIABLES
  scanned,  \* .context/cache.db exists
  source,   \* cache.db files: the version of each module's sources, 0 if it has none
  row,      \* cache.db wiki_state
  article,  \* modules/<stem>.md
  arch,     \* architecture.md exists
  index,    \* INDEX.md: whether it is there and the articles it lists
  updater,  \* what each updater is doing
  calm,     \* nobody else has acted since the updater now running began
  events    \* how many scans, updates, kills and removed directories there were

indexVars == <<scanned, source, row>>
wikiVars == <<scanned, source, row, article, arch, index, updater, calm, events>>

\* What a scan can find.
Sources == {f \in [Module -> UNION {VersionsOf[m] : m \in Module}] :
              \A m \in Module : f[m] \in VersionsOf[m]}

NoRow == [status |-> "none", hash |-> 0]
NoIndex == [there |-> FALSE, lists |-> {}, arch |-> FALSE]
Resting == [pc |-> "idle", due |-> {}, hash |-> [m \in Module |-> 0], todo |-> {},
            flawless |-> TRUE, built |-> NoIndex]

PagesTypeOK ==
  /\ scanned \in BOOLEAN
  /\ source \in Sources \cup {[m \in Module |-> 0]}
  /\ \A m \in Module : /\ row[m].status \in {"none", "dirty", "current"}
                       /\ row[m].hash \in VersionsOf[m] \cup {0}
  /\ article \in [Stem -> {"none", "blank", "text"}]
  /\ arch \in BOOLEAN
  /\ index \in [there : BOOLEAN, lists : SUBSET Stem, arch : BOOLEAN]
  /\ \A u \in Updater : /\ updater[u].pc \in {"idle", "generate", "index"}
                        /\ updater[u].todo \subseteq updater[u].due

-----------------------------------------------------------------------------
Tracked == {m \in Module : row[m].status # "none"}

\* get_dirty_modules.
Dirty == {m \in Module : row[m].status = "dirty"}

Articles == {s \in Stem : article[s] # "none"}

Running(u) == updater[u].pc # "idle"

Alone(u) == \A v \in Updater \ {u} : ~Running(v)

\* The value of calm after a disturbance.
Undisturbed == \A u \in Updater : ~Running(u)

\* update_dirty_state over the modules that have files after the scan.
Marked(new) ==
  [m \in Module |-> IF new[m] # 0 /\ (row[m].status = "none" \/ row[m].hash # new[m])
                      THEN [status |-> "dirty", hash |-> new[m]]
                      ELSE row[m]]

\* Variant of Built, for the mutant of CalmUpdateLeavesNoIssue: the current modules only.
BuiltFromRows(described) ==
  [there |-> TRUE, arch |-> described,
   lists |-> {ArticleOf[m] : m \in {n \in Module : row[n].status = "current"}}]

\* build_index: what the directory holds now.
Built(described) == [there |-> TRUE, lists |-> Articles, arch |-> described]

\* The architecture page is missing, or more than 30 % of the modules were due.
ShouldDescribe(due) == ~arch \/ Cardinality(due) * 10 > Cardinality(Tracked) * 3

-----------------------------------------------------------------------------
PagesInit ==
  /\ scanned = FALSE
  /\ source = [m \in Module |-> 0]
  /\ row = [m \in Module |-> NoRow]
  /\ article = [s \in Stem |-> "none"]
  /\ arch = FALSE
  /\ index = NoIndex
  /\ updater = [u \in Updater |-> Resting]
  /\ calm = TRUE
  /\ events = 0

\* A scan, from its first file to the marks in wiki_state.  A module that lost all
\* its files keeps its row.
Scan(new) ==
  /\ events < MaxEvents
  /\ scanned' = TRUE
  /\ source' = new
  /\ row' = Marked(new)
  /\ calm' = Undisturbed
  /\ events' = events + 1
  /\ UNCHANGED <<article, arch, index, updater>>

\* An update takes down the modules it will go through and their hashes.  Without any
\* it ends at once, and INDEX.md stays what it is.
Start(u, due) ==
  /\ scanned
  /\ ~Running(u)
  /\ events < MaxEvents
  /\ events' = events + 1
  /\ updater' = [updater EXCEPT ![u] =
       IF due = {} THEN Resting
       ELSE [Resting EXCEPT !.pc = "generate", !.due = due, !.todo = due,
                            !.hash = [m \in Module |-> row[m].hash]]]
  /\ calm' = Alone(u)
  /\ UNCHANGED <<scanned, source, row, article, arch, index>>

\* `ctx wiki update [--all]`.
StartCli == \E due \in {Dirty, Tracked} : Start("cli", due)

\* One module: generate_wiki_article fails (no CLI, an exit code, a time limit) and the
\* module is passed over, or its answer replaces the article and mark_current stores the
\* hash taken down at the start, whatever the row has become meanwhile.
Generate(u) ==
  /\ updater[u].pc = "generate"
  /\ \E m \in updater[u].todo, answer \in {"text", "blank", "fails"} :
       /\ updater' = [updater EXCEPT ![u].todo = @ \ {m},
                                     ![u].flawless = @ /\ answer = "text"]
       /\ IF answer = "fails"
            THEN UNCHANGED <<article, row>>
            ELSE /\ article' = [article EXCEPT ![ArticleOf[m]] = answer]
                 /\ row' = [row EXCEPT ![m] = [status |-> "current", hash |-> updater[u].hash[m]]]
  /\ UNCHANGED <<scanned, source, arch, index, calm, events>>

\* After the last module: `ctx wiki update` may write the architecture page (or fail
\* to), then each updater reads the directory for INDEX.md.
Gather(u) ==
  /\ updater[u].pc = "generate" /\ updater[u].todo = {}
  /\ arch' \in IF u = "cli" /\ ShouldDescribe(updater[u].due) THEN {arch, TRUE} ELSE {arch}
  /\ updater' = [updater EXCEPT ![u].pc = "index", ![u].built = Built(arch')]
  /\ UNCHANGED <<indexVars, article, index, calm, events>>

\* Variant of WriteIndex, for the mutant of HintsClear: left to `ctx wiki update`.
WriteIndexByCli(u) ==
  /\ updater[u].pc = "index"
  /\ index' = IF u = "cli" THEN updater[u].built ELSE index
  /\ updater' = [updater EXCEPT ![u] = Resting]
  /\ calm' = Alone(u)
  /\ UNCHANGED <<indexVars, article, arch, events>>

\* write_index.
WriteIndex(u) ==
  /\ updater[u].pc = "index"
  /\ index' = updater[u].built
  /\ updater' = [updater EXCEPT ![u] = Resting]
  /\ calm' = Alone(u)
  /\ UNCHANGED <<indexVars, article, arch, events>>

\* An updater is killed: between two steps, while it writes a file it has truncated, or
\* before the row of the article it has written is committed.
Kill(u) ==
  /\ Running(u) /\ events < MaxEvents
  /\ events' = events + 1
  /\ updater' = [updater EXCEPT ![u] = Resting]
  /\ article' \in {article} \cup
       IF updater[u].pc = "generate"
         THEN {[article EXCEPT ![ArticleOf[m]] = a] : m \in updater[u].todo, a \in {"blank", "text"}}
         ELSE {}
  /\ index' \in {index} \cup
       IF updater[u].pc = "index" THEN {[NoIndex EXCEPT !.there = TRUE]} ELSE {}
  /\ calm' = Alone(u)
  /\ UNCHANGED <<indexVars, arch>>

\* The user removes .context/wiki.
RemoveWiki ==
  /\ index.there /\ events < MaxEvents
  /\ events' = events + 1
  /\ article' = [s \in Stem |-> "none"]
  /\ arch' = FALSE
  /\ index' = NoIndex
  /\ calm' = Undisturbed
  /\ UNCHANGED <<indexVars, updater>>

\* The user removes .context as a whole, while no updater has the cache open.
RemoveContext ==
  /\ scanned /\ events < MaxEvents
  /\ \A u \in Updater : ~Running(u)
  /\ events' = events + 1
  /\ scanned' = FALSE
  /\ source' = [m \in Module |-> 0]
  /\ row' = [m \in Module |-> NoRow]
  /\ article' = [s \in Stem |-> "none"]
  /\ arch' = FALSE
  /\ index' = NoIndex
  /\ UNCHANGED <<updater, calm>>

UpdaterStep(u) == Generate(u) \/ Gather(u) \/ WriteIndex(u)

-----------------------------------------------------------------------------
(* `ctx wiki lint`: what it says and about what. *)

WithFiles == {m \in Module : source[m] # 0}

Orphaned == {s \in Articles : \A m \in WithFiles : LintNameOf[m] # s}

Missing == {m \in WithFiles : LintNameOf[m] \notin Articles}

Empty == {s \in Articles : article[s] = "blank"}

Unlisted == IF index.there THEN Articles \ index.lists ELSE Articles

Dangling == index.lists \ Articles

\* An update with which nothing interfered leaves an INDEX.md that lists the articles
\* there are, nothing stale, and, if the Claude CLI answered each time, an article with
\* text for each module it went through, which lint finds under the name it expects
\* (lint does not expect the name of a Markdown file at the root of a project without
\* its ".md", lint.py:70).
CalmUpdateLeavesNoIssue ==
  [][\A u \in Updater : calm /\ WriteIndex(u) =>
       /\ Unlisted' = {} /\ Dangling' = {}
       /\ updater[u].flawless =>
            /\ Dirty' = {}
            /\ \A m \in updater[u].due :
                 /\ ArticleOf[m] \notin Empty'
                 /\ m \in Missing' => LintNameOf[m] # ArticleOf[m]]_wikiVars
=============================================================================
