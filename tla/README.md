# A formal model of LV_DCP

LV_DCP keeps, for each registered project, a local index that tools query: the
symbols and relations of the source files, a full text index, wiki articles, a
history of symbols. Several processes write these stores without a server
between them: the auto-indexing daemon (`apps/agent`), `ctx` commands
(`apps/cli`), the MCP server (`apps/mcp`) and the web UI (`apps/ui`). This
directory holds TLA+ modules of the parts whose correctness depends on the order
in which things happen, TLC configurations that check them on small instances,
and TLAPS proofs of what matters most for instances of any size.

`PROJECT.json` lists the runs, the properties, the lines of code each
definition stands for, the hazards and the theorems.

## 1. The system

| part | code | state it keeps | operations | shared with |
|---|---|---|---|---|
| scanning | `libs/scanning/scanner.py`, `libs/project_index/index.py` | locals of a scan: paths to visit, paths visited, paths indexed before | `scan_project` full or incremental, whole or `only` some paths; `delete_file` | cache.db, fts.db, Qdrant, wiki rows, timeline |
| storage | `libs/storage/sqlite_cache.py` | `.context/cache.db`: files, symbols, relations, git_stats, wiki_state, ... | one commit per `put_*`, `replace_*`, `delete_*`; `migrate`, `quick_check` | every process that opens the project |
| full text | `libs/retrieval/fts.py` | `.context/fts.db` | `index_file`, `delete_file`, `search` | scanners, queries |
| docs linker | `libs/parsers/docs_linker.py` | none | docs text to `specifies` relations | scanning |
| daemon | `apps/agent/daemon.py`, `handler.py` | debounce buffer, batch, `_QUARANTINED`, worker pool | watcher events, flush every 2 s, scan, delete, stop | the index, the registry, the wiki worker |
| registry | `libs/core/projects_config.py`, `apps/agent/config.py`, `libs/status/registry_prune.py` | `~/.lvdcp/config.yaml`, its `.bak` and `.tmp` | add, remove, record a scan, settings, prune, restore | daemon, CLI, UI |
| background wiki refresh | `libs/copilot/wiki_background.py`, `_wiki_bg_runner.py` | `.context/wiki/.refresh.lock`, `.tmp`, `.last` | start, cancel, status; the runner | commands and runners, by the file alone |
| wiki state | `libs/wiki/state.py`, `apps/agent/wiki_worker.py` | rows of `wiki_state`, articles | mark dirty after a scan, generate, mark current | scanners, the daemon's pool |
| symbol timeline | `libs/symbol_timeline`, `libs/gitintel/tag_watcher.py` | `symbol_timeline.db` (events, renames, snapshots, scan state), the sidecar `timeline_prev.json` | diff of two scans, pairing of renames, append, reconcile with git, prune, tag poll, questions | scanning, queries, context packs |
| obsidian sync | `libs/obsidian`, `apps/agent/obsidian_worker.py`, `obsidian_cmd.py` | a directory of the vault per project, the last-sync marker | sync, sync-all, the debounced sync after a scan | the index, the wiki, the daemon |
| summaries | `libs/summaries`, `libs/llm`, `libs/status/budget.py` | `~/.lvdcp/summaries.db` | summarise the index under a semaphore, look up, persist, add up costs | every project, the providers |
| embeddings | `libs/embeddings` | Qdrant collections | upload after a whole scan, search | scanners, retrieval |
| retrieval | `libs/retrieval`, `libs/graph`, `libs/context_pack` | saved traces | match, walk the graph, fuse, rank, rerank, explain | the stores, MCP tools |
| engineering memory | `libs/memory` | `.context/memory/*.md` | propose, accept, reject, edit by hand, quote in a pack | agents, people, context packs |
| copilot | `libs/copilot/orchestrator.py`, `project_cmd.py` | none of its own | check, refresh, wiki, ask | the index, the registry, the wiki |
| wiki pages | `libs/wiki/generator.py`, `index_builder.py`, `lint.py` | `.context/wiki` | generate articles, write INDEX.md, lint | three updaters |
| installation | `libs/mcp_ops`, `apps/agent/plist.py`, `mcp_cmd.py`, `setup.py`, `watch_cmd.py` | CLAUDE.md, settings.json, Claude's servers, the launchd plist | install, uninstall, setup, service, doctor | the user and other programs |
| usage accounting | `libs/claude_usage` | a cache row per session file | read what was appended, add up tokens | Claude Code, which appends |
| git intelligence, parsers, impact, status pages, UI, scan history | see `PROJECT.json` | none, or append-only records | functions of their inputs, reports | the parts above |

What makes them hard, and where:

* **Commits in pieces.** A file is indexed in four commits to two databases,
  and the commit that later scans look at (the content hash) is the first.
* **No lock.** Nothing keeps two processes from scanning one project, writing
  the registry, or starting a refresh at the same time.
* **Interruption.** SIGTERM, SIGKILL, "database is locked" and full disks fall
  between any two commits; exceptions end a batch whose events are gone. Files of
  the user are truncated before they are filled.
* **State read early and used late.** `existing_paths` before the walk and the
  deletions after it; the dirty row before the LLM call and the mark after it;
  the registry loaded before and saved after.
* **Asynchrony.** Events come from the watcher's thread; wiki updates run on a
  pool; runners outlive the command that started them; answers of a paid provider
  arrive after the file they are about has changed.
* **Two histories.** The timeline relates scans of a directory to the commits of a
  repository whose history is rewritten under it.
* **Long ways through small rules.** Whether a hint helps, a pack explains itself or
  a user's text survives depends on ten checks or stages in a row.

Section 6 says which parts are not modelled, and why.

## 2. The modules

| module | models | composed of |
|---|---|---|
| `ScanIndex` | scanning, cache.db, fts.db, the docs linker; any number of scanners | |
| `WatchDaemon` | watcher, debounce buffer, main loop, quarantine, stop, kill and start of the daemon | extends `ScanIndex`, whose actions are the daemon's steps on the index |
| `Registry` | what the registry promises: atomic changes, a backup before a prune | |
| `ConfigRegistry` | the writers of config.yaml, by load, temporary file and rename | implements `Registry` (`Contract == INSTANCE Registry WITH ...`) |
| `WikiRefresh` | the lock of the background refresh, its commands and runners | |
| `WikiState` | dirty marks, the queue, the worker, the articles | |
| `TimelineDiff` | snapshots, their difference as events, the pairing of renames | |
| `TimelineQuery` | the questions put to the event store; the section of a context pack | extends `TimelineDiff` |
| `Timeline` | what whole scans, commands, tag polls and git do to the event store and the sidecar | extends `TimelineQuery` |
| `VaultSync` | the copy of index and wiki in an Obsidian vault, its three runners, debounce and marker | |
| `Doctor` | the ten checks of `ctx mcp doctor` as functions of a machine, and the hint to follow | |
| `Installation` | install, uninstall, setup, scan and the service commands on one machine, with a user who follows the doctor | extends `Doctor` |
| `WikiPages` | articles, INDEX.md and architecture.md, their three updaters, lint | |
| `Copilot` | check, refresh, wiki and ask next to all who scan the project or write its wiki | extends `WikiPages` |
| `Summaries` | runs of `ctx summarize` over a shared cache, costs and budget | |
| `UsageCache` | reading session files that grow | |
| `MemoryStore` | proposals, verdicts and edits of memories, the section of a pack | |
| `VectorIndex` | upload to Qdrant after a scan, search by project | |
| `Retrieval` | a context pack from the open index to the saved trace, beside a scan | |
| `MCStores` | the four before `Retrieval` on one stage, one at a time (`scene`) | extends `Summaries`, `UsageCache`, `MemoryStore`, `VectorIndex` |
| `MCCopilot` | the copilot and the pack its `ask` returns on one stage, one at a time | extends `Copilot` and `Retrieval` |
| `WatchDaemonProofs` | theorems about scanning and the daemon | extends `WatchDaemon`, so `ScanIndex` |
| `WikiProofs` | theorems about the background refresh and the wiki state | extends `WikiRefresh` and `WikiState` |
| `CopilotProofs` | theorems about the wiki's pages, the copilot's advice and the packs | extends `Copilot`, so `WikiPages`, and `Retrieval` |
| `StoresProofs` | theorems about what is paid, counted and recalled | extends `Summaries`, `UsageCache`, `MemoryStore`, `VectorIndex` |
| `ConfigRegistryProofs`, `TimelineProofs`, `VaultSyncProofs`, `InstallationProofs` | theorems about the module they name | |
| other `MC*` | constants for TLC, symmetry | the module they name |

The files that hold "Variant of X" operators next to an operator X keep
plausible mistakes in X at hand; each property is known to be violated when the
variant its run names in `PROJECT.json` takes the place of X.

### ScanIndex

A content of a file stands for itself and for its hash, and a row of a store is
the content it was derived from; "up to date" is then equality. `Defines` (what
a parser extracts) and `Mentions` (what a docs text refers to) are constants, so
parsers are arbitrary functions of path and content. Each scanner has a phase
`pc`, and each action ends at a commit:

| code | action |
|---|---|
| `scan_project`, up to the walk; `iter_files` into `existing_paths` | `BeginWhole`, `BeginPartial` |
| `read_bytes`, the OSError and the 100 kB limit for .json | `ReadFile`, `SkipFile` |
| hash comparison, incremental mode only | `CheckHash` |
| `put_file`; `replace_symbols`; `replace_relations`; `fts.index_file` | `PutFile`; `ReplaceSymbols`; `ReplaceRelations`; `IndexFts` |
| git statistics of a full scan | `PutGitStats` |
| `extract_specifies_relations`, then their DELETE and INSERT | `ReadDocs`, `LinkDocs` |
| deletion of what the walk did not visit: cache, then fts | `DeleteCached`, `DeleteFts` |
| `ProjectIndex.delete_file` | `BeginRemove`, then the same two |
| a foreign key broken by another writer; death or a failing commit | `ForeignKeyError`, `Abort` |

`INSERT OR REPLACE` on `fq_name` (two files may define one name: the later one
takes it) is `SymbolsAfter`, and `ON DELETE CASCADE` is `CascadeSymbols`. The
history variables `touched` and `cut` record the edits since a scan began and
the paths on which a scan was cut short and which have not been rewritten since.

### WatchDaemon

`events` is the watcher's queue, `modified` and `deleted` are the two sets of
`DebounceBuffer`, `batch` is what `flush_all` returned. `BufferAdd` is
`DebounceBuffer.add` (the last event decides). `OnAnyEvent` runs on the watcher's
thread, between any two steps of the main loop. A quarantined project
(`CacheCorruptError`) has its events taken and dropped, as the code does, even when
the user has deleted the corrupt `.context/` (`DeleteContext`) meanwhile. The
history variable `forgotten` names the paths with a change the daemon dropped or
never saw: while it is stopped, in the buffer when it stops, in a quarantined or
failed batch, at both ends of a rename, and on a read that failed or a data file
over the size limit; a later event for the path clears it.

### Registry and ConfigRegistry

`Registry` is the contract: every change is one step made to the registry as it
is. `ConfigRegistry` has `load_config` (a missing and an empty file both mean the
defaults), the change of the copy (the contract's own operators), the backup of a
prune, and `save_config`: open the one temporary path all writers share, write,
rename, clean up on failure. `fd` says where the file a writer has open is
linked by now, because a rename by another writer moves it.

### WikiRefresh

The payload of the lock matters by its pid alone. `InitOpen`/`InitWrite` are
`_write_initial_lock`, which writes the lock in place; `OpenTmp`, `WriteTmp` and
`RenameTmp` are `_atomic_write_lock`, for commands and runners alike. `Stale` is
the verdict of `read_status` (unreadable, dead pid, or an hour old). `env` is
chosen at the start of a behaviour and never changes: whether commands may
overlap, and whether truncation and filling of a file can be seen apart.

### WikiState

A row of `table` has its rowid, and `get_dirty_modules` returns the dirty rows in
the order of their rowids (`FirstDirty`); `Upsert` is `INSERT OR REPLACE`, which gives
the row a new one, after all others. A
module's hash is the bag of its files' contents, as in `compute_module_hash`,
which leaves the paths out. Two kinds of process scan: the daemon, some paths at a time,
and whole scans from the command line, the MCP server and the UI. A scan commits its
files one by one (`IndexFile`, `DropStale`) and marks in the end (`MarkDirty`), which
queues an update only if the daemon is the scanner; `Interrupt` is an error or a death
anywhere before that, the mark's own failure that scanner.py:306 swallows included, and
`Restart` a kill of the daemon with its scan, queue and run. `unsure` names the modules
whose row may not tell what became of their files (a scan changed them and did not mark
them having read them all, or an update was under way), until a scan marks them
having read all; `unmarked` those without a row after a scan that could not mark.

### TimelineDiff, TimelineQuery and Timeline

A symbol id is a hash of path, name and kind, so `FilePath` and `FqName` are
functions of it, and a snapshot is a function from the ids that exist to their
content hashes. `DiffAstSnapshots`, `PairRenames` and `Dispatch` are the functions
of that name; how alike two names are is the constant `LeafRatio`. `Dispatch` gives
the rows of a scan as two sets, and `WriteEvent` and `WriteEdge` commit them one at a time in
the order in which the sink is called (`FirstEvent`, `FirstEdge`); then come the truncation of
the sidecar, its contents, and the scan's own commit and time. `CutShort` can come between any
two. The user's side is `Edit`, `GitCommit`, `GitAmend`, `GitReset`, `GitExpire` (the
reflog), `GitTag`, `GitUntag`; the commands are `Reconcile` and `PruneCmd`; `PollTags` runs beside
a scan. `TimelineQuery` translates `find_removed_since`, `diff` and `symbol_timeline`
as operators on the store and the repository, with their range filter, net effects,
limit and the way renames hide the events of both ends. It knows the rows of a table by their
places: a question is a set of places, and `Ordered` puts such a set in a given order
(`OldestFirst`, `NewestFirst`, `Ranked`) before `Rows` reads it and `First` cuts it at the limit.
Snapshots of tags are a set of rows.
`AbsentAssumption` says that the value for "none" is no row, no commit and no snapshot. `regular` records which kinds of
irregularity a behaviour has not had, `lost` the symbols a cut scan wrote about, and
`scanned` the commits whose clean tree a scan has seen.

### VaultSync

A sync reads the tables of cache.db one after the other (`ReadFiles`, `ReadRest`),
writes the pages of the index (`WritePage`), then copies the wiki as it finds it
(`MirrorArticle`) and removes what has no article, as far as it can (`CleanUp`); a directory
that cannot be made, or an error in the mirror, ends it before (`GiveUp`). Its runners are the
one thread of the daemon's pool (`WorkerTakes`, after the debounce), `sync-all`
(`MakePlan`, `RunPlan`) and the user (`ByHand`). A page is the version it was made from
and its links; ages are counted in ticks and saturate. `alone` says whether anything
disturbed a sync.

### Doctor and Installation

A CLAUDE.md is a sequence of lines of the user and of the marks of the managed
section, so inserting, replacing and cutting are what `install.py` and
`uninstall.py` do to text. `UserLines` are the pairs of the user's lines of which the one
stands before the other (each line with itself, too), which says what is there and in which order
without counting places. Each command is a chain of steps (`op.at`); writing a file
is an opening, which truncates, and a step that fills it, with `Kill` between them.
`claude` says whether Claude's command line works, fails, hangs or refuses an entry
it has. `Doctor` has one operator per check; `FollowHint` starts the command the
first failing check names, in the order of the report (`FirstHint`). `said` holds what the commands have reported as done and
nobody has changed since. launchd is modelled from how the code calls it.

### WikiPages and Copilot

An article is absent, blank or has a text; the sources of a module are a version. A
call of the Claude CLI, the writing of its answer and the mark are one step, and
`Kill` allows for each point within it. A check looks at the project twice
(`CheckIndex`, then `CheckModes`), `Degraded` is the list of modes it reports, and
`FollowHint` runs what the hint of one of them names. The daemon, `ctx scan`,
`ctx wiki update` and a user who removes directories act at any time.

### Summaries, UsageCache, MemoryStore, VectorIndex

`Summaries`: between two awaits a task is not interrupted, so a step ends at the
read of the file, the call, the pause after a 429 or the INSERT. `ChargedInVain` is a call that is
charged and ends in an error all the same: the client gave up, or the answer has no usage. `CalculateCost` is
computed from the token counts an answer reports, cached tokens apart. `UsageCache`:
a line is two halves and an offset a number of halves, so that a reader can see a line
in part; the events of a row say how often each line has been counted. `ReadBreaksOff` is the error of
a read that is swallowed, after which the size is stored all the same (`unread` names the lines behind it),
and `Shrink` a session file that becomes shorter (`shrunk`). `MemoryStore`: a proposal is renamed into place, a verdict truncates and
writes. `VectorIndex`: collections with their dimension, batches, failures that are
logged and forgotten; points are keyed by project name and path. `SummariesAssumption` says
that listed prices and the budget's limit are numbers.

### Retrieval

`Open` reads names and relations, `AskVectors`, `Match`, `Rank` and `Rerank` are the
stages of `pipeline.py`, `BuildNavigate` and `BuildEdit` the two packs, `Answer` the saved
trace; `ScanCache` and `ScanText` rewrite the index file by file in between. Scores
are integers (thousandths, rounded down after each product), equal scores stand in
the order of their paths (a path's `Place` is the number of those before it, and `Sorted` lists them
by it), and PageRank is a constant of a path. `Layers` is the breadth-first search of
`graph_expansion.py`, with its set of visited nodes; `Chains` and `Lenders` define by composition
of relations, and without one, what it should find. `RetrievalAssumption` says what the constants
are.

## 3. What the runs check

The type invariants (`TypeOK`, `DaemonTypeOK`, `PagesTypeOK`) document the state of their
modules, and most are theorems; the runs list what says more. `INVARIANTS`/`PROPERTIES` of each
configuration:

* **ScanIndexSerial** (2.7 million states): two files that may define the same name
  and one of which is a docs file, two contents of which one holds a secret, a
  data file over the size limit, one scanner that can die anywhere. `StoresAgree`:
  the four stores agree on every file except the one in work and those a scan was
  cut short on. `WholeScanFresh`: when a whole scan ends, each file nobody touched
  meanwhile is cached at its content on disk, or gone. `FullScanHeals`: when a full
  scan ends, whatever was left half written is repaired and no symbol of an
  indexed file is missing. Two files suffice for a name to be taken over and given
  back, the only way in which the rows of one file depend on another.
* **ScanIndexTwoWriters** (2.0 million states, scanners interchangeable): one file,
  two scanners interleaved commit by commit. `NoOrphanRows`: cache.db has no
  symbol or relation of a path without a files row; `NoSpuriousDrop`: a whole scan
  deletes no file that was there throughout.
* **WatchDaemonFaults** (0.4 million states): two files, three changes of the disk,
  every fault switched on. `StaleIsPending`: a path whose row is out of date is in
  an event, in the buffer, in the batch, or among those the daemon dropped.
  `Converges`: under fairness all others come to the state of the disk and stay
  there. `QuarantineFreezes`: while quarantined, no store changes. Three changes
  let a path be created, deleted and created again across two flushes.
* **ConfigRegistryOneWriter** (84 thousand states): one writer at a time that can
  die or fail to write at any step. `KeepsContract` is the refinement of
  `Registry`, and `NeverHalfWritten` says that no reader finds half a file.
* **WikiRefreshFaults** (2.1 million states): two commands, two runners, cancels,
  kills, runs longer than an hour. While nothing disturbs the protocol
  (`Calm`): `OneRunnerWhenCalm`, `NoWedge` (a dead runner never blocks the next
  refresh) and `WorkIsVisible`.
* **WikiStateFaults** (0.7 million states): a module of two files and one of one, whose
  article cannot be generated; the daemon and another process that scan, three scans
  or deletions between them, errors and kills anywhere. `CurrentIsFaithful`: but for the
  modules `unsure` names, a current article was generated from the module's files as they are
  indexed. `NothingUntracked`: an indexed module has a row unless the last scan
  to look at it is at work or could not mark. `QueuedIsDrained` (liveness): a queued update reaches
  the dirty modules it has room for, whatever happens to the others. Three scans let a
  module be marked in part, marked anew in full and changed again during the update.
* **TimelineFaults** (1.0 million states): two symbols that can be each other renamed, three commits, three
  scans that can be cut short, amends, resets, an expired reflog, a tag that moves, goes and comes back, two
  polls, retention on or the timeline switched off. `LogExplainsSidecar`: what the
  rows of the store say of a symbol is what the next scan compares with.
  `DiffIsExact`: `diff` and `removed_since` between two scanned commits tell every
  difference of their files and nothing else. `LiveNotOrphaned`: no event of a
  reachable commit is marked orphaned. `OneAnchorPerTag`: one valid snapshot per
  tag that was seen and not forgotten. `SectionFits`: the section of a pack keeps its size and counts
  what it leaves out. With six lines of which one may show a removed symbol, and a limit of two for
  the question, the line for the rest is reached with either bound.
* **VaultSyncRunners** (0.4 million states): one project with one module, an index page and one article,
  two changes, a kill, an error or a stopped daemon, up to two syncs at
  once. `CleanSyncIsExact`: a sync without errors that nothing disturbed leaves exactly
  the pages of the index and of the wiki. `DeletesOnlyDrift`: only what has no
  article is deleted. `EventuallyPublished` (liveness): whatever the debounce drops, a
  kill loses or a slower sync overwrites, in the end the vault shows the project.
* **InstallationFaults** (0.5 million states): two scopes, two lines of the user, two versions, three
  upsets (edits, upgrades, kills, failures, unasked commands). `GuideKept`: no text of
  the user is lost and there is one managed section. `WhatIsSaidHolds`: what a
  command reports as done is so. `HintsLeadToHealth` (liveness): following the
  doctor's hints ends with none.
* **StoresFaults** (1.7 million states): four scenes. *summaries*: two runs, two files
  with equal or different contents, a 429, a call charged in vain, a kill, an edit; `RerunIsFree`: a second run
  over unchanged files pays nothing and serves all; `SpendingIsRecorded`: the budget
  page never shows more than was charged, and exactly that unless something was
  paid twice or lost. *usage*: a file of two lines, two readers, reads that break off, a
  file that shrinks; `TokensCountedOnce`. *memory*: two memories, two verdicts, a save by hand, a kill;
  `LastWordStands`: a pack shows the newest accepted memories as they were last
  written. *vectors*: two projects with two paths, two scanners, batches of one, a
  failure, a change of dimension; `SearchFollowsIndex`: apart from the files whose
  upload is pending or was lost, a search answers with the index's files and
  nothing that is gone.
* **CopilotAdvice** (4.0 million states): two scenes. *copilot*: a module of two segments and a Markdown file
  at the root, one command of the user and a hint that is followed, four events.
  `CalmUpdateLeavesNoIssue`: an update with which nothing interfered leaves a wiki
  that lint has nothing to say about. `HintsClear`: a hint that was followed is not
  given again. `AskIsHonest`: "unavailable" only if it must be, and always said.
  *pack*: five paths, two queries, two answers of the vector store, an edit;
  `ExpansionIsExact`: the walk over the graph lends each file the best score
  that paths of the length allowed can, as a comparison with a definition by
  composition of relations shows; `PackIsExplained`: what the trace lists as seen, dropped and
  final accounts for the files of the pack.

### Bounds

`MaxChanges` (daemon, vault) caps edits of the disk, `MaxScans` scans; `MaxUpsets`,
`MaxExtras` and `MaxEvents` share one budget among all the things that go
wrong, so that any two or three of them meet in one behaviour; `MaxTotal` (timeline)
caps the sum of commits and scans, with polls and upsets counted twice; `MaxAtOnce`
(vault) the syncs that run together; `MaxEdits`, `MaxKills`, `MaxFailures`, `MaxSaves`,
`MaxSettings`, `MaxLines`, `MaxRetries` (stores) what their names say. The limits
of the code are small numbers reached in the runs: `Limit`, `Shown`, `Lines`,
`SeedCount`, `Batch`, `Concurrency`, `Debounce`, `StaleAfter`, retention. In `Timeline`
edits, commits and tags happen between scans only, tag polls also during one.
In a `WikiPages` behaviour the whole `.context` is removed only while no updater runs.
Deadlock is checked in the scan and registry runs; the others stop when a bound is
reached or nobody gives a command.

The properties name what they excuse in their own text (`regular`, `lost`, `alone`,
`doubtful`, `late`, `torn`, `unread`, `shrunk`, `crossed`, `astray`, `calm`, `unsure`, `unmarked`, `killed`, `forgotten`): each is a history variable that the
actions set where the code has a gap listed below.

### Fairness

`FairDaemonSpec` assumes that the watcher's thread hands on what it has
(`WF(OnAnyEvent)`) and that the main loop, which wakes every two seconds
(`run_daemon`), continues (`WF(MainLoop)`). `WikiState!FairSpec` assumes that the pool's one
thread (`wiki.max_workers` is 1 unless configured otherwise), which has nothing else
to do, runs its queue (`WF(WorkerStep)`); of scans it assumes nothing. `VaultSync!Spec` assumes that time passes, that cron starts
`sync-all` again and again as the documentation of the command sets up, that the pool's
thread takes what is queued, and that a sync that is not killed continues.
`Installation!Spec` assumes that a command runs to its end and that the operator does
not stop at a hint, which is what the property is about. No edit, failure, kill or
restart is assumed to happen, and none to stop happening but by its bound.

### Disagreements between the code and its documentation

**ScanIndexRetry** checks one property as the text states it (`findings` in
`PROJECT.json` quotes it): a scan that dies after `put_file` is not made up for by the
retry; the hash is already that of the new content, so the next incremental scan
skips the file. Only a full scan repairs it (`FullScanHeals`).

The others have no run of their own. The models behave as the code does in each of
them, unless it says otherwise, and the properties above excuse them visibly.

Index, registry and daemon:

* `LinkDocs` comes before the stale files are dropped and old links are deleted only
  if there are new ones (scanner.py:248), so a `specifies` relation can outlive its target.
* Two scanners that interleave on one file can leave fts.db with a row cache.db no
  longer has (`StoresAgree` is about one writer).
* A scan cut short between the two deletions of a stale file leaves its text row
  for good if the path never comes back, and a .json file that grows over 100 kB keeps its old row
  as long as only the daemon scans.
* What is in the buffer at SIGTERM is dropped, not flushed, and nothing rescans at
  the next start. Only `src_path` of a rename is looked at (daemon.py:80): the new name is not indexed.
* Two writers of the registry share `config.yaml.tmp`, and one truncates what the
  other renames (projects_config.py:234); a scan recorded from an old copy registers a
  project again that was removed meanwhile (apps/agent/config.py:85).
* The backup of a prune is overwritten in place; cut short, it reads as an empty
  registry, which `Registry!Snapshot` therefore allows.
* Only OSError is caught around `update_last_scan` (daemon.py:167): a registry that does
  not parse ends the daemon (not modelled).
* A cache of schema version 2 is marked version 4 without the table git_stats
  (sqlite_cache.py:250; not modelled).

Wiki and copilot:

* Two refresh commands that overlap start two runners (wiki_background.py:285).
  `_write_initial_lock` is not a rename, so readers can find the lock empty; a cancel
  between the first write of the lock and the SIGTERM handler leaves the lock of
  a dead runner (which `NoWedge` shows to be harmless); a runner an hour old
  whose lock was dropped writes a lock without pid, which never becomes stale;
  command and runner can rename each other's temporary file.
* wiki/state.py:3 says the table tracks "which modules are dirty (source changed since last
  wiki generation) and which are current". The mark is the last part of a scan, after
  the new hashes were committed: when it raises, the error is swallowed (scanner.py:306), and when the
  process dies before it nothing is marked. The articles stay current over changed
  sources, and new modules have no row, until a scan looks at them again. A partial scan
  stores the hash of the files it processed as the module's (state.py:130), which may by chance
  be the one of other contents. A scan that marks a module dirty during the LLM call is overwritten by
  the worker's mark (wiki_worker.py:108).
* Only a scan of the daemon queues an update (daemon.py:134): what a whole scan from the command line,
  the MCP server or the UI marks stays dirty until the daemon marks enough modules itself.
* `wiki.dirty_threshold` is documented as "min dirty modules to trigger background update"
  (projects_config.py:126), but what is counted are the modules the scan that has just ended marked
  (daemon.py:138): three scans that mark one module each leave three dirty modules and queue
  nothing.
* A deletion the daemon handles never marks its module dirty (daemon.py:124); a module whose files
  go and come back can be current with an article made of nothing (wiki_worker.py:84); after a
  restart nothing queues what was dirty before; as many failing modules as
  `max_modules_per_run` starve the rest.
* The hint for an old index, `ctx project refresh` (orchestrator.py:52), does not renew what
  it is about: `last_scan_at_iso` is written by the daemon alone (daemon.py:166). The
  hint for a missing wiki does nothing while no module is dirty, because the refresh
  returns at orchestrator.py:393 before it writes INDEX.md.
* `check_project` says that all its parts degrade (orchestrator.py:119); `list_projects` raises on a
  registry that does not parse.
* Lint expects the article of a root-level `.md` file under a name with `.md`
  (lint.py:70), the generator writes it without (state.py:82): it is orphaned and missing for ever.
* An empty answer of the Claude CLI becomes an empty article that is current; two modules can
  have one article file; rows of modules that vanished stay; two overlapping
  `write_index` leave entries out; the answer of `ask` can say both "not scanned"
  and "stale".

Timeline:

* The flag `.context/timeline.enabled` that a command writes (timeline_cmd.py:50) is never read.
  "moved" events cannot occur, since the id depends on the path.
* What is edited before a commit and scanned is stamped with the commit before.
* `list_reachable_commits` takes the entries of the reflog without their ancestors, so events of a
  commit that only an ancestor of such an entry reaches are marked orphaned for good. A tag put back
  on a commit it had has no valid snapshot. tag_watcher.py:11 calls "delete + re-create at a
  different commit" a move, and snapshot.py:16 has the prior row invalidated then; a tag that a poll found deleted and that the next
  finds on another commit counts as created, which invalidates nothing (snapshot.py:150), and both
  snapshots are valid. A failed poll looks like a repository
  without tags, and the next one takes every tag for new. `poll_tags` has no caller
  but tests.
* sinks.py:41 asks sinks to be idempotent; a scan cut short before its sidecar repeats
  its events, and the event store keeps them twice. The `on_scan_end` in a finally and the
  disabling after three failures that the documentation of the sinks promises do not exist.
* The retention of `append_event` has no filter by project; the sidecar is written in place.
* A symbol that is removed and comes back as the new name of another within one range is told
  as removed (query.py:418).

Vault:

* Pages of modules that vanished stay (only the wiki's pages are cleaned up). A page whose article could
  not be read or written is deleted by the cleanup (publisher.py:258). When the whole
  wiki is removed its pages stay.
* Overlapping syncs share the temporary file of a page (an error of one of them in the
  model); projects with one directory name overwrite each other (assumed apart).
* `sync-all` records the time it ends (obsidian_cmd.py:399), so a change during it counts as
  published until the next one; page errors leave the exit code 0.
* Footers name a module by its first directory, and lead nowhere if that has no page
  (publisher.py:271).

Stores and retrieval:

* Two summarisations of one content that is not cached both pay, and one cost is kept; the budget
  is never enforced before a call; a model without a price raises after the paid call,
  and so does an answer of Ollama that is not JSON, and ends the run. An answer without usage is
  refused after it was charged (openai_client.py:86), and so is one that comes after the client has given up:
  no row has the charge. Content two
  files share has a row under one path.
* `claude_usage` stats a file before it reads to the end, so lines written in between are counted
  twice, and the first half of a line at the offset is lost. An error in the middle of
  a read is swallowed (reader.py:67) and the size of the file stored as the offset (cache.py:80): the
  lines behind it are never counted. Of a session file that becomes shorter what was counted
  stays, and what is written up to its old size is not counted.
* A verdict on a memory overwrites an edit made since it was read; a kill between truncation and
  write empties the file; one file whose YAML does not parse empties the approved
  memories, although memory/store.py:156 says malformed files are skipped.
* The daemon's scans of single files never upload vectors and leave nothing for a whole scan to
  upload; a failed upload is not repeated; vectors of deleted files stay; projects
  with one directory name share their points; after a change of the dimension
  upserts fail.
* Vector hits are not filtered by the index, nor the candidates for tests and stale relations:
  files that are gone enter packs. Once scores are fused, the cutoff at 0.4 has no
  effect. A file reachable only through another seed gets that seed's score, so one
  more weak match can lower it. An edit pack adds uncommitted files beyond the
  limit, deleted ones too, without computing the coverage again; reranking changes the order
  but not the trace's `final_ranking`; a vector hit never is a candidate in the trace.

Installation:

* Hook scripts are never copied: `_HOOKS_SRC` (mcp_cmd.py:36) names a directory that does not
  exist, though mcp_cmd.py:70 says "Copy hook scripts".
* The doctor's text says nine checks (doctor.py:3), there are ten; a `config.yaml` that parses
  but has another shape crashes it (doctor.py:210). The timeline of a project that is gone keeps
  it at a warning. It looks only at the CLAUDE.md in the home directory.
* A `claude mcp add` that refuses an entry it has never refreshes it; a timeout of Claude's
  command line is not caught.
* A kill while CLAUDE.md is written loses the user's text; lines behind a section that lost its end mark
  are dropped. A settings.json that does not parse stops the installation of hooks,
  while the doctor passes it. A hook of the user with the same matcher suppresses ours.
* `uninstall` says "removed" whatever happened (mcp_cmd.py:238); the note `ctx scan` writes into a
  project's CLAUDE.md is never removed; `launchctl bootstrap` of a label that is loaded fails
  after the plist was rewritten.

## 4. What is proved

A theorem holds for every value of the constants and without the bounds of the runs
(`MaxChanges` and the like are arbitrary numbers). `PROJECT.json` lists the theorems; here
is why they hold. A property that speaks of quiet moments is seldom inductive: the
invariant says what the steps between them keep.

`WatchDaemonProofs`, about the index first, for any sets of files, contents, names and
scanners, any `Defines` and `Mentions`, from the assumptions of `ScanIndex`:

* `TypeCorrect`: `Spec => []TypeOK`. `TypeOK` is not inductive: the stores are written at
  `cur[s]` with `data[s]`, which may be `Absent`. `CursorOK` adds that a scanner in a
  rewriting phase has a path and a content; `TypeInv` is both.
* `OrphanFree`: `Spec => []NoOrphanRows`, for any number of scanners that may die
  anywhere. Relative to `TypeInv` it is inductive; the steps that matter are
  `ReplaceSymbols`, `ReplaceRelations` and `LinkDocs`, which another scanner's deletion
  can precede and which the foreign key then stops, and `DeleteCached`, which cascades.
  `NoOrphanStep` says what a step must not do.
* `NothingDropped`: `~MayMisread` implies `Spec => NoSpuriousDrop`. `DropInv` follows each
  path through a whole scan: during the walk it is to be read, was read, was edited since
  the scan began, or has no place in the index; the paths to delete are of the last two
  kinds. `DropFrame` carries it over the steps of other scanners. The assumption is
  needed: an OSError on a file that is there makes the walk pass it over and the cleanup
  drop it.

For one scanner at a time (`OneWriter`: any two scanners are the same), which still may
die anywhere while files change:

* `OneWriterAgrees`: `Spec => []StoresAgree`. `StoresAgree` says nothing of the file in
  work, so `Stage` says how far each of the four commits, or of the two of a deletion, has
  brought it; a file leaves the work coherent or joins `cut`. `OtherRowsMatch` is the
  lemma that a file at most loses names to another.
* `WholeScanIsFresh`: `Spec => []WholeScanFresh`. `FreshOK` accounts for every row of the
  files table during a whole scan: the path was indexed before or visited, and in the end
  visited or still to be deleted; and what was visited and not edited since is stored as
  it is on disk, once its hash has been compared.
* `FullScanRepairs`: `Spec => []FullScanHeals`, from the two invariants before and
  `HealOK`: a visited file has left `cut` once it is rewritten, and the names it defines
  have rows that belong to visited files this scan has rewritten already (`NamesKept`).
  That is why a name two files define survives the deletion of stale files: the row was
  taken over before. Full mode is needed, because an incremental scan passes over files
  whose hash is unchanged.

With two writers the first two fail (a deletion of one scanner can fall between two
commits of the other), so the assumption cannot be dropped.

Then about the daemon, for any files and any number of changes, stops, kills and starts:

* `DaemonTypeCorrect`: `DaemonSpec => []DaemonTypeOK`.
* `NoChangeLost`: `DaemonSpec => []StaleIsPending`. That some event is pending is not
  enough for the induction: what is pending must also say the right thing, or a file that
  was deleted and created again would be taken for gone. `Told` says that the last word on
  a path among the events, and in the buffer if there is no event, is "deleted" exactly if
  the file is gone; `BatchTold` says the same of the batch and of what a scan has left to
  do, unless there will be another word; `AtCursor` what was read at the cursor; `InStep`
  ties the phases of the main loop to those of its scan; `OnItsWay` is the property split
  by where a change is.
* `FrozenInQuarantine`: `DaemonSpec => QuarantineFreezes`, because the loop sleeps while
  it quarantines.

`ConfigRegistryProofs`, for any writers and projects:

* `TypeCorrect`, for writers that overlap as they like.
* With one writer at a time (`OneWriter`), `NotHalfWritten` and `Refinement`: `Spec =>
  KeepsContract`, the atomic registry. A step is a stutter but for `RenameTmp`, which is
  the contract's `Change`, `Prune` or `Restore`, and the two steps of a backup, which are
  its `Snapshot`. `PhaseOK` is why: from the load to the rename the writer's copy is the
  change applied to the file as it still is, and what it renames is that copy.
  Two writers break both (section 3).

`WikiProofs`, about the refresh, for any commands and runners that crash, are killed or cancelled:

* `TypeCorrect`, whatever happens.
* `RunnerIsAlone`, `NeverWedged`, `WorkShows`: the three properties of the calm protocol.
  `Undisturbed` is inductive as long as `Calm` holds, and `Calm` once lost does not
  return: a command knows which runner is alive in each of its phases (`CommandKnows`),
  and the lock names the runner that is alive, from its first write on at the latest
  (`RunnerKnows`).

and about the wiki state, for any scanners, files, modules, contents, threshold, limit of an
update and number of scans, by one invariant:

* `EveryModuleIsKnown`: `NothingUntracked`. Rows are never deleted, so what matters is which
  scans have looked at a module and what became of them.
* `ArticlesAreFaithful`: `CurrentIsFaithful` by `Sound`. For a module that is not in `unsure` and that no scan
  has changed, the hash of the row is that of its files, an update that has read the row
  finds the same files (`AtWork`), and an article that is current is theirs. A change takes
  the module out of `Sound`, and only a mark by a scan that has read all its files, with no
  update under way, brings it back.

`CopilotProofs`, for any modules, articles and updaters:

* `TypeCorrect`; `UpdateLeavesNoIssue`: `CalmUpdateLeavesNoIssue` by `WikiInv`: while an
  update is alone what is still dirty is in its list, what has left the list has a text,
  and the INDEX.md it will write lists the directory.
* `HintsLeadSomewhere` (`HintsClear`) and `AskSaysWhatItMust` (`AskIsHonest`) by
  `FlowInv`, which follows the command of a hint to the second check: `InPlace` says where
  a command can be, `Seen` what an `ask` knows of the index, `Heeded` what the command of
  each hint has achieved so far.
* `EveryPackIsExplained`: `RetrievalSpec => []PackIsExplained`. `PackInv` follows a pack
  through its stages: what the index has and what a name stands for was seen (`SeenSoFar`);
  what the stages before the ranking have found are files that were seen and those the walk
  over the graph adds (`FoundSoFar`); the ranking has each final file once, and every file
  that was found is in it, was dropped for its score or stands behind the limit
  (`RankedSoFar`). Below that are lemmas about the order of scores, its first files
  (`TopIs`), the cut by score (`KeptIs`) and the fusion of two rankings (`FusedIs`): which
  files they list, and that none is listed twice.
* `TheWalkIsExact`: `RetrievalSpec => []ExpansionIsExact`, by `ExpandedIs`. `LayersAre` and
  `ChainsAre` say of each distance what the breadth-first search has visited and which chains
  of relations lead there. The depths the code asks for are 2 and 3, so no induction over
  the depth is needed.

Both hold for any graph, scores, queries and answers that are as `RetrievalAssumption`
says; TLC evaluates it in the run CopilotAdvice.

`StoresProofs`:

* `RerunsAreFree`: `RerunIsFree`, for any runs, contents and models and any finite set of
  files. Rows are replaced and never deleted, and an edit unsettles every model. `KeepsUp`
  says that each finished task of a run without errors has left or found the row of its
  file, unless a file has changed since; `IsServed` counts the tasks of a run that repeats
  another.
* `WhatIsSpentIsKnown`: `SpendingIsRecorded`, for any prices, from `SummariesAssumption`.
  `SpendingInv` says that each row costs what the one call it stands for costs, that the rows
  never add up to more than was charged, and to exactly that unless `doubtful`. What a
  replaced or a new row does to the sum over all rows is a lemma.
* `TokensAreCountedOnce`: `TokensCountedOnce`, for any sessions, readers and lines. The
  offset of a row and its events belong together (`ExactUpTo`), so do the size a reader
  took and the events it found, and what lies beyond that size is late (`Reading`). A line behind
  a read that broke off stays in `unread`, and no row has it more often than once.
* `ThePackIsTheLastWord`: `LastWordStands`, for any finite set of memories and any
  commands. As long as nothing has crossed a memory, its file carries the status and text
  of the last word, whole or cut short (`Carried`), and who has read it holds that text
  (`HoldsText`).
* `AnswersFollowTheIndex`: `SearchFollowsIndex`, for any projects, paths, scanners and
  size of a batch. `Follows` says of each path that is not astray that every scanner that
  uploads it uploads what the index says, or that it is found so already.

`TimelineProofs`, for any symbols, bodies, similarities of names, threshold, tags and
bounds, from the assumptions of `Timeline`, `TimelineQuery` and `TimelineDiff`:

* `TimelineTypeCorrect`: `Spec => []TypeInv`, in three parts: the repository (`GitTyped`),
  the scan (`ScanTyped`), the store (`StoreTyped`).
* `LogIsExplained`: `LogExplainsSidecar`. Between two rows of a scan neither the old nor the
  new snapshot explains the log: `LogTells` says that it leads to the new one for the
  symbols the scan has written about (`said`) and to the old one for the others; `RowsTrue` and
  `RowsWhole` say that what is still to be written agrees with the new snapshot, once
  per symbol, and leaves no difference out.
* `LiveIsNotOrphaned`: `LiveNotOrphaned` by `OrphanInv`: a reflog that is whole names every
  commit, and then reconciling marks nothing.
* `OneAnchorIsValid`: `OneAnchorPerTag` by `AnchorInv`, which adds that a tag without a first
  sighting has no snapshot and that the snapshot of the commit a tag is on is valid.
* `SectionsFit`: `SectionFits` follows from the types alone, for any store: the lemmas say
  what `Ordered` lists (each place once), what a limit leaves, and what the section's
  budget of lines cuts off.
* `DiffsAreExact`: `DiffIsExact`. `StraightInv` is about histories without amends, resets, dirty
  or cut scans and deleted rows (`Smooth`). There commits and scans grow in one line
  (`Straight`), a scan is of HEAD and compares it with the commit scanned last
  (`ScanOfHead`), and rows carry the commit they were written at, in order (`RowsPlaced`).
  `StepTells` says that the rows a scan has written and those it has yet to write are together the
  difference of two trees; `LogIsExact` says the same of the rows between any two scanned
  commits, whatever was scanned in between. The step that matters is the last of a scan,
  where the first is joined to the second (`ExactOver`). From there `StraightIsExact`
  follows a row through range filter, net effect, bucket, hiding and limit.

The pairing of renames, the removal of rows, the ancestors of a commit and the buffer of the
section are recursive functions. What they compute is proved with `Induct`, the induction
on numbers with a set in the place of the formula, which the provers can instantiate;
`Smallest` and `Largest` are its companions.

`VaultSyncProofs`, for any finite sets of projects, files and articles, any number of
changes, errors, kills and syncs:

* `UndisturbedSyncIsExact`: `Spec => CleanSyncIsExact`. `Stage` says what a sync that is
  alone has achieved: what it has read is what the index says, each page is in the vault
  as it should be or still to be written, and each article of the wiki is kept and in the
  vault or still to be copied. `Apart` is why other syncs do not undo it: who is alone is
  the only sync of its project. A page is known by its key (`OneKey`), so that no page
  overwrites another.
* `OnlyDriftIsDeleted`: `Spec => DeletesOnlyDrift`. Only `CleanUp` deletes, and at that
  point a sync that is alone and without errors has kept every article of the wiki.

`InstallationProofs`, for any scopes the code has, any lines, versions and number of
upsets:

* `TheGuideIsKept`: `GuideKept`. A file is truncated before it is filled, so what a
  command is about to write must be as good as the file was (`Guarded`), and a section can
  be replaced or cut out without loss because its marks stand next to each other
  (`OneSection`). The larger part are lemmas about the text operators (`WithSection`,
  `WithoutSection`, the loss of an end mark and the note of a scan): which lines and which
  order of lines each of them keeps.
* `WhatIsSaidIsSo`: `WhatIsSaidHolds`. What a command says at its end was made true steps
  earlier: `Installing` and `Removing` say how far it is.

### What is only model-checked

Every safety property of the passing runs, invariant or action property, is a theorem.
Liveness is out of the proof system's reach and rests on the runs, with the fairness it
assumes: `Converges`, `QueuedIsDrained`, `EventuallyPublished`, `HintsLeadToHealth`. So does
`RetryCompletes`, which the run ScanIndexRetry refutes.

A theorem says no more than the property it names. Some hold under a condition
that a constant states (`OneWriter`, `MayMisread`), others excuse behaviours the
property lists itself (`regular`, `lost`, `doubtful` and the like); in both cases the run, or
the list in section 3, shows what happens otherwise.

## 5. Plan

Not modelled yet, in the order of what they would add:

1. Impact analysis: its closure over relations against reachability.
2. The migrations of cache.db, next to a process that has the older version open.
3. Several projects in one daemon: what the shared pool and the order of the flush do to
   each.

## 6. What is not modelled

* Parsers, the parsing of git's output, tokenising and stemming, prompts, the Markdown of packs,
  pages and reports: functions of their inputs; where a module needs their result it
  is a constant or a nondeterministic choice.
* Status aggregation, value metrics, impact analysis, hotspots, pattern detection, evaluation and the
  routes of the web UI: read-only reports. Scan history and telemetry: records nothing decides on.
* Cross-project wiki pages (projects with one directory name overwrite each other there, and
  patterns that ended are never removed) and the article excerpts of context packs, whose limit
  is applied before the articles are looked for.
* PageRank, disambiguation hints, the list of symbols of a pack and the retention of traces.
* The windows of usage and budget, and the lossy encoding of project paths by Claude Code.
* The encryption of cache.db and its migrations, the scheduling of several
  projects in one daemon, process id reuse, and systems other than macOS for the service.

A component marked `partly` or `not_modelled` in `PROJECT.json` says what is missing.
