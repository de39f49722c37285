----------------------------- MODULE WikiState -----------------------------
(***************************************************************************)
(* Which wiki articles are out of date (libs/wiki/state.py), who finds out *)
(* (the last part of a scan) and who regenerates them (the daemon's pool,  *)
(* apps/agent/wiki_worker.py).                                             *)
(*                                                                         *)
(* Every process that scans the project marks modules as dirty, the        *)
(* daemon's scans of single files, and whole scans from the command line,  *)
(* the MCP server and the UI; only the daemon queues updates.  A scan      *)
(* commits its files one by one and marks in the end, as best it can: the  *)
(* mark may fail, and then nobody is told.                                 *)
(*                                                                         *)
(* get_dirty_modules returns rows in the order of their rowids, and INSERT *)
(* OR REPLACE gives a row a new rowid, so a row that is written again      *)
(* moves to the end.  The hash of a module is the bag of its files'        *)
(* contents: the paths are not part of it.                                 *)
(***************************************************************************)
EXTENDS FiniteSets, Naturals, SequencesExt

CONSTANTS
  Scanner,    \* processes that scan, one scan at a time each
  Daemon,     \* the one of them that is the daemon
  File,       \* indexed paths
  Content,    \* contents of files
  ContentOf,  \* [File -> SUBSET Content]: those each path can have
  Module,     \* modules: the first two segments of a path
  ModuleOf,   \* [File -> Module]
  Threshold,  \* wiki.dirty_threshold
  MaxModules, \* wiki.max_modules_per_run
  Broken,     \* modules for which the LLM call raises
  MaxScans,   \* [Scanner -> Nat], a bound: the scans each begins, deletions included
  Absent      \* no such file, no such article, not read

ASSUME WikiStateAssumption ==
  /\ Daemon \in Scanner
  /\ ModuleOf \in [File -> Module]
  /\ {Threshold, MaxModules} \subseteq Nat \ {0}
  /\ ContentOf \in [File -> SUBSET Content]
  /\ MaxScans \in [Scanner -> Nat]
  /\ Broken \subseteq Module
  /\ IsFiniteSet(File) /\ IsFiniteSet(Module)
  /\ Absent \notin Content

VARIABLES
  files,      \* cache.db files: the content of each indexed path
  table,      \* cache.db wiki_state: the row of each module
  article,    \* modules/*.md: the hash of the sources each was generated from
  scan,       \* the scan each process is at
  tasks,      \* calls of run_wiki_update the pool has queued
  worker,     \* what the pool's thread does next
  work,       \* the modules left in its run
  gathered,   \* the sources it read for the first of them
  scans,      \* the scans each process has begun
  unsure,     \* history: modules whose row may not tell what became of their files
  unmarked,   \* history: modules without a row after a scan that could not mark
  killed      \* history: the daemon has been killed

vars == <<files, table, article, scan, tasks, worker, work, gathered, scans,
          unsure, unmarked, killed>>

workerVars == <<worker, work, gathered>>

Hash == [Content -> 0..Cardinality(File)]

Row == [rowid : Nat, hash : Hash, status : {"none", "dirty", "current"}]

NoRow == [rowid |-> 0, hash |-> [c \in Content |-> 0], status |-> "none"]

\* What an update keeps of a row it has read.
Todo == [module : Module, hash : Hash]

\* A scan: the paths it has yet to visit, the indexed ones it has not met, what it read
\* (files_processed), and the modules whose indexed files it has changed.
Scan == [on      : BOOLEAN,
         left    : SUBSET File,
         stale   : SUBSET File,
         read    : [File -> Content \cup {Absent}],
         changed : SUBSET Module]

NoScan == [on |-> FALSE, left |-> {}, stale |-> {}, read |-> [f \in File |-> Absent],
           changed |-> {}]

TypeOK ==
  /\ files \in [File -> Content \cup {Absent}]
  /\ table \in [Module -> Row]
  /\ article \in [Module -> Hash \cup {Absent}]
  /\ scan \in [Scanner -> Scan]
  /\ tasks \in 0..MaxScans[Daemon]
  /\ worker \in {"idle", "gather", "generate", "publish", "mark"}
  /\ work \in Seq(Todo) /\ Len(work) <= MaxModules
  /\ gathered \in Hash \cup {Absent}
  /\ \A s \in Scanner : scans[s] \in 0..MaxScans[s]
  /\ unsure \subseteq Module /\ unmarked \subseteq Module
  /\ killed \in BOOLEAN

-----------------------------------------------------------------------------
FilesOf(m) == {f \in File : ModuleOf[f] = m /\ files[f] # Absent}

\* compute_module_hash of the files of m, with their contents in g.
HashOf(g, m) == [c \in Content |-> Cardinality({f \in File : ModuleOf[f] = m /\ g[f] = c})]

StatusIs(m, s) == table[m].status = s

Tracked(m) == ~StatusIs(m, "none")

Dirty == {m \in Module : StatusIs(m, "dirty")}

\* The dirty modules an update takes: get_dirty_modules returns them by rowid, and
\* the list is cut to max_modules_per_run.
FirstDirty ==
  {picked \in [1..Min({Cardinality(Dirty), MaxModules}) -> Dirty] :
     /\ IsInjective(picked)
     /\ \A i \in DOMAIN picked, m \in Dirty :
          \/ \E j \in 1..i : picked[j] = m
          \/ table[picked[i]].rowid < table[m].rowid}

\* Variant of Upsert: an UPDATE of the status alone.
UpsertStatus(new) ==
  table' = [m \in Module |->
              IF m \notin DOMAIN new THEN table[m]
              ELSE IF Tracked(m) THEN [table[m] EXCEPT !.status = new[m].status] ELSE new[m]]

\* INSERT OR REPLACE INTO wiki_state.
Upsert(new) == table' = [m \in Module |-> IF m \in DOMAIN new THEN new[m] ELSE table[m]]

\* The rowids of the rows of S when they are written one after the other: above those of
\* the rows that stay.  Only their order matters.
NewRowids(S) ==
  LET top == Max({table[m].rowid : m \in Module \ S} \cup {0})
  IN  {r \in [S -> (top + 1)..(top + Cardinality(S))] : IsInjective(r)}

Stored(m, h) == Tracked(m) /\ table[m].hash = h

\* The modules of files_processed.
Looked(s) == {ModuleOf[f] : f \in {f \in File : scan[s].read[f] # Absent}}

\* Variant of Outdated: a module without a row is taken to be up to date.
OutdatedKnown(s) ==
  {m \in Looked(s) : ~Stored(m, HashOf(scan[s].read, m)) /\ Tracked(m)}

\* The modules whose hash over the files the scan processed is not the stored one.
Outdated(s) == {m \in Looked(s) : ~Stored(m, HashOf(scan[s].read, m))}

\* The modules the update that runs has before it.
UnderWay == {work[i].module : i \in DOMAIN work}

\* The modules scans in progress have changed the files of.
Changing == UNION {scan[s].changed : s \in Scanner}

\* The scan has read all files of m as they are in the index, and no update is under way
\* that will overwrite the row.
Exactly(s, m) ==
  /\ m \in Looked(s) \ UnderWay
  /\ \A f \in File : ModuleOf[f] = m => scan[s].read[f] = files[f]

-----------------------------------------------------------------------------
Init ==
  /\ files = [f \in File |-> Absent]
  /\ table = [m \in Module |-> NoRow]
  /\ article = [m \in Module |-> Absent]
  /\ scan = [s \in Scanner |-> NoScan]
  /\ tasks = 0
  /\ worker = "idle"
  /\ work = <<>>
  /\ gathered = Absent
  /\ scans = [s \in Scanner |-> 0]
  /\ unsure = {}
  /\ unmarked = {}
  /\ killed = FALSE

\* The daemon scans the paths F of the events it has buffered, the others all paths;
\* they note which are indexed (existing_paths).
BeginScan(s, F) ==
  /\ ~scan[s].on
  /\ scans[s] < MaxScans[s]
  /\ s = Daemon \/ F = File
  /\ scan' = [scan EXCEPT
                ![s] = [NoScan EXCEPT
                         !.on = TRUE,
                         !.left = F,
                         !.stale = IF s = Daemon THEN {} ELSE {f \in File : files[f] # Absent}]]
  /\ scans' = [scans EXCEPT ![s] = @ + 1]
  /\ UNCHANGED <<files, table, article, tasks, workerVars, unsure, unmarked, killed>>

\* The file is gone, or cannot be read.
SkipFile(s, f) ==
  /\ f \in scan[s].left
  /\ scan' = [scan EXCEPT ![s].left = @ \ {f}]
  /\ UNCHANGED <<files, table, article, tasks, workerVars, scans, unsure, unmarked, killed>>

\* The index gets the content c, or Absent, for f.
Store(f, c) ==
  /\ files' = [files EXCEPT ![f] = c]
  /\ unsure' = unsure \cup (IF files[f] # c THEN {ModuleOf[f]} \cap UnderWay ELSE {})

WithChange(changed, f, c) == IF files[f] # c THEN changed \cup {ModuleOf[f]} ELSE changed

\* files_processed has the unchanged files as well.
IndexFile(s, f, c) ==
  /\ f \in scan[s].left
  /\ Store(f, c)
  /\ scan' = [scan EXCEPT ![s].left = @ \ {f},
                          ![s].stale = @ \ {f},
                          ![s].read[f] = c,
                          ![s].changed = WithChange(@, f, c)]
  /\ UNCHANGED <<table, article, tasks, workerVars, scans, unmarked, killed>>

\* The paths that were indexed when the scan began and that it did not find.
DropStale(s, f) ==
  /\ scan[s].left = {}
  /\ f \in scan[s].stale
  /\ Store(f, Absent)
  /\ scan' = [scan EXCEPT ![s].stale = @ \ {f}, ![s].changed = WithChange(@, f, Absent)]
  /\ UNCHANGED <<table, article, tasks, workerVars, scans, unmarked, killed>>

\* Variant of Submits: the count must exceed the threshold.
SubmitsAbove(n) == n > Threshold

Submits(n) == n >= Threshold

\* update_dirty_state; the daemon then queues an update if enough modules have
\* become dirty in this very scan.
MarkDirty(s) ==
  /\ scan[s].on /\ scan[s].left = {} /\ scan[s].stale = {}
  /\ \E rowid \in NewRowids(Outdated(s)) :
       Upsert([m \in Outdated(s) |->
                 [rowid  |-> rowid[m],
                  hash   |-> HashOf(scan[s].read, m),
                  status |-> "dirty"]])
  /\ tasks' = IF s = Daemon /\ Submits(Cardinality(Outdated(s))) THEN tasks + 1 ELSE tasks
  /\ scan' = [scan EXCEPT ![s] = NoScan]
  /\ unsure' = (unsure \ {m \in Outdated(s) : Exactly(s, m)})
                  \cup {m \in Outdated(s) \cup scan[s].changed : ~Exactly(s, m)}
  /\ unmarked' = unmarked \ Looked(s)
  /\ UNCHANGED <<files, article, workerVars, scans, killed>>

\* The scan ends without its mark.
Unmarked(s) ==
  /\ scan' = [scan EXCEPT ![s] = NoScan]
  /\ unsure' = unsure \cup scan[s].changed
  /\ unmarked' = unmarked \cup {m \in Looked(s) : ~Tracked(m)}

\* An error ends the scan, or update_dirty_state raises, which scan_project swallows; or
\* the process is killed, unless it is the daemon: that is Restart.
Interrupt(s) ==
  /\ scan[s].on
  /\ Unmarked(s)
  /\ UNCHANGED <<files, table, article, tasks, workerVars, scans, killed>>

\* ProjectIndex.delete_file on a deletion event; the daemon marks nothing.
DeleteFile(f) ==
  /\ ~scan[Daemon].on
  /\ scans[Daemon] < MaxScans[Daemon]
  /\ files[f] # Absent
  /\ files' = [files EXCEPT ![f] = Absent]
  /\ unsure' = unsure \cup {ModuleOf[f]}
  /\ scans' = [scans EXCEPT ![Daemon] = @ + 1]
  /\ UNCHANGED <<table, article, scan, tasks, workerVars, unmarked, killed>>

-----------------------------------------------------------------------------
(* run_wiki_update, on the one thread of the pool: wiki.max_workers is 1    *)
(* unless the user configures more.                                        *)

\* The dirty rows are read once, and cut to max_modules_per_run.
StartUpdate ==
  /\ worker = "idle"
  /\ tasks > 0
  /\ tasks' = tasks - 1
  /\ \E picked \in FirstDirty :
       work' = [i \in DOMAIN picked |-> [module |-> picked[i], hash |-> table[picked[i]].hash]]
  /\ worker' = IF Dirty = {} THEN "idle" ELSE "gather"
  /\ unsure' = unsure \cup (Changing \cap UnderWay')
  /\ UNCHANGED <<files, table, article, scan, gathered, scans, unmarked, killed>>

\* _gather_module_data.
Gather ==
  /\ worker = "gather"
  /\ gathered' = HashOf(files, Head(work).module)
  /\ worker' = "generate"
  /\ UNCHANGED <<files, table, article, scan, tasks, work, scans, unsure, unmarked, killed>>

\* Variant of NextModule: an error ends the run.
NextModuleOnly ==
  /\ work' = IF Head(work).module \in Broken THEN <<>> ELSE Tail(work)
  /\ worker' = IF Len(work) = 1 \/ Head(work).module \in Broken THEN "idle" ELSE "gather"
  /\ gathered' = Absent

\* On to the next module of the run.
NextModule ==
  /\ work' = Tail(work)
  /\ worker' = IF Len(work) = 1 THEN "idle" ELSE "gather"
  /\ gathered' = Absent

\* generate_wiki_article returns, or raises: the module stays dirty.
Generate ==
  /\ worker = "generate"
  /\ IF Head(work).module \in Broken
       THEN NextModule
       ELSE worker' = "publish" /\ UNCHANGED <<work, gathered>>
  /\ UNCHANGED <<files, table, article, scan, tasks, scans, unsure, unmarked, killed>>

PublishArticle ==
  /\ worker = "publish"
  /\ article' = [article EXCEPT ![Head(work).module] = gathered]
  /\ worker' = "mark"
  /\ UNCHANGED <<files, table, scan, tasks, work, gathered, scans, unsure, unmarked, killed>>

\* mark_current, with the hash of the row read when the run began.
MarkCurrent ==
  /\ worker = "mark"
  /\ LET m == Head(work).module
     IN  \E rowid \in NewRowids({m}) :
           Upsert([n \in {m} |->
                     [rowid |-> rowid[m], hash |-> Head(work).hash, status |-> "current"]])
  /\ NextModule
  /\ UNCHANGED <<files, article, scan, tasks, scans, unsure, unmarked, killed>>

\* The daemon is killed, or the machine goes down, and comes back: its scan, the pool's
\* queue and its run are lost.  SIGTERM does not do that: shutdown(wait=False) cancels
\* nothing, and the interpreter waits for the pool's thread.
Restart ==
  /\ scan[Daemon].on \/ tasks > 0 \/ worker # "idle"
  /\ Unmarked(Daemon)
  /\ tasks' = 0
  /\ worker' = "idle"
  /\ work' = <<>>
  /\ gathered' = Absent
  /\ killed' = TRUE
  /\ UNCHANGED <<files, table, article, scans>>

-----------------------------------------------------------------------------
ScanStep(s) ==
  \/ \E F \in (SUBSET File) \ {{}} : BeginScan(s, F)
  \/ \E f \in File : SkipFile(s, f) \/ DropStale(s, f)
  \/ \E f \in File : \E c \in ContentOf[f] : IndexFile(s, f, c)
  \/ MarkDirty(s)
  \/ Interrupt(s)

WorkerStep == StartUpdate \/ Gather \/ Generate \/ PublishArticle \/ MarkCurrent

Next ==
  \/ \E s \in Scanner : ScanStep(s)
  \/ \E f \in File : DeleteFile(f)
  \/ WorkerStep
  \/ Restart

Spec == Init /\ [][Next]_vars

\* The pool's thread runs what is queued.
FairSpec == Spec /\ WF_vars(WorkerStep)

-----------------------------------------------------------------------------
(* Properties.                                                             *)

\* A module that is marked current has an article generated from its files as they are
\* indexed, once every scan that changed them has marked, having read them all as they
\* are, with no update under way for the module.
CurrentIsFaithful ==
  \A m \in Module \ (unsure \cup Changing) :
     StatusIs(m, "current") => article[m] = HashOf(files, m)

\* An indexed module is known to the wiki, unless the last scan to look at it is still at
\* work or could not mark.
NothingUntracked ==
  \A m \in Module :
     FilesOf(m) # {} => Tracked(m) \/ m \in unmarked \/ \E s \in Scanner : m \in Looked(s)

\* A dirty module an update that begins now takes: before it stand the rows that were
\* written last before its own was, the ones whose article cannot be generated included.
InReach(m) ==
  /\ StatusIs(m, "dirty")
  /\ Cardinality({n \in Dirty : table[n].rowid < table[m].rowid}) < MaxModules

\* While an update is queued a dirty module in its reach, whose article can be generated,
\* does not stay so, whatever happens to the others, unless the daemon is killed.
QueuedIsDrained ==
  \A m \in Module \ Broken :
     ~killed /\ tasks > 0 /\ InReach(m) ~> killed \/ ~InReach(m)

=============================================================================
