----------------------------- MODULE VaultSync ------------------------------
(***************************************************************************)
(* The copy of the indexed projects in an Obsidian vault: `ctx obsidian`   *)
(* (apps/cli/commands/obsidian_cmd.py), the publisher (libs/obsidian/) and *)
(* the daemon's debounced worker (apps/agent/obsidian_worker.py).          *)
(*                                                                         *)
(* A sync is a process of its own.  Three runners start it: the one thread *)
(* of the daemon's pool, sync-all at night, and the user.  It reads the    *)
(* tables of cache.db one after the other, writes the pages of the index   *)
(* from what it read, and then copies the wiki as it finds it.  Nothing    *)
(* keeps two of them apart.                                                *)
(*                                                                         *)
(* A page is written in one step here: the temporary file it is written to *)
(* first is shared by two syncs of a project, which may make one of them   *)
(* report an error, as WritePage lets it.                                  *)
(***************************************************************************)
EXTENDS Integers, FiniteSets, SequencesExt

CONSTANTS
  Project,     \* registered projects, no two with the same directory name
  File,        \* paths below a project
  Owner,       \* [File -> Project]
  Dir,         \* [File -> names]: the first directory, "_root" for none
  Imports,     \* [File -> SUBSET File]: the import relations of a file
  Churn,       \* [File -> Nat]: commits of the last 30 days
  Commits,     \* [File -> Nat]: all commits
  WithWiki,    \* projects a wiki is generated for
  Wikis,       \* wiki articles, "INDEX" and "architecture" among them or not
  Words,       \* [Wikis -> Seq(names)]: its file name, cut at the dashes
  Shown,       \* which of Home, Recent Changes and Tech Debt are looked at
  Debounce,    \* obsidian.debounce_seconds, in ticks
  StaleAfter,  \* --stale-hours, in ticks
  Absent,
  MaxChanges,  \* bound: changes to the index and the wiki
  MaxExtras,   \* bound: errors, kills and syncs by the user
  MaxAtOnce    \* bound: syncs at the same time

ASSUME VaultSyncAssumption ==
  /\ Owner \in [File -> Project]
  /\ WithWiki \subseteq Project
  /\ Imports \in [File -> SUBSET File]
  /\ Churn \in [File -> Nat] /\ Commits \in [File -> Nat]
  /\ Debounce \in Nat \ {0} /\ StaleAfter \in Nat /\ Debounce <= StaleAfter
  /\ {MaxChanges, MaxExtras} \subseteq Nat /\ MaxAtOnce \in 1..3
  /\ Shown \subseteq {"Home", "Recent_Changes", "Tech_Debt"}
  /\ IsFiniteSet(Project) /\ IsFiniteSet(File) /\ IsFiniteSet(Wikis)

VARIABLES
  index,    \* cache.db: the files, and those whose symbols and relations are in
  wiki,     \* .context/wiki: the version of each article, Absent without the directory
  vault,    \* pages below Projects/<name>: their content
  marker,   \* .context/obsidian_last_sync: its age, Absent where there is none
  queue,    \* projects submitted to the pool of the daemon
  plan,     \* what is left of the plan of sync-all
  sync,     \* the sync each runner has going
  count     \* changes and extras so far

vars == <<index, wiki, vault, marker, queue, plan, sync, count>>

Runner == {"worker", "nightly", "user"}
Special == <<"INDEX", "architecture">>
Versions == {1, 2}

Idle == [pc |-> "idle"]
Active(r) == sync[r].pc # "idle"

\* Ages saturate where nothing tells them apart.
MaxAge == StaleAfter
Older(age) == IF age = MaxAge THEN age ELSE age + 1

-----------------------------------------------------------------------------
\* _build_modules: what each module page shows.
BuildModules(files, parsed) ==
  LET In(m) == {f \in files : Dir[f] = m}
      \* Relations count when both ends are files of the snapshot.
      deps  == {<<Dir[e[1]], Dir[e[2]]>> : e \in {i \in (parsed \cap files) \X files : i[2] \in Imports[i[1]]}}
  IN  [m \in {Dir[f] : f \in files} |->
        [files |-> Cardinality(In(m)), symbols |-> In(m) \cap parsed,
         dependencies |-> {d[2] : d \in {d \in deps : d[1] = m /\ d[2] # m}},
         dependents |-> {d[1] : d \in {d \in deps : d[2] = m /\ d[1] # m}}]]

\* The page with the counts, and those of git_stats with the files that pass the
\* thresholds of the command.
HomePage(snap) == <<Cardinality(snap.files), Cardinality(snap.parsed)>>
RecentChanges(snap) == {f \in snap.parsed : Churn[f] > 0}
TechDebt(snap) == {f \in snap.parsed : Churn[f] > 5 \/ Commits[f] > 20}

\* _short_module_for: the first word of a name with dashes.
ShortModule(a) == IF a \notin Range(Special) /\ Len(Words[a]) > 1 THEN Words[a][1] ELSE Absent

\* make_wiki_footer: what the footer leads to.
Footer(a) == ShortModule(a)

\* An article in the vault: its links are turned into wikilinks, which is one to one.
Mirrored(a, version) == [version |-> version, footer |-> Footer(a)]

\* The page of one kind, or of one module, of a snapshot.
IndexPage(p, snap) ==
  [key |-> <<"page", p>>,
   content |-> CASE p = "Home" -> HomePage(snap)
                 [] p = "Recent_Changes" -> RecentChanges(snap)
                 [] p = "Tech_Debt" -> TechDebt(snap)]

ModulePage(m, snap) == [key |-> <<"module", m>>, content |-> BuildModules(snap.files, snap.parsed)[m]]

\* The pages of a snapshot in the order sync_project writes them.
IndexPages(snap) ==
  LET modules == SetToSeq({Dir[f] : f \in snap.files})
      If(p) == IF p \in Shown THEN <<IndexPage(p, snap)>> ELSE <<>>
  IN  If("Home") \o [i \in DOMAIN modules |-> ModulePage(modules[i], snap)]
        \o If("Recent_Changes") \o If("Tech_Debt")

\* What is to be seen of a project once it is synced.
Published(p) ==
  /\ \A i \in DOMAIN IndexPages(index[p]) :
       LET page == IndexPages(index[p])[i]
       IN  page.key \in DOMAIN vault[p] /\ vault[p][page.key] = page.content
  /\ wiki[p] # Absent =>
       [a \in {a \in Wikis : <<"wiki", a>> \in DOMAIN vault[p]} |-> vault[p][<<"wiki", a>>]]
         = [a \in DOMAIN wiki[p] |-> Mirrored(a, wiki[p][a])]

TypeOK ==
  /\ \A p \in Project : index[p].parsed \subseteq index[p].files /\ index[p].files \subseteq {f \in File : Owner[f] = p}
  /\ \A p \in Project : wiki[p] = Absent \/ (DOMAIN wiki[p] \subseteq Wikis /\ Range(wiki[p]) \subseteq Versions)
  /\ \A p \in Project : DOMAIN vault[p] \subseteq {<<"page", k>> : k \in {"Home", "Recent_Changes", "Tech_Debt"}}
                           \cup {<<"module", m>> : m \in Range(Dir)} \cup {<<"wiki", a>> : a \in Wikis}
  /\ marker \in [Project -> 0..MaxAge \cup {Absent}]
  /\ queue \in Seq(Project)
  /\ plan \in Seq(Project)
  /\ \A r \in Runner : sync[r].pc \in {"idle", "files", "rest", "pages", "wiki", "clean", "done"}

Init ==
  /\ index = [p \in Project |-> [files |-> {}, parsed |-> {}]]
  /\ wiki = [p \in Project |-> Absent]
  /\ vault = [p \in Project |-> <<>>]
  /\ marker = [p \in Project |-> Absent]
  /\ queue = <<>> /\ plan = <<>>
  /\ sync = [r \in Runner |-> Idle]
  /\ count = [changes |-> 0, extras |-> 0]

\* The pages, or articles, f once page k has been written with content c.
With(f, k, c) == [x \in DOMAIN f \cup {k} |-> IF x = k THEN c ELSE f[x]]

Counting(what, most) == count[what] < most /\ count' = [count EXCEPT ![what] = @ + 1]

\* Something a sync of p reads or writes has changed: its other runs are not alone.
Disturbed(p, except) ==
  [r \in Runner |-> IF r # except /\ Active(r) /\ sync[r].project = p THEN [sync[r] EXCEPT !.alone = FALSE] ELSE sync[r]]

-----------------------------------------------------------------------------
(* The world around.                                                       *)

\* A scan changes the index; that of the daemon submits a sync to the pool.
Scan(p) ==
  /\ Counting("changes", MaxChanges)
  /\ \E files \in SUBSET {f \in File : Owner[f] = p} : \E parsed \in SUBSET files :
       index' = [index EXCEPT ![p] = [files |-> files, parsed |-> parsed]]
  /\ index' # index
  /\ queue' \in {queue, Append(queue, p)}
  /\ sync' = Disturbed(p, "none")
  /\ UNCHANGED <<wiki, vault, marker, plan>>

\* The wiki worker writes an article, or one is deleted, or the whole wiki.
ChangeWiki(p) ==
  /\ p \in WithWiki
  /\ Counting("changes", MaxChanges)
  /\ LET old == IF wiki[p] = Absent THEN <<>> ELSE wiki[p] IN
       \/ \E a \in Wikis, v \in Versions : wiki' = [wiki EXCEPT ![p] = With(old, a, v)]
       \/ \E a \in DOMAIN old : wiki' = [wiki EXCEPT ![p] = Restrict(old, DOMAIN old \ {a})]
       \/ wiki[p] # Absent /\ wiki' = [wiki EXCEPT ![p] = Absent]
  /\ wiki' # wiki
  /\ sync' = Disturbed(p, "none")
  /\ UNCHANGED <<index, vault, marker, queue, plan>>

Tick ==
  /\ marker' = [p \in Project |-> IF marker[p] = Absent THEN Absent ELSE Older(marker[p])]
  /\ sync' = [r \in Runner |-> IF r = "worker" /\ Active(r) THEN [sync[r] EXCEPT !.age = Older(@)] ELSE sync[r]]
  /\ <<marker, sync>>' # <<marker, sync>>
  /\ UNCHANGED <<index, wiki, vault, queue, plan, count>>

-----------------------------------------------------------------------------
(* The runners.                                                            *)

MayStart(r) == ~Active(r) /\ Cardinality({q \in Runner : Active(q)}) < MaxAtOnce

\* ctx obsidian sync begins.
Started(r, p) ==
  [Disturbed(p, r) EXCEPT ![r] =
     [pc |-> "files", project |-> p, snap |-> [files |-> {}, parsed |-> {}], todo |-> <<>>,
      kept |-> {}, errors |-> FALSE, age |-> 0,
      alone |-> \A q \in Runner \ {r} : Active(q) => sync[q].project # p]]

\* run_obsidian_sync up to the child: within the debounce window it returns at once.
WorkerTakes ==
  /\ MayStart("worker") /\ queue # <<>>
  /\ queue' = Tail(queue)
  /\ LET p == Head(queue) IN
       sync' = IF marker[p] # Absent /\ marker[p] < Debounce THEN sync ELSE Started("worker", p)
  /\ UNCHANGED <<index, wiki, vault, marker, plan, count>>

\* Variant of IsStale: a project without a marker was never asked for.
IsStaleMarked(p) == StaleAfter = 0 \/ (marker[p] # Absent /\ marker[p] >= StaleAfter)

\* _is_stale: a project without a marker is.
IsStale(p) == StaleAfter = 0 \/ marker[p] = Absent \/ marker[p] >= StaleAfter

\* sync_all: the plan is made for all projects at once.
MakePlan ==
  /\ ~Active("nightly") /\ plan = <<>>
  /\ plan' = SetToSeq({p \in Project : IsStale(p)})
  /\ plan' # <<>>
  /\ UNCHANGED <<index, wiki, vault, marker, queue, sync, count>>

\* _run_plan, _invoke_sync: one project after the other, whatever came of the last.
RunPlan ==
  /\ MayStart("nightly") /\ plan # <<>>
  /\ plan' = Tail(plan)
  /\ sync' = Started("nightly", Head(plan))
  /\ UNCHANGED <<index, wiki, vault, marker, queue, count>>

ByHand ==
  /\ MayStart("user") /\ Counting("extras", MaxExtras)
  /\ \E p \in Project : sync' = Started("user", p)
  /\ UNCHANGED <<index, wiki, vault, marker, queue, plan>>

\* The child has ended well, with or without errors on single pages.  The worker writes
\* down when it began, sync-all the time it is now, the user nothing.
Finish(r) ==
  /\ sync[r].pc = "done"
  /\ marker' = CASE r = "worker"  -> [marker EXCEPT ![sync[r].project] = sync[r].age]
                 [] r = "nightly" -> [marker EXCEPT ![sync[r].project] = 0]
                 [] r = "user"    -> marker
  /\ sync' = [sync EXCEPT ![r] = Idle]
  /\ UNCHANGED <<index, wiki, vault, queue, plan, count>>

\* The child is killed for taking too long, or raises: no marker.
Die(r) ==
  /\ Active(r) /\ sync[r].pc # "done"
  /\ Counting("extras", MaxExtras)
  /\ sync' = [sync EXCEPT ![r] = Idle]
  /\ UNCHANGED <<index, wiki, vault, marker, queue, plan>>

\* The daemon goes down with what was submitted to its pool.
DaemonStops ==
  /\ queue # <<>> \/ Active("worker")
  /\ Counting("extras", MaxExtras)
  /\ queue' = <<>>
  /\ sync' = [sync EXCEPT !["worker"] = Idle]
  /\ UNCHANGED <<index, wiki, vault, marker, plan>>

-----------------------------------------------------------------------------
(* The sync of one project.                                                *)

\* iter_files ...
ReadFiles(r) ==
  /\ sync[r].pc = "files"
  /\ sync' = [sync EXCEPT ![r].snap.files = index[sync[r].project].files, ![r].pc = "rest"]
  /\ UNCHANGED <<index, wiki, vault, marker, queue, plan, count>>

\* ... and iter_symbols, iter_relations and iter_git_stats.
ReadRest(r) ==
  /\ sync[r].pc = "rest"
  /\ LET snap == [sync[r].snap EXCEPT !.parsed = index[sync[r].project].parsed] IN
       sync' = [sync EXCEPT ![r].snap = snap, ![r].todo = IndexPages(snap), ![r].pc = "pages"]
  /\ UNCHANGED <<index, wiki, vault, marker, queue, plan, count>>

\* _atomic_write of one page of the index; an error is put down and the next page is tried.
WritePage(r) ==
  /\ sync[r].pc = "pages" /\ sync[r].todo # <<>>
  /\ LET p == sync[r].project
         page == Head(sync[r].todo) IN
       \/ /\ vault' = [vault EXCEPT ![p] = With(@, page.key, page.content)]
          /\ sync' = [Disturbed(p, r) EXCEPT ![r].todo = Tail(@)]
          /\ UNCHANGED count
       \/ /\ Counting("extras", MaxExtras)
          /\ sync' = [sync EXCEPT ![r].todo = Tail(@), ![r].errors = TRUE]
          /\ UNCHANGED vault
  /\ UNCHANGED <<index, wiki, marker, queue, plan>>

\* Without a wiki there is nothing to mirror and nothing is cleaned up.  Else INDEX and
\* architecture come first, then the articles the directory lists now.
BeginMirror(r) ==
  /\ sync[r].pc = "pages" /\ sync[r].todo = <<>>
  /\ LET w == wiki[sync[r].project] IN
       sync' = IF w = Absent THEN [sync EXCEPT ![r].pc = "done"]
               ELSE [sync EXCEPT ![r].pc = "wiki",
                                 ![r].todo = SetToSeq({"INDEX"} \cap DOMAIN w) \o SetToSeq({"architecture"} \cap DOMAIN w)
                                               \o SetToSeq(DOMAIN w \ Range(Special))]
  /\ UNCHANGED <<index, wiki, vault, marker, queue, plan, count>>

\* Variant of MirrorArticle: INDEX is not kept.
MirrorArticleButIndex(r) ==
  /\ sync[r].pc = "wiki" /\ sync[r].todo # <<>>
  /\ LET p == sync[r].project
         a == Head(sync[r].todo)
         there == wiki[p] # Absent /\ a \in DOMAIN wiki[p] IN
       \/ /\ there
          /\ vault' = [vault EXCEPT ![p] = With(@, <<"wiki", a>>, Mirrored(a, wiki[p][a]))]
          /\ sync' = [Disturbed(p, r) EXCEPT ![r].todo = Tail(@), ![r].kept = IF a = "INDEX" THEN @ ELSE @ \cup {<<"wiki", a>>}]
          /\ UNCHANGED count
       \/ /\ IF there THEN Counting("extras", MaxExtras) ELSE UNCHANGED count
          /\ sync' = [sync EXCEPT ![r].todo = Tail(@), ![r].errors = @ \/ there \/ a \notin Range(Special)]
          /\ UNCHANGED vault
  /\ UNCHANGED <<index, wiki, marker, queue, plan>>

\* An article is read and written in one go; one that was listed and is gone by now is an
\* error.
MirrorArticle(r) ==
  /\ sync[r].pc = "wiki" /\ sync[r].todo # <<>>
  /\ LET p == sync[r].project
         a == Head(sync[r].todo)
         there == wiki[p] # Absent /\ a \in DOMAIN wiki[p] IN
       \/ /\ there
          /\ vault' = [vault EXCEPT ![p] = With(@, <<"wiki", a>>, Mirrored(a, wiki[p][a]))]
          /\ sync' = [Disturbed(p, r) EXCEPT ![r].todo = Tail(@), ![r].kept = @ \cup {<<"wiki", a>>}]
          /\ UNCHANGED count
       \/ /\ IF there THEN Counting("extras", MaxExtras) ELSE UNCHANGED count
          /\ sync' = [sync EXCEPT ![r].todo = Tail(@), ![r].errors = @ \/ there \/ a \notin Range(Special)]
          /\ UNCHANGED vault
  /\ UNCHANGED <<index, wiki, marker, queue, plan>>

\* Variant of CleanUp: nothing is taken out.
CleanUpNothing(r) ==
  /\ sync[r].pc = "wiki" /\ sync[r].todo = <<>>
  /\ sync' = [sync EXCEPT ![r].pc = "done"]
  /\ UNCHANGED <<index, wiki, vault, marker, queue, plan, count>>

\* Drift cleanup: every wiki page this run did not write, also one whose article it
\* could not read.  Those it cannot delete are put down.
CleanUp(r) ==
  /\ sync[r].pc = "wiki" /\ sync[r].todo = <<>>
  /\ LET p == sync[r].project
         stale == {k \in DOMAIN vault[p] : k[1] = "wiki" /\ k \notin sync[r].kept} IN
       \E gone \in SUBSET stale :
         /\ IF gone = stale THEN UNCHANGED count ELSE Counting("extras", MaxExtras)
         /\ vault' = [vault EXCEPT ![p] = Restrict(@, DOMAIN @ \ gone)]
         /\ sync' = [Disturbed(p, r) EXCEPT ![r].pc = "done", ![r].errors = @ \/ gone # stale]
  /\ UNCHANGED <<index, wiki, marker, queue, plan>>

\* The directories of the project cannot be made, or those of its articles cannot be made
\* or listed: the sync puts the error down and is over, without what it had yet to do.
GiveUp(r) ==
  /\ \/ sync[r].pc = "pages" /\ sync[r].todo = IndexPages(sync[r].snap)
     \/ sync[r].pc = "pages" /\ sync[r].todo = <<>> /\ wiki[sync[r].project] # Absent
     \/ sync[r].pc = "wiki"
  /\ Counting("extras", MaxExtras)
  /\ sync' = [sync EXCEPT ![r].pc = "done", ![r].errors = TRUE]
  /\ UNCHANGED <<index, wiki, vault, marker, queue, plan>>

SyncStep(r) ==
  ReadFiles(r) \/ ReadRest(r) \/ WritePage(r) \/ BeginMirror(r) \/ MirrorArticle(r) \/ CleanUp(r) \/ Finish(r)

-----------------------------------------------------------------------------
Next ==
  \/ \E p \in Project : Scan(p) \/ ChangeWiki(p)
  \/ Tick \/ WorkerTakes \/ MakePlan \/ RunPlan \/ ByHand \/ DaemonStops
  \/ \E r \in Runner : SyncStep(r) \/ GiveUp(r) \/ Die(r)

\* cron starts sync-all again and again, time passes, and processes that are not killed
\* run on.
Spec ==
  /\ Init /\ [][Next]_vars
  /\ WF_vars(Tick) /\ WF_vars(WorkerTakes) /\ WF_vars(MakePlan) /\ WF_vars(RunPlan)
  /\ \A r \in Runner : WF_vars(SyncStep(r))

-----------------------------------------------------------------------------
\* A sync that reports no error and that nothing disturbed leaves the pages of the
\* project as the index and the wiki have them, and no other article; its footers lead
\* to pages of modules where the first directory is one with files and has no dash in its
\* name (publisher.py sync_project, _mirror_wiki).
CleanSyncIsExact ==
  [][\A r \in Runner :
       sync[r].pc = "done" /\ sync'[r].pc = "idle" /\ sync[r].alone /\ ~sync[r].errors =>
         LET p == sync[r].project IN
           /\ Published(p)
           /\ wiki[p] # Absent => \A a \in DOMAIN wiki[p], f \in index[p].files :
                Words[a][1] = Dir[f] => Mirrored(a, 1).footer \in {Absent} \cup {k[2] : k \in DOMAIN vault[p]}]_vars

\* A page is taken out of the vault only by a sync that reported an error, or when its
\* article is gone, or by a sync that ran beside a change or another sync.
DeletesOnlyDrift ==
  [][\A p \in Project : \A k \in DOMAIN vault[p] \ DOMAIN vault'[p] :
       \/ wiki[p] = Absent \/ k[2] \notin DOMAIN wiki[p]
       \/ \E r \in Runner : Active(r) /\ sync[r].project = p /\ (sync[r].errors \/ ~sync[r].alone)]_vars

\* Whatever is dropped by the debounce, killed, lost with the daemon or overwritten by a
\* slower sync, in the end the vault shows every project as it is
\* (obsidian_worker.py, obsidian_cmd.py sync_all).
EventuallyPublished == <>[](\A p \in Project : Published(p))

=============================================================================
