------------------------------ MODULE Timeline ------------------------------
(***************************************************************************)
(* The symbol timeline of one project: what a whole scan writes about the  *)
(* symbols it found (libs/scanning/scanner.py, libs/symbol_timeline/), the *)
(* commands that mark and delete what it wrote (timeline_cmd.py), and the  *)
(* tag poll (libs/gitintel/tag_watcher.py, snapshot.py).                   *)
(*                                                                         *)
(* A scan writes its rows one commit at a time to symbol_timeline.db, then *)
(* truncates and rewrites the sidecar the next scan compares with, then    *)
(* records its own commit and time.  It can be cut short anywhere.         *)
(***************************************************************************)
EXTENDS TimelineQuery

CONSTANTS
  Tag,        \* names of git tags
  Configs,    \* what config.yaml may say: timeline.enabled, and retention_days in ticks
              \* of the clock, 0 for none
  MaxCommits, \* bound: commits
  MaxScans,   \* bound: whole scans
  MaxPolls,   \* bound: polls of the tags
  MaxUpsets,  \* bound: failures and kills, rewrites of history, deletions by commands
  MaxTotal    \* bound: commits and scans, and polls and upsets twice, together

ASSUME TimelineAssumption ==
  /\ Configs \subseteq [enabled : BOOLEAN, retention : Nat]
  /\ {MaxCommits, MaxScans, MaxPolls, MaxUpsets, MaxTotal} \subseteq Nat

VARIABLES
  work,     \* the files of the project: what a scan would find
  repo,     \* commits, HEAD, tags and the commits the reflog names
  clock,    \* wall clock
  config,   \* timeline.enabled and retention_days in config.yaml
  pc,       \* where the scan is
  todo,     \* the events and rename edges it has yet to write
  curr,     \* the snapshot it has built
  stamp,    \* its commit and time
  db,       \* symbol_timeline_events and symbol_timeline_rename_edges
  state,    \* symbol_timeline_scan_state
  sidecar,  \* .context/timeline_prev.json, Absent where load_snapshot finds none
  anchors,  \* symbol_timeline_snapshots
  known,    \* the tags the caller of poll_tags saw last
  count,    \* scans, polls and upsets so far
  said,     \* history: symbols the scan in progress has written rows about
  lost,     \* history: symbols written about by a scan that did not get to the sidecar
  scanned,  \* history: commits whose files a whole scan has recorded
  regular   \* history: which of the things that can go wrong have not

gitVars == <<work, repo>>
scanVars == <<pc, todo, curr, stamp, said>>
storeVars == <<db, state, sidecar>>
tagVars == <<anchors, known>>
historyVars == <<lost, scanned, regular>>
vars == <<gitVars, clock, config, scanVars, storeVars, tagVars, count, historyVars>>

\* A scan was cut short; a scan found files that were not committed; HEAD moved to other
\* than a new child; events were deleted; the reflog lost entries; reconcile could not read
\* it; a tag was put back, a poll forgot one it knew, or the first sighting of one was lost.
Upset == {"cut", "dirty", "rewound", "deleted", "expired", "reflog", "retagged"}

Commits == 1..Len(repo.commits)

TypeOK ==
  /\ work \in Tree
  /\ \A c \in Commits : repo.commits[c].parent < c /\ repo.commits[c].tree \in Tree
  /\ repo.head \in 0..Len(repo.commits)
  /\ repo.tags \in [Tag -> Commits \cup {Absent}]
  /\ repo.reflog \subseteq Commits
  /\ pc \in {"idle", "emit", "save", "state"}
  /\ \A i \in DOMAIN db.events : db.events[i].ts <= clock /\ db.events[i].sym \in Symbol
  /\ \A i, j \in DOMAIN db.events : i < j => db.events[i].ts <= db.events[j].ts
  /\ \A i \in DOMAIN db.edges : db.edges[i].old # db.edges[i].new
  /\ sidecar = Absent \/ DOMAIN sidecar \subseteq Symbol
  /\ said \subseteq Symbol /\ lost \subseteq Symbol
  /\ scanned \subseteq Commits
  /\ regular \subseteq Upset

Init ==
  /\ work = [s \in Symbol |-> Absent]
  /\ repo = [commits |-> <<>>, head |-> 0, tags |-> [t \in Tag |-> Absent], reflog |-> {}]
  /\ clock = 0
  /\ config \in Configs
  /\ pc = "idle" /\ todo = NoRows /\ curr = NoSymbols /\ stamp = [commit |-> Absent, ts |-> 0] /\ said = {}
  /\ db = [events |-> <<>>, edges |-> <<>>]
  /\ state = Absent /\ sidecar = Absent
  /\ anchors = {} /\ known = [t \in Tag |-> Absent]
  /\ count = [scans |-> 0, polls |-> 0, upsets |-> 0]
  /\ lost = {} /\ scanned = {} /\ regular = Upset

Total == Len(repo.commits) + count.scans + 2 * (count.polls + count.upsets)

\* One more of what the bounds count.
MayCount(what, most) == count[what] < most /\ Total < MaxTotal

\* An upset happens: it is counted and remembered.
Upsetting(u) ==
  /\ MayCount("upsets", MaxUpsets)
  /\ count' = [count EXCEPT !.upsets = @ + 1]
  /\ regular' = regular \ {u}

-----------------------------------------------------------------------------
(* The user's side: editing, and git.                                      *)

Head_ == IF repo.head = 0 THEN Absent ELSE repo.head

HeadTree == IF repo.head = 0 THEN [s \in Symbol |-> Absent] ELSE repo.commits[repo.head].tree

\* Files are edited and committed between scans: a scan reads neither after its first
\* step, so that what is done during it may as well be done after it.
Edit ==
  /\ pc = "idle"
  /\ work' \in Tree \ {work}
  /\ Len(repo.commits) < MaxCommits
  /\ work = HeadTree
  /\ UNCHANGED <<repo, clock, config, scanVars, storeVars, tagVars, count, historyVars>>

NewCommit(parent) ==
  /\ Len(repo.commits) < MaxCommits
  /\ Total < MaxTotal
  /\ clock' = clock + 1
  /\ repo' = [repo EXCEPT !.commits = Append(@, [parent |-> parent, tree |-> work, ts |-> clock + 1]),
                          !.head = Len(repo.commits) + 1,
                          !.reflog = @ \cup {Len(repo.commits) + 1}]
  /\ UNCHANGED <<work, config, scanVars, storeVars, tagVars>>

GitCommit ==
  /\ pc = "idle"
  /\ NewCommit(repo.head)
  /\ work # HeadTree
  /\ UNCHANGED <<count, historyVars>>

\* git commit --amend, or a rebase of the last commit.
GitAmend ==
  /\ repo.head # 0
  /\ NewCommit(repo.commits[repo.head].parent)
  /\ Upsetting("rewound")
  /\ UNCHANGED <<lost, scanned>>

\* git reset --hard, or a checkout, to a commit a ref or the reflog names.
GitReset ==
  /\ \E c \in repo.reflog \ {repo.head} :
       /\ repo' = [repo EXCEPT !.head = c]
       /\ work' = repo.commits[c].tree
  /\ Upsetting("rewound")
  /\ UNCHANGED <<clock, config, scanVars, storeVars, tagVars, lost, scanned>>

\* Entries of the reflog expire; that of HEAD was made last.
GitExpire ==
  /\ \E c \in repo.reflog \ {repo.head} : repo' = [repo EXCEPT !.reflog = @ \ {c}]
  /\ Upsetting("expired")
  /\ UNCHANGED <<work, clock, config, scanVars, storeVars, tagVars, lost, scanned>>

\* git tag, git tag -f.
GitTag ==
  /\ MayCount("polls", MaxPolls) /\ Total + 2 <= MaxTotal
  /\ pc = "idle"
  /\ \E t \in Tag :
       /\ repo.head # 0 /\ repo.tags[t] # repo.head
       /\ repo' = [repo EXCEPT !.tags[t] = repo.head]
       /\ regular' = IF \E row \in anchors : row.tag = t /\ row.sha = repo.head /\ row.invalidated
                     THEN regular \ {"retagged"} ELSE regular
  /\ UNCHANGED <<work, clock, config, scanVars, storeVars, tagVars, count, lost, scanned>>

\* git tag -d.
GitUntag ==
  /\ MayCount("polls", MaxPolls) /\ Total + 2 <= MaxTotal
  /\ pc = "idle"
  /\ \E t \in Tag : repo.tags[t] # Absent /\ repo' = [repo EXCEPT !.tags[t] = Absent]
  /\ UNCHANGED <<work, clock, config, scanVars, storeVars, tagVars, count, historyVars>>

-----------------------------------------------------------------------------
(* A whole scan.                                                           *)

LoadSnapshot == IF sidecar = Absent THEN NoSymbols ELSE sidecar

\* _maybe_build_default_timeline_sink and _emit_timeline_for_scan up to the first row.
\* The flag file has no part in it.
BeginEmit ==
  /\ pc = "idle" /\ config.enabled /\ MayCount("scans", MaxScans)
  /\ count' = [count EXCEPT !.scans = @ + 1]
  /\ clock' = clock + 1
  /\ stamp' = [commit |-> Head_, ts |-> clock + 1]
  /\ curr' = BuildSnapshot(work)
  /\ todo' = Dispatch(LoadSnapshot, curr', Head_, clock + 1)
  /\ pc' = "emit" /\ said' = {}
  /\ regular' = IF work = HeadTree THEN regular ELSE regular \ {"dirty"}
  /\ UNCHANGED <<gitVars, config, storeVars, tagVars, lost, scanned>>

\* DELETE: the rows but those at the given places.
Without(rows, gone) ==
  LET left[i \in 0..Len(rows)] ==
        IF i = 0 THEN <<>> ELSE IF i \in gone THEN left[i - 1] ELSE Append(left[i - 1], rows[i])
  IN  left[Len(rows)]

\* append_event drops what is older than the retention with every event it inserts.
Retained(events) ==
  IF config.retention = 0 THEN events
  ELSE Without(events, {i \in DOMAIN events : events[i].ts < clock - config.retention})

AppendEvent(events, row) == Retained(Append(events, row))

\* on_added, on_modified, on_removed and on_moved of SqliteTimelineSink: a commit each.
WriteEvent ==
  /\ pc = "emit" /\ todo.events # {}
  /\ LET row == FirstEvent(todo.events) IN
       /\ db' = [db EXCEPT !.events = AppendEvent(@, row)]
       /\ said' = said \cup {row.sym}
       /\ todo' = [todo EXCEPT !.events = @ \ {row}]
       /\ regular' = IF db'.events = Append(db.events, row) THEN regular ELSE regular \ {"deleted"}
  /\ UNCHANGED <<gitVars, clock, config, pc, curr, stamp, state, sidecar, tagVars, count, lost, scanned>>

\* on_renamed: a commit for each edge.
WriteEdge ==
  /\ pc = "emit" /\ todo.events = {} /\ todo.edges # {}
  /\ LET row == FirstEdge(todo.edges) IN
       /\ db' = [db EXCEPT !.edges = Append(@, row)]
       /\ said' = IF row.candidate THEN said ELSE said \cup {row.old, row.new}
       /\ todo' = [todo EXCEPT !.edges = @ \ {row}]
  /\ UNCHANGED <<gitVars, clock, config, pc, curr, stamp, state, sidecar, tagVars, count, historyVars>>

\* save_snapshot opens the sidecar for writing ...
TruncateSidecar ==
  /\ pc = "emit" /\ todo = NoRows
  /\ sidecar' = Absent /\ pc' = "save"
  /\ UNCHANGED <<gitVars, clock, config, todo, curr, stamp, said, db, state, tagVars, count, historyVars>>

\* ... and fills it.
SaveSidecar ==
  /\ pc = "save"
  /\ sidecar' = curr /\ pc' = "state"
  /\ lost' = lost \ said
  /\ UNCHANGED <<gitVars, clock, config, todo, curr, stamp, said, db, state, tagVars, count, scanned, regular>>

UpsertScanState ==
  /\ pc = "state"
  /\ state' = stamp
  /\ pc' = "idle" /\ curr' = NoSymbols /\ said' = {}
  /\ scanned' = IF stamp.commit # Absent /\ curr = BuildSnapshot(repo.commits[stamp.commit].tree)
                THEN scanned \cup {stamp.commit} ELSE scanned
  /\ UNCHANGED <<gitVars, clock, config, todo, stamp, db, sidecar, tagVars, count, lost, regular>>

\* The store or the sink raises, which ends the emission, or the process is killed.
CutShort ==
  /\ pc # "idle"
  /\ pc' = "idle" /\ todo' = NoRows /\ curr' = NoSymbols /\ said' = {}
  /\ lost' = IF pc = "save" THEN Symbol
             ELSE IF pc = "state" THEN lost ELSE lost \cup said
  /\ Upsetting("cut")
  /\ UNCHANGED <<gitVars, clock, config, stamp, storeVars, tagVars, scanned>>

-----------------------------------------------------------------------------
(* Commands.                                                               *)

\* Variant of ReachableCommits: the refs alone.
ReachableFromRefs(reflogToo) ==
  UNION {Ancestors(repo, c) : c \in {repo.head} \cup (Range(repo.tags) \ {Absent})}

\* list_reachable_commits: all the refs reach, and the entries of the reflog.
ReachableCommits(reflogToo) ==
  (UNION {Ancestors(repo, c) : c \in {repo.head} \cup (Range(repo.tags) \ {Absent})})
    \cup (IF reflogToo THEN repo.reflog ELSE {})

\* reconcile_orphaned_events: an orphan stays one.
MarkOrphans(events, knownShas) ==
  [i \in DOMAIN events |->
     IF events[i].commit = Absent \/ events[i].commit \in knownShas THEN events[i]
     ELSE [events[i] EXCEPT !.orphaned = TRUE]]

\* ctx timeline reconcile.  Where rev-list fails it marks nothing; where only the reflog
\* fails it goes by the refs.
Reconcile ==
  /\ \E reflogToo \in BOOLEAN :
       /\ db' = [db EXCEPT !.events = MarkOrphans(@, ReachableCommits(reflogToo))]
       /\ regular' = IF reflogToo THEN regular ELSE regular \ {"reflog"}
  /\ db' # db
  /\ UNCHANGED <<gitVars, clock, config, scanVars, state, sidecar, tagVars, count, lost, scanned>>

\* prune_events: rows older than the cutoff, only orphans unless told otherwise.
PruneEvents(events, cutoff, onlyOrphaned) ==
  Without(events, {i \in DOMAIN events : events[i].ts < cutoff /\ (events[i].orphaned \/ ~onlyOrphaned)})

\* ctx timeline prune.
PruneCmd ==
  /\ \E cutoff \in 1..(clock - 1), onlyOrphaned \in BOOLEAN :
       db' = [db EXCEPT !.events = PruneEvents(@, cutoff, onlyOrphaned)]
  /\ db' # db
  /\ Upsetting("deleted")
  /\ UNCHANGED <<gitVars, clock, config, scanVars, state, sidecar, tagVars, lost, scanned>>

-----------------------------------------------------------------------------
(* The tag poll.                                                           *)

\* list_git_tags: no tags where git fails.
ListGitTags(gitUp) == IF gitUp THEN repo.tags ELSE [t \in Tag |-> Absent]

\* invalidate_existing_tag.
InvalidateExistingTag(rows, t, sha) ==
  {IF row.tag = t /\ row.sha # sha THEN [row EXCEPT !.invalidated = TRUE] ELSE row : row \in rows}

\* build_release_snapshot: the symbols are those of the sidecar.  INSERT OR IGNORE keeps
\* a row of the same tag and commit as it is.
BuildReleaseSnapshot(rows, t, sha) ==
  IF \E row \in rows : row.tag = t /\ row.sha = sha THEN rows
  ELSE rows \cup {[tag |-> t, sha |-> sha, symbols |-> DOMAIN LoadSnapshot, invalidated |-> FALSE]}

\* Variant of HandleTagEvent: a moved tag is taken for a new one.
HandleTagEventAsNew(rows, t, sha) == BuildReleaseSnapshot(rows, t, sha)

\* handle_tag_event for a tag poll_tags found created or moved.
HandleTagEvent(rows, t, sha) ==
  BuildReleaseSnapshot(IF known[t] = Absent THEN rows ELSE InvalidateExistingTag(rows, t, sha), t, sha)

RowsOf(rows, t) == {row \in rows : row.tag = t}

\* One tick of the caller of poll_tags: it handles what changed since the tags it knows
\* and keeps the current ones, unless it is stopped before it can.  Each tag has rows of
\* its own.  All a tick reads of a scan is the sidecar, which a scan leaves alone while it
\* emits.
PollTags ==
  /\ pc # "emit"
  /\ MayCount("polls", MaxPolls)
  /\ \E gitUp \in BOOLEAN, keeps \in BOOLEAN :
       LET current == ListGitTags(gitUp)
           fired   == {t \in Tag : current[t] # Absent /\ current[t] # known[t]}
       IN  /\ anchors' = UNION {IF t \in fired THEN HandleTagEvent(RowsOf(anchors, t), t, current[t])
                                ELSE RowsOf(anchors, t) : t \in Tag}
           /\ known' = IF keeps THEN current ELSE known
           /\ regular' = IF /\ \A t \in Tag : known[t] # Absent => known'[t] # Absent
                            /\ keeps \/ \A t \in fired : known[t] # Absent
                         THEN regular ELSE regular \ {"retagged"}
  /\ count' = [count EXCEPT !.polls = @ + 1]
  /\ UNCHANGED <<gitVars, clock, config, scanVars, storeVars, lost, scanned>>

-----------------------------------------------------------------------------
Next ==
  \/ Edit \/ GitCommit \/ GitAmend \/ GitReset \/ GitExpire \/ GitTag \/ GitUntag
  \/ BeginEmit \/ WriteEvent \/ WriteEdge \/ TruncateSidecar \/ SaveSidecar \/ UpsertScanState \/ CutShort
  \/ Reconcile \/ PruneCmd \/ PollTags

Spec == Init /\ [][Next]_vars

-----------------------------------------------------------------------------
EventsOf(s) == {i \in DOMAIN db.events : db.events[i].sym = s}

RenamesOf(s) == {i \in DOMAIN db.edges : ~db.edges[i].candidate /\ s \in {db.edges[i].old, db.edges[i].new}}

\* What the rows say of a symbol: whether the last of its events and confirmed renames
\* leaves it there.
LogSays(s) ==
  \/ \E i \in RenamesOf(s) : /\ \A j \in RenamesOf(s) : j <= i
                             /\ \A j \in EventsOf(s) : db.events[j].ts < db.edges[i].ts
                             /\ db.edges[i].new = s
  \/ \E i \in EventsOf(s) : /\ \A j \in EventsOf(s) : j <= i
                            /\ \A j \in RenamesOf(s) : db.edges[j].ts <= db.events[i].ts
                            /\ db.events[i].type # "removed"

\* Between scans the event log leads to the snapshot the next scan starts from, but for
\* symbols a scan wrote about and was cut short before its sidecar (scan_bracket.py,
\* scanner.py _emit_timeline_for_scan): confirmed renames replace two events,
\* candidates replace none.
LogExplainsSidecar ==
  pc = "idle" /\ "deleted" \in regular =>
    \A s \in Symbol \ lost : LogSays(s) <=> (sidecar # Absent /\ s \in DOMAIN sidecar)

Names(rows) == {rows[i].sym : i \in DOMAIN rows}

\* diff and removed_since between two scanned commits of a straight history tell every
\* difference of their files, as an entry or as a confirmed rename, and nothing of a
\* symbol that stayed as it was (query.py): net effects, range filter and the hiding of
\* renames together.  A symbol with both events and a confirmed rename in the range is
\* left out: one that is removed and then comes back as the new name of another is
\* told as removed.
DiffIsExact ==
  pc = "idle" /\ {"cut", "dirty", "rewound", "deleted"} \subseteq regular =>
    \A from, to \in scanned : from < to =>
      LET range  == CommitsBetween(repo, from, to)
          d      == Diff(db, repo, from, to, range)
          since  == FindRemovedSince(db, repo, from, CommitsBetween(repo, from, repo.head), TRUE)
          before == repo.commits[from].tree
          after  == repo.commits[to].tree
          Told(effect, side) == Names(d.entries[effect]) \cup Confirmed(d.renamed, side)
          listed == UNION {Names(d.entries[effect]) : effect \in DOMAIN d.entries}
          events == {db.events[i].sym : i \in Within(db.events, DOMAIN db.events, range)}
          mixed  == events \cap (Confirmed(d.renamed, "old") \cup Confirmed(d.renamed, "new"))
      IN  ~d.truncated =>
          /\ \A s \in Symbol \ mixed :
               /\ before[s] = Absent /\ after[s] # Absent => s \in Told("added", "new")
               /\ before[s] # Absent /\ after[s] = Absent => s \in Told("removed", "old")
               /\ Absent \notin {before[s], after[s]} /\ before[s] # after[s] => s \in Told("modified", "old")
          /\ \A s \in listed : \E c \in (from + 1)..to : repo.commits[c].tree[s] # before[s]
          /\ ~since.truncated => Names(d.entries["removed"]) \subseteq Names(since.removed)

\* No event of a commit that HEAD or a tag reaches is marked orphaned, whatever was
\* amended, reset and restored before, as long as the reflog is whole and was read
\* (reconcile.py list_reachable_commits, store.py reconcile_orphaned_events).
LiveNotOrphaned ==
  {"expired", "reflog"} \subseteq regular =>
    \A i \in DOMAIN db.events : db.events[i].orphaned => db.events[i].commit \notin ReachableCommits(FALSE)

\* A tag that was seen has one snapshot that is not invalidated, however often it moves, is
\* deleted or made again, if it is never put on a commit whose snapshot was invalidated and no
\* poll loses its first sighting or forgets it.  A poll forgets the tags it does not see: one
\* deleted before the poll and made elsewhere after it is taken for a new one, and so is
\* every tag after a poll in which git failed; both snapshots then count as valid
\* (snapshot.py handle_tag_event, tag_watcher.py poll_tags).
OneAnchorPerTag ==
  "retagged" \in regular =>
    \A t \in Tag :
      RowsOf(anchors, t) # {} => \E row \in RowsOf(anchors, t) : {r \in RowsOf(anchors, t) : ~r.invalidated} = {row}

\* The section of a context pack stays within its lines but for one hint, whatever the
\* answers it quotes, and its "more" line counts exactly the removed symbols it does not
\* name, those the query left out included (timeline_enrich.py, query.py).
SectionFits ==
  pc = "idle" =>
    \A from \in Commits, kinds \in {{"removed_since"}, {"removed_since", "diff", "symbol_history"}} :
      LET range == CommitsBetween(repo, from, repo.head)
          since == FindRemovedSince(db, repo, from, range, FALSE)
          diff  == Diff(db, repo, from, repo.head, range)
      IN  \A p \in DOMAIN Contains_ :
            LET lines == Enrich(kinds, since, diff, SymbolTimeline(db, [byId |-> FALSE, partial |-> p], FALSE))
            IN  /\ Len(lines) <= Lines - 3 + 1
                /\ \A i \in DOMAIN lines : lines[i].kind = "more" => lines[i].n + (i - 2) = since.total

=============================================================================
