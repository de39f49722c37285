---------------------------- MODULE WatchDaemon ----------------------------
(***************************************************************************)
(* The auto-indexing daemon of one project (apps/agent/daemon.py,          *)
(* apps/agent/handler.py) on top of its index (ScanIndex): file system     *)
(* events reach a debounce buffer on the thread of the watcher, and the    *)
(* main loop flushes the buffer, deletes the files reported deleted, and   *)
(* scans the files reported created or modified.                           *)
(*                                                                         *)
(* The watcher (the watchdog library) is external: it delivers one event   *)
(* for each change of a file, in order, on a thread of its own.            *)
(***************************************************************************)
EXTENDS ScanIndex, Sequences, Naturals

CONSTANTS
  Daemon,      \* the scanner that is the daemon
  Watched,     \* paths that match PATTERNS
  MaxChanges,  \* bound: changes of the disk in a behaviour
  MayMove,     \* TRUE if files are renamed
  MayStop,     \* TRUE if the daemon is stopped and started again
  MayCorrupt   \* TRUE if quick_check can start to fail

ASSUME DaemonAssumption ==
  /\ Scanner = {Daemon}
  /\ Watched \subseteq File
  /\ MaxChanges \in Nat
  /\ {MayMove, MayStop, MayCorrupt} \subseteq BOOLEAN

VARIABLES
  events,      \* events the watcher has not handed to on_any_event yet
  modified,    \* DebounceBuffer._modified
  deleted,     \* DebounceBuffer._deleted
  batch,       \* what flush_all returned, while it is processed
  loop,        \* where the main loop is
  quarantined, \* the project is in _QUARANTINED
  corrupt,     \* quick_check of cache.db fails
  changes,     \* changes of the disk so far
  forgotten    \* history: paths with a change the daemon has dropped or never saw,
               \* and no event since

indexVars == vars
buffer == <<modified, deleted>>
rest == <<quarantined, corrupt, changes>>
daemonVars == <<vars, events, buffer, batch, loop, rest, forgotten>>

Event == [type : {"created", "modified", "deleted", "moved"}, path : Watched]

EmptyBatch == [modified |-> {}, deleted |-> {}]

DaemonTypeOK ==
  /\ TypeOK
  /\ events \in Seq(Event)
  /\ modified \subseteq Watched
  /\ deleted \subseteq Watched
  /\ modified \cap deleted = {}
  /\ batch \in [modified : SUBSET Watched, deleted : SUBSET Watched]
  /\ loop \in {"sleep", "delete", "deleting", "scan", "scanning", "stopped"}
  /\ {quarantined, corrupt} \subseteq BOOLEAN
  /\ changes \in 0..MaxChanges
  /\ forgotten \subseteq Watched

\* The batch still has work to do for f.
InBatch(f) ==
  \/ f \in batch.modified /\ loop \in {"delete", "deleting", "scan"}
  \/ f \in batch.deleted /\ loop = "delete"
  \/ loop \in {"deleting", "scanning"} /\ f \in todo[Daemon]
  \/ cur[Daemon] = f

\* Work for f is still on its way to the index.
Pending(f) ==
  \/ \E i \in DOMAIN events : events[i].path = f
  \/ f \in modified \cup deleted
  \/ InBatch(f)

Forget(F) == forgotten' = forgotten \cup (F \cap Watched)

-----------------------------------------------------------------------------
\* The daemon starts on a project that `ctx scan` has just indexed.
ScannedRows ==
  {rows \in [Name -> SymbolRow \cup {NoRow}] :
     \A n \in Name :
        IF rows[n] = NoRow
          THEN \A f \in Indexed : n \notin Defines[f][files[f]]
          ELSE /\ rows[n].file \in Indexed
               /\ rows[n].content = files[rows[n].file]
               /\ n \in Defines[rows[n].file][rows[n].content]}

DaemonInit ==
  /\ disk \in [File -> Stored]
  /\ files = [f \in File |-> Want(f, disk[f])]
  /\ symbols \in ScannedRows
  /\ relations = files
  /\ specifies = DocLinks
  /\ git_stats = {f \in Tracked : disk[f] # Absent}
  /\ fts_files = [f \in File |-> FtsEntry(files[f])]
  /\ pc = [s \in Scanner |-> "idle"]
  /\ mode = [s \in Scanner |-> "incremental"]
  /\ whole = [s \in Scanner |-> FALSE]
  /\ todo = [s \in Scanner |-> {}]
  /\ existing = [s \in Scanner |-> {}]
  /\ visited = [s \in Scanner |-> {}]
  /\ links = [s \in Scanner |-> {}]
  /\ cur = [s \in Scanner |-> Absent]
  /\ data = [s \in Scanner |-> Absent]
  /\ touched = [s \in Scanner |-> {}]
  /\ cut = {}
  /\ events = <<>>
  /\ modified = {}
  /\ deleted = {}
  /\ batch = EmptyBatch
  /\ loop = "sleep"
  /\ quarantined = FALSE
  /\ corrupt = FALSE
  /\ changes = 0
  /\ forgotten = {}

-----------------------------------------------------------------------------
(* The disk and the watcher.                                               *)

\* The watcher of a daemon that is not running sees nothing.
Notify(type, f) ==
  IF loop = "stopped" \/ f \notin Watched
    THEN UNCHANGED events
    ELSE events' = Append(events, [type |-> type, path |-> f])

Change(f, c) ==
  /\ changes < MaxChanges
  /\ changes' = changes + 1
  /\ EditFile(f, c)
  /\ Notify(CASE c = Absent -> "deleted"
              [] c # Absent /\ disk[f] = Absent -> "created"
              [] OTHER -> "modified", f)
  /\ IF loop = "stopped" THEN Forget({f}) ELSE forgotten' = forgotten \ {f}
  /\ UNCHANGED <<buffer, batch, loop, quarantined, corrupt>>

\* One event for a rename; on_any_event looks at its src_path only.
Move(f, g) ==
  /\ MayMove
  /\ changes < MaxChanges
  /\ changes' = changes + 1
  /\ f # g /\ disk[f] # Absent
  /\ disk' = [disk EXCEPT ![f] = Absent, ![g] = disk[f]]
  /\ touched' = [s \in Scanner |->
                   IF pc[s] = "idle" THEN {} ELSE touched[s] \cup {f, g}]
  /\ Notify("moved", f)
  /\ Forget({f, g})
  /\ UNCHANGED <<stores, scan, cut, buffer, batch, loop, quarantined, corrupt>>

\* Variant of BufferAdd: a deletion wins over the creation that follows it.
BufferAddDeletion(type, f) ==
  IF type = "deleted" \/ f \in deleted
    THEN deleted' = deleted \cup {f} /\ modified' = modified \ {f}
    ELSE modified' = modified \cup {f} /\ UNCHANGED deleted

\* DebounceBuffer.add: the last event decides in which of the sets a path is.
BufferAdd(type, f) ==
  IF type = "deleted"
    THEN deleted' = deleted \cup {f} /\ modified' = modified \ {f}
    ELSE modified' = modified \cup {f} /\ deleted' = deleted \ {f}

OnAnyEvent ==
  /\ events # <<>>
  /\ BufferAdd(Head(events).type, Head(events).path)
  /\ events' = Tail(events)
  /\ UNCHANGED <<indexVars, batch, loop, rest, forgotten>>

-----------------------------------------------------------------------------
(* process_pending_events.                                                 *)

\* Variant of FlushAll: the quarantine is not looked up.
FlushAllAnyway ==
  /\ loop = "sleep"
  /\ modified \cup deleted # {}
  /\ modified' = {} /\ deleted' = {}
  /\ batch' = [modified |-> modified, deleted |-> deleted]
  /\ loop' = IF deleted = {} THEN "scan" ELSE "delete"
  /\ UNCHANGED <<indexVars, events, rest, forgotten>>

\* A quarantined project is skipped: its events are gone.
FlushAll ==
  /\ loop = "sleep"
  /\ modified \cup deleted # {}
  /\ modified' = {} /\ deleted' = {}
  /\ IF quarantined
       THEN Forget(modified \cup deleted) /\ UNCHANGED <<batch, loop>>
       ELSE /\ batch' = [modified |-> modified, deleted |-> deleted]
            /\ loop' = IF deleted = {} THEN "scan" ELSE "delete"
            /\ UNCHANGED forgotten
  /\ UNCHANGED <<indexVars, events, rest>>

\* The batch is over, whether it was processed or an exception ended it.
EndBatch ==
  /\ loop' = "sleep"
  /\ batch' = EmptyBatch

\* CacheCorruptError, from ProjectIndex.open or from scan_project.
Quarantine ==
  /\ loop \in {"delete", "scan"}
  /\ corrupt
  /\ quarantined' = TRUE
  /\ Forget({f \in Watched : InBatch(f)})
  /\ EndBatch
  /\ UNCHANGED <<indexVars, events, buffer, corrupt, changes>>

DeleteFiles ==
  /\ loop = "delete"
  /\ ~corrupt
  /\ BeginRemove(Daemon, batch.deleted)
  /\ loop' = "deleting"
  /\ UNCHANGED <<events, buffer, batch, rest, forgotten>>

\* Variant of FilesDeleted: the batch ends with its deletions.
FilesDeletedOnly ==
  /\ loop = "deleting"
  /\ Finish(Daemon)
  /\ EndBatch
  /\ UNCHANGED <<events, buffer, rest, forgotten>>

FilesDeleted ==
  /\ loop = "deleting"
  /\ Finish(Daemon)
  /\ IF batch.modified = {}
       THEN EndBatch
       ELSE loop' = "scan" /\ UNCHANGED batch
  /\ UNCHANGED <<events, buffer, rest, forgotten>>

ScanModified ==
  /\ loop = "scan"
  /\ ~corrupt
  /\ BeginPartial(Daemon, batch.modified)
  /\ loop' = "scanning"
  /\ UNCHANGED <<events, buffer, batch, rest, forgotten>>

ModifiedScanned ==
  /\ loop = "scanning"
  /\ Finish(Daemon)
  /\ EndBatch
  /\ UNCHANGED <<events, buffer, rest, forgotten>>

\* Files the walk has just passed over although they are there.
Skipped == {f \in todo[Daemon] : f \notin todo'[Daemon] \cup visited'[Daemon] /\ disk[f] # Absent}

IndexStep ==
  /\ Work(Daemon)
  /\ IF pc[Daemon] = "walk" THEN Forget(Skipped) ELSE UNCHANGED forgotten
  /\ UNCHANGED <<events, buffer, batch, loop, rest>>

\* Any other exception: logged, and the batch is dropped.
BatchFails ==
  /\ loop \in {"deleting", "scanning"}
  /\ Fail(Daemon)
  /\ Forget({f \in Watched : InBatch(f)})
  /\ EndBatch
  /\ UNCHANGED <<events, buffer, rest>>

\* Everything the process keeps in memory is gone.
Halt ==
  /\ MayStop
  /\ loop' = "stopped"
  /\ events' = <<>>
  /\ modified' = {} /\ deleted' = {}
  /\ batch' = EmptyBatch
  /\ quarantined' = FALSE
  /\ Forget({f \in Watched : Pending(f)})
  /\ UNCHANGED <<corrupt, changes>>

\* SIGTERM ends the loop after the batch; what is in the buffer is not flushed.
Stop ==
  /\ loop = "sleep"
  /\ Halt
  /\ UNCHANGED indexVars

\* SIGKILL, or the machine goes down, in the middle of a batch.
Kill ==
  /\ loop \notin {"sleep", "stopped"}
  /\ Halt
  /\ IF pc[Daemon] = "idle" THEN UNCHANGED indexVars ELSE CutShort(Daemon)

Start ==
  /\ loop = "stopped"
  /\ loop' = "sleep"
  /\ UNCHANGED <<indexVars, events, buffer, batch, rest, forgotten>>

CacheGoesBad ==
  /\ MayCorrupt
  /\ ~corrupt
  /\ pc[Daemon] = "idle"
  /\ corrupt' = TRUE
  /\ UNCHANGED <<indexVars, events, buffer, batch, loop, quarantined, changes, forgotten>>

\* The user deletes .context/, which ends the corruption; the daemon still has the
\* project in _QUARANTINED.
DeleteContext ==
  /\ corrupt
  /\ pc[Daemon] = "idle"
  /\ corrupt' = FALSE
  /\ files' = [f \in File |-> Absent]
  /\ symbols' = [n \in Name |-> NoRow]
  /\ relations' = [f \in File |-> Absent]
  /\ specifies' = {}
  /\ git_stats' = {}
  /\ fts_files' = [f \in File |-> Absent]
  /\ Forget({f \in File : disk[f] # Absent})
  /\ UNCHANGED <<disk, scan, history, events, buffer, batch, loop, quarantined, changes>>

-----------------------------------------------------------------------------
MainLoop ==
  \/ FlushAll \/ Quarantine
  \/ DeleteFiles \/ FilesDeleted \/ ScanModified \/ ModifiedScanned
  \/ IndexStep \/ BatchFails

DaemonNext ==
  \/ \E f \in File, c \in Stored : Change(f, c)
  \/ \E f \in File, g \in File : Move(f, g)
  \/ OnAnyEvent
  \/ MainLoop
  \/ Stop \/ Kill \/ Start \/ CacheGoesBad \/ DeleteContext

DaemonSpec == DaemonInit /\ [][DaemonNext]_daemonVars

\* The watcher's thread delivers, and the main loop wakes up every two seconds.
FairDaemonSpec == DaemonSpec /\ WF_daemonVars(OnAnyEvent) /\ WF_daemonVars(MainLoop)

-----------------------------------------------------------------------------
(* Properties.                                                             *)

Fresh(f) == files[f] = Want(f, disk[f])

\* No change is lost between the watcher and the index, except where the daemon
\* drops it: a watched file whose row is out of date is in an event, in the buffer,
\* in the batch, being indexed, or one of those.
StaleIsPending == \A f \in Watched : Fresh(f) \/ Pending(f) \/ f \in forgotten

\* When the project comes to rest its index does: each watched file whose last
\* change was not dropped has its row at the state of the disk, and the other
\* stores agree with the row unless its rewriting was cut short.
Converges ==
  <>[](\A f \in Watched \ forgotten : Fresh(f) /\ (Coherent(f) \/ f \in cut))

\* While the project is quarantined the daemon does not touch its index, not even
\* one the user has deleted and that would work again.
QuarantineFreezes == [][quarantined /\ MainLoop => UNCHANGED stores]_daemonVars

=============================================================================
