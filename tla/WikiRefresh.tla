---------------------------- MODULE WikiRefresh ----------------------------
(***************************************************************************)
(* The background wiki refresh of one project and its only means of        *)
(* communication, the file .context/wiki/.refresh.lock                     *)
(* (libs/copilot/wiki_background.py, libs/copilot/_wiki_bg_runner.py).     *)
(*                                                                         *)
(* A command (ctx project refresh --wiki-background, ctx project wiki      *)
(* --stop) reads the lock, starts a runner or signals it, and writes the   *)
(* lock too.  The runner writes the lock when it starts and at every       *)
(* module, and unlinks it when it ends.                                    *)
(*                                                                         *)
(* Of the JSON payload only the pid matters.  started_at is written and    *)
(* lost together with the pid, so a payload without a pid has no age.      *)
(***************************************************************************)
EXTENDS FiniteSets, Naturals

CONSTANTS
  Command,     \* command-line invocations
  Runner,      \* runner processes, each started at most once
  Conditions, \* kinds of run to consider, [serial, torn : BOOLEAN]: whether a
               \* command starts only when no other one is running, and whether
               \* truncating a file and filling it are two steps
  MayKill,     \* TRUE if a runner can die without unwinding
  MayExpire,   \* TRUE if a runner can work for longer than an hour
  NoFile,      \* the path does not exist
  Torn,        \* the file is empty: json.loads fails
  NoPid        \* a payload without "pid"

Process == Command \cup Runner

Payload == Runner \cup {NoPid}

ASSUME WikiRefreshAssumption ==
  /\ Command \cap Runner = {}
  /\ Conditions \subseteq [serial : BOOLEAN, torn : BOOLEAN]
  /\ {MayKill, MayExpire} \subseteq BOOLEAN
  /\ Cardinality({NoFile, Torn, NoPid}) = 3
  /\ {NoFile, Torn, NoPid} \cap Process = {}

VARIABLES
  conditions, \* the kind of this run; it never changes
  lock,       \* .refresh.lock
  tmp,        \* .refresh.lock.tmp, one path for every writer
  fd,         \* where the file a process holds open for writing is linked now
  buf,        \* the payload a process is about to write
  pc,         \* what a process does next
  child,      \* the runner a command started, or is about to signal
  expired,    \* runners started more than an hour ago
  ended       \* how a runner ended

refreshVars == <<conditions, lock, tmp, fd, buf, pc, child, expired, ended>>

CommandPhase == {"idle", "unlink", "spawn", "signal", "drop"}
RunnerPhase  == {"unborn", "boot", "init", "unguarded", "work", "last", "clear", "dead"}
WritePhase   == {"open", "write", "rename"}

LockTypeOK ==
  /\ conditions \in Conditions
  /\ lock \in Payload \cup {NoFile, Torn}
  /\ tmp \in Payload \cup {NoFile, Torn}
  /\ fd \in [Process -> {"none", "lock", "tmp", "gone"}]
  /\ buf \in [Process -> Payload]
  /\ pc \in [Process -> CommandPhase \cup RunnerPhase \cup WritePhase]
  /\ \A c \in Command : pc[c] \in CommandPhase \cup WritePhase
  /\ \A r \in Runner : pc[r] \in RunnerPhase \cup WritePhase
  /\ child \in [Command -> Payload]
  /\ expired \subseteq Runner
  /\ ended \in [Runner -> {"no", "clean", "crash", "term", "killed"}]

RefreshInit ==
  /\ conditions \in Conditions
  /\ lock = NoFile
  /\ tmp = NoFile
  /\ fd = [p \in Process |-> "none"]
  /\ buf = [p \in Process |-> NoPid]
  /\ pc = [p \in Process |-> IF p \in Command THEN "idle" ELSE "unborn"]
  /\ child = [c \in Command |-> NoPid]
  /\ expired = {}
  /\ ended = [r \in Runner |-> "no"]

Alive(r) == pc[r] \notin {"unborn", "dead"}

-----------------------------------------------------------------------------
(* read_status.                                                            *)

Readable == lock \notin {NoFile, Torn}

\* Variant of StalePayload: only the age counts, a dead pid is not noticed.
StalePayloadByAge(p) == p \in expired

\* A payload is stale if its pid is dead or its started_at is an hour old.
StalePayload(p) == p \in Runner /\ (~Alive(p) \/ p \in expired)

Stale == lock = Torn \/ (Readable /\ StalePayload(lock))

InProgress == Readable /\ ~Stale

-----------------------------------------------------------------------------
(* The file system.                                                        *)

Goto(p, phase) == pc' = [pc EXCEPT ![p] = phase]

\* Whoever has the lock open keeps writing to a file that has no name any more.
UnlinkLock ==
  /\ lock' = NoFile
  /\ fd' = [p \in Process |-> IF fd[p] = "lock" THEN "gone" ELSE fd[p]]
  /\ UNCHANGED tmp

\* rename(tmp, lock): a file open as tmp is from now on open as the lock.
RenameFiles(p) ==
  /\ lock' = tmp
  /\ tmp' = NoFile
  /\ fd' = [q \in Process |->
              CASE q = p \/ fd[q] = "none" -> "none"
                [] q # p /\ fd[q] = "tmp" -> "lock"
                [] OTHER -> "gone"]

\* write(2) goes to the open file, wherever it is linked.
WriteThrough(p) ==
  /\ lock' = IF fd[p] = "lock" THEN buf[p] ELSE lock
  /\ tmp' = IF fd[p] = "tmp" THEN buf[p] ELSE tmp

-----------------------------------------------------------------------------
(* _atomic_write_lock, for commands and runners alike.                     *)

OpenTmp(p) ==
  /\ pc[p] = "open"
  /\ IF conditions.torn
       THEN /\ tmp' = Torn
            /\ fd' = [fd EXCEPT ![p] = "tmp"]
            /\ Goto(p, "write")
       ELSE /\ tmp' = buf[p]
            /\ Goto(p, "rename")
            /\ UNCHANGED fd
  /\ UNCHANGED <<conditions, lock, buf, child, expired, ended>>

WriteTmp(p) ==
  /\ pc[p] = "write"
  /\ WriteThrough(p)
  /\ fd' = [fd EXCEPT ![p] = "none"]
  /\ Goto(p, "rename")
  /\ UNCHANGED <<conditions, buf, child, expired, ended>>

AfterWrite(p) == IF p \in Command THEN "idle" ELSE "work"

\* Path.replace raises FileNotFoundError if another writer renamed the file
\* first.  It unwinds a command, and sends a runner into its finally block.
RenameTmp(p) ==
  /\ pc[p] = "rename"
  /\ IF tmp # NoFile
       THEN /\ RenameFiles(p)
            /\ Goto(p, AfterWrite(p))
            /\ UNCHANGED ended
       ELSE /\ Goto(p, IF p \in Command THEN "idle" ELSE "last")
            /\ ended' = IF p \in Command THEN ended ELSE [ended EXCEPT ![p] = "crash"]
            /\ UNCHANGED <<lock, tmp, fd>>
  /\ UNCHANGED <<conditions, buf, child, expired>>

-----------------------------------------------------------------------------
(* start_background_refresh.                                               *)

MayBegin(c) == pc[c] = "idle" /\ (conditions.serial => \A d \in Command : pc[d] = "idle")

\* A refresh in progress is returned as it is; otherwise a stale lock has to go.
StartRead(c) ==
  /\ MayBegin(c)
  /\ ~InProgress
  /\ Goto(c, IF Stale THEN "unlink" ELSE "spawn")
  /\ UNCHANGED <<conditions, lock, tmp, fd, buf, child, expired, ended>>

StartUnlink(c) ==
  /\ pc[c] = "unlink"
  /\ UnlinkLock
  /\ Goto(c, "spawn")
  /\ UNCHANGED <<conditions, buf, child, expired, ended>>

\* Variant of Spawn: the runner alone writes the lock.
SpawnNoLock(c, r) ==
  /\ pc[c] = "spawn"
  /\ pc[r] = "unborn"
  /\ pc' = [pc EXCEPT ![c] = "idle", ![r] = "boot"]
  /\ UNCHANGED <<conditions, lock, tmp, fd, buf, child, expired, ended>>

\* Popen, then the eager write of the lock in the runner's name.
Spawn(c, r) ==
  /\ pc[c] = "spawn"
  /\ pc[r] = "unborn"
  /\ pc' = [pc EXCEPT ![c] = "open", ![r] = "boot"]
  /\ buf' = [buf EXCEPT ![c] = r]
  /\ UNCHANGED <<conditions, lock, tmp, fd, child, expired, ended>>

-----------------------------------------------------------------------------
(* cancel_background_refresh.                                              *)

CancelRead(c) ==
  /\ MayBegin(c)
  /\ \/ /\ InProgress /\ lock # NoPid
        /\ Goto(c, "signal")
        /\ child' = [child EXCEPT ![c] = lock]
     \/ /\ Stale
        /\ Goto(c, "drop")
        /\ UNCHANGED child
  /\ UNCHANGED <<conditions, lock, tmp, fd, buf, expired, ended>>

\* The runner turns SIGTERM into SystemExit, once the handler is installed and
\* the try block is entered; a SystemExit raised inside the finally block leaves
\* that block.
AfterSigterm(r) ==
  IF pc[r] \in {"work"} \cup WritePhase THEN "last" ELSE "dead"

CancelSignal(c) ==
  /\ pc[c] = "signal"
  /\ IF Alive(child[c])
       THEN /\ pc' = [pc EXCEPT ![c] = "idle", ![child[c]] = AfterSigterm(child[c])]
            /\ fd' = [fd EXCEPT ![child[c]] = "none"]
            /\ ended' = [ended EXCEPT ![child[c]] = "term"]
       ELSE /\ Goto(c, "drop")
            /\ UNCHANGED <<fd, ended>>
  /\ child' = [child EXCEPT ![c] = NoPid]
  /\ UNCHANGED <<conditions, lock, tmp, buf, expired>>

CancelDrop(c) ==
  /\ pc[c] = "drop"
  /\ UnlinkLock
  /\ Goto(c, "idle")
  /\ UNCHANGED <<conditions, buf, child, expired, ended>>

-----------------------------------------------------------------------------
(* The runner.                                                             *)

\* _write_initial_lock opens the lock itself, not a temporary file.
InitOpen(r) ==
  /\ pc[r] = "boot"
  /\ IF conditions.torn
       THEN /\ lock' = Torn
            /\ fd' = [fd EXCEPT ![r] = "lock"]
            /\ Goto(r, "init")
       ELSE /\ lock' = r
            /\ Goto(r, "unguarded")
            /\ UNCHANGED fd
  /\ buf' = [buf EXCEPT ![r] = r]
  /\ UNCHANGED <<conditions, tmp, child, expired, ended>>

InitWrite(r) ==
  /\ pc[r] = "init"
  /\ WriteThrough(r)
  /\ fd' = [fd EXCEPT ![r] = "none"]
  /\ Goto(r, "unguarded")
  /\ UNCHANGED <<conditions, buf, child, expired, ended>>

\* The SIGTERM handler is installed and the try block entered.
EnterTry(r) ==
  /\ pc[r] = "unguarded"
  /\ Goto(r, "work")
  /\ UNCHANGED <<conditions, lock, tmp, fd, buf, child, expired, ended>>

\* Variant of ReadForProgress: the old lock is removed, then a new one written.
ReadAndUnlink(r) ==
  /\ pc[r] = "work"
  /\ buf' = [buf EXCEPT ![r] = IF Readable THEN lock ELSE NoPid]
  /\ UnlinkLock
  /\ Goto(r, "open")
  /\ UNCHANGED <<conditions, child, expired, ended>>

\* write_progress reads the lock and merges into what it finds, if anything.
ReadForProgress(r) ==
  /\ pc[r] = "work"
  /\ buf' = [buf EXCEPT ![r] = IF Readable THEN lock ELSE NoPid]
  /\ Goto(r, "open")
  /\ UNCHANGED <<conditions, lock, tmp, fd, child, expired, ended>>

\* The wiki update returned or raised.
LeaveTry(r) ==
  /\ pc[r] = "work"
  /\ \E e \in {"clean", "crash"} : ended' = [ended EXCEPT ![r] = e]
  /\ Goto(r, "last")
  /\ UNCHANGED <<conditions, lock, tmp, fd, buf, child, expired>>

\* The finally block: the record of the last run, then the lock.
WriteLast(r) ==
  /\ pc[r] = "last"
  /\ Goto(r, "clear")
  /\ UNCHANGED <<conditions, lock, tmp, fd, buf, child, expired, ended>>

ClearLock(r) ==
  /\ pc[r] = "clear"
  /\ UnlinkLock
  /\ Goto(r, "dead")
  /\ UNCHANGED <<conditions, buf, child, expired, ended>>

Kill(r) ==
  /\ MayKill
  /\ Alive(r)
  /\ Goto(r, "dead")
  /\ fd' = [fd EXCEPT ![r] = "none"]
  /\ ended' = [ended EXCEPT ![r] = "killed"]
  /\ UNCHANGED <<conditions, lock, tmp, buf, child, expired>>

Expire(r) ==
  /\ MayExpire
  /\ Alive(r)
  /\ r \notin expired
  /\ expired' = expired \cup {r}
  /\ UNCHANGED <<conditions, lock, tmp, fd, buf, pc, child, ended>>

-----------------------------------------------------------------------------
WriteStep(p) == OpenTmp(p) \/ WriteTmp(p) \/ RenameTmp(p)

CommandStep(c) ==
  \/ StartRead(c) \/ StartUnlink(c) \/ (\E r \in Runner : Spawn(c, r))
  \/ CancelRead(c) \/ CancelSignal(c) \/ CancelDrop(c)
  \/ WriteStep(c)

RunnerStep(r) ==
  \/ InitOpen(r) \/ InitWrite(r) \/ EnterTry(r) \/ ReadForProgress(r)
  \/ LeaveTry(r) \/ WriteLast(r) \/ ClearLock(r)
  \/ WriteStep(r)

RefreshNext ==
  \/ \E c \in Command : CommandStep(c)
  \/ \E r \in Runner : RunnerStep(r) \/ Kill(r) \/ Expire(r)

RefreshSpec == RefreshInit /\ [][RefreshNext]_refreshVars

-----------------------------------------------------------------------------
(* Properties.                                                             *)

\* Two runners are never alive together; commands that overlap break this.
AtMostOneRunner == Cardinality({r \in Runner : Alive(r)}) <= 1

Commanding == \E c \in Command : pc[c] # "idle"

\* Nothing disturbs the protocol: commands come one after the other, files are
\* written in one step, and no runner has worked for more than an hour.
Calm == conditions.serial /\ ~conditions.torn /\ expired = {}

\* Undisturbed, a refresh in progress keeps every other command from starting one.
OneRunnerWhenCalm == Calm => AtMostOneRunner

\* Undisturbed, a runner that dies cannot wedge the project: once no runner is alive
\* and no command is running, the status is not "in progress".
NoWedge == Calm /\ ~Commanding /\ (\A r \in Runner : ~Alive(r)) => ~InProgress

\* Undisturbed, while a runner works and no command is running the status says so.
WorkIsVisible ==
  \A r \in Runner :
     Calm /\ ~Commanding /\ pc[r] \in {"work"} \cup WritePhase => InProgress

=============================================================================
