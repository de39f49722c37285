------------------------ MODULE ConfigRegistryProofs ------------------------
(***************************************************************************)
(* Theorems about ConfigRegistry, for any projects, statuses and settings. *)
(*                                                                         *)
(* TypeCorrect is about any number of writers.  The others are about one   *)
(* writer at a time, which can still die or fail at any of its steps: with *)
(* two, one writer's rename can publish the file the other has just        *)
(* truncated.  Their inductive invariant, Inv, says what the temporary     *)
(* file, the copy and the backup hold in each phase of the writer.         *)
(***************************************************************************)
EXTENDS ConfigRegistry, TLAPS

OneWriter == \A v, w \in Writer : v = w

Kinds == {"add", "remove", "scan", "settings", "prune", "restore"}

Busy == \A w \in Writer : pc[w] # "idle" => op[w].kind \in Kinds

TypeInv == TypeOK /\ Busy

-----------------------------------------------------------------------------
(* Lemmas about the operations and the configurations.                     *)

\* What each kind of operation carries.
LEMMA OpFields ==
  ASSUME NEW o \in Op
  PROVE  /\ o.kind \in Kinds \cup {"none"}
         /\ o.kind \in {"add", "remove", "scan"} => o.root \in Root
         /\ o.kind = "scan" => o.status \in Status
         /\ o.kind = "settings" => o.value \in Setting
         /\ o.kind = "prune" => o.stale \in SUBSET Root
BY DEF Op, Kinds

\* Only the operation that means "none" is none of the six kinds.
LEMMA RealOp ==
  ASSUME NEW o \in Op \ {NoOp}
  PROVE  o.kind \in Kinds
<1>1. o.kind = "none" => o = NoOp
  BY DEF Op, NoOp
<1> QED
  BY <1>1, OpFields

\* A missing or empty file is read as the defaults, which are a configuration.
LEMMA LoadedType ==
  /\ Default \in Config
  /\ \A x \in Config \cup {NoFile, Torn} : Loaded(x) \in Config
  /\ \A x \in Config : Loaded(x) = x
  /\ Loaded(Torn) = Default
BY ConfigRegistryAssumption DEF Loaded, Default, Config

\* Every change makes a configuration of a configuration.
LEMMA ChangedType ==
  ASSUME NEW o \in Op, o.kind \in Kinds, NEW c \in Config,
         bak \in Config \cup {NoFile, Torn}
  PROVE  Changed(o, c) \in Config
<1> USE OpFields, ConfigRegistryAssumption
<1>1. CASE o.kind = "add"
  BY <1>1 DEF Changed, Config, Contract!Added
<1>2. CASE o.kind = "remove"
  BY <1>2 DEF Changed, Config, Contract!Removed
<1>3. CASE o.kind = "scan"
  BY <1>3 DEF Changed, Config, Contract!Scanned
<1>4. CASE o.kind = "settings"
  BY <1>4 DEF Changed, Config, Contract!Configured
<1>5. CASE o.kind = "prune"
  BY <1>5 DEF Changed, Config, Contract!Pruned
<1>6. CASE o.kind = "restore"
  BY <1>6, LoadedType DEF Changed
<1> QED
  BY <1>1, <1>2, <1>3, <1>4, <1>5, <1>6 DEF Kinds

\* Changed, one kind of operation at a time.
LEMMA ChangedByKind ==
  ASSUME NEW o, NEW c
  PROVE  /\ o.kind = "add" => Changed(o, c) = Contract!Added(c, o.root)
         /\ o.kind = "remove" => Changed(o, c) = Contract!Removed(c, o.root)
         /\ o.kind = "scan" => Changed(o, c) = Contract!Scanned(c, o.root, o.status)
         /\ o.kind = "settings" => Changed(o, c) = Contract!Configured(c, o.value)
         /\ o.kind = "prune" => Changed(o, c) = Contract!Pruned(c, o.stale)
         /\ o.kind = "restore" => Changed(o, c) = Loaded(bak)
BY DEF Changed

-----------------------------------------------------------------------------
(* TypeOK, for any number of writers.                                      *)

LEMMA InitTypeInv == Init => TypeInv
<1> SUFFICES ASSUME Init PROVE TypeInv
  OBVIOUS
<1>1. NoOp \in Op
  BY DEF NoOp, Op
<1> QED
  BY <1>1, LoadedType DEF Init, TypeInv, TypeOK, Busy

\* Leaving an operation keeps the types, whatever it was.
LEMMA LeaveTypes ==
  ASSUME TypeInv, NEW w \in Writer, Leave(w)
  PROVE  /\ pc' \in [Writer -> {"idle", "load", "backup", "backupWrite", "open", "write",
                                "rename", "cleanup"}]
         /\ op' \in [Writer -> Op]
         /\ bytes' \in [Writer -> Config \cup {NoFile, Torn}]
         /\ copy' \in [Writer -> Config]
         /\ Busy'
<1>1. NoOp \in Op
  BY DEF NoOp, Op
<1>2. Busy'
  <2> SUFFICES ASSUME NEW v \in Writer, pc'[v] # "idle" PROVE op'[v].kind \in Kinds
    BY DEF Busy
  <2>1. v # w /\ pc'[v] = pc[v] /\ op'[v] = op[v]
    BY DEF Leave, Goto, TypeInv, TypeOK
  <2> QED
    BY <2>1 DEF TypeInv, Busy
<1> QED
  BY <1>1, <1>2, LoadedType DEF Leave, Goto, TypeInv, TypeOK

LEMMA NextTypeInv == TypeInv /\ [Next]_vars => TypeInv'
<1> SUFFICES ASSUME TypeInv, [Next]_vars PROVE TypeInv'
  OBVIOUS
<1>1. ASSUME NEW w \in Writer, NEW o \in Op \ {NoOp}, Begin(w, o) PROVE TypeInv'
  BY <1>1, RealOp DEF Begin, Goto, TypeInv, TypeOK, Busy
<1>2. ASSUME NEW w \in Writer, Load(w) PROVE TypeInv'
  <2>1. CASE NothingToSave(op[w], Loaded(config))
    BY <1>2, <2>1, LeaveTypes DEF Load, TypeInv, TypeOK
  <2>2. CASE ~NothingToSave(op[w], Loaded(config))
    <3>1. Changed(op[w], Loaded(config)) \in Config
      <4>1. op[w] \in Op /\ op[w].kind \in Kinds
        BY <1>2 DEF Load, TypeInv, TypeOK, Busy
      <4>2. Loaded(config) \in Config
        BY LoadedType DEF TypeInv, TypeOK
      <4> QED
        BY <4>1, <4>2, ChangedType DEF TypeInv, TypeOK
    <3> QED
      BY <1>2, <2>2, <3>1 DEF Load, Goto, TypeInv, TypeOK, Busy
  <2> QED
    BY <2>1, <2>2
<1>3. ASSUME NEW w \in Writer, OpenBackup(w) PROVE TypeInv'
  BY <1>3 DEF OpenBackup, Goto, TypeInv, TypeOK, Busy
<1>4. ASSUME NEW w \in Writer, WriteBackup(w) PROVE TypeInv'
  <2>1. CASE Leave(w) /\ UNCHANGED bak
    BY <1>4, <2>1, LeaveTypes DEF WriteBackup, TypeInv, TypeOK
  <2>2. CASE bak' = bytes[w] /\ Goto(w, "open") /\ UNCHANGED <<op, bytes, copy>>
    BY <1>4, <2>2 DEF WriteBackup, Goto, TypeInv, TypeOK, Busy
  <2> QED
    BY <1>4, <2>1, <2>2 DEF WriteBackup
<1>5. ASSUME NEW w \in Writer, OpenTmp(w) PROVE TypeInv'
  BY <1>5 DEF OpenTmp, Goto, TypeInv, TypeOK, Busy
<1>6. ASSUME NEW w \in Writer, WriteTmp(w) PROVE TypeInv'
  BY <1>6 DEF WriteTmp, Goto, TypeInv, TypeOK, Busy
<1>7. ASSUME NEW w \in Writer, RenameTmp(w) PROVE TypeInv'
  <2>1. CASE tmp = NoFile
    BY <1>7, <2>1 DEF RenameTmp, Goto, TypeInv, TypeOK, Busy
  <2>2. CASE tmp # NoFile
    <3>1. fd' \in [Writer -> {"none", "tmp", "config", "gone"}]
      <4>1. fd' = [v \in Writer |-> IF fd[v] = "tmp" THEN "config"
                                    ELSE IF fd[v] = "config" THEN "gone" ELSE fd[v]]
        BY <1>7, <2>2, Zenon DEF RenameTmp
      <4> QED
        BY <4>1 DEF TypeInv, TypeOK
    <3> QED
      BY <1>7, <2>2, <3>1, LeaveTypes DEF RenameTmp, TypeInv, TypeOK
  <2> QED
    BY <2>1, <2>2
<1>8. ASSUME NEW w \in Writer, Cleanup(w) PROVE TypeInv'
  <2>1. fd' \in [Writer -> {"none", "tmp", "config", "gone"}]
    BY <1>8 DEF Cleanup, TypeInv, TypeOK
  <2> QED
    BY <1>8, <2>1, LeaveTypes DEF Cleanup, TypeInv, TypeOK
<1>9. ASSUME NEW w \in Writer, Crash(w) PROVE TypeInv'
  BY <1>9, LeaveTypes DEF Crash, TypeInv, TypeOK
<1>10. CASE UNCHANGED vars
  BY <1>10 DEF vars, TypeInv, TypeOK, Busy
<1> QED
  BY <1>1, <1>2, <1>3, <1>4, <1>5, <1>6, <1>7, <1>8, <1>9, <1>10 DEF Next, Step

\* However many writers there are, the files and the writers' locals keep their
\* types: what a writer publishes is a configuration, or the file it did not fill.
THEOREM TypeCorrect == Spec => []TypeOK
<1>1. TypeInv => TypeOK
  BY DEF TypeInv
<1> QED
  BY <1>1, InitTypeInv, NextTypeInv, PTL DEF Spec

-----------------------------------------------------------------------------
(* One writer at a time.                                                   *)

\* From the load on, the copy is the change applied to the registry as it still is;
\* the temporary file is the writer's alone; a prune that publishes has its backup.
PhaseOK(w) ==
  /\ fd[w] = IF pc[w] = "write" THEN "tmp" ELSE "none"
  /\ pc[w] \in {"backup", "backupWrite"} => op[w].kind = "prune"
  /\ pc[w] = "backupWrite" => bytes[w] = config
  /\ pc[w] \in {"open", "write", "rename"} /\ op[w].kind = "prune" => bak = config
  /\ pc[w] \in {"backup", "backupWrite", "open", "write", "rename"} =>
        copy[w] = Changed(op[w], Loaded(config))
  /\ pc[w] = "rename" => tmp = copy[w]

Inv == NeverHalfWritten /\ \A w \in Writer : PhaseOK(w)

LEMMA InitInv == Init => Inv
BY ConfigRegistryAssumption DEF Init, Inv, NeverHalfWritten, PhaseOK

\* The writer that left holds nothing, so all that is left to show is the file.
LEMMA LeaveInv ==
  ASSUME OneWriter, TypeInv, NEW w \in Writer, Leave(w), fd'[w] = "none", config' # Torn
  PROVE  Inv'
<1>1. pc'[w] = "idle"
  BY DEF Leave, Goto, TypeInv, TypeOK
<1>2. PhaseOK(w)'
  BY <1>1 DEF PhaseOK
<1> QED
  BY <1>2 DEF Inv, NeverHalfWritten, OneWriter

\* What an operation makes of the registry depends on the backup only for a restore.
LEMMA ChangedFrame ==
  ASSUME NEW w \in Writer, config' = config, op'[w] = op[w], bak' = bak \/ op[w].kind = "prune"
  PROVE  Changed(op[w], Loaded(config))' = Changed(op[w], Loaded(config))
<1>1. Loaded(config)' = Loaded(config)
  BY DEF Loaded
<1>2. CASE bak' = bak
  BY <1>1, <1>2 DEF Changed, Loaded, Contract!Added, Contract!Removed, Contract!Scanned,
                    Contract!Configured, Contract!Pruned
<1>3. CASE op[w].kind = "prune"
  BY <1>1, <1>3 DEF Changed, Contract!Pruned
<1> QED
  BY <1>2, <1>3

LEMMA NextInv == OneWriter /\ TypeInv /\ Inv /\ [Next]_vars => Inv'
<1> SUFFICES ASSUME OneWriter, TypeInv, Inv, [Next]_vars PROVE Inv'
  OBVIOUS
<1>0. \A w \in Writer : PhaseOK(w)' => \A v \in Writer : PhaseOK(v)'
  BY DEF OneWriter
<1>1. ASSUME NEW w \in Writer, NEW o \in Op \ {NoOp}, Begin(w, o) PROVE Inv'
  <2>1. pc'[w] = "load" /\ UNCHANGED <<config, fd>>
    BY <1>1 DEF Begin, Goto, TypeInv, TypeOK
  <2>2. fd[w] = "none"
    BY <1>1 DEF Begin, Inv, PhaseOK
  <2>3. PhaseOK(w)'
    BY <2>1, <2>2 DEF PhaseOK
  <2> QED
    BY <1>0, <2>1, <2>3 DEF Inv, NeverHalfWritten
<1>2. ASSUME NEW w \in Writer, Load(w) PROVE Inv'
  <2>1. fd'[w] = "none" /\ UNCHANGED <<config, bak, tmp, fd>>
    BY <1>2 DEF Load, Inv, PhaseOK
  <2>2. CASE NothingToSave(op[w], Loaded(config))
    BY <1>2, <2>1, <2>2, LeaveInv DEF Load, Inv, NeverHalfWritten
  <2>3. CASE ~NothingToSave(op[w], Loaded(config))
    <3>1. /\ copy'[w] = Changed(op[w], Loaded(config))
          /\ op'[w] = op[w]
          /\ pc'[w] = IF op[w].kind = "prune" THEN "backup" ELSE "open"
      BY <1>2, <2>3 DEF Load, Goto, TypeInv, TypeOK
    <3>2. Changed(op[w], Loaded(config))' = Changed(op[w], Loaded(config))
      BY <2>1, <3>1, ChangedFrame
    <3>3. PhaseOK(w)'
      BY <2>1, <3>1, <3>2 DEF PhaseOK
    <3> QED
      BY <1>0, <2>1, <3>3 DEF Inv, NeverHalfWritten
  <2> QED
    BY <2>2, <2>3
<1>3. ASSUME NEW w \in Writer, OpenBackup(w) PROVE Inv'
  <2>1. /\ pc[w] = "backup" /\ pc'[w] = "backupWrite" /\ bytes'[w] = config
        /\ UNCHANGED <<config, tmp, fd, op, copy>>
    BY <1>3 DEF OpenBackup, Goto, TypeInv, TypeOK
  <2>2. op[w].kind = "prune" /\ copy[w] = Changed(op[w], Loaded(config)) /\ fd[w] = "none"
    BY <2>1 DEF Inv, PhaseOK
  <2>3. copy'[w] = Changed(op[w], Loaded(config))'
    BY <2>1, <2>2, ChangedFrame
  <2>4. PhaseOK(w)'
    BY <2>1, <2>2, <2>3 DEF PhaseOK
  <2> QED
    BY <1>0, <2>1, <2>4 DEF Inv, NeverHalfWritten
<1>4. ASSUME NEW w \in Writer, WriteBackup(w) PROVE Inv'
  <2>1. /\ pc[w] = "backupWrite" /\ op[w].kind = "prune" /\ bytes[w] = config /\ fd[w] = "none"
        /\ copy[w] = Changed(op[w], Loaded(config))
        /\ UNCHANGED <<config, tmp, fd>>
    BY <1>4 DEF WriteBackup, Inv, PhaseOK
  <2>2. CASE Leave(w)
    BY <2>1, <2>2, LeaveInv DEF Inv, NeverHalfWritten
  <2>3. CASE bak' = bytes[w] /\ Goto(w, "open") /\ UNCHANGED <<op, bytes, copy>>
    <3>1. pc'[w] = "open" /\ bak' = config'
      BY <2>1, <2>3 DEF Goto, TypeInv, TypeOK
    <3>2. copy'[w] = Changed(op[w], Loaded(config))'
      BY <2>1, <2>3, ChangedFrame
    <3>3. PhaseOK(w)'
      BY <2>1, <2>3, <3>1, <3>2 DEF PhaseOK
    <3> QED
      BY <1>0, <2>1, <3>3 DEF Inv, NeverHalfWritten
  <2> QED
    BY <1>4, <2>2, <2>3 DEF WriteBackup
<1>5. ASSUME NEW w \in Writer, OpenTmp(w) PROVE Inv'
  <2>1. /\ pc[w] = "open" /\ pc'[w] = "write" /\ fd'[w] = "tmp"
        /\ UNCHANGED <<config, bak, op, bytes, copy>>
    BY <1>5 DEF OpenTmp, Goto, TypeInv, TypeOK
  <2>2. Changed(op[w], Loaded(config))' = Changed(op[w], Loaded(config))
    BY <2>1, ChangedFrame
  <2>3. PhaseOK(w)'
    BY <2>1, <2>2 DEF Inv, PhaseOK
  <2> QED
    BY <1>0, <2>1, <2>3 DEF Inv, NeverHalfWritten
<1>6. ASSUME NEW w \in Writer, WriteTmp(w) PROVE Inv'
  <2>1. /\ pc[w] = "write" /\ fd[w] = "tmp" /\ fd'[w] = "none"
        /\ UNCHANGED <<config, bak, op, bytes, copy>>
    BY <1>6 DEF WriteTmp, Inv, PhaseOK, TypeInv, TypeOK
  <2>2. pc'[w] = "cleanup" \/ (pc'[w] = "rename" /\ tmp' = copy[w])
    BY <1>6, <2>1 DEF WriteTmp, Goto, TypeInv, TypeOK
  <2>3. Changed(op[w], Loaded(config))' = Changed(op[w], Loaded(config))
    BY <2>1, ChangedFrame
  <2>4. PhaseOK(w)'
    BY <2>1, <2>2, <2>3 DEF Inv, PhaseOK
  <2> QED
    BY <1>0, <2>1, <2>4 DEF Inv, NeverHalfWritten
<1>7. ASSUME NEW w \in Writer, RenameTmp(w) PROVE Inv'
  <2>1. pc[w] = "rename" /\ tmp = copy[w] /\ copy[w] \in Config /\ fd[w] = "none"
    BY <1>7 DEF RenameTmp, Inv, PhaseOK, TypeInv, TypeOK
  <2>2. tmp \notin {NoFile, Torn}
    BY <2>1, ConfigRegistryAssumption
  <2>3. /\ config' = tmp /\ Leave(w)
        /\ fd' = [v \in Writer |-> CASE fd[v] = "tmp" -> "config"
                                     [] fd[v] = "config" -> "gone"
                                     [] OTHER -> fd[v]]
    BY <1>7, <2>2 DEF RenameTmp
  <2>4. fd'[w] = "none"
    BY <2>1, <2>3
  <2> QED
    BY <2>2, <2>3, <2>4, LeaveInv
<1>8. ASSUME NEW w \in Writer, Cleanup(w) PROVE Inv'
  <2>1. fd[w] = "none" /\ config' = config /\ Leave(w)
    BY <1>8 DEF Cleanup, Inv, PhaseOK
  <2>2. fd'[w] = "none"
    BY <1>8, <2>1 DEF Cleanup
  <2> QED
    BY <2>1, <2>2, LeaveInv DEF Inv, NeverHalfWritten
<1>9. ASSUME NEW w \in Writer, Crash(w) PROVE Inv'
  <2>1. fd'[w] = "none" /\ config' = config /\ Leave(w)
    BY <1>9 DEF Crash, TypeInv, TypeOK
  <2> QED
    BY <2>1, LeaveInv DEF Inv, NeverHalfWritten
<1>10. CASE UNCHANGED vars
  <2>1. \A w \in Writer : Changed(op[w], Loaded(config))' = Changed(op[w], Loaded(config))
    BY <1>10, ChangedFrame DEF vars
  <2> QED
    BY <1>10, <2>1 DEF vars, Inv, NeverHalfWritten, PhaseOK
<1> QED
  BY <1>1, <1>2, <1>3, <1>4, <1>5, <1>6, <1>7, <1>8, <1>9, <1>10 DEF Next, Step

\* One writer at a time never shows a half-written config.yaml at the final path,
\* wherever it dies and whichever of its writes fails.
THEOREM NotHalfWritten ==
  ASSUME OneWriter
  PROVE  Spec => []NeverHalfWritten
<1>1. TypeInv /\ Inv /\ [Next]_vars => Inv'
  BY NextInv
<1>2. Inv => NeverHalfWritten
  BY DEF Inv
<1> QED
  BY <1>1, <1>2, InitInv, InitTypeInv, NextTypeInv, PTL DEF Spec

-----------------------------------------------------------------------------
(* The contract, step by step.                                             *)

\* What a rename publishes is the change its operation stands for, applied to the
\* registry as it is at that moment.
LEMMA Published ==
  ASSUME TypeInv, Inv, NEW w \in Writer, RenameTmp(w)
  PROVE  /\ Loaded(config)' = Changed(op[w], Loaded(config))
         /\ op[w] \in Op /\ op[w].kind \in Kinds
         /\ op[w].kind = "prune" => bak = config
         /\ bak' = bak
<1>1. pc[w] = "rename" /\ tmp = copy[w] /\ copy[w] \in Config
  BY DEF RenameTmp, Inv, PhaseOK, TypeInv, TypeOK
<1>2. tmp # NoFile
  BY <1>1, ConfigRegistryAssumption
<1>3. config' = copy[w] /\ Loaded(config)' = copy[w]
  BY <1>1, <1>2, LoadedType DEF RenameTmp, Loaded
<1>4. copy[w] = Changed(op[w], Loaded(config)) /\ (op[w].kind = "prune" => bak = config)
  BY <1>1 DEF Inv, PhaseOK
<1> QED
  BY <1>1, <1>3, <1>4 DEF RenameTmp, TypeInv, TypeOK, Busy

\* A step that publishes is one change, prune or restore of the contract.
LEMMA PublishIsContract ==
  ASSUME TypeInv, Inv, NEW w \in Writer, RenameTmp(w)
  PROVE  Contract!Next
<1> DEFINE o == op[w]
           c == Loaded(config)
<1>0. /\ Loaded(config)' = Changed(o, c)
      /\ o \in Op /\ o.kind \in Kinds
      /\ o.kind = "prune" => Loaded(bak) = c
      /\ Loaded(bak)' = Loaded(bak)
  BY Published DEF Loaded
<1>1. CASE o.kind = "add"
  <2>1. o.root \in Root /\ Loaded(config)' = Contract!Added(c, o.root)
    BY <1>0, <1>1, OpFields, ChangedByKind
  <2> QED
    BY <1>0, <2>1 DEF Contract!Next, Contract!Change
<1>2. CASE o.kind = "remove"
  <2>1. o.root \in Root /\ Loaded(config)' = Contract!Removed(c, o.root)
    BY <1>0, <1>2, OpFields, ChangedByKind
  <2> QED
    BY <1>0, <2>1 DEF Contract!Next, Contract!Change
<1>3. CASE o.kind = "scan"
  <2>1. /\ o.root \in Root /\ o.status \in Status
        /\ Loaded(config)' = Contract!Scanned(c, o.root, o.status)
    BY <1>0, <1>3, OpFields, ChangedByKind
  <2> QED
    BY <1>0, <2>1 DEF Contract!Next, Contract!Change
<1>4. CASE o.kind = "settings"
  <2>1. o.value \in Setting /\ Loaded(config)' = Contract!Configured(c, o.value)
    BY <1>0, <1>4, OpFields, ChangedByKind
  <2> QED
    BY <1>0, <2>1 DEF Contract!Next, Contract!Change
<1>5. CASE o.kind = "prune"
  <2>1. o.stale \in SUBSET Root /\ Loaded(config)' = Contract!Pruned(c, o.stale)
    BY <1>0, <1>5, OpFields, ChangedByKind
  <2> QED
    BY <1>0, <1>5, <2>1 DEF Contract!Next, Contract!Prune
<1>6. CASE o.kind = "restore"
  <2>1. Loaded(config)' = Loaded(bak)
    BY <1>0, <1>6, ChangedByKind
  <2> QED
    BY <1>0, <2>1 DEF Contract!Next, Contract!Restore
<1> QED
  BY <1>0, <1>1, <1>2, <1>3, <1>4, <1>5, <1>6 DEF Kinds

\* Every other step leaves both files as they read, or takes the backup.
LEMMA StepIsContract ==
  TypeInv /\ Inv /\ [Next]_vars => [Contract!Next]_<<Loaded(config), Loaded(bak)>>
<1> SUFFICES ASSUME TypeInv, Inv, [Next]_vars
             PROVE  \/ Contract!Next
                    \/ UNCHANGED <<Loaded(config), Loaded(bak)>>
  OBVIOUS
<1>1. ASSUME UNCHANGED <<config, bak>> PROVE UNCHANGED <<Loaded(config), Loaded(bak)>>
  BY <1>1 DEF Loaded
<1>2. ASSUME NEW w \in Writer, OpenBackup(w) PROVE Contract!Next
  <2>1. bak' = Torn /\ config' = config
    BY <1>2 DEF OpenBackup
  <2>2. Loaded(bak)' = Default /\ Loaded(config)' = Loaded(config)
    BY <2>1 DEF Loaded
  <2> QED
    BY <2>2 DEF Contract!Next, Contract!Snapshot, Contract!Default, Default
<1>3. ASSUME NEW w \in Writer, WriteBackup(w), bak' = bytes[w] PROVE Contract!Next
  <2>1. bak' = config /\ config' = config
    BY <1>3 DEF WriteBackup, Inv, PhaseOK
  <2>2. Loaded(bak)' = Loaded(config) /\ Loaded(config)' = Loaded(config)
    BY <2>1 DEF Loaded
  <2> QED
    BY <2>2 DEF Contract!Next, Contract!Snapshot
<1>4. ASSUME NEW w \in Writer, WriteTmp(w) PROVE UNCHANGED <<config, bak>>
  <2>1. pc[w] = "write" /\ fd[w] = "tmp"
    BY <1>4 DEF WriteTmp, Inv, PhaseOK
  <2> QED
    BY <1>4, <2>1 DEF WriteTmp
<1> QED
  BY <1>1, <1>2, <1>3, <1>4, PublishIsContract
     DEF Next, Step, vars, Begin, Load, WriteBackup, OpenTmp, Cleanup, Crash

\* With one writer at a time ~/.lvdcp/config.yaml implements the registry: each change
\* is one step made to the registry as it is, and no prune is published before the
\* backup holds what it was applied to, wherever the writer dies or fails.
THEOREM Refinement ==
  ASSUME OneWriter
  PROVE  Spec => KeepsContract
<1>1. Init => Contract!Init
  BY DEF Init, Contract!Init, Contract!Default, Loaded, Default
<1>2. TypeInv /\ Inv /\ [Next]_vars => Inv'
  BY NextInv
<1> QED
  BY <1>1, <1>2, StepIsContract, InitInv, InitTypeInv, NextTypeInv, PTL
     DEF Spec, KeepsContract, Contract!Spec

=============================================================================
