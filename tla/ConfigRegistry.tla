--------------------------- MODULE ConfigRegistry --------------------------
(***************************************************************************)
(* The writers of ~/.lvdcp/config.yaml: the daemon after each scan, the    *)
(* web UI, ctx watch, ctx registry prune and restore, ctx setup.  Each     *)
(* loads the file, changes the copy it loaded, and publishes it with       *)
(* save_config (libs/core/projects_config.py): write config.yaml.tmp,      *)
(* fsync, rename it.  There is no lock, and one temporary path for all.    *)
(***************************************************************************)
CONSTANTS
  Writer,    \* processes that change the registry
  Root, Status, Setting, Pending, Factory, None,  \* as in Registry
  MayCrash,  \* TRUE if a writer can die between two steps
  MayFail,   \* TRUE if writing the temporary file can fail (disk full)
  NoFile,    \* the path does not exist
  Torn       \* the file has been truncated and not filled yet

VARIABLES
  config,    \* config.yaml
  bak,       \* config.yaml.bak
  tmp,       \* config.yaml.tmp
  fd,        \* where the file a writer has open as config.yaml.tmp is linked now
  pc,        \* what each writer does next
  op,        \* the operation it carries out
  bytes,     \* what a prune has read of config.yaml for the backup
  copy       \* the configuration it publishes

vars == <<config, bak, tmp, fd, pc, op, bytes, copy>>

Config == [entry : [Root -> Status \cup {None}], setting : Setting]

Default == [entry |-> [r \in Root |-> None], setting |-> Factory]

\* load_config: a missing file and an empty file both mean the defaults.
Loaded(file) == IF file \in {NoFile, Torn} THEN Default ELSE file

\* The contract; the changes a writer makes to its copy are the contract's.
Contract == INSTANCE Registry WITH registry <- Loaded(config), backup <- Loaded(bak)

ASSUME ConfigRegistryAssumption ==
  /\ Pending \in Status
  /\ Factory \in Setting
  /\ None \notin Status
  /\ {MayCrash, MayFail} \subseteq BOOLEAN
  /\ NoFile # Torn
  /\ {NoFile, Torn} \cap Config = {}

Op ==
  [kind : {"add", "remove"}, root : Root]
    \cup [kind : {"scan"}, root : Root, status : Status]
    \cup [kind : {"settings"}, value : Setting]
    \cup [kind : {"prune"}, stale : SUBSET Root]
    \cup [kind : {"restore", "none"}]

NoOp == [kind |-> "none"]

TypeOK ==
  /\ config \in Config \cup {NoFile, Torn}
  /\ bak \in Config \cup {NoFile, Torn}
  /\ tmp \in Config \cup {NoFile, Torn}
  /\ fd \in [Writer -> {"none", "tmp", "config", "gone"}]
  /\ pc \in [Writer -> {"idle", "load", "backup", "backupWrite", "open", "write", "rename",
                        "cleanup"}]
  /\ op \in [Writer -> Op]
  /\ bytes \in [Writer -> Config \cup {NoFile, Torn}]
  /\ copy \in [Writer -> Config]

Init ==
  /\ config = NoFile
  /\ bak = NoFile
  /\ tmp = NoFile
  /\ fd = [w \in Writer |-> "none"]
  /\ pc = [w \in Writer |-> "idle"]
  /\ op = [w \in Writer |-> NoOp]
  /\ bytes = [w \in Writer |-> NoFile]
  /\ copy = [w \in Writer |-> Default]

Goto(w, phase) == pc' = [pc EXCEPT ![w] = phase]

\* The operation is over, its copy forgotten.
Leave(w) ==
  /\ Goto(w, "idle")
  /\ op' = [op EXCEPT ![w] = NoOp]
  /\ bytes' = [bytes EXCEPT ![w] = NoFile]
  /\ copy' = [copy EXCEPT ![w] = Default]

-----------------------------------------------------------------------------
(* Load, change the copy.                                                  *)

\* prune_stale lists its candidates from a load of its own; restore needs a
\* backup.
Begin(w, o) ==
  /\ pc[w] = "idle"
  /\ o.kind = "prune" => \A r \in o.stale : Loaded(config).entry[r] # None
  /\ o.kind = "restore" => bak # NoFile
  /\ op' = [op EXCEPT ![w] = o]
  /\ Goto(w, "load")
  /\ UNCHANGED <<config, bak, tmp, fd, bytes, copy>>

Changed(o, c) ==
  CASE o.kind = "add"      -> Contract!Added(c, o.root)
    [] o.kind = "remove"   -> Contract!Removed(c, o.root)
    [] o.kind = "scan"     -> Contract!Scanned(c, o.root, o.status)
    [] o.kind = "settings" -> Contract!Configured(c, o.value)
    [] o.kind = "prune"    -> Contract!Pruned(c, o.stale)
    [] o.kind = "restore"  -> Loaded(bak)

\* A duplicate add, a scan of an unregistered project and an empty prune save
\* nothing; the others save even what they did not change.
NothingToSave(o, c) ==
  \/ o.kind \in {"add", "prune"} /\ Changed(o, c) = c
  \/ o.kind = "scan" /\ Changed(o, c).entry[o.root] = None

\* Variant of Load: a prune is published without its backup.
LoadNoBackup(w) ==
  /\ pc[w] = "load"
  /\ LET c == Loaded(config)
     IN IF NothingToSave(op[w], c)
          THEN Leave(w)
          ELSE /\ copy' = [copy EXCEPT ![w] = Changed(op[w], c)]
               /\ Goto(w, "open")
               /\ UNCHANGED <<op, bytes>>
  /\ UNCHANGED <<config, bak, tmp, fd>>

Load(w) ==
  /\ pc[w] = "load"
  /\ LET c == Loaded(config)
     IN IF NothingToSave(op[w], c)
          THEN Leave(w)
          ELSE /\ copy' = [copy EXCEPT ![w] = Changed(op[w], c)]
               /\ Goto(w, IF op[w].kind = "prune" THEN "backup" ELSE "open")
               /\ UNCHANGED <<op, bytes>>
  /\ UNCHANGED <<config, bak, tmp, fd>>

\* write_bytes(read_bytes()): config.yaml is read, then the backup is overwritten
\* in place.
OpenBackup(w) ==
  /\ pc[w] = "backup"
  /\ bytes' = [bytes EXCEPT ![w] = config]
  /\ bak' = Torn
  /\ Goto(w, "backupWrite")
  /\ UNCHANGED <<config, tmp, fd, op, copy>>

\* A failure to write it is not caught.
WriteBackup(w) ==
  /\ pc[w] = "backupWrite"
  /\ \/ /\ bak' = bytes[w]
        /\ Goto(w, "open")
        /\ UNCHANGED <<op, bytes, copy>>
     \/ /\ MayFail
        /\ Leave(w)
        /\ UNCHANGED bak
  /\ UNCHANGED <<config, tmp, fd>>

-----------------------------------------------------------------------------
(* save_config.                                                            *)

\* Variant of OpenTmp: config.yaml itself is opened for writing.
OpenInPlace(w) ==
  /\ pc[w] = "open"
  /\ config' = Torn
  /\ fd' = [fd EXCEPT ![w] = "config"]
  /\ Goto(w, "write")
  /\ UNCHANGED <<tmp, bak, op, bytes, copy>>

\* open("w") truncates the file that is there.
OpenTmp(w) ==
  /\ pc[w] = "open"
  /\ tmp' = Torn
  /\ fd' = [fd EXCEPT ![w] = "tmp"]
  /\ Goto(w, "write")
  /\ UNCHANGED <<config, bak, op, bytes, copy>>

\* The writes go to the open file, wherever it is linked by now.
WriteTmp(w) ==
  /\ pc[w] = "write"
  /\ \/ /\ config' = IF fd[w] = "config" THEN copy[w] ELSE config
        /\ tmp' = IF fd[w] = "tmp" THEN copy[w] ELSE tmp
        /\ Goto(w, "rename")
     \/ /\ MayFail
        /\ Goto(w, "cleanup")
        /\ UNCHANGED <<config, tmp>>
  /\ fd' = [fd EXCEPT ![w] = "none"]
  /\ UNCHANGED <<bak, op, bytes, copy>>

\* Another writer may have renamed config.yaml.tmp away: FileNotFoundError.
RenameTmp(w) ==
  /\ pc[w] = "rename"
  /\ IF tmp = NoFile
       THEN Goto(w, "cleanup") /\ UNCHANGED <<config, tmp, fd, op, bytes, copy>>
       ELSE /\ config' = tmp
            /\ tmp' = NoFile
            /\ fd' = [v \in Writer |-> CASE fd[v] = "tmp" -> "config"
                                         [] fd[v] = "config" -> "gone"
                                         [] OTHER -> fd[v]]
            /\ Leave(w)
  /\ UNCHANGED bak

\* The temporary file is unlinked, whoever wrote it, and the error is raised.
Cleanup(w) ==
  /\ pc[w] = "cleanup"
  /\ tmp' = NoFile
  /\ fd' = [v \in Writer |-> IF fd[v] = "tmp" THEN "gone" ELSE fd[v]]
  /\ Leave(w)
  /\ UNCHANGED <<config, bak>>

Crash(w) ==
  /\ MayCrash
  /\ pc[w] # "idle"
  /\ fd' = [fd EXCEPT ![w] = "none"]
  /\ Leave(w)
  /\ UNCHANGED <<config, bak, tmp>>

-----------------------------------------------------------------------------
Step(w) ==
  \/ \E o \in Op \ {NoOp} : Begin(w, o)
  \/ Load(w) \/ OpenBackup(w) \/ WriteBackup(w)
  \/ OpenTmp(w) \/ WriteTmp(w) \/ RenameTmp(w) \/ Cleanup(w)
  \/ Crash(w)

Next == \E w \in Writer : Step(w)

Spec == Init /\ [][Next]_vars

-----------------------------------------------------------------------------
(* Properties.                                                             *)

\* One writer at a time, dying or failing wherever it is, keeps the contract:
\* every change is one step made to the current registry, and a prune is never
\* published without a backup of the registry it was applied to.
KeepsContract == Contract!Spec

\* The temporary file is never partially visible at the final path.
NeverHalfWritten == config # Torn

=============================================================================
