----------------------------- MODULE Registry ------------------------------
(***************************************************************************)
(* What the registry of projects, ~/.lvdcp/config.yaml, promises to the    *)
(* commands that change it: each change is one step, made to the registry  *)
(* as it is at that moment, and a prune can be undone because the backup   *)
(* is the registry it was applied to.                                      *)
(***************************************************************************)
CONSTANTS
  Root,      \* project roots
  Status,    \* values of last_scan_status of a registered project
  Setting,   \* values of the other sections of the file
  Pending,   \* the status of a project nobody has scanned yet
  Factory,   \* the default settings
  None       \* not registered

VARIABLES
  registry,  \* the published configuration
  backup     \* config.yaml.bak

Config == [entry : [Root -> Status \cup {None}], setting : Setting]

\* DaemonConfig(): what an empty or missing file means.
Default == [entry |-> [r \in Root |-> None], setting |-> Factory]

-----------------------------------------------------------------------------
(* The changes.                                                            *)

\* add_project: a no-op on a duplicate.
Added(c, r) == IF c.entry[r] = None THEN [c EXCEPT !.entry[r] = Pending] ELSE c

\* remove_project.
Removed(c, r) == [c EXCEPT !.entry[r] = None]

\* update_last_scan: a no-op if the project is not registered.
Scanned(c, r, s) == IF c.entry[r] = None THEN c ELSE [c EXCEPT !.entry[r] = s]

\* The settings forms and the setup wizard.
Configured(c, v) == [c EXCEPT !.setting = v]

\* prune_stale with the candidates R.
Pruned(c, R) == [c EXCEPT !.entry = [r \in Root |-> IF r \in R THEN None ELSE @[r]]]

-----------------------------------------------------------------------------
Init ==
  /\ registry = Default
  /\ backup = Default

Change ==
  /\ \/ \E r \in Root : registry' = Added(registry, r)
     \/ \E r \in Root : registry' = Removed(registry, r)
     \/ \E r \in Root, s \in Status : registry' = Scanned(registry, r, s)
     \/ \E v \in Setting : registry' = Configured(registry, v)
  /\ UNCHANGED backup

\* The backup is taken before the prune; one cut short leaves an empty file.
Snapshot ==
  /\ backup' \in {registry, Default}
  /\ UNCHANGED registry

Prune ==
  /\ backup = registry
  /\ \E R \in SUBSET Root : registry' = Pruned(registry, R)
  /\ UNCHANGED backup

Restore ==
  /\ registry' = backup
  /\ UNCHANGED backup

Next == Change \/ Snapshot \/ Prune \/ Restore

Spec == Init /\ [][Next]_<<registry, backup>>

=============================================================================
