\* Renames, restarts, batches that fail half-way and a cache that goes bad.
SPECIFICATION FairDaemonSpec
CONSTANTS
  f1 = f1
  f2 = f2
  c1 = c1
  c2 = c2
  n1 = n1
  File = {f1, f2}
  Content = {c1, c2}
  Name = {n1}
  Daemon = daemon
  Scanner = {daemon}
  Watched = {f1, f2}
  MaxChanges = 3
  MayMove = TRUE
  MayStop = TRUE
  MayCorrupt = TRUE
  Parsable = {f1, f2}
  Docs = {f2}
  Tracked = {f1}
  Secret = {c2}
  Oversized <- MCOversized
  Defines <- MCDefines
  Mentions <- MCMentions
  MayDie = TRUE
  MayMisread = TRUE
  Absent = Absent
  PathOnly = PathOnly
  NoRow = NoRow
INVARIANTS StaleIsPending
PROPERTIES Converges QuarantineFreezes
CHECK_DEADLOCK FALSE
