\* The daemon's partial scans, whole scans of another process, updates, errors and
\* kills; one module's article cannot be generated.
SPECIFICATION FairSpec
CONSTANTS
  a1 = a1
  a2 = a2
  b1 = b1
  c1 = c1
  c2 = c2
  ma = ma
  mb = mb
  ctx = ctx
  Daemon = daemon
  Scanner = {daemon, ctx}
  File = {a1, a2, b1}
  Content = {c1, c2}
  ContentOf <- MCContentOf
  Module = {ma, mb}
  ModuleOf <- MCModuleOf
  Threshold = 1
  MaxModules = 2
  Broken = {mb}
  MaxScans <- MCMaxScans
  Absent = Absent
INVARIANTS CurrentIsFaithful NothingUntracked
PROPERTY QueuedIsDrained
CHECK_DEADLOCK FALSE
