\* One writer that can be cut short between any two commits, and two files that
\* define the same symbol name.
SPECIFICATION Spec
CONSTANTS
  f1 = f1
  f2 = f2
  f3 = f3
  c1 = c1
  c2 = c2
  n1 = n1
  n2 = n2
  File = {f1, f2}
  Content = {c1, c2}
  Name = {n1, n2}
  Scanner = {daemon}
  Parsable = {f1, f2}
  Docs = {f2}
  Tracked = {}
  Secret = {c2}
  Oversized <- MCOversized
  Defines <- MCDefines
  Mentions <- MCMentions
  MayDie = TRUE
  MayMisread = FALSE
  Absent = Absent
  PathOnly = PathOnly
  NoRow = NoRow
INVARIANTS StoresAgree WholeScanFresh FullScanHeals
