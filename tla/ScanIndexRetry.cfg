\* What a failed scan leaves behind for the next incremental one.
SPECIFICATION Spec
CONSTANTS
  f1 = f1
  f2 = f2
  f3 = f3
  c1 = c1
  c2 = c2
  n1 = n1
  n2 = n2
  File = {f1}
  Content = {c1, c2}
  Name = {n1, n2}
  Scanner = {daemon}
  Parsable = {f1}
  Docs = {}
  Tracked = {f1}
  Secret = {c2}
  Oversized <- NoOversized
  Defines <- MCDefines
  Mentions <- MCMentions
  MayDie = TRUE
  MayMisread = FALSE
  Absent = Absent
  PathOnly = PathOnly
  NoRow = NoRow
INVARIANTS RetryCompletes
