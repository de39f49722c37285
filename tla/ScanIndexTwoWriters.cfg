\* The daemon and a command-line scan on one project at the same time, either of
\* which can be cut short between any two commits.
SPECIFICATION Spec
CONSTANTS
  f1 = f1
  f2 = f2
  f3 = f3
  c1 = c1
  c2 = c2
  n1 = n1
  n2 = n2
  File = {f1}
  Content = {c1, c2}
  Name = {n1, n2}
  Scanner = {daemon, cli}
  Parsable = {f1}
  Docs = {}
  Tracked = {f1}
  Secret = {c2}
  Oversized <- NoOversized
  Defines <- MCDefines
  Mentions <- MCMentions
  MayDie = TRUE
  MayMisread = FALSE
  Absent = Absent
  PathOnly = PathOnly
  NoRow = NoRow
INVARIANTS NoOrphanRows
PROPERTIES NoSpuriousDrop
SYMMETRY Scanners
