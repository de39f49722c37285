\* Whole scans, some cut short, while commits are made, amended and restored, tags move
\* and commands mark and delete events.
SPECIFICATION Spec
CONSTANTS
  Symbol = {1, 2}
  Body = {x, y}
  Tree <- MCTree
  x = x
  y = y
  a = a
  b = b
  c = c
  t1 = t1
  FilePath <- MCPath
  FqName <- MCName
  LeafRatio <- MCRatio
  Threshold = 85
  Absent = Absent
  Importance <- MCImportance
  Limit = 2
  Lines = 6
  Shown = 1
  Contains_ <- MCContains
  Tag = {t1}
  Configs <- MCConfigs
  MaxCommits = 3
  MaxScans = 3
  MaxPolls = 2
  MaxUpsets = 2
  MaxTotal = 6
INVARIANTS LogExplainsSidecar DiffIsExact LiveNotOrphaned OneAnchorPerTag SectionFits
CHECK_DEADLOCK FALSE
