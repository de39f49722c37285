\* The worker, sync-all and the user sync a project that changes twice.
SPECIFICATION Spec
CONSTANTS
  p1 = p1
  f1 = f1
  a1 = a1
  Project = {p1}
  WithWiki = {p1}
  File = {f1}
  Absent = Absent
  Wikis <- MCWikis
  Owner <- MCOwner
  Dir <- MCDir
  Imports <- MCImports
  Churn <- MCChurn
  Commits <- MCCommits
  Words <- MCWords
  Shown = {"Home"}
  Debounce = 1
  StaleAfter = 2
  MaxChanges = 2
  MaxExtras = 1
  MaxAtOnce = 2
PROPERTIES CleanSyncIsExact DeletesOnlyDrift EventuallyPublished
CHECK_DEADLOCK FALSE
