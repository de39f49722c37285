SPECIFICATION MCSpec
CONSTANTS
  Module = {"libs/core", "README.md"}
  Stem = {"libs-core", "README", "README.md"}
  ArticleOf <- MCArticleOf
  LintNameOf <- MCLintNameOf
  VersionsOf <- MCVersionsOf
  MaxEvents = 4
  Qdrant = FALSE
  MaxCommands = 1
  \* Retrieval
  Paths <- MCPaths
  Symbols <- MCSymbols
  Contents <- MCContents
  Disk <- MCDisk
  Names <- MCNames
  Refs <- MCRefs
  Owner <- MCHome
  Derived <- MCHome
  Role <- MCRole
  Position <- MCPosition
  Row <- MCRow
  Central <- MCCentral
  Churned <- MCChurned
  Young <- MCYoung
  Queries <- MCQueries
  Answers <- MCAnswers
  Gone = "gone"
  Limit = 2
  SeedCount = 2
  MinCorpus = 1
  FullCorpus = 4
  MaxEdits = 1
INVARIANTS HintsClear AskIsHonest ExpansionIsExact PackIsExplained
PROPERTIES CalmUpdateLeavesNoIssue
CHECK_DEADLOCK FALSE
