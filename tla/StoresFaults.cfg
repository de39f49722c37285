\* Each store with two processes, failures and kills; two files, memories, projects.
SPECIFICATION Spec
CONSTANTS
    r1 = r1
    r2 = r2
    f1 = f1
    f2 = f2
    a = a
    b = b
    gone = gone
    m1 = m1
    m2 = m2
    p1 = p1
    p2 = p2
    x1 = x1
    x2 = x2
    \* Summaries
    Runs = {r1, r2}
    Files = {f1, f2}
    Contents = {a, b}
    Gone = gone
    Listed <- MCListed
    Names = {"mini", "unlisted"}
    Concurrency = 1
    MaxRetries = 1
    MaxEdits = 1
    MaxKills = 1
    Limit = 8
    \* UsageCache
    Sessions = {s1}
    Readers = {r1, r2}
    Assistant = assistant
    Other = other
    MaxLines = 2
    \* MemoryStore
    Memories = {m1, m2}
    Texts = {a, b}
    Commands = {r1, r2}
    Shown = 1
    MaxSaves = 1
    MaxInterrupts = 1
    \* VectorIndex
    Projects = {p1, p2}
    Name <- MCName
    Paths = {x1, x2}
    Plain = {a, b}
    Withheld = {secret}
    NoSuchFile = gone
    Scanners = {r1, r2}
    Batch = 1
    Dimensions = {1, 2}
    MaxChanges = 2
    MaxFailures = 1
    MaxSettings = 1
INVARIANTS
    RerunIsFree
    SpendingIsRecorded
    TokensCountedOnce
    LastWordStands
    SearchFollowsIndex
SYMMETRY Symmetry
CHECK_DEADLOCK FALSE
