----------------------------- MODULE VectorIndex -----------------------------
(***************************************************************************)
(* The vectors of the file index in Qdrant.  At the end of a scan of the    *)
(* whole project the files it parsed again are embedded and upserted, batch *)
(* by batch, after the collections have been made; what fails is logged and *)
(* forgotten.  Nothing is ever deleted.  A search filters by the project's  *)
(* directory name.                                                         *)
(***************************************************************************)
EXTENDS Integers, FiniteSets, Functions

CONSTANTS
    Projects,
    Name,           \* Projects -> the names of their root directories
    Paths,
    Plain,          \* contents that are embedded
    Withheld,       \* contents that are indexed and never embedded: secrets,
                    \* json, yaml, toml
    NoSuchFile,           \* no such file
    Scanners,       \* processes that scan: the daemon, the CLI, the MCP server
    Batch,          \* files in one upsert (100 in the code)
    Dimensions,     \* vector sizes the configuration can name
    MaxChanges,     \* bound: changes to files
    MaxFailures,    \* bound: calls that fail, processes that die
    MaxSettings     \* bound: changes of the configured dimension

VARIABLES
    tree,           \* Projects -> Paths -> contents or NoSuchFile
    index,          \* Projects -> Paths -> content of cache.db's hash, or NoSuchFile
    scanner,        \* Scanners -> [pc, project, todo, size]: the size of its adapter
    size,           \* dimension of the collections, 0 before they are made
    points,         \* <<name, path>> -> content the vector was made from
    dimension,      \* config.embedding.dimension
    astray,         \* history: <<project, path>> whose last change in the
                    \* index is not what was last uploaded (see Scan, Fail)
    changes, failures, settings

vectorVars == <<tree, index, scanner, size, points, dimension, astray, changes, failures, settings>>

NoFile == [p \in Paths |-> NoSuchFile]
NoScan == [pc |-> "idle", project |-> CHOOSE p \in Projects : TRUE, todo |-> <<>>, size |-> 0]

(* For the mutant of SearchFollowsIndex: points of every project under one id. *)
IdOfPath(p, path) == <<"any", path>>

(* The id of a point is a hash of the project's name and the path. *)
Id(p, path) == <<Name[p], path>>

VectorInit ==
    /\ tree \in [Projects -> [Paths -> Plain \cup {NoSuchFile}]]
    /\ index = [p \in Projects |-> NoFile]
    /\ scanner = [s \in Scanners |-> NoScan]
    /\ size = 0
    /\ points = <<>>
    /\ dimension \in Dimensions
    /\ astray = {}
    /\ changes = 0
    /\ failures = 0
    /\ settings = 0

ChangeFile(p, path, c) ==
    /\ changes < MaxChanges
    /\ c # tree[p][path]
    /\ tree' = [tree EXCEPT ![p][path] = c]
    /\ changes' = changes + 1
    /\ UNCHANGED <<index, scanner, size, points, dimension, astray, failures, settings>>

Configure(d) ==
    /\ settings < MaxSettings
    /\ d # dimension
    /\ dimension' = d
    /\ settings' = settings + 1
    /\ UNCHANGED <<tree, index, scanner, size, points, astray, changes, failures>>

(* Paths of p another scanner is about to upload. *)
Pending(p) == UNION {DOMAIN scanner[s].todo : s \in {t \in Scanners : scanner[t].project = p}}

(* Every provider's adapter has the size the configuration names. *)
AdapterSize == dimension

(* embed_project_files: nothing to do, or a text, a hash and an adapter. *)
Upload(p, files) ==
    IF files = <<>> THEN NoScan
    ELSE [pc |-> "list", project |-> p, todo |-> files, size |-> AdapterSize]

(* What a scan hands to it: the files it parsed again that have no secret   *)
(* and are no data format, and only if it was whole.                        *)
Embeddable(p, changed, whole) ==
    [path \in {x \in changed : whole /\ tree[p][x] \in Plain} |-> tree[p][path]]

(* A scan that has written the index and comes to the vectors: the whole    *)
(* project, or only the paths the daemon has seen change.  Only a whole     *)
(* scan uploads, and only what it has parsed again: a path whose hash is    *)
(* already in the index is skipped, uploaded or not.                        *)
Scan(s, p, whole) ==
    \E only \in (IF whole THEN {Paths} ELSE {{path} : path \in Paths}) :
        LET changed == {path \in only : tree[p][path] # index[p][path]}
            todo == Embeddable(p, changed, whole)
            upload == DOMAIN todo
        IN
        /\ scanner[s].pc = "idle"
        /\ changed # {}
        /\ index' = [index EXCEPT ![p] = [path \in Paths |->
                        IF path \in changed THEN tree[p][path] ELSE @[path]]]
        /\ scanner' = [scanner EXCEPT ![s] = Upload(p, todo)]
        /\ astray' = (astray \ {<<p, path>> : path \in upload \ Pending(p)})
                        \cup {<<p, path>> : path \in changed \ (upload \ Pending(p))}
        /\ UNCHANGED <<tree, size, points, dimension, changes, failures, settings>>

(* get_collections: which exist is decided here ... *)
ListCollections(s) ==
    /\ scanner[s].pc = "list"
    /\ scanner' = [scanner EXCEPT ![s].pc = IF size = 0 THEN "create" ELSE "upsert"]
    /\ UNCHANGED <<tree, index, size, points, dimension, astray, changes, failures, settings>>

Lose(s) ==
    /\ astray' = astray \cup {<<scanner[s].project, path>> : path \in DOMAIN scanner[s].todo}
    /\ scanner' = [scanner EXCEPT ![s] = NoScan]

(* ... and here they are created, unless another process was faster: then   *)
(* the call fails, and with it the upload.                                  *)
CreateCollections(s) ==
    /\ scanner[s].pc = "create"
    /\ \/ /\ size = 0
          /\ size' = scanner[s].size
          /\ scanner' = [scanner EXCEPT ![s].pc = "upsert"]
          /\ UNCHANGED astray
       \/ /\ size # 0
          /\ Lose(s)
          /\ UNCHANGED size
    /\ UNCHANGED <<tree, index, points, dimension, changes, failures, settings>>

(* The points of some files of a project, one each. *)
PointsOf(p, files) == [id \in {Id(p, path) : path \in DOMAIN files} |-> files[id[2]]]

(* A point of an id that is there already replaces it. *)
Over(new, old) ==
    [id \in DOMAIN new \cup DOMAIN old |-> IF id \in DOMAIN new THEN new[id] ELSE old[id]]

(* One batch; vectors of another size are turned down. *)
Upsert(s) ==
    LET p == scanner[s].project
        todo == scanner[s].todo
    IN
    /\ scanner[s].pc = "upsert"
    /\ \/ /\ size = scanner[s].size
          /\ \E batch \in SUBSET DOMAIN todo :
                /\ \/ Cardinality(batch) = Batch
                   \/ Cardinality(batch) < Batch /\ batch = DOMAIN todo
                /\ points' = Over(PointsOf(p, Restrict(todo, batch)), points)
                /\ scanner' = [scanner EXCEPT ![s] =
                      IF batch = DOMAIN todo THEN NoScan
                      ELSE [scanner[s] EXCEPT !.todo = Restrict(todo, DOMAIN todo \ batch)]]
          /\ UNCHANGED astray
       \/ /\ size # scanner[s].size
          /\ Lose(s)
          /\ UNCHANGED points
    /\ UNCHANGED <<tree, index, size, dimension, changes, failures, settings>>

(* The provider or Qdrant fails, or the process ends: 0 is returned, and    *)
(* the scan has already committed the hashes.                               *)
Fail(s) ==
    /\ scanner[s].pc # "idle"
    /\ failures < MaxFailures
    /\ Lose(s)
    /\ failures' = failures + 1
    /\ UNCHANGED <<tree, index, size, points, dimension, changes, settings>>

(* The points that carry the project's name. *)
SearchSummaries(p) ==
    [path \in {x \in Paths : Id(p, x) \in DOMAIN points} |-> points[Id(p, path)]]

(* The paths a query can be answered with, each with the content its vector *)
(* was made from.  A query of the wrong size fails and finds nothing.       *)
VectorSearch(p) == IF size = AdapterSize THEN SearchSummaries(p) ELSE <<>>

VectorNext ==
    \/ \E p \in Projects, path \in Paths, c \in Plain \cup Withheld \cup {NoSuchFile} :
          ChangeFile(p, path, c)
    \/ \E d \in Dimensions : Configure(d)
    \/ \E s \in Scanners :
          \/ \E p \in Projects, whole \in BOOLEAN : Scan(s, p, whole)
          \/ ListCollections(s) \/ CreateCollections(s) \/ Upsert(s) \/ Fail(s)

VectorSpec == VectorInit /\ [][VectorNext]_vectorVars

----------------------------------------------------------------------------
(* Properties. *)

Shared(p) == \E q \in Projects \ {p} : Name[q] = Name[p]

(* A project that shares its name with no other is answered with its own     *)
(* files as the index has them: every path with content to embed that is     *)
(* not being uploaded is found, by the content its hash is of.  Left out are *)
(* the paths whose last change was never uploaded: seen by a scan of single  *)
(* files, lost with a failed upload, deleted, now a secret, or uploaded by   *)
(* two scans at once (scanner.py:312, embeddings/service.py:173).            *)
SearchFollowsIndex ==
    \A p \in Projects : ~Shared(p) /\ size = dimension =>
        \A path \in Paths \ Pending(p) : <<p, path>> \notin astray =>
            /\ index[p][path] \in Plain => /\ path \in DOMAIN VectorSearch(p)
                                           /\ VectorSearch(p)[path] = index[p][path]
            /\ index[p][path] = NoSuchFile => path \notin DOMAIN VectorSearch(p)
==============================================================================
