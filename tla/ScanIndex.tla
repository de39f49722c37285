----------------------------- MODULE ScanIndex -----------------------------
(***************************************************************************)
(* The per-project index and the processes that write it.                  *)
(*                                                                         *)
(* A scan (libs/scanning/scanner.py) walks the project, skips the files    *)
(* whose content hash is cached, and rewrites the others in four separate  *)
(* commits: the files row, the symbols rows and the relations rows of      *)
(* .context/cache.db, then the row of .context/fts.db.  After the walk it  *)
(* refreshes git statistics (full scans), relinks the docs, and, when it   *)
(* scanned the whole project, deletes the files it no longer saw.  The     *)
(* daemon deletes single files with the same two commits.                  *)
(*                                                                         *)
(* A content stands for itself and for its hash.  A row of a store holds   *)
(* the content it was derived from, so "the row is up to date" is equality *)
(* of contents.                                                            *)
(***************************************************************************)
EXTENDS FiniteSets

CONSTANTS
  File,        \* POSIX relative paths that is_ignored lets through
  Content,     \* contents a file can have
  Name,        \* fully qualified symbol names
  Scanner,     \* processes that scan: the daemon, ctx scan, the MCP tool, the UI
  Parsable,    \* paths with a known language and a parser
  Docs,        \* paths whose parser gives them the role "docs"
  Tracked,     \* paths git has statistics for
  Secret,      \* contents that match a secret pattern
  Oversized,   \* <<file, content>>: a .json larger than 100 kB
  Defines,     \* [File -> [Content -> SUBSET Name]]: symbols a parser extracts
  Mentions,    \* [Content -> SUBSET File]: paths a docs content refers to
  MayDie,      \* TRUE if a scan can be cut short between two commits
  MayMisread,  \* TRUE if reading a file that is there can fail
  Absent,      \* no such file, no such row
  PathOnly,    \* the FTS row of a file that holds a secret
  NoRow        \* no symbols row has this name

SymbolRow == [file : File, content : Content]

ASSUME ConstantTypes ==
  /\ Parsable \subseteq File
  /\ Docs \subseteq Parsable
  /\ Tracked \subseteq File
  /\ Secret \subseteq Content
  /\ Oversized \subseteq File \X Content
  /\ Defines \in [File -> [Content -> SUBSET Name]]
  /\ Mentions \in [Content -> SUBSET File]
  /\ {MayDie, MayMisread} \subseteq BOOLEAN

ASSUME Sentinels ==
  /\ Absent \notin Content
  /\ Absent \notin File
  /\ PathOnly \notin Content
  /\ PathOnly # Absent
  /\ NoRow \notin SymbolRow

VARIABLES
  disk,        \* what is on disk
  files,       \* cache.db files: the content hash of each indexed path
  symbols,     \* cache.db symbols, keyed by fq_name
  relations,   \* cache.db relations a parser produced, by origin_file
  specifies,   \* cache.db relations of type "specifies": <<doc, target>>
  git_stats,   \* cache.db git_stats: the paths that have a row
  fts_files,   \* fts.db fts_files: the text indexed for each path
  pc,          \* what each scanner does next
  mode,        \* "full" or "incremental"
  whole,       \* TRUE if the scan has no `only` set
  todo,        \* paths left in the loop the scanner is in
  existing,    \* existing_paths: indexed when the scan began
  visited,     \* visited_paths: read by the walk
  links,       \* spec_rels: found in the docs, not written yet
  cur,         \* the path being rewritten or deleted
  data,        \* the content read for cur
  touched,     \* history: paths edited on disk since the scan began
  cut          \* history: paths whose rewriting or deletion was cut short and that
               \* have not been rewritten or deleted since

stores == <<files, symbols, relations, specifies, git_stats, fts_files>>
scan   == <<pc, mode, whole, todo, existing, visited, links, cur, data>>
history == <<touched, cut>>
vars   == <<disk, stores, scan, history>>

Stored == Content \cup {Absent}

Phase == {"idle", "walk", "check", "put", "symbols", "relations", "fts",
          "git", "docs", "link", "stale", "staleFts"}

TypeOK ==
  /\ disk \in [File -> Stored]
  /\ files \in [File -> Stored]
  /\ symbols \in [Name -> SymbolRow \cup {NoRow}]
  /\ relations \in [File -> Stored]
  /\ specifies \subseteq File \X File
  /\ git_stats \subseteq File
  /\ fts_files \in [File -> Stored \cup {PathOnly}]
  /\ pc \in [Scanner -> Phase]
  /\ mode \in [Scanner -> {"full", "incremental"}]
  /\ whole \in [Scanner -> BOOLEAN]
  /\ todo \in [Scanner -> SUBSET File]
  /\ existing \in [Scanner -> SUBSET File]
  /\ visited \in [Scanner -> SUBSET File]
  /\ links \in [Scanner -> SUBSET (File \X File)]
  /\ cur \in [Scanner -> File \cup {Absent}]
  /\ data \in [Scanner -> Stored]
  /\ touched \in [Scanner -> SUBSET File]
  /\ cut \subseteq File

-----------------------------------------------------------------------------
(* The stores.                                                             *)

Indexed == {f \in File : files[f] # Absent}

RowsOf(f) == {n \in Name : symbols[n] # NoRow /\ symbols[n].file = f}

\* The text fts.index_file stores: the path alone if the content has a secret.
FtsEntry(c) == IF c \in Secret THEN PathOnly ELSE c

\* Variant of SymbolsAfter: the DELETE of the old rows forgotten.
SymbolsAfterNoDelete(f, c) ==
  [n \in Name |-> IF n \in Defines[f][c] THEN [file |-> f, content |-> c] ELSE symbols[n]]

\* replace_symbols: DELETE by file_path, then INSERT OR REPLACE on the fq_name
\* key, so that a name another file holds is taken over.
SymbolsAfter(f, c) ==
  [n \in Name |-> IF n \in Defines[f][c] THEN [file |-> f, content |-> c]
                  ELSE IF n \in RowsOf(f) THEN NoRow ELSE symbols[n]]

\* Variant of CascadeSymbols: PRAGMA foreign_keys left off.
CascadeSymbolsOff(f) == symbols

\* ON DELETE CASCADE from files to symbols.
CascadeSymbols(f) == [n \in Name |-> IF n \in RowsOf(f) THEN NoRow ELSE symbols[n]]

SpecifiesFrom(f) == {r \in specifies : r[1] = f}

\* The specifies relations extract_specifies_relations finds in the docs files
\* it can read, among the paths indexed at that moment.
DocLinks ==
  {r \in (Docs \cap Indexed) \X Indexed :
     /\ r[1] # r[2]
     /\ disk[r[1]] # Absent
     /\ r[2] \in Mentions[disk[r[1]]]}

-----------------------------------------------------------------------------
Init ==
  /\ disk \in [File -> Stored]
  /\ files = [f \in File |-> Absent]
  /\ symbols = [n \in Name |-> NoRow]
  /\ relations = [f \in File |-> Absent]
  /\ specifies = {}
  /\ git_stats = {}
  /\ fts_files = [f \in File |-> Absent]
  /\ pc = [s \in Scanner |-> "idle"]
  /\ mode = [s \in Scanner |-> "incremental"]
  /\ whole = [s \in Scanner |-> FALSE]
  /\ todo = [s \in Scanner |-> {}]
  /\ existing = [s \in Scanner |-> {}]
  /\ visited = [s \in Scanner |-> {}]
  /\ links = [s \in Scanner |-> {}]
  /\ cur = [s \in Scanner |-> Absent]
  /\ data = [s \in Scanner |-> Absent]
  /\ touched = [s \in Scanner |-> {}]
  /\ cut = {}

\* A user or a tool writes or removes a file.
EditFile(f, c) ==
  /\ disk[f] # c
  /\ disk' = [disk EXCEPT ![f] = c]
  /\ touched' = [s \in Scanner |-> IF pc[s] = "idle" THEN {} ELSE touched[s] \cup {f}]
  /\ UNCHANGED <<stores, scan, cut>>

Goto(s, phase) == pc' = [pc EXCEPT ![s] = phase]

\* Leave the scan: its locals and its connections are gone.
Leave(s) ==
  /\ Goto(s, "idle")
  /\ mode' = [mode EXCEPT ![s] = "incremental"]
  /\ whole' = [whole EXCEPT ![s] = FALSE]
  /\ todo' = [todo EXCEPT ![s] = {}]
  /\ existing' = [existing EXCEPT ![s] = {}]
  /\ visited' = [visited EXCEPT ![s] = {}]
  /\ links' = [links EXCEPT ![s] = {}]
  /\ cur' = [cur EXCEPT ![s] = Absent]
  /\ data' = [data EXCEPT ![s] = Absent]
  /\ touched' = [touched EXCEPT ![s] = {}]
  /\ UNCHANGED <<disk, stores>>

-----------------------------------------------------------------------------
(* Starting: the cache is listed before the tree is.                       *)

Begin(s, m, w, only) ==
  /\ pc[s] = "idle"
  /\ Goto(s, "walk")
  /\ mode' = [mode EXCEPT ![s] = m]
  /\ whole' = [whole EXCEPT ![s] = w]
  /\ existing' = [existing EXCEPT ![s] = IF w THEN Indexed ELSE {}]
  /\ todo' = [todo EXCEPT ![s] = {f \in only : disk[f] # Absent}]
  /\ visited' = [visited EXCEPT ![s] = {}]
  /\ touched' = [touched EXCEPT ![s] = {}]
  /\ UNCHANGED <<disk, stores, links, cur, data, cut>>

BeginWhole(s, m) == Begin(s, m, TRUE, File)

BeginPartial(s, only) == Begin(s, "incremental", FALSE, only)

\* ProjectIndex.delete_file for each path the daemon saw deleted.
BeginRemove(s, F) ==
  /\ pc[s] = "idle"
  /\ Goto(s, "stale")
  /\ todo' = [todo EXCEPT ![s] = F]
  /\ UNCHANGED <<disk, stores, mode, whole, existing, visited, links, cur, data, history>>

-----------------------------------------------------------------------------
(* The walk.                                                               *)

\* read_bytes raises OSError (the file is gone, or the read failed), or the file
\* is a large data dump: it does not even count as visited.
SkipFile(s, f) ==
  /\ pc[s] = "walk"
  /\ f \in todo[s]
  /\ \/ disk[f] = Absent
     \/ <<f, disk[f]>> \in Oversized
     \/ MayMisread
  /\ todo' = [todo EXCEPT ![s] = @ \ {f}]
  /\ UNCHANGED <<disk, stores, pc, mode, whole, existing, visited, links, cur, data, history>>

ReadFile(s, f) ==
  /\ pc[s] = "walk"
  /\ f \in todo[s]
  /\ disk[f] # Absent /\ <<f, disk[f]>> \notin Oversized
  /\ todo' = [todo EXCEPT ![s] = @ \ {f}]
  /\ visited' = [visited EXCEPT ![s] = @ \cup {f}]
  /\ IF f \in Parsable
       THEN /\ Goto(s, "check")
            /\ cur' = [cur EXCEPT ![s] = f]
            /\ data' = [data EXCEPT ![s] = disk[f]]
       ELSE UNCHANGED <<pc, cur, data>>
  /\ UNCHANGED <<disk, stores, mode, whole, existing, links, history>>

\* Done with cur: back to the loop it came from.
NextFile(s, phase) ==
  /\ Goto(s, phase)
  /\ cur' = [cur EXCEPT ![s] = Absent]
  /\ data' = [data EXCEPT ![s] = Absent]

\* Variant of Unchanged: a full scan trusts the hash too.
UnchangedAnyMode(s) == files[cur[s]] = data[s]

Unchanged(s) == mode[s] = "incremental" /\ files[cur[s]] = data[s]

CheckHash(s) ==
  /\ pc[s] = "check"
  /\ IF Unchanged(s)
       THEN NextFile(s, "walk")
       ELSE Goto(s, "put") /\ UNCHANGED <<cur, data>>
  /\ UNCHANGED <<disk, stores, mode, whole, todo, existing, visited, links, history>>

PutFile(s) ==
  /\ pc[s] = "put"
  /\ files' = [files EXCEPT ![cur[s]] = data[s]]
  /\ Goto(s, "symbols")
  /\ UNCHANGED <<disk, symbols, relations, specifies, git_stats, fts_files,
                 mode, whole, todo, existing, visited, links, cur, data, history>>

ReplaceSymbols(s) ==
  /\ pc[s] = "symbols"
  /\ files[cur[s]] # Absent \/ Defines[cur[s]][data[s]] = {}
  /\ symbols' = SymbolsAfter(cur[s], data[s])
  /\ Goto(s, "relations")
  /\ UNCHANGED <<disk, files, relations, specifies, git_stats, fts_files,
                 mode, whole, todo, existing, visited, links, cur, data, history>>

\* The DELETE by origin_file also takes the specifies rows of a docs file.  If
\* the files row is gone, only a file without relations gets past the INSERT.
ReplaceRelations(s) ==
  /\ pc[s] = "relations"
  /\ relations' = [relations EXCEPT ![cur[s]] =
                      IF files[cur[s]] = Absent THEN Absent ELSE data[s]]
  /\ specifies' = specifies \ SpecifiesFrom(cur[s])
  /\ Goto(s, "fts")
  /\ UNCHANGED <<disk, files, symbols, git_stats, fts_files,
                 mode, whole, todo, existing, visited, links, cur, data, history>>

IndexFts(s) ==
  /\ pc[s] = "fts"
  /\ fts_files' = [fts_files EXCEPT ![cur[s]] = FtsEntry(data[s])]
  /\ cut' = cut \ {cur[s]}
  /\ NextFile(s, "walk")
  /\ UNCHANGED <<disk, files, symbols, relations, specifies, git_stats,
                 mode, whole, todo, existing, visited, links, touched>>

-----------------------------------------------------------------------------
(* After the walk.                                                         *)

EndWalk(s) ==
  /\ pc[s] = "walk"
  /\ todo[s] = {}
  /\ Goto(s, IF mode[s] = "full" /\ whole[s] THEN "git" ELSE "docs")
  /\ UNCHANGED <<disk, stores, mode, whole, todo, existing, visited, links, cur, data, history>>

PutGitStats(s) ==
  /\ pc[s] = "git"
  /\ git_stats' = git_stats \cup (Tracked \cap visited[s])
  /\ Goto(s, "docs")
  /\ UNCHANGED <<disk, files, symbols, relations, specifies, fts_files,
                 mode, whole, todo, existing, visited, links, cur, data, history>>

\* Variants of StaleAfter: the difference taken the wrong way round; visited
\* files not subtracted.
StaleAfterSwapped(s) == IF whole[s] THEN visited[s] \ existing[s] ELSE {}
StaleAfterAll(s) == IF whole[s] THEN existing[s] ELSE {}

\* Stale paths: indexed when the scan began and not visited; none in a partial scan.
StaleAfter(s) == IF whole[s] THEN existing[s] \ visited[s] ELSE {}

BeginCleanup(s) ==
  /\ Goto(s, "stale")
  /\ todo' = [todo EXCEPT ![s] = StaleAfter(s)]

\* If the docs link to nothing, the old specifies rows stay.
ReadDocs(s) ==
  /\ pc[s] = "docs"
  /\ links' = [links EXCEPT ![s] = DocLinks]
  /\ IF DocLinks = {}
       THEN BeginCleanup(s)
       ELSE Goto(s, "link") /\ UNCHANGED todo
  /\ UNCHANGED <<disk, stores, mode, whole, existing, visited, cur, data, history>>

\* DELETE and INSERT in one transaction.
LinkDocs(s) ==
  /\ pc[s] = "link"
  /\ \A r \in links[s] : files[r[1]] # Absent
  /\ specifies' = links[s]
  /\ links' = [links EXCEPT ![s] = {}]
  /\ BeginCleanup(s)
  /\ UNCHANGED <<disk, files, symbols, relations, git_stats, fts_files,
                 mode, whole, existing, visited, cur, data, history>>

\* cache.delete_file: the foreign keys cascade to symbols and relations.
DeleteCached(s, f) ==
  /\ pc[s] = "stale"
  /\ f \in todo[s]
  /\ files' = [files EXCEPT ![f] = Absent]
  /\ symbols' = CascadeSymbols(f)
  /\ relations' = [relations EXCEPT ![f] = Absent]
  /\ specifies' = specifies \ SpecifiesFrom(f)
  /\ todo' = [todo EXCEPT ![s] = @ \ {f}]
  /\ cur' = [cur EXCEPT ![s] = f]
  /\ Goto(s, "staleFts")
  /\ UNCHANGED <<disk, git_stats, fts_files, mode, whole, existing, visited, links,
                 data, history>>

\* fts.delete_file, a commit of another database.
DeleteFts(s) ==
  /\ pc[s] = "staleFts"
  /\ fts_files' = [fts_files EXCEPT ![cur[s]] = Absent]
  /\ cut' = cut \ {cur[s]}
  /\ NextFile(s, "stale")
  /\ UNCHANGED <<disk, files, symbols, relations, specifies, git_stats,
                 mode, whole, todo, existing, visited, links, touched>>

\* Nothing is left to delete: the scan, or the daemon's deletion pass, returns.
Finish(s) ==
  /\ pc[s] = "stale"
  /\ todo[s] = {}
  /\ Leave(s)
  /\ UNCHANGED cut

-----------------------------------------------------------------------------
(* Failing.                                                                *)

Committing(s) == pc[s] \in {"symbols", "relations", "fts", "staleFts"}

\* What was committed stays, the rest does not happen.
CutShort(s) ==
  /\ Leave(s)
  /\ cut' = IF Committing(s) THEN cut \cup {cur[s]} ELSE cut

\* Another writer deleted the files row: the INSERT breaks the foreign key and
\* the exception unwinds scan_project.
ForeignKeyError(s) ==
  /\ \/ pc[s] = "symbols" /\ files[cur[s]] = Absent /\ Defines[cur[s]][data[s]] # {}
     \/ pc[s] = "relations" /\ files[cur[s]] = Absent
     \/ pc[s] = "link" /\ \E r \in links[s] : files[r[1]] = Absent
  /\ CutShort(s)

\* The process is killed, or a commit raises ("database is locked", disk full).
Abort(s) ==
  /\ MayDie
  /\ pc[s] # "idle"
  /\ CutShort(s)

-----------------------------------------------------------------------------
\* A step inside a scan or a deletion pass.
Work(s) ==
  \/ \E f \in File : SkipFile(s, f) \/ ReadFile(s, f) \/ DeleteCached(s, f)
  \/ CheckHash(s) \/ PutFile(s) \/ ReplaceSymbols(s) \/ ReplaceRelations(s)
  \/ IndexFts(s) \/ EndWalk(s) \/ PutGitStats(s) \/ ReadDocs(s)
  \/ LinkDocs(s) \/ DeleteFts(s)

Fail(s) == ForeignKeyError(s) \/ Abort(s)

Next ==
  \/ \E f \in File, c \in Stored : EditFile(f, c)
  \/ \E s \in Scanner :
       \/ \E m \in {"full", "incremental"} : BeginWhole(s, m)
       \/ \E F \in (SUBSET File) \ {{}} : BeginPartial(s, F) \/ BeginRemove(s, F)
       \/ Work(s) \/ Finish(s) \/ Fail(s)

Spec == Init /\ [][Next]_vars

-----------------------------------------------------------------------------
(* Properties.                                                             *)

\* Every stored symbol of f is one f defines at its cached content.
RowsMatch(f) ==
  \A n \in RowsOf(f) :
     /\ symbols[n].content = files[f]
     /\ n \in Defines[f][files[f]]

Coherent(f) ==
  /\ relations[f] = files[f]
  /\ fts_files[f] = FtsEntry(files[f])
  /\ RowsMatch(f)

InFlight(f) == \E s \in Scanner : cur[s] = f /\ Committing(s)

\* The cached hash is the only thing an incremental scan looks at, so it must
\* vouch for the other stores: with one writer, the four stores agree on every
\* file except the one being rewritten and those whose rewriting was cut short.
StoresAgree == \A f \in File : Coherent(f) \/ InFlight(f) \/ f \in cut

\* Whoever writes and whenever it is cut short, cache.db itself never holds a
\* symbol or a relation of a file it has no row for.
NoOrphanRows ==
  \A f \in File : files[f] = Absent =>
     relations[f] = Absent /\ RowsOf(f) = {} /\ SpecifiesFrom(f) = {}

AtEnd(s) == pc[s] = "stale" /\ todo[s] = {}

\* What the files table should hold for a path with this content on disk.
Want(f, c) ==
  IF f \notin Parsable \/ <<f, c>> \in Oversized THEN Absent ELSE c

\* When a whole-project scan ends, every file nobody edited meanwhile is cached
\* at its content on disk if the walk could read it, and is gone otherwise.
WholeScanFresh ==
  \A s \in Scanner : whole[s] /\ AtEnd(s) =>
     \A f \in File \ touched[s] :
        files[f] = IF f \in visited[s] THEN Want(f, disk[f]) ELSE Absent

\* A full scan repairs whatever earlier scans left half written: when it ends,
\* every indexed file is coherent and no symbol of an indexed file is missing.
FullScanHeals ==
  \A s \in Scanner : whole[s] /\ mode[s] = "full" /\ AtEnd(s) =>
     \A f \in Indexed :
        /\ Coherent(f)
        /\ \A n \in Defines[f][files[f]] : symbols[n] # NoRow

\* A whole-project scan never deletes from the index a file that was on disk,
\* small enough and parsable throughout the scan.
NoSpuriousDrop ==
  [][\A s \in Scanner, f \in File :
       whole[s] /\ DeleteCached(s, f) =>
          f \in touched[s] \/ Want(f, disk[f]) = Absent]_vars

\* A scan that fails is made up for by the next one: when a scan ends, every
\* file it visited and that is indexed is coherent.
RetryCompletes ==
  \A s \in Scanner : AtEnd(s) =>
     \A f \in visited[s] \cap Indexed : Coherent(f)

=============================================================================
