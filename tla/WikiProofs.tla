----------------------------- MODULE WikiProofs -----------------------------
(***************************************************************************)
(* Theorems about the wiki: WikiState, for any scanners, files, modules,   *)
(* contents, threshold, limit of a run and number of scans, and            *)
(* WikiRefresh, for any commands and runners.                              *)
(*                                                                         *)
(* NothingUntracked is inductive given the types and that a process which  *)
(* does not scan has nothing read.  CurrentIsFaithful is not: it needs     *)
(* what Sound says of a module whose row can be relied on, that the hash   *)
(* in the row is that of its files unless a scan is changing them, and     *)
(* that an update which has it before it read that very hash and generates *)
(* from that very index.                                                   *)
(*                                                                         *)
(* Those of WikiRefresh say what the lock file tells between commands, and *)
(* a command and the runner it has started write that file at the same     *)
(* time.  LockInv adds what each phase of a command knows of the runners   *)
(* and which payloads the two files can hold; it is inductive while the    *)
(* protocol is calm, and what has been disturbed stays so.                 *)
(***************************************************************************)
EXTENDS WikiRefresh, WikiState, FiniteSetTheorems, SequenceTheorems, TLAPS

-----------------------------------------------------------------------------
(* The wiki's state.                                                         *)

Statuses == {"none", "dirty", "current"}

\* The table, but for where its rows stand in it.
TableInv ==
  /\ table = [m \in Module |-> table[m]]
  /\ \A m \in Module : table[m].hash \in Hash /\ table[m].status \in Statuses

TypeInv ==
  /\ files \in [File -> Content \cup {Absent}]
  /\ TableInv
  /\ article \in [Module -> Hash \cup {Absent}]
  /\ scan \in [Scanner -> Scan]
  /\ \A s \in Scanner : ~scan[s].on => scan[s] = NoScan
  /\ worker \in {"idle", "gather", "generate", "publish", "mark"}
  /\ work \in Seq(Todo)
  /\ worker # "idle" => work # <<>>
  /\ gathered \in Hash \cup {Absent}

\* What an update does for the module it is at.
AtWork(m) ==
  worker \in {"generate", "publish", "mark"} /\ Head(work).module = m =>
    /\ gathered = Head(work).hash
    /\ worker = "mark" => article[m] = gathered

\* What holds of a module whose row can be relied on.
Sound(m) ==
  m \notin unsure =>
    /\ m \notin Changing => table[m].hash = HashOf(files, m)
    /\ StatusIs(m, "current") => article[m] = table[m].hash
    /\ \A i \in DOMAIN work :
         work[i].module = m => m \notin Changing /\ work[i].hash = table[m].hash
    /\ AtWork(m)

Inv == TypeInv /\ NothingUntracked /\ \A m \in Module : Sound(m)

-----------------------------------------------------------------------------
(* Types.                                                                  *)

\* A hash counts files.
LEMMA HashType ==
  ASSUME NEW g, NEW m
  PROVE  HashOf(g, m) \in Hash
<1>1. ASSUME NEW c \in Content
      PROVE  Cardinality({f \in File : ModuleOf[f] = m /\ g[f] = c}) \in 0..Cardinality(File)
  <2> DEFINE S == {f \in File : ModuleOf[f] = m /\ g[f] = c}
  <2>1. IsFiniteSet(File) /\ S \subseteq File
    BY WikiStateAssumption
  <2>2. Cardinality(S) <= Cardinality(File)
    BY <2>1, FS_Subset
  <2>3. Cardinality(S) \in Nat /\ Cardinality(File) \in Nat
    BY <2>1, FS_Subset, FS_CardinalityType
  <2> QED
    BY <2>2, <2>3
<1> QED
  BY <1>1 DEF HashOf, Hash

\* The hash of a module depends on its own files alone.
LEMMA HashOfFiles ==
  ASSUME NEW g, NEW h, NEW m, \A f \in File : ModuleOf[f] = m => g[f] = h[f]
  PROVE  HashOf(g, m) = HashOf(h, m)
<1>1. ASSUME NEW c
      PROVE  {f \in File : ModuleOf[f] = m /\ g[f] = c} = {f \in File : ModuleOf[f] = m /\ h[f] = c}
  OBVIOUS
<1> QED
  BY <1>1 DEF HashOf

\* Without files it is that of a module without a row.
LEMMA EmptyHash ==
  ASSUME NEW g, NEW m, \A f \in File : g[f] = Absent
  PROVE  HashOf(g, m) = NoRow.hash
<1>1. ASSUME NEW c \in Content
      PROVE  Cardinality({f \in File : ModuleOf[f] = m /\ g[f] = c}) = 0
  <2>1. {f \in File : ModuleOf[f] = m /\ g[f] = c} = {}
    BY WikiStateAssumption
  <2> QED
    BY <2>1, FS_EmptySet
<1> QED
  BY <1>1 DEF HashOf, NoRow

LEMMA NoScanType == NoScan \in Scan /\ NoScan.changed = {} /\ ~NoScan.on
BY DEF NoScan, Scan

\* The modules a scan can find out of date are modules.
LEMMA OutdatedType ==
  ASSUME NEW s \in Scanner
  PROVE  Outdated(s) \subseteq Looked(s) /\ Looked(s) \subseteq Module
BY WikiStateAssumption DEF Outdated, Looked

\* What one process's scan becomes changes nothing of the others.
LEMMA ScanEdit ==
  ASSUME TypeInv, NEW s \in Scanner, NEW r \in Scan, scan' = [scan EXCEPT ![s] = r]
  PROVE  /\ scan' \in [Scanner -> Scan]
         /\ scan'[s] = r
         /\ \A t \in Scanner \ {s} : scan'[t] = scan[t]
         /\ Changing' = r.changed \cup UNION {scan[t].changed : t \in Scanner \ {s}}
         /\ Changing = scan[s].changed \cup UNION {scan[t].changed : t \in Scanner \ {s}}
<1>1. /\ scan' \in [Scanner -> Scan]
      /\ scan'[s] = r
      /\ \A t \in Scanner \ {s} : scan'[t] = scan[t]
  BY DEF TypeInv
<1>2. Changing' = r.changed \cup UNION {scan[t].changed : t \in Scanner \ {s}}
  BY <1>1 DEF Changing
<1>3. Changing = scan[s].changed \cup UNION {scan[t].changed : t \in Scanner \ {s}}
  BY DEF Changing
<1> QED
  BY <1>1, <1>2, <1>3

\* What update_dirty_state does to the table.
LEMMA Marked ==
  ASSUME TypeInv, NEW s \in Scanner, MarkDirty(s)
  PROVE  /\ TableInv'
         /\ \A m \in Outdated(s) :
               /\ table'[m].status = "dirty"
               /\ table'[m].hash = HashOf(scan[s].read, m)
         /\ \A m \in Module \ Outdated(s) : table'[m] = table[m]
<1> DEFINE h(m) == HashOf(scan[s].read, m)
<1>1. PICK rowid \in NewRowids(Outdated(s)) :
        Upsert([m \in Outdated(s) |->
                 [rowid |-> rowid[m], hash |-> h(m), status |-> "dirty"]])
  BY DEF MarkDirty
<1>2. table' = [m \in Module |->
                  IF m \in Outdated(s)
                    THEN [rowid |-> rowid[m], hash |-> h(m), status |-> "dirty"]
                    ELSE table[m]]
  BY <1>1 DEF Upsert
<1>3. /\ Outdated(s) \subseteq Module
      /\ \A m \in Outdated(s) : h(m) \in Hash
  BY OutdatedType, HashType
<1> HIDE DEF h
<1>4. TableInv'
  BY <1>2, <1>3 DEF TypeInv, TableInv, Statuses
<1>5. \A m \in Outdated(s) : table'[m].status = "dirty" /\ table'[m].hash = h(m)
  BY <1>2, <1>3
<1>6. \A m \in Module \ Outdated(s) : table'[m] = table[m]
  BY <1>2
<1> QED
  BY <1>4, <1>5, <1>6 DEF h

\* What mark_current does to it.
LEMMA MarkedCurrent ==
  ASSUME TypeInv, MarkCurrent
  PROVE  /\ Head(work) \in Todo
         /\ TableInv'
         /\ table'[Head(work).module].status = "current"
         /\ table'[Head(work).module].hash = Head(work).hash
         /\ \A m \in Module \ {Head(work).module} : table'[m] = table[m]
<1> DEFINE h == Head(work)
<1>1. h \in Todo
  BY DEF TypeInv, MarkCurrent
<1>2. PICK rowid \in NewRowids({h.module}) :
        Upsert([n \in {h.module} |->
                  [rowid |-> rowid[h.module], hash |-> h.hash, status |-> "current"]])
  BY DEF MarkCurrent
<1> HIDE DEF h
<1>3. table' = [m \in Module |->
                  IF m = h.module
                    THEN [rowid |-> rowid[h.module], hash |-> h.hash, status |-> "current"]
                    ELSE table[m]]
  BY <1>2 DEF Upsert
<1>4. h.module \in Module /\ h.hash \in Hash
  BY <1>1 DEF Todo
<1>6. TableInv'
  BY <1>3, <1>4 DEF TypeInv, TableInv, Statuses
<1>7. table'[h.module] = [rowid |-> rowid[h.module], hash |-> h.hash, status |-> "current"]
  BY <1>3, <1>4
<1> QED
  BY <1>1, <1>3, <1>6, <1>7 DEF h

\* What an update begins with: rows as they are.
LEMMA Begun ==
  ASSUME TypeInv, StartUpdate
  PROVE  /\ work' \in Seq(Todo)
         /\ worker' # "idle" => work' # <<>>
         /\ \A i \in DOMAIN work' : work'[i].hash = table[work'[i].module].hash
<1> DEFINE n == Min({Cardinality(Dirty), MaxModules})
<1>1. PICK picked \in FirstDirty :
        work' = [i \in DOMAIN picked |-> [module |-> picked[i], hash |-> table[picked[i]].hash]]
  BY DEF StartUpdate
<1>2. IsFiniteSet(Dirty) /\ Cardinality(Dirty) \in Nat /\ MaxModules \in Nat \ {0}
  BY WikiStateAssumption, FS_Subset, FS_CardinalityType DEF Dirty
<1>3. n \in Nat /\ (Cardinality(Dirty) # 0 => n # 0)
  BY <1>2 DEF Min
<1> HIDE DEF n
<1>4. picked \in [1..n -> Dirty]
  BY <1>1 DEF FirstDirty, n
<1>5. \A i \in 1..n : picked[i] \in Module /\ table[picked[i]].hash \in Hash
  BY <1>4 DEF Dirty, TypeInv, TableInv
<1>6. work' \in [1..n -> Todo]
  BY <1>1, <1>4, <1>5 DEF Todo
<1>7. work' \in Seq(Todo) /\ Len(work') = n
  BY <1>3, <1>6
<1>8. ASSUME worker' # "idle"
      PROVE  work' # <<>>
  <2>1. Dirty # {}
    BY <1>8 DEF StartUpdate
  <2>2. Cardinality(Dirty) # 0
    BY <1>2, <2>1, FS_EmptySet
  <2> QED
    BY <1>3, <1>7, <2>2
<1>9. \A i \in DOMAIN work' : work'[i].hash = table[work'[i].module].hash
  BY <1>1, <1>4, <1>5
<1> QED
  BY <1>7, <1>8, <1>9

\* On to the next module: what is left of an update is a part of it.
LEMMA WorkLeft ==
  ASSUME TypeInv, worker # "idle", NextModule
  PROVE  /\ work' \in Seq(Todo)
         /\ worker' \in {"idle", "gather"}
         /\ worker' # "idle" => work' # <<>>
         /\ \A i \in DOMAIN work' : i + 1 \in DOMAIN work /\ work'[i] = work[i + 1]
         /\ gathered' = Absent
<1>1. work \in Seq(Todo) /\ work # <<>> /\ work' = Tail(work)
  BY DEF TypeInv, NextModule
<1>2. work' \in Seq(Todo) /\ Len(work') = Len(work) - 1 /\ Len(work) \in Nat \ {0}
  BY <1>1
<1>3. \A i \in DOMAIN work' : i + 1 \in DOMAIN work /\ work'[i] = work[i + 1]
  BY <1>1, <1>2
<1>4. worker' # "idle" => Len(work') # 0
  BY <1>2 DEF NextModule
<1> QED
  BY <1>2, <1>3, <1>4 DEF NextModule

\* The module an update is at is before it.
LEMMA HeadType ==
  ASSUME TypeInv, worker # "idle"
  PROVE  /\ 1 \in DOMAIN work /\ Head(work) = work[1]
         /\ Head(work).module \in Module /\ Head(work).hash \in Hash
         /\ Head(work).module \in UnderWay
<1>1. work \in Seq(Todo) /\ work # <<>>
  BY DEF TypeInv
<1>2. 1 \in DOMAIN work /\ Head(work) = work[1] /\ Head(work) \in Todo
  BY <1>1
<1> QED
  BY <1>2 DEF Todo, UnderWay

-----------------------------------------------------------------------------
(* The steps of a scan.                                                    *)

LEMMA InitInv == Init => Inv
<1> SUFFICES ASSUME Init PROVE Inv
  OBVIOUS
<1>1. NoRow.hash \in Hash /\ NoRow.status = "none"
  <2>1. 0 \in 0..Cardinality(File)
    BY WikiStateAssumption, FS_CardinalityType
  <2> QED
    BY <2>1 DEF NoRow, Hash
<1>2. TypeInv
  BY <1>1, NoScanType DEF Init, TypeInv, TableInv, Statuses
<1>3. \A m \in Module : FilesOf(m) = {}
  BY DEF Init, FilesOf
<1>4. ASSUME NEW m \in Module
      PROVE  Sound(m)
  <2>1. table[m].hash = HashOf(files, m) /\ ~StatusIs(m, "current")
    BY <1>1, EmptyHash DEF Init, StatusIs
  <2> QED
    BY <2>1 DEF Init, Sound, AtWork
<1> QED
  BY <1>2, <1>3, <1>4 DEF Inv, NothingUntracked

\* Steps that leave rows and updates alone keep what is sound if they change neither the
\* files of the module nor who is changing them.
LEMMA SoundKept ==
  ASSUME NEW m \in Module, Sound(m), UNCHANGED <<table, article, workerVars>>,
         m \in unsure => m \in unsure',
         m \in Changing' <=> m \in Changing,
         \A f \in File : ModuleOf[f] = m => files'[f] = files[f]
  PROVE  Sound(m)'
<1>1. HashOf(files', m) = HashOf(files, m)
  BY HashOfFiles
<1>2. HashOf(files, m)' = HashOf(files', m)
  BY DEF HashOf
<1> QED
  BY <1>1, <1>2 DEF Sound, AtWork, StatusIs, workerVars

LEMMA TypeKept ==
  ASSUME TypeInv, UNCHANGED <<table, article, workerVars>>,
         files' \in [File -> Content \cup {Absent}],
         scan' \in [Scanner -> Scan], \A s \in Scanner : ~scan'[s].on => scan'[s] = NoScan
  PROVE  TypeInv'
BY DEF TypeInv, TableInv, workerVars

LEMMA BeginScanInv ==
  ASSUME Inv, NEW s \in Scanner, NEW F \in SUBSET File, BeginScan(s, F)
  PROVE  Inv'
<1> DEFINE r == [NoScan EXCEPT
                  !.on = TRUE,
                  !.left = F,
                  !.stale = IF s = Daemon THEN {} ELSE {f \in File : files[f] # Absent}]
<1>1. /\ scan' = [scan EXCEPT ![s] = r]
      /\ UNCHANGED <<files, table, article, workerVars, unsure, unmarked>>
  BY DEF BeginScan
<1>2. r \in Scan /\ r.on /\ r.changed = {} /\ r.read = NoScan.read
  BY DEF NoScan, Scan
<1>3. TypeInv /\ scan[s] = NoScan
  BY DEF BeginScan, Inv, TypeInv
<1> HIDE DEF r
<1>4. /\ scan' \in [Scanner -> Scan]
      /\ scan'[s] = r
      /\ \A t \in Scanner \ {s} : scan'[t] = scan[t]
      /\ Changing' = r.changed \cup UNION {scan[t].changed : t \in Scanner \ {s}}
      /\ Changing = scan[s].changed \cup UNION {scan[t].changed : t \in Scanner \ {s}}
  BY <1>1, <1>2, <1>3, ScanEdit
<1>8. Changing' = Changing
  BY <1>2, <1>3, <1>4, NoScanType
<1>5. TypeInv'
  BY <1>1, <1>2, <1>3, <1>4, TypeKept DEF TypeInv
<1>6. NothingUntracked'
  <2>1. \A t \in Scanner : scan'[t].read = scan[t].read
    BY <1>2, <1>3, <1>4
  <2> QED
    BY <1>1, <2>1 DEF Inv, NothingUntracked, FilesOf, Tracked, StatusIs, Looked
<1>7. \A m \in Module : Sound(m)'
  BY <1>1, <1>8, SoundKept DEF Inv
<1> QED
  BY <1>5, <1>6, <1>7 DEF Inv

LEMMA SkipFileInv ==
  ASSUME Inv, NEW s \in Scanner, NEW f \in File, SkipFile(s, f)
  PROVE  Inv'
<1> DEFINE r == [scan[s] EXCEPT !.left = @ \ {f}]
<1>1. /\ scan' = [scan EXCEPT ![s] = r]
      /\ UNCHANGED <<files, table, article, workerVars, unsure, unmarked>>
  BY DEF SkipFile
<1>2. TypeInv /\ scan[s] \in Scan /\ scan[s].on
  BY DEF SkipFile, Inv, TypeInv, NoScan
<1>3. r \in Scan /\ r.on /\ r.changed = scan[s].changed /\ r.read = scan[s].read
  BY <1>2 DEF Scan
<1> HIDE DEF r
<1>4. /\ scan' \in [Scanner -> Scan]
      /\ scan'[s] = r
      /\ \A t \in Scanner \ {s} : scan'[t] = scan[t]
      /\ Changing' = r.changed \cup UNION {scan[t].changed : t \in Scanner \ {s}}
      /\ Changing = scan[s].changed \cup UNION {scan[t].changed : t \in Scanner \ {s}}
  BY <1>1, <1>2, <1>3, ScanEdit
<1>8. Changing' = Changing
  BY <1>3, <1>4
<1>5. TypeInv'
  BY <1>1, <1>2, <1>3, <1>4, TypeKept DEF TypeInv
<1>6. NothingUntracked'
  <2>1. \A t \in Scanner : scan'[t].read = scan[t].read
    BY <1>3, <1>4
  <2> QED
    BY <1>1, <2>1 DEF Inv, NothingUntracked, FilesOf, Tracked, StatusIs, Looked
<1>7. \A m \in Module : Sound(m)'
  BY <1>1, <1>8, SoundKept DEF Inv
<1> QED
  BY <1>5, <1>6, <1>7 DEF Inv

\* A step of a scan that writes the index: the module of the file counts as changing from
\* now on, or the index has not changed.
LEMMA StoreSound ==
  ASSUME Inv, NEW s \in Scanner, NEW f \in File, NEW c \in Content \cup {Absent}, NEW r \in Scan,
         Store(f, c), scan' = [scan EXCEPT ![s] = r],
         r.changed = WithChange(scan[s].changed, f, c),
         UNCHANGED <<table, article, workerVars>>
  PROVE  /\ files' \in [File -> Content \cup {Absent}]
         /\ files'[f] = c /\ \A g \in File \ {f} : files'[g] = files[g]
         /\ \A m \in Module : Sound(m)'
<1>1. /\ files' \in [File -> Content \cup {Absent}]
      /\ files'[f] = c /\ \A g \in File \ {f} : files'[g] = files[g]
  BY DEF Store, Inv, TypeInv
<1>2. /\ Changing' = r.changed \cup UNION {scan[t].changed : t \in Scanner \ {s}}
      /\ Changing = scan[s].changed \cup UNION {scan[t].changed : t \in Scanner \ {s}}
  BY ScanEdit DEF Inv
<1>3. ASSUME NEW m \in Module
      PROVE  Sound(m)'
  <2>1. Sound(m)
    BY DEF Inv
  <2>2. CASE files[f] = c
    <3>1. Changing' = Changing /\ unsure' = unsure
      BY <1>2, <2>2 DEF WithChange, Store
    <3>2. \A g \in File : files'[g] = files[g]
      BY <1>1, <2>2
    <3> QED
      BY <2>1, <3>1, <3>2, SoundKept
  <2>3. CASE files[f] # c /\ m # ModuleOf[f]
    <3>1. m \in Changing' <=> m \in Changing
      BY <1>2, <2>3 DEF WithChange
    <3>2. m \in unsure => m \in unsure'
      BY DEF Store
    <3>3. \A g \in File : ModuleOf[g] = m => files'[g] = files[g]
      BY <1>1, <2>3
    <3> QED
      BY <2>1, <3>1, <3>2, <3>3, SoundKept
  <2>4. CASE files[f] # c /\ m = ModuleOf[f]
    <3> SUFFICES ASSUME m \notin unsure' PROVE Sound(m)'
      BY DEF Sound
    <3>1. m \in Changing'
      BY <1>2, <2>4 DEF WithChange
    <3>2. m \notin unsure /\ m \notin UnderWay
      BY <2>4 DEF Store
    <3>3. \A i \in DOMAIN work : work[i].module # m
      BY <3>2 DEF UnderWay
    <3>4. worker # "idle" => Head(work).module # m
      BY <3>2, HeadType DEF Inv
    <3> QED
      BY <2>1, <3>1, <3>2, <3>3, <3>4 DEF Sound, AtWork, StatusIs, workerVars
  <2> QED
    BY <2>2, <2>3, <2>4
<1> QED
  BY <1>1, <1>3

LEMMA IndexFileInv ==
  ASSUME Inv, NEW s \in Scanner, NEW f \in File, NEW c \in Content, IndexFile(s, f, c)
  PROVE  Inv'
<1> DEFINE r == [scan[s] EXCEPT !.left = @ \ {f}, !.stale = @ \ {f}, !.read[f] = c,
                                !.changed = WithChange(@, f, c)]
<1>1. /\ scan' = [scan EXCEPT ![s] = r]
      /\ Store(f, c)
      /\ UNCHANGED <<table, article, workerVars, unmarked>>
  BY DEF IndexFile
<1>2. TypeInv /\ scan[s] \in Scan /\ scan[s].on
  BY DEF IndexFile, Inv, TypeInv, NoScan
<1>3. /\ r \in Scan /\ r.on
      /\ r.changed = WithChange(scan[s].changed, f, c)
      /\ r.read = [scan[s].read EXCEPT ![f] = c]
  <2>1. /\ scan[s].read \in [File -> Content \cup {Absent}]
        /\ [scan[s].read EXCEPT ![f] = c] \in [File -> Content \cup {Absent}]
    BY <1>2 DEF Scan
  <2>2. /\ scan[s].changed \subseteq Module
        /\ WithChange(scan[s].changed, f, c) \subseteq Module
    BY <1>2, WikiStateAssumption DEF Scan, WithChange
  <2> QED
    BY <1>2, <2>1, <2>2 DEF Scan
<1> HIDE DEF r
<1>4. /\ scan' \in [Scanner -> Scan]
      /\ scan'[s] = r
      /\ \A t \in Scanner \ {s} : scan'[t] = scan[t]
  BY <1>1, <1>2, <1>3, ScanEdit
<1>5. /\ files' \in [File -> Content \cup {Absent}]
      /\ files'[f] = c /\ \A g \in File \ {f} : files'[g] = files[g]
      /\ \A m \in Module : Sound(m)'
  BY <1>1, <1>3, StoreSound
<1>6. TypeInv'
  BY <1>1, <1>2, <1>3, <1>4, <1>5, TypeKept DEF TypeInv
<1>7. NothingUntracked'
  <2> SUFFICES ASSUME NEW m \in Module, FilesOf(m)' # {}, ~Tracked(m)', m \notin unmarked'
               PROVE  \E t \in Scanner : m \in Looked(t)'
    BY DEF NothingUntracked
  <2>1. scan[s].read \in [File -> Content \cup {Absent}] /\ c # Absent
    BY <1>2, WikiStateAssumption DEF Scan
  <2>2. scan'[s].read = [scan[s].read EXCEPT ![f] = c]
    BY <1>3, <1>4
  <2>3. CASE m = ModuleOf[f]
    <3>1. scan'[s].read[f] # Absent
      BY <2>1, <2>2
    <3> QED
      BY <2>3, <3>1 DEF Looked
  <2>4. CASE m # ModuleOf[f]
    <3>1. FilesOf(m) # {} /\ ~Tracked(m) /\ m \notin unmarked
      BY <1>1, <1>5, <2>4 DEF FilesOf, Tracked, StatusIs
    <3>2. PICK t \in Scanner : m \in Looked(t)
      BY <3>1 DEF Inv, NothingUntracked
    <3>3. \A g \in File : scan[t].read[g] # Absent => scan'[t].read[g] # Absent
      BY <1>4, <2>1, <2>2
    <3>4. m \in Looked(t)'
      BY <3>2, <3>3 DEF Looked
    <3> QED
      BY <3>4
  <2> QED
    BY <2>3, <2>4
<1> QED
  BY <1>5, <1>6, <1>7 DEF Inv

\* Without a file fewer modules are indexed.
LEMMA StillTracked ==
  ASSUME NothingUntracked, NEW f \in File, \A g \in File \ {f} : files'[g] = files[g],
         files'[f] = Absent, UNCHANGED <<table, unmarked>>,
         \A t \in Scanner : scan'[t].read = scan[t].read
  PROVE  NothingUntracked'
<1>1. \A m \in Module : FilesOf(m)' \subseteq FilesOf(m)
  BY DEF FilesOf
<1>2. \A m \in Module : Tracked(m)' <=> Tracked(m)
  BY DEF Tracked, StatusIs
<1>3. \A t \in Scanner : Looked(t)' = Looked(t)
  BY DEF Looked
<1> QED
  BY <1>1, <1>2, <1>3 DEF NothingUntracked

LEMMA DropStaleInv ==
  ASSUME Inv, NEW s \in Scanner, NEW f \in File, DropStale(s, f)
  PROVE  Inv'
<1> DEFINE r == [scan[s] EXCEPT !.stale = @ \ {f}, !.changed = WithChange(@, f, Absent)]
<1>1. /\ scan' = [scan EXCEPT ![s] = r]
      /\ Store(f, Absent)
      /\ UNCHANGED <<table, article, workerVars, unmarked>>
  BY DEF DropStale
<1>2. TypeInv /\ scan[s] \in Scan /\ scan[s].on
  BY DEF DropStale, Inv, TypeInv, NoScan
<1>3. /\ r \in Scan /\ r.on
      /\ r.changed = WithChange(scan[s].changed, f, Absent)
      /\ r.read = scan[s].read
  BY <1>2, WikiStateAssumption DEF Scan, WithChange
<1> HIDE DEF r
<1>4. /\ scan' \in [Scanner -> Scan]
      /\ scan'[s] = r
      /\ \A t \in Scanner \ {s} : scan'[t] = scan[t]
  BY <1>1, <1>2, <1>3, ScanEdit
<1>5. /\ files' \in [File -> Content \cup {Absent}]
      /\ files'[f] = Absent /\ \A g \in File \ {f} : files'[g] = files[g]
      /\ \A m \in Module : Sound(m)'
  BY <1>1, <1>3, StoreSound
<1>6. TypeInv'
  BY <1>1, <1>2, <1>3, <1>4, <1>5, TypeKept DEF TypeInv
<1>7. NothingUntracked'
  <2>1. \A t \in Scanner : scan'[t].read = scan[t].read
    BY <1>3, <1>4
  <2> QED
    BY <1>1, <1>5, <2>1, StillTracked DEF Inv
<1> QED
  BY <1>5, <1>6, <1>7 DEF Inv

LEMMA DeleteFileInv ==
  ASSUME Inv, NEW f \in File, DeleteFile(f)
  PROVE  Inv'
<1>1. /\ files' = [files EXCEPT ![f] = Absent]
      /\ unsure' = unsure \cup {ModuleOf[f]}
      /\ UNCHANGED <<table, article, scan, workerVars, unmarked>>
  BY DEF DeleteFile
<1>2. /\ files' \in [File -> Content \cup {Absent}]
      /\ files'[f] = Absent /\ \A g \in File \ {f} : files'[g] = files[g]
  BY <1>1 DEF Inv, TypeInv
<1>3. TypeInv'
  BY <1>1, <1>2, TypeKept DEF Inv, TypeInv
<1>4. NothingUntracked'
  BY <1>1, <1>2, StillTracked DEF Inv
<1>5. ASSUME NEW m \in Module
      PROVE  Sound(m)'
  <2>1. CASE m = ModuleOf[f]
    BY <1>1, <2>1 DEF Sound
  <2>2. CASE m # ModuleOf[f]
    <3>1. Changing' = Changing
      BY <1>1 DEF Changing
    <3>2. \A g \in File : ModuleOf[g] = m => files'[g] = files[g]
      BY <1>2, <2>2
    <3> QED
      BY <1>1, <3>1, <3>2, SoundKept DEF Inv
  <2> QED
    BY <2>1, <2>2
<1> QED
  BY <1>3, <1>4, <1>5 DEF Inv

-----------------------------------------------------------------------------
(* The end of a scan.                                                      *)

LEMMA MarkDirtyInv ==
  ASSUME Inv, NEW s \in Scanner, MarkDirty(s)
  PROVE  Inv'
<1>1. /\ scan' = [scan EXCEPT ![s] = NoScan]
      /\ unsure' = (unsure \ {m \in Outdated(s) : Exactly(s, m)})
                     \cup {m \in Outdated(s) \cup scan[s].changed : ~Exactly(s, m)}
      /\ unmarked' = unmarked \ Looked(s)
      /\ UNCHANGED <<files, article, worker, work, gathered>>
  BY DEF MarkDirty, workerVars
<1>2. /\ scan' \in [Scanner -> Scan]
      /\ scan'[s] = NoScan
      /\ \A t \in Scanner \ {s} : scan'[t] = scan[t]
      /\ Changing' = NoScan.changed \cup UNION {scan[t].changed : t \in Scanner \ {s}}
      /\ Changing = scan[s].changed \cup UNION {scan[t].changed : t \in Scanner \ {s}}
  BY <1>1, ScanEdit, NoScanType DEF Inv
<1>3. /\ TableInv'
      /\ \A m \in Outdated(s) :
            table'[m].status = "dirty" /\ table'[m].hash = HashOf(scan[s].read, m)
      /\ \A m \in Module \ Outdated(s) : table'[m] = table[m]
  BY Marked DEF Inv
<1>4. TypeInv'
  BY <1>1, <1>2, <1>3 DEF Inv, TypeInv
<1>5. \A m \in Looked(s) \ Outdated(s) : Tracked(m) /\ table[m].hash = HashOf(scan[s].read, m)
  BY DEF Outdated, Stored
<1>6. Outdated(s) \subseteq Looked(s) /\ Looked(s) \subseteq Module
  BY OutdatedType
<1>7. NothingUntracked'
  <2> SUFFICES ASSUME NEW m \in Module, FilesOf(m)' # {}, ~Tracked(m)', m \notin unmarked'
               PROVE  \E t \in Scanner : m \in Looked(t)'
    BY DEF NothingUntracked
  <2>1. m \notin Outdated(s) /\ ~Tracked(m)
    BY <1>3 DEF Tracked, StatusIs
  <2>2. m \notin Looked(s) /\ m \notin unmarked
    BY <1>1, <1>5, <2>1
  <2>3. FilesOf(m) # {}
    BY <1>1 DEF FilesOf
  <2>4. PICK t \in Scanner : m \in Looked(t)
    BY <2>1, <2>2, <2>3 DEF Inv, NothingUntracked
  <2>5. scan'[t] = scan[t]
    BY <1>2, <2>2, <2>4
  <2> QED
    BY <2>4, <2>5 DEF Looked
<1>8. ASSUME NEW m \in Module, m \notin unsure'
      PROVE  Sound(m)'
  <2>1. HashOf(files, m)' = HashOf(files, m)
    BY <1>1 DEF HashOf
  <2>2. Exactly(s, m) => HashOf(scan[s].read, m) = HashOf(files, m)
    BY HashOfFiles DEF Exactly
  <2>3. CASE m \in Outdated(s)
    <3>1. Exactly(s, m)
      BY <1>1, <1>8, <2>3
    <3>2. table'[m].hash = HashOf(files, m)' /\ ~StatusIs(m, "current")'
      BY <1>3, <2>1, <2>2, <2>3, <3>1 DEF StatusIs
    <3>3. m \notin UnderWay
      BY <3>1 DEF Exactly
    <3>4. \A i \in DOMAIN work' : work'[i].module # m
      BY <1>1, <3>3 DEF UnderWay
    <3>5. worker' # "idle" => Head(work').module # m
      BY <1>1, <3>3, HeadType DEF Inv
    <3> QED
      BY <3>2, <3>4, <3>5 DEF Sound, AtWork
  <2>4. CASE m \notin Outdated(s)
    <3>1. m \notin unsure /\ (m \in scan[s].changed => Exactly(s, m)) /\ table'[m] = table[m]
      BY <1>1, <1>3, <1>8, <2>4
    <3>2. Sound(m)
      BY DEF Inv
    <3>3. m \in Changing' => m \in Changing
      BY <1>2, NoScanType
    <3>4. m \notin Changing' => table[m].hash = HashOf(files, m)
      <4>1. CASE m \in scan[s].changed
        BY <1>5, <2>2, <2>4, <3>1, <4>1 DEF Exactly
      <4>2. CASE m \notin scan[s].changed
        BY <1>2, <3>1, <3>2, <4>2 DEF Sound
      <4> QED
        BY <4>1, <4>2
    <3> QED
      BY <1>1, <2>1, <3>1, <3>2, <3>3, <3>4 DEF Sound, AtWork, StatusIs
  <2> QED
    BY <2>3, <2>4
<1>9. \A m \in Module : Sound(m)'
  BY <1>8 DEF Sound
<1> QED
  BY <1>4, <1>7, <1>9 DEF Inv

\* A scan that ends without its mark: what it changed is excused.
LEMMA UnmarkedTracking ==
  ASSUME Inv, NEW s \in Scanner, Unmarked(s), UNCHANGED <<files, table>>
  PROVE  NothingUntracked'
<1>1. \A t \in Scanner \ {s} : scan'[t] = scan[t]
  BY DEF Unmarked, Inv, TypeInv
<1>2. \A m \in Module : FilesOf(m)' = FilesOf(m) /\ (Tracked(m)' <=> Tracked(m))
  BY DEF FilesOf, Tracked, StatusIs
<1>3. \A t \in Scanner \ {s} : Looked(t)' = Looked(t)
  BY <1>1 DEF Looked
<1>4. ASSUME NEW m \in Module, FilesOf(m)' # {}, ~Tracked(m)', m \notin unmarked'
      PROVE  \E t \in Scanner : m \in Looked(t)'
  <2>1. m \notin unmarked /\ m \notin Looked(s)
    BY <1>2, <1>4 DEF Unmarked
  <2>2. PICK t \in Scanner : m \in Looked(t)
    BY <1>2, <1>4, <2>1 DEF Inv, NothingUntracked
  <2> QED
    BY <1>3, <2>1, <2>2
<1> QED
  BY <1>4 DEF NothingUntracked

LEMMA InterruptInv ==
  ASSUME Inv, NEW s \in Scanner, Interrupt(s)
  PROVE  Inv'
<1>1. /\ scan' = [scan EXCEPT ![s] = NoScan]
      /\ unsure' = unsure \cup scan[s].changed
      /\ UNCHANGED <<files, table, article, workerVars>>
  BY DEF Interrupt, Unmarked
<1>2. /\ scan' \in [Scanner -> Scan]
      /\ scan'[s] = NoScan
      /\ \A t \in Scanner \ {s} : scan'[t] = scan[t]
      /\ Changing' = NoScan.changed \cup UNION {scan[t].changed : t \in Scanner \ {s}}
      /\ Changing = scan[s].changed \cup UNION {scan[t].changed : t \in Scanner \ {s}}
  BY <1>1, ScanEdit, NoScanType DEF Inv
<1>3. TypeInv'
  BY <1>1, <1>2, TypeKept DEF Inv, TypeInv
<1>4. NothingUntracked'
  BY <1>1, UnmarkedTracking DEF Interrupt
<1>5. ASSUME NEW m \in Module
      PROVE  Sound(m)'
  <2>1. CASE m \in scan[s].changed
    BY <1>1, <2>1 DEF Sound
  <2>2. CASE m \notin scan[s].changed
    <3>1. m \in Changing' <=> m \in Changing
      BY <1>2, <2>2, NoScanType
    <3> QED
      BY <1>1, <3>1, SoundKept DEF Inv
  <2> QED
    BY <2>1, <2>2
<1> QED
  BY <1>3, <1>4, <1>5 DEF Inv

\* A restart ends the daemon's scan, and an update between two of its steps.
LEMMA RestartInv == Inv /\ Restart => Inv'
<1> SUFFICES ASSUME Inv, Restart PROVE Inv'
  OBVIOUS
<1>1. /\ scan' = [scan EXCEPT ![Daemon] = NoScan]
      /\ unsure' = unsure \cup scan[Daemon].changed
      /\ worker' = "idle" /\ work' = <<>> /\ gathered' = Absent
      /\ UNCHANGED <<files, table, article>>
  BY DEF Restart, Unmarked
<1>2. /\ scan' \in [Scanner -> Scan]
      /\ scan'[Daemon] = NoScan
      /\ \A t \in Scanner \ {Daemon} : scan'[t] = scan[t]
      /\ Changing' = NoScan.changed \cup UNION {scan[t].changed : t \in Scanner \ {Daemon}}
      /\ Changing = scan[Daemon].changed \cup UNION {scan[t].changed : t \in Scanner \ {Daemon}}
  BY <1>1, ScanEdit, NoScanType, WikiStateAssumption DEF Inv
<1>3. TypeInv'
  BY <1>1, <1>2 DEF Inv, TypeInv, TableInv
<1>4. NothingUntracked'
  BY <1>1, UnmarkedTracking, WikiStateAssumption DEF Restart
<1>5. ASSUME NEW m \in Module, m \notin unsure'
      PROVE  Sound(m)'
  <2>1. m \notin unsure /\ m \notin scan[Daemon].changed
    BY <1>1, <1>5
  <2>2. m \in Changing' <=> m \in Changing
    BY <1>2, <2>1, NoScanType
  <2>3. HashOf(files, m)' = HashOf(files, m)
    BY <1>1 DEF HashOf
  <2> QED
    BY <1>1, <2>1, <2>2, <2>3 DEF Inv, Sound, AtWork, StatusIs
<1>6. \A m \in Module : Sound(m)'
  BY <1>5 DEF Sound
<1> QED
  BY <1>3, <1>4, <1>6 DEF Inv

-----------------------------------------------------------------------------
(* The steps of an update.                                                 *)

\* A step of an update that writes no row loses track of nothing.
LEMMA SameTracking ==
  ASSUME NothingUntracked, UNCHANGED <<files, scan, unmarked>>,
         \A m \in Module : Tracked(m) => Tracked(m)'
  PROVE  NothingUntracked'
BY DEF NothingUntracked, FilesOf, Looked

LEMMA SameIndex ==
  ASSUME UNCHANGED <<files, scan>>
  PROVE  Changing' = Changing /\ \A m \in Module : HashOf(files, m)' = HashOf(files, m)
BY DEF Changing, HashOf

\* An update reads the dirty rows; those of modules that are being changed are excused.
LEMMA StartUpdateInv == Inv /\ StartUpdate => Inv'
<1> SUFFICES ASSUME Inv, StartUpdate PROVE Inv'
  OBVIOUS
<1>1. /\ worker' \in {"idle", "gather"}
      /\ unsure' = unsure \cup (Changing \cap UnderWay')
      /\ UNCHANGED <<files, table, article, scan, gathered, unmarked>>
  BY DEF StartUpdate
<1>2. /\ work' \in Seq(Todo)
      /\ worker' # "idle" => work' # <<>>
      /\ \A i \in DOMAIN work' : work'[i].hash = table[work'[i].module].hash
  BY Begun DEF Inv
<1>3. TypeInv'
  BY <1>1, <1>2 DEF Inv, TypeInv, TableInv
<1>4. NothingUntracked'
  BY <1>1, SameTracking DEF Inv, Tracked, StatusIs
<1>5. ASSUME NEW m \in Module, m \notin unsure'
      PROVE  Sound(m)'
  <2>1. m \notin unsure /\ m \notin Changing \cap UnderWay'
    BY <1>1, <1>5
  <2>2. \A i \in DOMAIN work' :
          work'[i].module = m => m \notin Changing /\ work'[i].hash = table[m].hash
    BY <1>2, <2>1 DEF UnderWay
  <2>3. Changing' = Changing /\ HashOf(files, m)' = HashOf(files, m)
    BY <1>1, SameIndex
  <2> QED
    BY <1>1, <2>1, <2>2, <2>3 DEF Inv, Sound, AtWork, StatusIs
<1>6. \A m \in Module : Sound(m)'
  BY <1>5 DEF Sound
<1> QED
  BY <1>3, <1>4, <1>6 DEF Inv

LEMMA GatherInv == Inv /\ Gather => Inv'
<1> SUFFICES ASSUME Inv, Gather PROVE Inv'
  OBVIOUS
<1>1. /\ worker = "gather" /\ worker' = "generate"
      /\ gathered' = HashOf(files, Head(work).module)
      /\ UNCHANGED <<files, table, article, scan, work, unsure, unmarked>>
  BY DEF Gather
<1>2. 1 \in DOMAIN work /\ Head(work) = work[1] /\ Head(work).module \in Module
  BY <1>1, HeadType DEF Inv
<1>3. gathered' \in Hash
  BY <1>1, HashType
<1>4. TypeInv'
  BY <1>1, <1>3 DEF Inv, TypeInv, TableInv
<1>5. NothingUntracked'
  BY <1>1, SameTracking DEF Inv, Tracked, StatusIs
<1>6. ASSUME NEW m \in Module, m \notin unsure
      PROVE  Sound(m)'
  <2>1. Changing' = Changing /\ HashOf(files, m)' = HashOf(files, m)
    BY <1>1, SameIndex
  <2>2. Head(work).module = m => gathered' = Head(work).hash
    BY <1>1, <1>2, <1>6 DEF Inv, Sound
  <2> QED
    BY <1>1, <1>6, <2>1, <2>2 DEF Inv, Sound, AtWork, StatusIs
<1>7. \A m \in Module : Sound(m)'
  BY <1>1, <1>6 DEF Sound
<1> QED
  BY <1>4, <1>5, <1>7 DEF Inv

\* When an update goes on to its next module, what holds of a module but for the update's
\* work at it holds on.
LEMMA OnToNext ==
  ASSUME TypeInv, worker # "idle", NextModule, UNCHANGED <<files, scan, article, unsure>>,
         NEW m \in Module, Sound(m), m \notin unsure,
         table'[m].hash = table[m].hash, StatusIs(m, "current")' => article[m] = table[m].hash
  PROVE  Sound(m)'
<1>1. /\ worker' \in {"idle", "gather"}
      /\ \A i \in DOMAIN work' : i + 1 \in DOMAIN work /\ work'[i] = work[i + 1]
  BY WorkLeft
<1>2. Changing' = Changing /\ HashOf(files, m)' = HashOf(files, m)
  BY SameIndex
<1>3. \A i \in DOMAIN work' :
        work'[i].module = m => m \notin Changing /\ work'[i].hash = table[m].hash
  BY <1>1 DEF Sound
<1> QED
  BY <1>1, <1>2, <1>3 DEF Sound, AtWork

LEMMA GenerateInv == Inv /\ Generate => Inv'
<1> SUFFICES ASSUME Inv, Generate PROVE Inv'
  OBVIOUS
<1>1. /\ worker = "generate"
      /\ UNCHANGED <<files, table, article, scan, unsure, unmarked>>
  BY DEF Generate
<1>2. NothingUntracked'
  BY <1>1, SameTracking DEF Inv, Tracked, StatusIs
<1>3. CASE Head(work).module \notin Broken
  <2>1. worker' = "publish" /\ UNCHANGED <<work, gathered>>
    BY <1>3 DEF Generate
  <2>2. TypeInv'
    BY <1>1, <2>1 DEF Inv, TypeInv, TableInv
  <2>3. ASSUME NEW m \in Module
        PROVE  Sound(m)'
    <3>1. Changing' = Changing /\ HashOf(files, m)' = HashOf(files, m)
      BY <1>1, SameIndex
    <3> QED
      BY <1>1, <2>1, <3>1 DEF Inv, Sound, AtWork, StatusIs
  <2> QED
    BY <1>2, <2>2, <2>3 DEF Inv
<1>4. CASE Head(work).module \in Broken
  <2>1. NextModule
    BY <1>4 DEF Generate
  <2>2. /\ work' \in Seq(Todo)
        /\ worker' \in {"idle", "gather"}
        /\ worker' # "idle" => work' # <<>>
        /\ gathered' = Absent
    BY <1>1, <2>1, WorkLeft DEF Inv
  <2>3. TypeInv'
    BY <1>1, <2>2 DEF Inv, TypeInv, TableInv
  <2>4. ASSUME NEW m \in Module, m \notin unsure
        PROVE  Sound(m)'
    <3>1. StatusIs(m, "current")' => article[m] = table[m].hash
      BY <1>1, <2>4 DEF Inv, Sound, StatusIs
    <3> QED
      BY <1>1, <2>1, <2>4, <3>1, OnToNext DEF Inv
  <2>5. \A m \in Module : Sound(m)'
    BY <1>1, <2>4 DEF Sound
  <2> QED
    BY <1>2, <2>3, <2>5 DEF Inv
<1> QED
  BY <1>3, <1>4

LEMMA PublishArticleInv == Inv /\ PublishArticle => Inv'
<1> SUFFICES ASSUME Inv, PublishArticle PROVE Inv'
  OBVIOUS
<1> DEFINE m0 == Head(work).module
<1>1. /\ worker = "publish" /\ worker' = "mark"
      /\ article' = [article EXCEPT ![m0] = gathered]
      /\ UNCHANGED <<files, table, scan, work, gathered, unsure, unmarked>>
  BY DEF PublishArticle
<1>2. 1 \in DOMAIN work /\ Head(work) = work[1] /\ m0 \in Module
  BY <1>1, HeadType DEF Inv
<1>3. article' \in [Module -> Hash \cup {Absent}]
  BY <1>1, <1>2 DEF Inv, TypeInv
<1>4. TypeInv'
  BY <1>1, <1>3 DEF Inv, TypeInv, TableInv
<1>5. NothingUntracked'
  BY <1>1, SameTracking DEF Inv, Tracked, StatusIs
<1>6. article'[m0] = gathered /\ \A m \in Module \ {m0} : article'[m] = article[m]
  BY <1>1, <1>2 DEF Inv, TypeInv
<1>7. ASSUME NEW m \in Module, m \notin unsure
      PROVE  Sound(m)'
  <2>1. Changing' = Changing /\ HashOf(files, m)' = HashOf(files, m)
    BY <1>1, SameIndex
  <2>2. Sound(m)
    BY DEF Inv
  <2>3. m = m0 => gathered = Head(work).hash /\ Head(work).hash = table[m].hash
    BY <1>1, <1>2, <1>7, <2>2 DEF Sound, AtWork
  <2>4. StatusIs(m, "current")' => article'[m] = table'[m].hash
    BY <1>1, <1>6, <1>7, <2>2, <2>3 DEF Sound, StatusIs
  <2>5. AtWork(m)'
    BY <1>1, <1>6, <2>3 DEF AtWork
  <2>6. \A i \in DOMAIN work' :
          work'[i].module = m => m \notin Changing' /\ work'[i].hash = table'[m].hash
    BY <1>1, <1>7, <2>1, <2>2 DEF Sound
  <2>7. m \notin Changing' => table'[m].hash = HashOf(files, m)'
    BY <1>1, <1>7, <2>1, <2>2 DEF Sound
  <2> QED
    BY <2>4, <2>5, <2>6, <2>7 DEF Sound
<1>8. \A m \in Module : Sound(m)'
  BY <1>1, <1>7 DEF Sound
<1> QED
  BY <1>4, <1>5, <1>8 DEF Inv

\* mark_current: the row keeps its hash, and the article is generated from it.
LEMMA MarkCurrentInv == Inv /\ MarkCurrent => Inv'
<1> SUFFICES ASSUME Inv, MarkCurrent PROVE Inv'
  OBVIOUS
<1> DEFINE m0 == Head(work).module
<1>1. /\ worker = "mark" /\ NextModule
      /\ UNCHANGED <<files, article, scan, unsure, unmarked>>
  BY DEF MarkCurrent
<1>2. 1 \in DOMAIN work /\ Head(work) = work[1] /\ m0 \in Module
  BY <1>1, HeadType DEF Inv
<1>3. /\ TableInv'
      /\ table'[m0].status = "current" /\ table'[m0].hash = Head(work).hash
      /\ \A m \in Module \ {m0} : table'[m] = table[m]
  BY MarkedCurrent DEF Inv
<1>4. /\ work' \in Seq(Todo)
      /\ worker' \in {"idle", "gather"}
      /\ worker' # "idle" => work' # <<>>
      /\ gathered' = Absent
  BY <1>1, WorkLeft DEF Inv
<1>5. TypeInv'
  BY <1>1, <1>3, <1>4 DEF Inv, TypeInv
<1>6. NothingUntracked'
  <2>1. \A m \in Module : Tracked(m) => Tracked(m)'
    BY <1>3 DEF Tracked, StatusIs
  <2> QED
    BY <1>1, <2>1, SameTracking DEF Inv
<1>7. ASSUME NEW m \in Module, m \notin unsure
      PROVE  Sound(m)'
  <2>1. Sound(m)
    BY DEF Inv
  <2>2. /\ table'[m].hash = table[m].hash
        /\ StatusIs(m, "current")' => article[m] = table[m].hash
    <3>1. CASE m = m0
      BY <1>1, <1>2, <1>3, <1>7, <2>1, <3>1 DEF Sound, AtWork
    <3>2. CASE m # m0
      BY <1>3, <1>7, <2>1, <3>2 DEF Sound, StatusIs
    <3> QED
      BY <3>1, <3>2
  <2> QED
    BY <1>1, <1>7, <2>1, <2>2, OnToNext DEF Inv
<1>8. \A m \in Module : Sound(m)'
  BY <1>1, <1>7 DEF Sound
<1> QED
  BY <1>5, <1>6, <1>8 DEF Inv

LEMMA NextInv == Inv /\ [Next]_vars => Inv'
<1> SUFFICES ASSUME Inv, [Next]_vars PROVE Inv'
  OBVIOUS
<1>1. CASE UNCHANGED vars
  BY <1>1 DEF vars, workerVars, Inv, TypeInv, TableInv, NothingUntracked, Sound, AtWork,
              Changing, Looked, Tracked, StatusIs, FilesOf, HashOf
<1>2. CASE WorkerStep
  BY <1>2, StartUpdateInv, GatherInv, GenerateInv, PublishArticleInv, MarkCurrentInv
     DEF WorkerStep
<1>3. ASSUME NEW s \in Scanner, ScanStep(s)
      PROVE  Inv'
  <2>1. ASSUME NEW F \in SUBSET File, BeginScan(s, F)
        PROVE  Inv'
    BY <2>1, BeginScanInv
  <2>2. ASSUME NEW f \in File, SkipFile(s, f) \/ DropStale(s, f)
        PROVE  Inv'
    BY <2>2, SkipFileInv, DropStaleInv
  <2>3. ASSUME NEW f \in File, NEW c \in ContentOf[f], IndexFile(s, f, c)
        PROVE  Inv'
    BY <2>3, IndexFileInv, WikiStateAssumption
  <2> QED
    BY <1>3, <2>1, <2>2, <2>3, MarkDirtyInv, InterruptInv DEF ScanStep
<1>4. ASSUME NEW f \in File, DeleteFile(f)
      PROVE  Inv'
  BY <1>4, DeleteFileInv
<1> QED
  BY <1>1, <1>2, <1>3, <1>4, RestartInv DEF Next

-----------------------------------------------------------------------------
(* The theorems.                                                           *)

\* Every indexed module has a row, unless the last scan to look at it is still at work,
\* failed or was killed before its mark, however scans, deletions, updates and restarts
\* interleave, for any scanners, files and modules.
THEOREM EveryModuleIsKnown == Spec => []NothingUntracked
<1>1. Inv => NothingUntracked
  BY DEF Inv
<1> QED
  BY <1>1, InitInv, NextInv, PTL DEF Spec

\* Every current article was generated from the module's files as they are indexed, once
\* each scan that changed them has read them all and marked, with no update under way for
\* the module, however else scans, deletions, updates, errors and kills interleave.
THEOREM ArticlesAreFaithful == Spec => []CurrentIsFaithful
<1>1. Inv => CurrentIsFaithful
  BY DEF Inv, Sound, CurrentIsFaithful
<1> QED
  BY <1>1, InitInv, NextInv, PTL DEF Spec

-----------------------------------------------------------------------------
(* The background refresh.                                                   *)

Signalling == \A c \in Command : pc[c] = "signal" => child[c] \in Runner

LockTypeInv == LockTypeOK /\ Signalling

-----------------------------------------------------------------------------
(* LockTypeOK.                                                                 *)

LEMMA InitLockTypeInv == RefreshInit => LockTypeInv
<1> SUFFICES ASSUME RefreshInit PROVE LockTypeInv
  OBVIOUS
<1>1. pc \in [Process -> CommandPhase \cup RunnerPhase \cup WritePhase]
  BY DEF RefreshInit, CommandPhase, RunnerPhase
<1>2. /\ \A c \in Command : pc[c] = "idle"
      /\ \A r \in Runner : pc[r] = "unborn"
  BY WikiRefreshAssumption DEF RefreshInit, Process
<1> QED
  BY <1>1, <1>2
     DEF RefreshInit, LockTypeInv, LockTypeOK, Signalling, Payload, CommandPhase, RunnerPhase, WritePhase

\* A step that moves one process to a phase of its kind keeps the phases typed.
LEMMA GotoType ==
  ASSUME LockTypeInv, NEW p \in Process, NEW phase, Goto(p, phase),
         \/ p \in Command /\ phase \in (CommandPhase \cup WritePhase)
         \/ p \in Runner /\ phase \in RunnerPhase \cup WritePhase
  PROVE  /\ pc' \in [Process -> CommandPhase \cup RunnerPhase \cup WritePhase]
         /\ \A c \in Command : pc'[c] \in CommandPhase \cup WritePhase
         /\ \A r \in Runner : pc'[r] \in RunnerPhase \cup WritePhase
BY WikiRefreshAssumption DEF Goto, LockTypeInv, LockTypeOK, Process

\* The operations on the two files keep them typed.
LEMMA FilesType ==
  ASSUME LockTypeInv, NEW p \in Process, UnlinkLock \/ RenameFiles(p) \/ WriteThrough(p)
  PROVE  /\ lock' \in Payload \cup {NoFile, Torn}
         /\ tmp' \in Payload \cup {NoFile, Torn}
         /\ UnlinkLock \/ RenameFiles(p) => fd' \in [Process -> {"none", "lock", "tmp", "gone"}]
<1>1. CASE UnlinkLock
  BY <1>1 DEF UnlinkLock, LockTypeInv, LockTypeOK
<1>2. CASE RenameFiles(p)
  BY <1>2 DEF RenameFiles, LockTypeInv, LockTypeOK
<1>3. CASE WriteThrough(p) /\ ~UnlinkLock /\ ~RenameFiles(p)
  <2>1. buf[p] \in Payload
    BY DEF LockTypeInv, LockTypeOK
  <2> QED
    BY <1>3, <2>1 DEF WriteThrough, LockTypeInv, LockTypeOK
<1> QED
  BY <1>1, <1>2, <1>3

\* _atomic_write_lock, for commands and runners.
LEMMA WriteTypeInv ==
  ASSUME LockTypeInv, NEW p \in Process, WriteStep(p)
  PROVE  LockTypeInv'
<1> USE DEF CommandPhase, RunnerPhase, WritePhase
<1>0. \/ p \in Command /\ p \notin Runner
      \/ p \in Runner /\ p \notin Command
  BY WikiRefreshAssumption DEF Process
<1>1. CASE OpenTmp(p)
  <2>1. tmp' \in Payload \cup {NoFile, Torn} /\ fd' \in [Process -> {"none", "lock", "tmp", "gone"}]
    BY <1>1 DEF OpenTmp, LockTypeInv, LockTypeOK
  <2>2. CASE Goto(p, "write")
    BY <1>0, <1>1, <2>1, <2>2, GotoType DEF OpenTmp, Goto, LockTypeInv, LockTypeOK, Signalling
  <2>3. CASE Goto(p, "rename")
    BY <1>0, <1>1, <2>1, <2>3, GotoType DEF OpenTmp, Goto, LockTypeInv, LockTypeOK, Signalling
  <2> QED
    BY <1>1, <2>2, <2>3 DEF OpenTmp
<1>2. CASE WriteTmp(p)
  BY <1>0, <1>2, GotoType, FilesType DEF WriteTmp, Goto, LockTypeInv, LockTypeOK, Signalling
<1>3. CASE RenameTmp(p)
  <2>1. PICK phase \in {"idle", "work", "last"} :
           Goto(p, phase) /\ (phase = "idle" <=> p \in Command)
    BY <1>0, <1>3 DEF RenameTmp, AfterWrite
  <2>2. /\ pc' \in [Process -> CommandPhase \cup RunnerPhase \cup WritePhase]
        /\ \A c \in Command : pc'[c] \in CommandPhase \cup WritePhase
        /\ \A r \in Runner : pc'[r] \in RunnerPhase \cup WritePhase
    BY <1>0, <2>1, GotoType
  <2>3. Signalling'
    BY <1>3, <2>1 DEF RenameTmp, Goto, LockTypeInv, LockTypeOK, Signalling
  <2>4. ended' \in [Runner -> {"no", "clean", "crash", "term", "killed"}]
    BY <1>0, <1>3 DEF RenameTmp, LockTypeInv, LockTypeOK
  <2>5. /\ lock' \in Payload \cup {NoFile, Torn}
        /\ tmp' \in Payload \cup {NoFile, Torn}
        /\ fd' \in [Process -> {"none", "lock", "tmp", "gone"}]
    BY <1>3, FilesType DEF RenameTmp, LockTypeInv, LockTypeOK
  <2> QED
    BY <1>3, <2>2, <2>3, <2>4, <2>5 DEF RenameTmp, LockTypeInv, LockTypeOK
<1> QED
  BY <1>1, <1>2, <1>3 DEF WriteStep

LEMMA CommandTypeInv ==
  ASSUME LockTypeInv, NEW c \in Command, CommandStep(c)
  PROVE  LockTypeInv'
<1> USE DEF CommandPhase, RunnerPhase, WritePhase
<1>0. c \in Process /\ c \notin Runner
  BY WikiRefreshAssumption DEF Process
<1>1. CASE StartRead(c)
  BY <1>0, <1>1, GotoType DEF StartRead, Goto, LockTypeInv, LockTypeOK, Signalling
<1>2. CASE StartUnlink(c)
  BY <1>0, <1>2, GotoType, FilesType DEF StartUnlink, Goto, LockTypeInv, LockTypeOK, Signalling
<1>3. ASSUME NEW r \in Runner, Spawn(c, r) PROVE LockTypeInv'
  <2>1. r \in Process /\ r \in Payload /\ r \notin Command
    BY WikiRefreshAssumption DEF Process, Payload
  <2>2. /\ pc' \in [Process -> CommandPhase \cup RunnerPhase \cup WritePhase]
        /\ \A p \in Process \ {c, r} : pc'[p] = pc[p]
        /\ pc'[c] = "open" /\ pc'[r] = "boot"
    BY <1>0, <1>3, <2>1 DEF Spawn, LockTypeInv, LockTypeOK
  <2>3. /\ \A d \in Command : pc'[d] \in CommandPhase \cup WritePhase
        /\ \A q \in Runner : pc'[q] \in RunnerPhase \cup WritePhase
        /\ Signalling'
    BY <1>0, <1>3, <2>1, <2>2 DEF Spawn, LockTypeInv, LockTypeOK, Signalling, Process
  <2> QED
    BY <1>0, <1>3, <2>1, <2>2, <2>3 DEF Spawn, LockTypeInv, LockTypeOK
<1>4. CASE CancelRead(c)
  <2>1. CASE InProgress /\ lock # NoPid /\ Goto(c, "signal") /\ child' = [child EXCEPT ![c] = lock]
    <3>1. lock \in Runner /\ lock \in Payload
      BY <2>1 DEF InProgress, Readable, LockTypeInv, LockTypeOK, Payload
    <3> QED
      BY <1>0, <1>4, <2>1, <3>1, GotoType DEF CancelRead, Goto, LockTypeInv, LockTypeOK, Signalling
  <2>2. CASE Goto(c, "drop") /\ UNCHANGED child
    BY <1>0, <1>4, <2>2, GotoType DEF CancelRead, Goto, LockTypeInv, LockTypeOK, Signalling
  <2> QED
    BY <1>4, <2>1, <2>2 DEF CancelRead
<1>5. CASE CancelSignal(c)
  <2>1. pc[c] = "signal" /\ child[c] \in Runner /\ child[c] \in Process /\ child[c] \notin Command
    BY <1>5, WikiRefreshAssumption DEF CancelSignal, LockTypeInv, Signalling, Process
  <2>2. child' \in [Command -> Payload]
    BY <1>5 DEF CancelSignal, LockTypeInv, LockTypeOK, Payload
  <2>3. CASE Alive(child[c])
    <3>1. /\ pc' \in [Process -> CommandPhase \cup RunnerPhase \cup WritePhase]
          /\ \A p \in Process \ {c, child[c]} : pc'[p] = pc[p]
          /\ pc'[c] = "idle" /\ pc'[child[c]] \in {"last", "dead"}
      BY <1>0, <1>5, <2>1, <2>3 DEF CancelSignal, AfterSigterm, LockTypeInv, LockTypeOK
    <3>2. /\ \A d \in Command : pc'[d] \in CommandPhase \cup WritePhase
          /\ \A q \in Runner : pc'[q] \in RunnerPhase \cup WritePhase
          /\ Signalling'
      BY <1>0, <1>5, <2>1, <3>1 DEF CancelSignal, LockTypeInv, LockTypeOK, Signalling, Process
    <3> QED
      BY <1>0, <1>5, <2>1, <2>2, <2>3, <3>1, <3>2 DEF CancelSignal, LockTypeInv, LockTypeOK
  <2>4. CASE ~Alive(child[c])
    <3>1. Goto(c, "drop") /\ UNCHANGED <<fd, ended>>
      BY <1>5, <2>4 DEF CancelSignal
    <3>2. Signalling'
      BY <1>0, <1>5, <3>1 DEF CancelSignal, Goto, LockTypeInv, LockTypeOK, Signalling
    <3> QED
      BY <1>0, <1>5, <2>2, <3>1, <3>2, GotoType DEF CancelSignal, LockTypeInv, LockTypeOK
  <2> QED
    BY <2>3, <2>4
<1>6. CASE CancelDrop(c)
  BY <1>0, <1>6, GotoType, FilesType DEF CancelDrop, Goto, LockTypeInv, LockTypeOK, Signalling
<1>7. CASE WriteStep(c)
  BY <1>0, <1>7, WriteTypeInv
<1> QED
  BY <1>1, <1>2, <1>3, <1>4, <1>5, <1>6, <1>7 DEF CommandStep

LEMMA RunnerTypeInv ==
  ASSUME LockTypeInv, NEW r \in Runner, RunnerStep(r) \/ Kill(r) \/ Expire(r)
  PROVE  LockTypeInv'
<1> USE DEF CommandPhase, RunnerPhase, WritePhase
<1>0. r \in Process /\ r \notin Command /\ r \in Payload /\ NoPid \in Payload
  BY WikiRefreshAssumption DEF Process, Payload
<1>1. CASE InitOpen(r)
  <2>1. /\ lock' \in Payload \cup {NoFile, Torn}
        /\ fd' \in [Process -> {"none", "lock", "tmp", "gone"}]
        /\ buf' \in [Process -> Payload]
    BY <1>0, <1>1 DEF InitOpen, LockTypeInv, LockTypeOK
  <2>2. CASE Goto(r, "init")
    BY <1>0, <1>1, <2>1, <2>2, GotoType DEF InitOpen, Goto, LockTypeInv, LockTypeOK, Signalling
  <2>3. CASE Goto(r, "unguarded")
    BY <1>0, <1>1, <2>1, <2>3, GotoType DEF InitOpen, Goto, LockTypeInv, LockTypeOK, Signalling
  <2> QED
    BY <1>1, <2>2, <2>3 DEF InitOpen
<1>2. CASE InitWrite(r)
  BY <1>0, <1>2, GotoType, FilesType DEF InitWrite, Goto, LockTypeInv, LockTypeOK, Signalling
<1>3. CASE EnterTry(r)
  BY <1>0, <1>3, GotoType DEF EnterTry, Goto, LockTypeInv, LockTypeOK, Signalling
<1>4. CASE ReadForProgress(r)
  BY <1>0, <1>4, GotoType DEF ReadForProgress, Readable, Goto, LockTypeInv, LockTypeOK, Signalling
<1>5. CASE LeaveTry(r)
  BY <1>0, <1>5, GotoType DEF LeaveTry, Goto, LockTypeInv, LockTypeOK, Signalling
<1>6. CASE WriteLast(r)
  BY <1>0, <1>6, GotoType DEF WriteLast, Goto, LockTypeInv, LockTypeOK, Signalling
<1>7. CASE ClearLock(r)
  BY <1>0, <1>7, GotoType, FilesType DEF ClearLock, Goto, LockTypeInv, LockTypeOK, Signalling
<1>8. CASE WriteStep(r)
  BY <1>0, <1>8, WriteTypeInv
<1>9. CASE Kill(r)
  BY <1>0, <1>9, GotoType DEF Kill, Goto, LockTypeInv, LockTypeOK, Signalling
<1>10. CASE Expire(r)
  BY <1>10 DEF Expire, LockTypeInv, LockTypeOK, Signalling
<1> QED
  BY <1>1, <1>2, <1>3, <1>4, <1>5, <1>6, <1>7, <1>8, <1>9, <1>10 DEF RunnerStep

LEMMA NextLockTypeInv == LockTypeInv /\ [RefreshNext]_refreshVars => LockTypeInv'
<1>1. LockTypeInv /\ UNCHANGED refreshVars => LockTypeInv'
  BY DEF refreshVars, LockTypeInv, LockTypeOK, Signalling
<1> QED
  BY <1>1, CommandTypeInv, RunnerTypeInv DEF RefreshNext

\* Whoever overlaps, dies or works for too long, the files hold a payload, nothing or
\* less than a payload, commands and runners stay in the phases of their kind, and a
\* command only signals a runner.
THEOREM LockTypeCorrect == RefreshSpec => []LockTypeOK
<1>1. LockTypeInv => LockTypeOK
  BY DEF LockTypeInv
<1> QED
  BY <1>1, InitLockTypeInv, NextLockTypeInv, PTL DEF RefreshSpec

-----------------------------------------------------------------------------
(* The calm protocol.                                                      *)

\* One command at a time, one runner at a time, and no file seen half written.
Single ==
  /\ lock \in Runner \cup {NoFile}
  /\ tmp \in Runner \cup {NoFile}
  /\ \A p \in Process : pc[p] \notin {"write", "init"}
  /\ \A c, d \in Command : pc[c] # "idle" /\ pc[d] # "idle" => c = d
  /\ \A r, q \in Runner : Alive(r) /\ Alive(q) => r = q

\* What a command in each of its phases knows of the runners: before it starts one
\* none is alive; afterwards only the one it has started or is about to signal.  The
\* temporary file it is to rename is its own, or its runner's, which has then
\* renamed it already.
CommandKnows(c) ==
  /\ pc[c] \in {"unlink", "spawn", "drop"} => \A r \in Runner : ~Alive(r)
  /\ pc[c] = "signal" => \A r \in Runner : Alive(r) => r = child[c]
  /\ pc[c] \in {"open", "rename"} =>
        buf[c] \in Runner /\ \A r \in Runner : Alive(r) => r = buf[c]
  /\ pc[c] = "rename" => tmp = buf[c] \/ (tmp = NoFile /\ pc[buf[c]] # "boot")

Announcing == \E c \in Command : pc[c] \in {"open", "rename"}

\* The lock names the runner that is alive, from its first write on at the latest.
RunnerKnows(r) ==
  /\ Alive(r) => lock = r \/ (pc[r] = "boot" /\ Announcing)
  /\ pc[r] = "open" => buf[r] = r
  /\ pc[r] = "rename" => tmp \in {NoFile, r}

LockInv ==
  /\ Single
  /\ \A c \in Command : CommandKnows(c)
  /\ \A r \in Runner : RunnerKnows(r)

CalmInv == Calm => LockInv

LEMMA InitCalm == RefreshInit => LockInv
<1> SUFFICES ASSUME RefreshInit PROVE LockInv
  OBVIOUS
<1>1. /\ \A c \in Command : pc[c] = "idle"
      /\ \A r \in Runner : pc[r] = "unborn"
  BY WikiRefreshAssumption DEF RefreshInit, Process
<1> QED
  BY <1>1 DEF RefreshInit, LockInv, Single, CommandKnows, RunnerKnows, Alive, Process

\* What is disturbed stays so.
LEMMA CalmBefore == LockTypeInv /\ [RefreshNext]_refreshVars /\ Calm' => Calm
<1> SUFFICES ASSUME LockTypeInv, [RefreshNext]_refreshVars, Calm' PROVE Calm
  OBVIOUS
<1>1. conditions' = conditions
  BY DEF RefreshNext, CommandStep, RunnerStep, WriteStep, StartRead, StartUnlink, Spawn, CancelRead,
         CancelSignal, CancelDrop, OpenTmp, WriteTmp, RenameTmp, InitOpen, InitWrite, EnterTry,
         ReadForProgress, LeaveTry, WriteLast, ClearLock, Kill, Expire, refreshVars
<1>2. expired \subseteq expired'
  BY DEF RefreshNext, CommandStep, RunnerStep, WriteStep, StartRead, StartUnlink, Spawn, CancelRead,
         CancelSignal, CancelDrop, OpenTmp, WriteTmp, RenameTmp, InitOpen, InitWrite, EnterTry,
         ReadForProgress, LeaveTry, WriteLast, ClearLock, Kill, Expire, refreshVars
<1> QED
  BY <1>1, <1>2 DEF Calm

\* While no command runs, the lock names the runner that is alive, and the status is
\* "in progress" exactly if there is one.
LEMMA StatusWhenQuiet ==
  ASSUME LockTypeInv, Calm, LockInv, ~Announcing
  PROVE  /\ \A r \in Runner : Alive(r) => lock = r
         /\ (\E r \in Runner : Alive(r)) <=> InProgress
         /\ Stale => \A r \in Runner : ~Alive(r)
<1>1. \A r \in Runner : Alive(r) => lock = r
  BY DEF LockInv, RunnerKnows
<1>2. lock \in Runner \/ lock = NoFile
  BY DEF LockInv, Single
<1>3. NoFile \notin Runner /\ Torn \notin Runner
  BY WikiRefreshAssumption DEF Process
<1>4. Readable => lock \in Runner
  BY <1>2 DEF Readable
<1>5. Stale <=> lock \in Runner /\ ~Alive(lock)
  <2>1. lock = Torn => lock = NoFile
    BY <1>2, <1>3
  <2>2. NoFile # Torn
    <3> SUFFICES ASSUME NoFile = Torn PROVE FALSE
      OBVIOUS
    <3>1. {NoFile, Torn, NoPid} = {NoPid} \cup {NoFile}
      OBVIOUS
    <3>2. IsFiniteSet({NoPid}) /\ Cardinality({NoPid}) = 1
      BY FS_Singleton
    <3>3. Cardinality({NoPid} \cup {NoFile}) \in {1, 2}
      BY <3>2, FS_AddElement
    <3> QED
      BY <3>1, <3>3, WikiRefreshAssumption
  <2> QED
    BY <1>2, <1>3, <2>1, <2>2 DEF Stale, Readable, StalePayload, Calm
<1> QED
  BY <1>1, <1>2, <1>3, <1>5 DEF InProgress, Readable

\* While a command is at work, or about to be, no other one is.
LEMMA OthersIdle ==
  ASSUME LockTypeInv, Calm, Single, NEW c \in Command, CommandStep(c)
  PROVE  /\ \A d \in Command \ {c} : pc[d] = "idle" /\ pc'[d] = "idle"
         /\ pc[c] \notin {"open", "rename"} => ~Announcing
<1>1. MayBegin(c) \/ pc[c] # "idle"
  BY DEF CommandStep, WriteStep, StartRead, StartUnlink, Spawn, CancelRead, CancelSignal,
         CancelDrop, OpenTmp, WriteTmp, RenameTmp
<1>2. \A d \in Command \ {c} : pc[d] = "idle"
  BY <1>1 DEF Single, MayBegin, Calm
<1>3. ASSUME NEW d \in Command \ {c} PROVE pc'[d] = pc[d]
  <2>1. d \in Process /\ d # c /\ d \notin Runner /\ c \notin Runner
    BY WikiRefreshAssumption DEF Process
  <2>2. pc[c] = "signal" => child[c] \in Runner
    BY DEF LockTypeInv, Signalling
  <2> QED
    BY <2>1, <2>2 DEF CommandStep, WriteStep, StartRead, StartUnlink, Spawn, CancelRead,
         CancelSignal, CancelDrop, OpenTmp, WriteTmp, RenameTmp, Goto, LockTypeInv, LockTypeOK
<1> QED
  BY <1>2, <1>3 DEF Announcing

\* A command that is idle knows nothing, so that its caller is the only one to look at.
LEMMA OneCommandLeft ==
  ASSUME NEW c \in Command, \A d \in Command \ {c} : pc'[d] = "idle",
         CommandKnows(c)'
  PROVE  /\ \A d \in Command : CommandKnows(d)'
         /\ \A d, e \in Command : pc'[d] # "idle" /\ pc'[e] # "idle" => d = e
BY DEF CommandKnows

\* With no runner alive there is nothing for a runner to know.
LEMMA NobodyAlive ==
  ASSUME \A r \in Runner : ~Alive(r)
  PROVE  /\ \A r \in Runner : RunnerKnows(r)
         /\ \A r, q \in Runner : Alive(r) /\ Alive(q) => r = q
BY DEF RunnerKnows, Alive

\* The steps of a command, one phase at a time.
LEMMA CalmCommand ==
  ASSUME LockTypeInv, Calm, LockInv, NEW c \in Command, CommandStep(c)
  PROVE  LockInv'
<1> USE DEF CommandPhase, RunnerPhase, WritePhase
<1>0. /\ c \in Process /\ c \notin Runner
      /\ \A r \in Runner : r \in Process /\ r # c
      /\ pc \in [Process -> CommandPhase \cup RunnerPhase \cup WritePhase]
  BY WikiRefreshAssumption DEF Process, LockTypeInv, LockTypeOK
<1>1. /\ \A d \in Command \ {c} : pc[d] = "idle" /\ pc'[d] = "idle"
      /\ pc[c] \notin {"open", "rename"} => ~Announcing
  BY OthersIdle DEF LockInv
<1>2. /\ Single /\ CommandKnows(c)
      /\ \A r \in Runner : RunnerKnows(r)
  BY DEF LockInv
<1>3. ASSUME CommandKnows(c)', \A r \in Runner : RunnerKnows(r)',
             lock' \in Runner \cup {NoFile}, tmp' \in Runner \cup {NoFile},
             \A p \in Process : pc'[p] \notin {"write", "init"},
             \A r, q \in Runner : Alive(r)' /\ Alive(q)' => r = q
      PROVE  LockInv'
  BY <1>1, <1>3, OneCommandLeft DEF LockInv, Single
<1>4. CASE StartRead(c)
  <2>1. \A r \in Runner : ~Alive(r)
    BY <1>1, <1>4, StatusWhenQuiet DEF StartRead, MayBegin
  <2>2. /\ pc'[c] \in {"unlink", "spawn"}
        /\ \A p \in Process \ {c} : pc'[p] = pc[p]
        /\ lock' = lock /\ tmp' = tmp
    BY <1>0, <1>4 DEF StartRead, Goto
  <2>3. \A r \in Runner : ~Alive(r)'
    BY <1>0, <2>1, <2>2 DEF Alive
  <2>4. CommandKnows(c)'
    BY <2>2, <2>3 DEF CommandKnows
  <2> QED
    BY <1>2, <1>3, <2>2, <2>3, <2>4 DEF Single, RunnerKnows, Alive
<1>5. CASE StartUnlink(c) \/ CancelDrop(c)
  <2>1. \A r \in Runner : ~Alive(r)
    BY <1>2, <1>5 DEF StartUnlink, CancelDrop, CommandKnows
  <2>2. /\ pc'[c] \in {"spawn", "idle"}
        /\ \A p \in Process \ {c} : pc'[p] = pc[p]
        /\ lock' = NoFile /\ tmp' = tmp
    BY <1>0, <1>5 DEF StartUnlink, CancelDrop, UnlinkLock, Goto
  <2>3. \A r \in Runner : ~Alive(r)'
    BY <1>0, <2>1, <2>2 DEF Alive
  <2>4. CommandKnows(c)'
    BY <2>2, <2>3 DEF CommandKnows
  <2> QED
    BY <1>2, <1>3, <2>2, <2>3, <2>4 DEF Single, RunnerKnows, Alive
<1>6. ASSUME NEW r \in Runner, Spawn(c, r) PROVE LockInv'
  <2>1. \A q \in Runner : ~Alive(q)
    BY <1>2, <1>6 DEF Spawn, CommandKnows
  <2>2. /\ pc'[c] = "open" /\ pc'[r] = "boot" /\ buf'[c] = r
        /\ \A p \in Process \ {c, r} : pc'[p] = pc[p]
        /\ lock' = lock /\ tmp' = tmp
    BY <1>0, <1>6 DEF Spawn, LockTypeInv, LockTypeOK
  <2>3. \A q \in Runner : Alive(q)' => q = r
    BY <1>0, <2>1, <2>2 DEF Alive
  <2>4. CommandKnows(c)' /\ Announcing'
    BY <2>2, <2>3 DEF CommandKnows, Announcing
  <2>5. ASSUME NEW q \in Runner PROVE RunnerKnows(q)'
    BY <1>0, <2>2, <2>3, <2>4 DEF RunnerKnows, Alive
  <2>6. \A p \in Process : pc'[p] \notin {"write", "init"}
    BY <1>2, <2>2 DEF Single
  <2> QED
    BY <1>2, <1>3, <2>2, <2>3, <2>4, <2>5, <2>6 DEF Single
<1>7. CASE CancelRead(c)
  <2>0. ~Announcing
    BY <1>1, <1>7 DEF CancelRead, MayBegin
  <2>1. /\ pc'[c] \in {"signal", "drop"}
        /\ \A p \in Process \ {c} : pc'[p] = pc[p]
        /\ lock' = lock /\ tmp' = tmp /\ buf' = buf
    BY <1>0, <1>7 DEF CancelRead, Goto
  <2>2. \A r \in Runner : Alive(r)' <=> Alive(r)
    BY <1>0, <2>1 DEF Alive
  <2>3. CommandKnows(c)'
    <3>1. CASE pc'[c] = "signal"
      <4>1. child'[c] = lock
        BY <1>0, <1>7, <3>1 DEF CancelRead, Goto, LockTypeInv, LockTypeOK
      <4> QED
        BY <2>0, <2>2, <3>1, <4>1, StatusWhenQuiet DEF CommandKnows
    <3>2. CASE pc'[c] = "drop"
      <4>1. Stale
        BY <1>0, <1>7, <3>2 DEF CancelRead, Goto
      <4> QED
        BY <2>0, <2>2, <3>2, <4>1, StatusWhenQuiet DEF CommandKnows
    <3> QED
      BY <2>1, <3>1, <3>2
  <2>4. ASSUME NEW r \in Runner PROVE RunnerKnows(r)'
    BY <1>0, <1>2, <2>0, <2>1, <2>2, StatusWhenQuiet DEF RunnerKnows
  <2> QED
    BY <1>2, <1>3, <2>1, <2>2, <2>3, <2>4 DEF Single
<1>8. CASE CancelSignal(c)
  <2>0. /\ pc[c] = "signal" /\ ~Announcing
        /\ child[c] \in Runner /\ child[c] \in Process /\ child[c] # c
    BY <1>0, <1>1, <1>8 DEF CancelSignal, LockTypeInv, Signalling
  <2>1. \A r \in Runner : Alive(r) => r = child[c] /\ lock = r
    BY <1>2, <2>0, StatusWhenQuiet DEF CommandKnows
  <2>2. /\ pc'[c] \in {"idle", "drop"}
        /\ \A p \in Process \ {c, child[c]} : pc'[p] = pc[p]
        /\ pc'[child[c]] \in {pc[child[c]], "last", "dead"}
        /\ pc'[c] = "drop" => ~Alive(child[c]) /\ pc'[child[c]] = pc[child[c]]
        /\ ~Alive(child[c]) => pc'[child[c]] = pc[child[c]]
        /\ lock' = lock /\ tmp' = tmp /\ buf' = buf
    BY <1>0, <1>8, <2>0 DEF CancelSignal, AfterSigterm, Goto
  <2>3. \A r \in Runner : Alive(r)' => Alive(r)
    BY <1>0, <2>2 DEF Alive
  <2>4. CommandKnows(c)'
    BY <2>1, <2>2, <2>3 DEF CommandKnows
  <2>5. ASSUME NEW r \in Runner PROVE RunnerKnows(r)'
    BY <1>0, <1>2, <2>1, <2>2, <2>3 DEF RunnerKnows
  <2>6. \A p \in Process : pc'[p] \notin {"write", "init"}
    BY <1>2, <2>2, <2>0 DEF Single
  <2> QED
    BY <1>2, <1>3, <2>2, <2>3, <2>4, <2>5, <2>6 DEF Single
<1>9. CASE OpenTmp(c)
  <2>1. /\ pc[c] = "open" /\ pc'[c] = "rename" /\ tmp' = buf[c]
        /\ \A p \in Process \ {c} : pc'[p] = pc[p]
        /\ lock' = lock /\ buf' = buf
    BY <1>0, <1>9 DEF OpenTmp, Goto, Calm
  <2>2. buf[c] \in Runner /\ \A r \in Runner : Alive(r) => r = buf[c]
    BY <1>2, <2>1 DEF CommandKnows
  <2>3. \A r \in Runner : Alive(r)' <=> Alive(r)
    BY <1>0, <2>1 DEF Alive
  <2>4. CommandKnows(c)' /\ Announcing'
    BY <2>1, <2>2, <2>3 DEF CommandKnows, Announcing
  <2>5. ASSUME NEW r \in Runner PROVE RunnerKnows(r)'
    BY <1>0, <1>2, <2>1, <2>2, <2>3, <2>4 DEF RunnerKnows, Alive
  <2>6. \A p \in Process : pc'[p] \notin {"write", "init"}
    BY <1>2, <2>1 DEF Single
  <2> QED
    BY <1>2, <1>3, <2>1, <2>2, <2>3, <2>4, <2>5, <2>6 DEF Single
<1>10. CASE WriteTmp(c)
  BY <1>0, <1>2, <1>10 DEF WriteTmp, Single
<1>11. CASE RenameTmp(c)
  <2>1. /\ pc[c] = "rename" /\ pc'[c] = "idle" /\ buf' = buf
        /\ \A p \in Process \ {c} : pc'[p] = pc[p]
        /\ tmp' = NoFile /\ lock' = IF tmp # NoFile THEN tmp ELSE lock
    BY <1>0, <1>11 DEF RenameTmp, RenameFiles, AfterWrite, Goto
  <2>2. /\ \A r \in Runner : Alive(r) => r = buf[c]
        /\ tmp = buf[c] \/ (tmp = NoFile /\ pc[buf[c]] # "boot")
    BY <1>2, <2>1 DEF CommandKnows
  <2>3. \A r \in Runner : Alive(r)' <=> Alive(r)
    BY <1>0, <2>1 DEF Alive
  <2>4. CommandKnows(c)'
    BY <2>1 DEF CommandKnows
  <2>5. ASSUME NEW r \in Runner PROVE RunnerKnows(r)'
    <3>1. CASE tmp # NoFile
      BY <1>0, <1>2, <2>1, <2>2, <2>3, <3>1 DEF RunnerKnows, Alive
    <3>2. CASE tmp = NoFile /\ tmp # buf[c]
      BY <1>0, <1>2, <2>1, <2>2, <2>3, <3>2 DEF RunnerKnows, Alive
    <3>3. buf[c] # NoFile
      BY <1>2, <2>1, WikiRefreshAssumption DEF CommandKnows, Process
    <3> QED
      BY <3>1, <3>2, <3>3
  <2>6. \A p \in Process : pc'[p] \notin {"write", "init"}
    BY <1>2, <2>1 DEF Single
  <2> QED
    BY <1>2, <1>3, <2>1, <2>3, <2>4, <2>5, <2>6 DEF Single
<1> QED
  BY <1>4, <1>5, <1>6, <1>7, <1>8, <1>9, <1>10, <1>11 DEF CommandStep, WriteStep

\* What a command knows outlives a step of a runner that starts no other one.
LEMMA CommandStillKnows ==
  ASSUME LockTypeInv, NEW c \in Command, CommandKnows(c),
         pc'[c] = pc[c], child' = child, buf'[c] = buf[c],
         \A r \in Runner : Alive(r)' => Alive(r),
         \A r \in Runner : pc'[r] = "boot" => pc[r] = "boot",
         \/ tmp' = tmp
         \/ tmp' = NoFile /\ (pc[c] = "rename" => pc'[buf[c]] # "boot")
         \/ (pc[c] = "rename" => tmp' = buf[c])
  PROVE  CommandKnows(c)'
BY DEF CommandKnows

\* The steps of a runner: it is the only one alive, and the lock is its own unless it
\* is about to write that lock for the first time.
LEMMA CalmRunner ==
  ASSUME LockTypeInv, Calm, LockInv, NEW r \in Runner, RunnerStep(r) \/ Kill(r)
  PROVE  LockInv'
<1> USE DEF CommandPhase, RunnerPhase, WritePhase
<1>0. /\ r \in Process /\ r \notin Command
      /\ \A c \in Command : c \in Process /\ c # r
      /\ \A q \in Runner : q \in Process
      /\ pc \in [Process -> CommandPhase \cup RunnerPhase \cup WritePhase]
      /\ buf \in [Process -> Payload]
      /\ NoFile \notin Runner
  BY WikiRefreshAssumption DEF Process, LockTypeInv, LockTypeOK
<1>1. Alive(r)
  BY DEF RunnerStep, WriteStep, InitOpen, InitWrite, EnterTry, ReadForProgress, LeaveTry,
         WriteLast, ClearLock, OpenTmp, WriteTmp, RenameTmp, Kill, Alive
<1>2. /\ Single /\ RunnerKnows(r)
      /\ \A c \in Command : CommandKnows(c)
      /\ \A q \in Runner \ {r} : ~Alive(q)
  BY <1>1 DEF LockInv, Single
<1>3. /\ \A p \in Process \ {r} : pc'[p] = pc[p] /\ buf'[p] = buf[p]
      /\ child' = child
      /\ pc'[r] # "boot"
  BY <1>0 DEF RunnerStep, WriteStep, InitOpen, InitWrite, EnterTry, ReadForProgress, LeaveTry,
         WriteLast, ClearLock, OpenTmp, WriteTmp, RenameTmp, Kill, AfterWrite, Goto
<1>4. /\ \A q \in Runner \ {r} : ~Alive(q)'
      /\ \A q \in Runner : pc'[q] = "boot" => pc[q] = "boot"
      /\ \A q \in Runner : Alive(q)' => Alive(q)
  BY <1>0, <1>1, <1>2, <1>3 DEF Alive
<1>5. \A c \in Command : pc[c] = "rename" => buf[c] = r
  BY <1>1, <1>2 DEF CommandKnows
<1>6. ASSUME RunnerKnows(r)', lock' \in Runner \cup {NoFile}, tmp' \in {tmp, NoFile, r},
             pc'[r] \notin {"write", "init"}
      PROVE  LockInv'
  <2>1. \A q \in Runner \ {r} : RunnerKnows(q)'
    BY <1>4 DEF RunnerKnows, Alive
  <2>2. ASSUME NEW c \in Command PROVE CommandKnows(c)'
    BY <1>0, <1>2, <1>3, <1>4, <1>5, <1>6, CommandStillKnows
  <2>3. Single'
    BY <1>0, <1>2, <1>3, <1>4, <1>6 DEF Single
  <2> QED
    BY <1>6, <2>1, <2>2, <2>3 DEF LockInv
<1>7. CASE InitOpen(r)
  BY <1>0, <1>2, <1>6, <1>7 DEF InitOpen, Goto, Calm, RunnerKnows, Alive
<1>8. CASE EnterTry(r) \/ LeaveTry(r) \/ WriteLast(r)
  <2>1. /\ lock' = lock /\ tmp' = tmp /\ lock = r
        /\ pc'[r] \in {"work", "last", "clear"}
    BY <1>0, <1>1, <1>2, <1>8 DEF EnterTry, LeaveTry, WriteLast, RunnerKnows, Goto
  <2> QED
    BY <1>2, <1>6, <2>1 DEF RunnerKnows, Single
<1>9. CASE ReadForProgress(r)
  <2>1. lock = r /\ Readable
    <3>1. lock = r
      BY <1>1, <1>2, <1>9 DEF ReadForProgress, RunnerKnows
    <3> QED
      BY <3>1, WikiRefreshAssumption DEF Readable, Process
  <2>2. lock' = r /\ tmp' = tmp /\ pc'[r] = "open" /\ buf'[r] = r
    BY <1>0, <1>9, <2>1 DEF ReadForProgress, Goto
  <2> QED
    BY <1>2, <1>6, <2>2 DEF RunnerKnows, Single
<1>10. CASE ClearLock(r)
  BY <1>0, <1>2, <1>6, <1>10 DEF ClearLock, UnlinkLock, Goto, RunnerKnows, Alive
<1>11. CASE OpenTmp(r)
  <2>1. lock = r /\ buf[r] = r
    BY <1>1, <1>2, <1>11 DEF OpenTmp, RunnerKnows
  <2>2. lock' = lock /\ tmp' = r /\ pc'[r] = "rename"
    BY <1>0, <1>11, <2>1 DEF OpenTmp, Goto, Calm
  <2> QED
    BY <1>6, <2>1, <2>2 DEF RunnerKnows
<1>12. CASE RenameTmp(r)
  <2>1. lock = r /\ tmp \in {NoFile, r}
    BY <1>1, <1>2, <1>12 DEF RenameTmp, RunnerKnows
  <2>2. lock' = r /\ tmp' = NoFile /\ pc'[r] \in {"work", "last"}
    BY <1>0, <1>12, <2>1 DEF RenameTmp, RenameFiles, AfterWrite, Goto
  <2> QED
    BY <1>6, <2>2 DEF RunnerKnows
<1>13. CASE InitWrite(r) \/ WriteTmp(r)
  BY <1>0, <1>2, <1>13 DEF InitWrite, WriteTmp, Single
<1>14. CASE Kill(r)
  BY <1>0, <1>2, <1>6, <1>14 DEF Kill, Goto, RunnerKnows, Alive, Single
<1> QED
  BY <1>7, <1>8, <1>9, <1>10, <1>11, <1>12, <1>13, <1>14 DEF RunnerStep, WriteStep

LEMMA NextCalmInv == LockTypeInv /\ CalmInv /\ [RefreshNext]_refreshVars => CalmInv'
<1> SUFFICES ASSUME LockTypeInv, CalmInv, [RefreshNext]_refreshVars, Calm' PROVE LockInv'
  BY DEF CalmInv
<1>1. Calm /\ LockInv
  BY CalmBefore DEF CalmInv
<1>2. CASE UNCHANGED refreshVars
  BY <1>1, <1>2 DEF refreshVars, LockInv, Single, CommandKnows, RunnerKnows, Announcing, Alive
<1>3. ASSUME NEW c \in Command, CommandStep(c) PROVE LockInv'
  BY <1>1, <1>3, CalmCommand
<1>4. ASSUME NEW r \in Runner, RunnerStep(r) \/ Kill(r) PROVE LockInv'
  BY <1>1, <1>4, CalmRunner
<1>5. ASSUME NEW r \in Runner, Expire(r) PROVE FALSE
  BY <1>1, <1>5 DEF Expire, Calm
<1> QED
  BY <1>2, <1>3, <1>4, <1>5 DEF RefreshNext

LEMMA AlwaysCalmInv == RefreshSpec => [](LockTypeInv /\ CalmInv)
<1>1. RefreshInit => LockTypeInv /\ CalmInv
  BY InitLockTypeInv, InitCalm DEF CalmInv
<1>2. LockTypeInv /\ CalmInv /\ [RefreshNext]_refreshVars => (LockTypeInv /\ CalmInv)'
  BY NextLockTypeInv, NextCalmInv
<1> QED
  BY <1>1, <1>2, PTL DEF RefreshSpec

\* Commands come one after the other, files are written in one step and no runner has
\* worked for an hour: then no two runners are ever alive together, however often a
\* refresh is started, stopped or killed.
THEOREM RunnerIsAlone == RefreshSpec => []OneRunnerWhenCalm
<1>1. CalmInv => OneRunnerWhenCalm
  <2> SUFFICES ASSUME LockInv PROVE AtMostOneRunner
    BY DEF CalmInv, OneRunnerWhenCalm
  <2> DEFINE A == {r \in Runner : Alive(r)}
  <2>1. \A r, q \in A : r = q
    BY DEF LockInv, Single
  <2>2. CASE A = {}
    BY <2>2, FS_EmptySet DEF AtMostOneRunner
  <2>3. ASSUME NEW r \in A PROVE AtMostOneRunner
    <3>1. A = {r}
      BY <2>1
    <3>2. Cardinality({r}) = 1
      BY FS_Singleton
    <3> QED
      BY <3>1, <3>2 DEF AtMostOneRunner
  <2> QED
    BY <2>2, <2>3
<1> QED
  BY <1>1, AlwaysCalmInv, PTL

\* The same calm protocol: whatever killed the runner, once nobody is alive and no
\* command runs, the lock it left is absent or stale, so a new refresh can start.
THEOREM NeverWedged == RefreshSpec => []NoWedge
<1>1. LockTypeInv /\ CalmInv => NoWedge
  <2> SUFFICES ASSUME LockTypeInv, CalmInv, Calm, ~Commanding, \A r \in Runner : ~Alive(r)
               PROVE  ~InProgress
    BY DEF NoWedge
  <2> QED
    BY StatusWhenQuiet DEF CalmInv, Commanding, Announcing
<1> QED
  BY <1>1, AlwaysCalmInv, PTL

\* The same calm protocol: no write of a command and no unlink takes the lock of a
\* runner that is at work away.
THEOREM WorkShows == RefreshSpec => []WorkIsVisible
<1>1. LockTypeInv /\ CalmInv => WorkIsVisible
  <2> SUFFICES ASSUME LockTypeInv, CalmInv, NEW r \in Runner, Calm, ~Commanding,
                      pc[r] \in {"work"} \cup WritePhase
               PROVE  InProgress
    BY DEF WorkIsVisible
  <2>1. Alive(r)
    BY DEF Alive, WritePhase
  <2> QED
    BY <2>1, StatusWhenQuiet DEF CalmInv, Commanding, Announcing
<1> QED
  BY <1>1, AlwaysCalmInv, PTL

=============================================================================
