-------------------------- MODULE WatchDaemonProofs --------------------------
(***************************************************************************)
(* Theorems about ScanIndex, for any files, contents, names and scanners,  *)
(* and about WatchDaemon, which runs its scans.                            *)
(*                                                                         *)
(* ScanIndex. The inductive invariant of the first two theorems is TypeOK  *)
(* together with CursorOK: while a scanner is rewriting a file it has a    *)
(* path and the content it read from it. TypeOK alone is not inductive,    *)
(* because the stores are written at cur and with data, both of which can  *)
(* be Absent. The third needs DropInv besides, which follows every path    *)
(* from the listing of the tree to the deletion of what the walk did not   *)
(* visit. The next three are about one writer at a time, each with an      *)
(* invariant of its own.                                                   *)
(*                                                                         *)
(* WatchDaemon. StaleIsPending says that work for a stale file is on its   *)
(* way, not that it will do: a path in the batch could be skipped, read    *)
(* too early or deleted from the index although it is back on disk. Told   *)
(* adds that what is on its way agrees with the disk unless something      *)
(* later is on its way too, and InStep ties the place of the main loop to  *)
(* that of the scan or the deletion pass it runs.                          *)
(***************************************************************************)
EXTENDS WatchDaemon, TLAPS

Rewriting == {"check", "put", "symbols", "relations", "fts"}

CursorOK ==
  \A s \in Scanner :
     /\ pc[s] \in Rewriting => cur[s] \in File /\ data[s] \in Content
     /\ pc[s] = "staleFts" => cur[s] \in File

TypeInv == TypeOK /\ CursorOK

-----------------------------------------------------------------------------
(* Lemmas about the operators on the symbols table.                        *)

\* What replace_symbols makes of a symbols table is one again.
LEMMA SymbolsAfterType ==
  ASSUME symbols \in [Name -> SymbolRow \cup {NoRow}], NEW f \in File, NEW c \in Content
  PROVE  SymbolsAfter(f, c) \in [Name -> SymbolRow \cup {NoRow}]
BY DEF SymbolsAfter, SymbolRow

\* A cascade leaves a symbols table a symbols table.
LEMMA CascadeType ==
  ASSUME symbols \in [Name -> SymbolRow \cup {NoRow}], NEW f \in File
  PROVE  CascadeSymbols(f) \in [Name -> SymbolRow \cup {NoRow}]
BY DEF CascadeSymbols

-----------------------------------------------------------------------------
(* TypeOK.                                                                 *)

LEMMA InitTypeInv == Init => TypeInv
BY ConstantTypes, Sentinels DEF Init, TypeInv, TypeOK, CursorOK, Rewriting, Stored, Phase

\* However a scan ends, the process that ran it is well typed afterwards.
LEMMA LeaveTypeInv ==
  ASSUME TypeInv, NEW s \in Scanner, Leave(s), CutShort(s) \/ UNCHANGED cut
  PROVE  TypeInv'
<1>1. Committing(s) => cur[s] \in File
  BY DEF TypeInv, Committing, CursorOK, Rewriting
<1>2. cut' \subseteq File
  BY <1>1 DEF CutShort, TypeInv, TypeOK
<1> QED
  BY <1>2, Sentinels DEF Leave, Goto, stores, TypeInv, TypeOK, CursorOK, Rewriting, Phase, Stored

LEMMA NextTypeInv == TypeInv /\ [Next]_vars => TypeInv'
<1> SUFFICES ASSUME TypeInv, [Next]_vars PROVE TypeInv'
  OBVIOUS
<1> USE ConstantTypes DEF TypeInv
<1>1. ASSUME NEW f \in File, NEW c \in Stored, EditFile(f, c) PROVE TypeInv'
  BY <1>1 DEF EditFile, stores, scan, TypeOK, CursorOK, Stored
<1>2. ASSUME NEW s \in Scanner, NEW m \in {"full", "incremental"}, BeginWhole(s, m)
      PROVE  TypeInv'
  BY <1>2 DEF BeginWhole, Begin, Goto, stores, Indexed, TypeOK, CursorOK, Rewriting, Phase
<1>3. ASSUME NEW s \in Scanner, NEW F \in SUBSET File, BeginPartial(s, F) PROVE TypeInv'
  BY <1>3 DEF BeginPartial, Begin, Goto, stores, Indexed, TypeOK, CursorOK, Rewriting, Phase
<1>4. ASSUME NEW s \in Scanner, NEW F \in SUBSET File, BeginRemove(s, F) PROVE TypeInv'
  BY <1>4 DEF BeginRemove, Goto, stores, history, TypeOK, CursorOK, Rewriting, Phase
<1>5. ASSUME NEW s \in Scanner, NEW f \in File, SkipFile(s, f) PROVE TypeInv'
  BY <1>5 DEF SkipFile, stores, history, TypeOK, CursorOK
<1>6. ASSUME NEW s \in Scanner, NEW f \in File, ReadFile(s, f) PROVE TypeInv'
  <2>1. CASE f \in Parsable
    <3>1. TypeOK'
      BY <1>6, <2>1 DEF ReadFile, Goto, stores, history, TypeOK, Phase, Stored
    <3>2. cur'[s] = f /\ data'[s] \in Content
      BY <1>6, <2>1 DEF ReadFile, TypeOK, Stored
    <3>3. CursorOK'
      BY <1>6, <2>1, <3>2 DEF ReadFile, Goto, TypeOK, CursorOK
    <3> QED
      BY <3>1, <3>3
  <2>2. CASE f \notin Parsable
    BY <1>6, <2>2 DEF ReadFile, stores, history, TypeOK, CursorOK, Stored
  <2> QED
    BY <2>1, <2>2
<1>7. ASSUME NEW s \in Scanner, CheckHash(s) PROVE TypeInv'
  <2>1. CASE Unchanged(s)
    <3>1. TypeOK'
      BY <1>7, <2>1 DEF CheckHash, NextFile, Goto, stores, history, TypeOK, Phase, Stored
    <3>2. CursorOK'
      <4>1. pc'[s] = "walk" /\ \A t \in Scanner \ {s} :
                                pc'[t] = pc[t] /\ cur'[t] = cur[t] /\ data'[t] = data[t]
        BY <1>7, <2>1 DEF CheckHash, NextFile, Goto, TypeOK
      <4> QED
        BY <4>1 DEF CursorOK, Rewriting
    <3> QED
      BY <3>1, <3>2
  <2>2. CASE ~Unchanged(s)
    BY <1>7, <2>2 DEF CheckHash, Goto, stores, history, TypeOK, CursorOK, Rewriting, Phase
  <2> QED
    BY <2>1, <2>2
<1>8. ASSUME NEW s \in Scanner, PutFile(s) PROVE TypeInv'
  BY <1>8 DEF PutFile, Goto, history, TypeOK, CursorOK, Rewriting, Phase, Stored
<1>9. ASSUME NEW s \in Scanner, ReplaceSymbols(s) PROVE TypeInv'
  <2>1. cur[s] \in File /\ data[s] \in Content
    BY <1>9 DEF ReplaceSymbols, CursorOK, Rewriting
  <2>2. symbols' \in [Name -> SymbolRow \cup {NoRow}]
    BY <1>9, <2>1, SymbolsAfterType DEF ReplaceSymbols, TypeOK
  <2> QED
    BY <1>9, <2>2 DEF ReplaceSymbols, Goto, history, TypeOK, CursorOK, Rewriting, Phase, Stored
<1>10. ASSUME NEW s \in Scanner, ReplaceRelations(s) PROVE TypeInv'
  BY <1>10 DEF ReplaceRelations, SpecifiesFrom, Goto, history, TypeOK, CursorOK, Rewriting, Phase, Stored
<1>11. ASSUME NEW s \in Scanner, IndexFts(s) PROVE TypeInv'
  BY <1>11 DEF IndexFts, NextFile, FtsEntry, Goto, TypeOK, CursorOK, Rewriting, Phase, Stored
<1>12. ASSUME NEW s \in Scanner, EndWalk(s) PROVE TypeInv'
  BY <1>12 DEF EndWalk, Goto, stores, history, TypeOK, CursorOK, Rewriting, Phase
<1>13. ASSUME NEW s \in Scanner, PutGitStats(s) PROVE TypeInv'
  BY <1>13 DEF PutGitStats, Goto, history, TypeOK, CursorOK, Rewriting, Phase
<1>14. ASSUME NEW s \in Scanner, ReadDocs(s) \/ LinkDocs(s) PROVE TypeInv'
  <2>1. DocLinks \subseteq File \X File /\ StaleAfter(s) \subseteq File
    BY <1>14 DEF DocLinks, Indexed, StaleAfter, TypeOK
  <2>2. CASE ReadDocs(s)
    <3>1. /\ links' \in [Scanner -> SUBSET (File \X File)]
          /\ todo' \in [Scanner -> SUBSET File]
          /\ \E p \in {"stale", "link"} : pc' = [pc EXCEPT ![s] = p]
      <4>1. links' \in [Scanner -> SUBSET (File \X File)]
        BY <2>1, <2>2 DEF ReadDocs, TypeOK
      <4>2. CASE DocLinks = {}
        <5>1. pc' = [pc EXCEPT ![s] = "stale"] /\ todo' = [todo EXCEPT ![s] = StaleAfter(s)]
          BY <2>2, <4>2 DEF ReadDocs, BeginCleanup, Goto
        <5>2. todo' \in [Scanner -> SUBSET File]
          BY <2>1, <5>1 DEF TypeOK
        <5> QED
          BY <4>1, <5>1, <5>2
      <4>3. CASE DocLinks # {}
        BY <2>2, <4>1, <4>3 DEF ReadDocs, Goto, TypeOK
      <4> QED
        BY <4>2, <4>3
    <3>2. UNCHANGED <<disk, stores, mode, whole, existing, visited, cur, data, history>>
      BY <2>2 DEF ReadDocs
    <3> QED
      BY <3>1, <3>2 DEF stores, history, TypeOK, CursorOK, Rewriting, Phase
  <2>3. CASE LinkDocs(s)
    BY <2>1, <2>3 DEF LinkDocs, BeginCleanup, Goto, history, TypeOK, CursorOK, Rewriting, Phase
  <2> QED
    BY <1>14, <2>2, <2>3
<1>15. ASSUME NEW s \in Scanner, NEW f \in File, DeleteCached(s, f) PROVE TypeInv'
  <2>1. symbols' \in [Name -> SymbolRow \cup {NoRow}]
    BY <1>15, CascadeType DEF DeleteCached, TypeOK
  <2> QED
    BY <1>15, <2>1
       DEF DeleteCached, SpecifiesFrom, Goto, history, TypeOK, CursorOK, Rewriting, Phase, Stored
<1>16. ASSUME NEW s \in Scanner, DeleteFts(s) PROVE TypeInv'
  BY <1>16 DEF DeleteFts, NextFile, Goto, TypeOK, CursorOK, Rewriting, Phase, Stored
<1>17. ASSUME NEW s \in Scanner, Leave(s), CutShort(s) \/ UNCHANGED cut PROVE TypeInv'
  BY <1>17, LeaveTypeInv
<1>18. CASE UNCHANGED vars
  BY <1>18 DEF vars, stores, scan, history, TypeOK, CursorOK
<1> QED
  BY <1>1, <1>2, <1>3, <1>4, <1>5, <1>6, <1>7, <1>8, <1>9, <1>10, <1>11, <1>12, <1>13, <1>14,
     <1>15, <1>16, <1>17, <1>18
     DEF Next, Work, Fail, Finish, ForeignKeyError, Abort, CutShort

\* Every reachable state of the index and of its scanners is well typed.
THEOREM TypeCorrect == Spec => []TypeOK
<1>1. TypeInv => TypeOK
  BY DEF TypeInv
<1> QED
  BY <1>1, InitTypeInv, NextTypeInv, PTL DEF Spec

-----------------------------------------------------------------------------
(* NoOrphanRows, with any number of scanners that can die at any commit.   *)

\* A path without a files row has nothing in the other tables of cache.db.
NoRowsOf(f) == relations[f] = Absent /\ RowsOf(f) = {} /\ SpecifiesFrom(f) = {}

\* Steps that only take rows away, or write none for paths without a files row,
\* leave no orphans.
LEMMA NoOrphanStep ==
  ASSUME NoOrphanRows,
         \A f \in File : files'[f] = Absent => files[f] = Absent \/ NoRowsOf(f)',
         \A f \in File : files[f] = Absent /\ files'[f] = Absent =>
            /\ relations'[f] = relations[f] \/ relations'[f] = Absent
            /\ RowsOf(f)' \subseteq RowsOf(f)
            /\ SpecifiesFrom(f)' \subseteq SpecifiesFrom(f)
  PROVE  NoOrphanRows'
BY DEF NoOrphanRows, NoRowsOf

LEMMA NextNoOrphanRows == TypeInv /\ NoOrphanRows /\ [Next]_vars => NoOrphanRows'
<1> SUFFICES ASSUME TypeInv, NoOrphanRows, [Next]_vars PROVE NoOrphanRows'
  OBVIOUS
<1> USE ConstantTypes, Sentinels
<1>1. ASSUME UNCHANGED <<files, symbols, relations, specifies>> PROVE NoOrphanRows'
  BY <1>1 DEF NoOrphanRows, RowsOf, SpecifiesFrom
<1>2. ASSUME NEW s \in Scanner, PutFile(s) PROVE NoOrphanRows'
  <2>1. cur[s] \in File /\ data[s] # Absent
    BY <1>2 DEF PutFile, TypeInv, CursorOK, Rewriting
  <2>2. \A f \in File : files'[f] = Absent => files[f] = Absent
    BY <1>2, <2>1 DEF PutFile, TypeInv, TypeOK
  <2>3. UNCHANGED <<symbols, relations, specifies>>
    BY <1>2 DEF PutFile
  <2> QED
    BY <2>2, <2>3 DEF NoOrphanRows, RowsOf, SpecifiesFrom
<1>3. ASSUME NEW s \in Scanner, ReplaceSymbols(s) PROVE NoOrphanRows'
  <2>1. cur[s] \in File /\ data[s] \in Content
    BY <1>3 DEF ReplaceSymbols, TypeInv, CursorOK, Rewriting
  <2>2. ASSUME NEW f \in File, files[f] = Absent PROVE RowsOf(f)' \subseteq RowsOf(f)
    <3>1. cur[s] = f => Defines[cur[s]][data[s]] = {}
      BY <1>3, <2>2 DEF ReplaceSymbols
    <3>2. ASSUME NEW n \in Name, n \in RowsOf(f)' PROVE n \in RowsOf(f)
      <4>1. symbols'[n] = IF n \in Defines[cur[s]][data[s]]
                             THEN [file |-> cur[s], content |-> data[s]]
                             ELSE IF n \in RowsOf(cur[s]) THEN NoRow ELSE symbols[n]
        BY <1>3 DEF ReplaceSymbols, SymbolsAfter
      <4>2. symbols'[n] # NoRow /\ symbols'[n].file = f
        BY <3>2 DEF RowsOf
      <4>3. n \notin Defines[cur[s]][data[s]]
        <5> SUFFICES ASSUME n \in Defines[cur[s]][data[s]] PROVE FALSE
          OBVIOUS
        <5> QED
          BY <3>1, <4>1, <4>2
      <4> QED
        BY <4>1, <4>2, <4>3 DEF RowsOf
    <3> QED
      BY <3>2 DEF RowsOf
  <2>3. UNCHANGED <<files, relations, specifies>>
    BY <1>3 DEF ReplaceSymbols
  <2> QED
    BY <2>2, <2>3, NoOrphanStep DEF SpecifiesFrom
<1>4. ASSUME NEW s \in Scanner, ReplaceRelations(s) PROVE NoOrphanRows'
  <2>1. cur[s] \in File
    BY <1>4 DEF ReplaceRelations, TypeInv, CursorOK, Rewriting
  <2>2. UNCHANGED <<files, symbols>> /\ specifies' \subseteq specifies
    BY <1>4 DEF ReplaceRelations
  <2>3. \A f \in File : files[f] = Absent =>
           relations'[f] = relations[f] \/ relations'[f] = Absent
    BY <1>4, <2>1 DEF ReplaceRelations, TypeInv, TypeOK
  <2> QED
    BY <2>2, <2>3, NoOrphanStep DEF RowsOf, SpecifiesFrom
<1>5. ASSUME NEW s \in Scanner, LinkDocs(s) PROVE NoOrphanRows'
  <2>1. UNCHANGED <<files, symbols, relations>>
    BY <1>5 DEF LinkDocs
  <2>2. \A r \in specifies' : files[r[1]] # Absent
    BY <1>5 DEF LinkDocs
  <2>3. \A f \in File : files[f] = Absent => SpecifiesFrom(f)' \subseteq SpecifiesFrom(f)
    BY <2>2 DEF SpecifiesFrom
  <2> QED
    BY <2>1, <2>3, NoOrphanStep DEF RowsOf
<1>6. ASSUME NEW s \in Scanner, NEW f \in File, DeleteCached(s, f) PROVE NoOrphanRows'
  <2>1. NoRowsOf(f)'
    BY <1>6 DEF DeleteCached, CascadeSymbols, NoRowsOf, RowsOf, SpecifiesFrom, TypeInv, TypeOK
  <2>2. \A g \in File \ {f} :
           /\ files'[g] = files[g]
           /\ relations'[g] = relations[g]
           /\ RowsOf(g)' \subseteq RowsOf(g)
           /\ SpecifiesFrom(g)' \subseteq SpecifiesFrom(g)
    BY <1>6 DEF DeleteCached, CascadeSymbols, RowsOf, SpecifiesFrom, TypeInv, TypeOK
  <2> QED
    BY <2>1, <2>2 DEF NoOrphanRows, NoRowsOf
<1>7. ASSUME NEW s \in Scanner, Finish(s) \/ Fail(s) PROVE NoOrphanRows'
  BY <1>1, <1>7 DEF Finish, Fail, ForeignKeyError, Abort, CutShort, Leave, stores
<1>8. ASSUME NEW s \in Scanner, Work(s) PROVE NoOrphanRows'
  BY <1>1, <1>2, <1>3, <1>4, <1>5, <1>6, <1>8
     DEF Work, SkipFile, ReadFile, CheckHash, IndexFts, EndWalk, PutGitStats, ReadDocs, DeleteFts,
         stores
<1> QED
  BY <1>1, <1>7, <1>8
     DEF Next, vars, stores, EditFile, BeginWhole, BeginPartial, Begin, BeginRemove

\* Whatever the scanners do, and wherever they are cut short, cache.db holds no
\* symbol and no relation of a path that has no files row.
THEOREM OrphanFree == Spec => []NoOrphanRows
<1>1. Init => NoOrphanRows
  BY DEF Init, NoOrphanRows, RowsOf, SpecifiesFrom
<1> QED
  BY <1>1, InitTypeInv, NextTypeInv, NextNoOrphanRows, PTL DEF Spec

-----------------------------------------------------------------------------
(* NoSpuriousDrop, with any number of scanners that can die at any commit. *)

Walking == {"walk"} \cup Rewriting

Gone(f) == Want(f, disk[f]) = Absent

\* A whole-project scan accounts for every file: during the walk it is still to
\* be read, was read, was edited meanwhile, or has no place in the index; the
\* files to delete are of the last two kinds.
DropOK(s) ==
  /\ pc[s] = "idle" => ~whole[s]
  /\ whole[s] /\ pc[s] \in Walking =>
       \A f \in File : f \in touched[s] \cup visited[s] \cup todo[s] \/ Gone(f)
  /\ whole[s] /\ pc[s] \in {"git", "docs", "link"} =>
       \A f \in File : f \in touched[s] \cup visited[s] \/ Gone(f)
  /\ whole[s] /\ pc[s] \in {"stale", "staleFts"} =>
       \A f \in todo[s] : f \in touched[s] \/ Gone(f)

DropInv == \A s \in Scanner : DropOK(s)

\* A step of one scanner does not disturb what another one accounts for.
LEMMA DropFrame ==
  ASSUME DropInv, UNCHANGED disk, NEW s \in Scanner, DropOK(s)',
         \A t \in Scanner \ {s} :
            /\ pc'[t] = pc[t] /\ whole'[t] = whole[t] /\ todo'[t] = todo[t]
            /\ visited'[t] = visited[t] /\ touched'[t] = touched[t]
  PROVE  DropInv'
<1> SUFFICES ASSUME NEW t \in Scanner, t # s PROVE DropOK(t)'
  BY DEF DropInv
<1> QED
  BY DEF DropInv, DropOK, Gone, Want

LEMMA NextDropInv == ~MayMisread /\ TypeInv /\ DropInv /\ [Next]_vars => DropInv'
<1> SUFFICES ASSUME ~MayMisread, TypeInv, DropInv, [Next]_vars PROVE DropInv'
  OBVIOUS
<1>0. TypeOK
  BY DEF TypeInv
<1>1. ASSUME NEW f \in File, NEW c \in Stored, EditFile(f, c) PROVE DropInv'
  <2>1. \A g \in File \ {f} : Gone(g)' = Gone(g)
    BY <1>1, <1>0 DEF EditFile, Gone, Want, TypeOK
  <2>2. \A s \in Scanner : pc[s] # "idle" => touched'[s] = touched[s] \cup {f}
    BY <1>1 DEF EditFile
  <2>3. UNCHANGED <<pc, whole, todo, visited>>
    BY <1>1 DEF EditFile, scan
  <2> SUFFICES ASSUME NEW s \in Scanner PROVE DropOK(s)'
    BY DEF DropInv
  <2>4. CASE pc[s] = "idle"
    BY <2>3, <2>4 DEF DropInv, DropOK, Walking, Rewriting
  <2>5. CASE pc[s] # "idle"
    BY <2>1, <2>2, <2>3, <2>5, <1>0 DEF DropInv, DropOK, TypeOK
  <2> QED
    BY <2>4, <2>5
<1>2. ASSUME NEW s \in Scanner, NEW m \in {"full", "incremental"}, BeginWhole(s, m)
      PROVE  DropInv'
  <2>1. \A f \in File : f \in todo'[s] \/ Gone(f)'
    BY <1>2, <1>0 DEF BeginWhole, Begin, Gone, Want, TypeOK
  <2>2. pc'[s] = "walk"
    BY <1>2, <1>0 DEF BeginWhole, Begin, Goto, TypeOK
  <2>3. DropOK(s)'
    BY <2>1, <2>2 DEF DropOK
  <2> QED
    BY <1>2, <1>0, <2>3, DropFrame DEF BeginWhole, Begin, Goto, TypeOK
<1>3. ASSUME NEW s \in Scanner, NEW F \in SUBSET File, BeginPartial(s, F) PROVE DropInv'
  <2>1. DropOK(s)'
    BY <1>3, <1>0 DEF BeginPartial, Begin, DropOK, Goto, TypeOK
  <2> QED
    BY <1>3, <1>0, <2>1, DropFrame DEF BeginPartial, Begin, Goto, TypeOK
<1>4. ASSUME NEW s \in Scanner, NEW F \in SUBSET File, BeginRemove(s, F) PROVE DropInv'
  <2>1. ~whole'[s]
    BY <1>4 DEF history, BeginRemove, DropInv, DropOK
  <2> QED
    BY <1>4, <1>0, <2>1, DropFrame DEF history, BeginRemove, DropOK, Goto, TypeOK
<1>5. ASSUME NEW s \in Scanner, NEW f \in File, SkipFile(s, f) PROVE DropInv'
  <2>1. Gone(f)
    BY <1>5 DEF history, SkipFile, Gone, Want
  <2>2. todo'[s] = todo[s] \ {f} /\ UNCHANGED <<disk, pc, whole, visited, touched>>
    BY <1>5, <1>0 DEF history, SkipFile, TypeOK
  <2>3. DropOK(s)'
    BY <1>5, <2>1, <2>2 DEF history, SkipFile, DropInv, DropOK, Gone, Want, Walking
  <2> QED
    BY <1>5, <1>0, <2>3, DropFrame DEF history, SkipFile, TypeOK
<1>6. ASSUME NEW s \in Scanner, NEW f \in File, ReadFile(s, f) PROVE DropInv'
  <2>1. /\ todo'[s] = todo[s] \ {f} /\ visited'[s] = visited[s] \cup {f}
        /\ UNCHANGED <<disk, whole, touched>>
    BY <1>6, <1>0 DEF history, ReadFile, TypeOK
  <2>2. pc[s] = "walk" /\ pc'[s] \in {"walk", "check"}
    BY <1>6, <1>0 DEF history, ReadFile, Goto, TypeOK
  <2>3. DropOK(s)'
    BY <2>1, <2>2 DEF DropInv, DropOK, Gone, Want, Walking, Rewriting
  <2>4. \A t \in Scanner \ {s} : pc'[t] = pc[t]
    BY <1>6, <1>0 DEF history, ReadFile, Goto, TypeOK
  <2> QED
    BY <1>6, <1>0, <2>1, <2>3, <2>4, DropFrame DEF history, ReadFile, TypeOK
<1>7. ASSUME NEW s \in Scanner,
             CheckHash(s) \/ PutFile(s) \/ ReplaceSymbols(s) \/ ReplaceRelations(s) \/ IndexFts(s)
      PROVE  DropInv'
  <2>1. UNCHANGED <<disk, whole, todo, visited, touched>>
    BY <1>7 DEF history, CheckHash, PutFile, ReplaceSymbols, ReplaceRelations, IndexFts
  <2>2. pc[s] \in Walking /\ \E p \in Walking : pc' = [pc EXCEPT ![s] = p]
    BY <1>7 DEF history, CheckHash, PutFile, ReplaceSymbols, ReplaceRelations, IndexFts, NextFile, Goto,
                Walking, Rewriting
  <2>3. pc'[s] \in Walking /\ \A t \in Scanner \ {s} : pc'[t] = pc[t]
    BY <2>2, <1>0 DEF TypeOK
  <2>4. DropOK(s)'
    BY <2>1, <2>2, <2>3 DEF DropInv, DropOK, Gone, Want, Walking, Rewriting
  <2> QED
    BY <2>1, <2>3, <2>4, DropFrame
<1>8. ASSUME NEW s \in Scanner, EndWalk(s) \/ PutGitStats(s) PROVE DropInv'
  <2>1. UNCHANGED <<disk, whole, todo, visited, touched>>
    BY <1>8 DEF history, EndWalk, PutGitStats
  <2>2. /\ (pc[s] = "walk" /\ todo[s] = {}) \/ pc[s] = "git"
        /\ pc'[s] \in {"git", "docs"}
        /\ \A t \in Scanner \ {s} : pc'[t] = pc[t]
    BY <1>8, <1>0 DEF history, EndWalk, PutGitStats, Goto, TypeOK
  <2>3. DropOK(s)'
    BY <2>1, <2>2 DEF DropInv, DropOK, Gone, Want, Walking, Rewriting
  <2> QED
    BY <2>1, <2>2, <2>3, DropFrame
<1>9. ASSUME NEW s \in Scanner, ReadDocs(s) \/ LinkDocs(s) PROVE DropInv'
  <2>1. UNCHANGED <<disk, whole, visited, touched>>
    BY <1>9 DEF history, ReadDocs, LinkDocs
  <2>2. /\ pc[s] \in {"docs", "link"}
        /\ \/ pc'[s] = "stale" /\ todo'[s] = StaleAfter(s)
           \/ pc'[s] = "link"
        /\ \A t \in Scanner \ {s} : pc'[t] = pc[t] /\ todo'[t] = todo[t]
    BY <1>9, <1>0 DEF history, ReadDocs, LinkDocs, BeginCleanup, Goto, TypeOK
  <2>3. StaleAfter(s) \subseteq File /\ (whole[s] => StaleAfter(s) \cap visited[s] = {})
    BY <1>0 DEF StaleAfter, TypeOK
  <2>4. DropOK(s)'
    BY <2>1, <2>2, <2>3 DEF DropInv, DropOK, Gone, Want, Walking, Rewriting
  <2> QED
    BY <2>1, <2>2, <2>4, DropFrame
<1>10. ASSUME NEW s \in Scanner, (\E f \in File : DeleteCached(s, f)) \/ DeleteFts(s)
       PROVE  DropInv'
  <2>1. UNCHANGED <<disk, whole, visited, touched>>
    BY <1>10 DEF history, DeleteCached, DeleteFts
  <2>2. pc[s] \in {"stale", "staleFts"} /\ pc'[s] \in {"stale", "staleFts"}
    BY <1>10, <1>0 DEF history, DeleteCached, DeleteFts, NextFile, Goto, TypeOK
  <2>3. todo'[s] \subseteq todo[s]
    BY <1>10, <1>0 DEF history, DeleteCached, DeleteFts, TypeOK
  <2>4. DropOK(s)'
    BY <2>1, <2>2, <2>3 DEF DropInv, DropOK, Gone, Want, Walking, Rewriting
  <2>5. \A t \in Scanner \ {s} : pc'[t] = pc[t] /\ todo'[t] = todo[t]
    BY <1>10, <1>0 DEF history, DeleteCached, DeleteFts, NextFile, Goto, TypeOK
  <2> QED
    BY <2>1, <2>4, <2>5, DropFrame
<1>11. ASSUME NEW s \in Scanner, Leave(s) PROVE DropInv'
  <2>1. pc'[s] = "idle" /\ ~whole'[s]
    BY <1>11, <1>0 DEF Leave, Goto, TypeOK
  <2>2. DropOK(s)'
    BY <2>1 DEF DropOK
  <2> QED
    BY <1>11, <1>0, <2>2, DropFrame DEF Leave, Goto, TypeOK
<1>12. CASE UNCHANGED vars
  BY <1>12 DEF vars, scan, history, DropInv, DropOK, Gone, Want
<1> QED
  BY <1>1, <1>2, <1>3, <1>4, <1>5, <1>6, <1>7, <1>8, <1>9, <1>10, <1>11, <1>12
     DEF Next, Work, Fail, Finish, ForeignKeyError, Abort, CutShort

\* Unless reading a file that is there fails, a whole-project scan never deletes a
\* file that was on disk, small enough and parsable throughout the scan.
THEOREM NothingDropped ==
  ASSUME ~MayMisread
  PROVE  Spec => NoSpuriousDrop
<1>1. Init => DropInv
  BY DEF Init, DropInv, DropOK, Walking, Rewriting
<1>2. TypeInv /\ DropInv /\ [Next]_vars => DropInv'
  BY NextDropInv
<1>3. DropInv /\ [Next]_vars =>
        [\A s \in Scanner, f \in File :
           whole[s] /\ DeleteCached(s, f) => f \in touched[s] \/ Want(f, disk[f]) = Absent]_vars
  BY DEF DropInv, DropOK, Gone, DeleteCached
<1> QED
  BY <1>1, <1>2, <1>3, InitTypeInv, NextTypeInv, PTL DEF Spec, NoSpuriousDrop

-----------------------------------------------------------------------------
(* One process at a time scans the project, as in the serial run of the    *)
(* model checker.  It may die at any commit, and files change at any time. *)

OneWriter == \A s, t \in Scanner : s = t

\* How far the rewriting, or the deletion, of the current file has come.
Stage(s) ==
  /\ pc[s] \in {"symbols", "relations", "fts"} => files[cur[s]] = data[s]
  /\ pc[s] \in {"relations", "fts"} => RowsMatch(cur[s])
  /\ pc[s] = "fts" => relations[cur[s]] = data[s]
  /\ pc[s] = "staleFts" =>
       files[cur[s]] = Absent /\ relations[cur[s]] = Absent /\ RowsOf(cur[s]) = {}

AgreeInv == StoresAgree /\ \A s \in Scanner : Stage(s)

-----------------------------------------------------------------------------
(* Lemmas about the symbols table.                                         *)

\* After replace_symbols the rows of the file are those of its new content.
LEMMA ReplacedRowsMatch ==
  ASSUME TypeOK, NEW f \in File, NEW c \in Content,
         symbols' = SymbolsAfter(f, c), files'[f] = c
  PROVE  RowsMatch(f)'
BY DEF TypeOK, RowsMatch, RowsOf, SymbolsAfter, SymbolRow

\* Another file at most loses rows to it.
LEMMA OtherRowsMatch ==
  ASSUME TypeOK, NEW f \in File, NEW c \in Content, NEW g \in File, g # f,
         symbols' = SymbolsAfter(f, c) \/ symbols' = CascadeSymbols(f),
         files'[g] = files[g], RowsMatch(g)
  PROVE  RowsMatch(g)'
<1>1. ASSUME NEW n \in RowsOf(g)' PROVE n \in RowsOf(g) /\ symbols'[n] = symbols[n]
  BY <1>1, ConstantTypes DEF TypeOK, RowsOf, SymbolsAfter, CascadeSymbols
<1> QED
  BY <1>1 DEF RowsMatch

-----------------------------------------------------------------------------
LEMMA NextAgreeInv == OneWriter /\ TypeInv /\ AgreeInv /\ [Next]_vars => AgreeInv'
<1> SUFFICES ASSUME OneWriter, TypeInv, AgreeInv, [Next]_vars PROVE AgreeInv'
  OBVIOUS
<1> USE ConstantTypes, Sentinels
<1>0. TypeOK /\ CursorOK
  BY DEF TypeInv
\* Steps that write none of the stores of a file, between two files.
<1>1. ASSUME UNCHANGED <<files, symbols, relations, fts_files, cut>>,
             NEW s \in Scanner, ~Committing(s), ~Committing(s)'
      PROVE  AgreeInv'
  <2>1. \A t \in Scanner : t = s
    BY DEF OneWriter
  <2>2. \A f \in File : Coherent(f) \/ f \in cut
    BY <1>1, <2>1 DEF AgreeInv, StoresAgree, InFlight
  <2>3. StoresAgree'
    BY <1>1, <2>2 DEF StoresAgree, Coherent, RowsMatch, RowsOf
  <2> QED
    BY <1>1, <2>1, <2>3 DEF AgreeInv, Stage, Committing
<1>2. ASSUME UNCHANGED <<files, symbols, relations, fts_files, pc, cur, data, cut>> PROVE AgreeInv'
  BY <1>2 DEF AgreeInv, StoresAgree, Stage, InFlight, Committing, Coherent, RowsMatch, RowsOf
<1>3. ASSUME NEW s \in Scanner, PutFile(s) PROVE AgreeInv'
  <2>1. /\ cur[s] \in File /\ cur' = cur /\ data' = data /\ pc'[s] = "symbols"
        /\ files' = [files EXCEPT ![cur[s]] = data[s]]
        /\ UNCHANGED <<symbols, relations, fts_files, cut>>
    BY <1>3, <1>0 DEF PutFile, Goto, history, TypeOK, CursorOK, Rewriting
  <2>2. \A t \in Scanner : t = s
    BY DEF OneWriter
  <2>3. ASSUME NEW f \in File, f # cur[s] PROVE Coherent(f)' \/ f \in cut'
    <3>1. Coherent(f) \/ f \in cut
      BY <1>3, <2>2 DEF PutFile, AgreeInv, StoresAgree, InFlight, Committing
    <3>2. files'[f] = files[f]
      BY <2>1, <2>3, <1>0 DEF TypeOK
    <3> QED
      BY <2>1, <3>1, <3>2 DEF Coherent, RowsMatch, RowsOf
  <2>4. InFlight(cur[s])'
    BY <2>1 DEF InFlight, Committing
  <2>5. Stage(s)'
    BY <2>1, <1>0 DEF Stage, TypeOK
  <2> QED
    BY <2>1, <2>2, <2>3, <2>4, <2>5 DEF AgreeInv, StoresAgree
<1>4. ASSUME NEW s \in Scanner, ReplaceSymbols(s) PROVE AgreeInv'
  <2>0. PICK f \in File : cur[s] = f
    BY <1>4, <1>0 DEF ReplaceSymbols, CursorOK, Rewriting
  <2>1. /\ data[s] \in Content /\ cur' = cur /\ data' = data /\ files[f] = data[s]
        /\ pc'[s] = "relations" /\ symbols' = SymbolsAfter(f, data[s])
        /\ UNCHANGED <<files, relations, fts_files, cut>>
    BY <1>4, <1>0, <2>0
       DEF ReplaceSymbols, Goto, history, TypeOK, CursorOK, Rewriting, AgreeInv, Stage
  <2>2. \A t \in Scanner : t = s
    BY DEF OneWriter
  <2>3. ASSUME NEW g \in File, g # f PROVE Coherent(g)' \/ g \in cut'
    <3>1. Coherent(g) \/ g \in cut
      BY <2>0, <2>2, <2>3 DEF AgreeInv, StoresAgree, InFlight
    <3>2. CASE Coherent(g)
      <4>1. RowsMatch(g)'
        BY <1>0, <2>1, <2>3, <3>2, OtherRowsMatch DEF Coherent
      <4> QED
        BY <2>1, <3>2, <4>1 DEF Coherent
    <3> QED
      BY <2>1, <3>1, <3>2
  <2>4. InFlight(f)'
    BY <2>0, <2>1 DEF InFlight, Committing
  <2>5. RowsMatch(f)'
    BY <1>0, <2>1, ReplacedRowsMatch
  <2>6. Stage(s)'
    BY <2>0, <2>1, <2>5 DEF Stage, RowsMatch, RowsOf
  <2> QED
    BY <2>1, <2>2, <2>3, <2>4, <2>6 DEF AgreeInv, StoresAgree
<1>5. ASSUME NEW s \in Scanner, ReplaceRelations(s) PROVE AgreeInv'
  <2>1. /\ cur[s] \in File /\ data[s] \in Content /\ cur' = cur /\ data' = data
        /\ files[cur[s]] = data[s] /\ RowsMatch(cur[s])
        /\ pc'[s] = "fts" /\ relations' = [relations EXCEPT ![cur[s]] = data[s]]
        /\ UNCHANGED <<files, symbols, fts_files, cut>>
    BY <1>5, <1>0 DEF ReplaceRelations, Goto, history, TypeOK, CursorOK, Rewriting, AgreeInv, Stage
  <2>2. \A t \in Scanner : t = s
    BY DEF OneWriter
  <2>3. ASSUME NEW f \in File, f # cur[s] PROVE Coherent(f)' \/ f \in cut'
    <3>1. Coherent(f) \/ f \in cut
      BY <2>2, <2>3 DEF AgreeInv, StoresAgree, InFlight
    <3>2. relations'[f] = relations[f]
      BY <2>1, <2>3, <1>0 DEF TypeOK
    <3> QED
      BY <2>1, <3>1, <3>2 DEF Coherent, RowsMatch, RowsOf
  <2>4. InFlight(cur[s])'
    BY <2>1 DEF InFlight, Committing
  <2>5. Stage(s)'
    BY <2>1, <1>0 DEF Stage, RowsMatch, RowsOf, TypeOK
  <2> QED
    BY <2>1, <2>2, <2>3, <2>4, <2>5 DEF AgreeInv, StoresAgree
<1>6. ASSUME NEW s \in Scanner, NEW f \in File, DeleteCached(s, f) PROVE AgreeInv'
  <2>1. /\ cur'[s] = f /\ pc'[s] = "staleFts" /\ files' = [files EXCEPT ![f] = Absent]
        /\ relations' = [relations EXCEPT ![f] = Absent]
        /\ symbols' = CascadeSymbols(f)
        /\ UNCHANGED <<fts_files, cut>>
    BY <1>6, <1>0 DEF DeleteCached, Goto, history, TypeOK
  <2>2. \A t \in Scanner : t = s
    BY DEF OneWriter
  <2>3. ASSUME NEW g \in File, g # f PROVE Coherent(g)' \/ g \in cut'
    <3>1. Coherent(g) \/ g \in cut
      BY <1>6, <2>2 DEF DeleteCached, AgreeInv, StoresAgree, InFlight, Committing
    <3>2. files'[g] = files[g] /\ relations'[g] = relations[g]
      BY <2>1, <2>3, <1>0 DEF TypeOK
    <3>3. CASE Coherent(g)
      <4>1. RowsMatch(g)'
        <5>1. ASSUME NEW n \in RowsOf(g)' PROVE n \in RowsOf(g) /\ symbols'[n] = symbols[n]
          BY <5>1, <2>1, <1>0 DEF TypeOK, RowsOf, CascadeSymbols
        <5> QED
          BY <3>2, <3>3, <5>1 DEF RowsMatch, Coherent
      <4> QED
        BY <2>1, <3>2, <3>3, <4>1 DEF Coherent
    <3> QED
      BY <2>1, <3>1, <3>3
  <2>4. InFlight(f)'
    BY <2>1 DEF InFlight, Committing
  <2>5. files'[f] = Absent /\ relations'[f] = Absent /\ RowsOf(f)' = {}
    BY <2>1, <1>0 DEF TypeOK, RowsOf, CascadeSymbols
  <2>6. Stage(s)'
    BY <2>1, <2>5 DEF Stage, RowsOf
  <2> QED
    BY <2>1, <2>2, <2>3, <2>4, <2>6 DEF AgreeInv, StoresAgree
<1>7. ASSUME NEW s \in Scanner, IndexFts(s) \/ DeleteFts(s) PROVE AgreeInv'
  <2>0. PICK f \in File : cur[s] = f
    BY <1>7, <1>0 DEF IndexFts, DeleteFts, CursorOK, Rewriting
  <2>1. /\ pc'[s] \in {"walk", "stale"} /\ cut' = cut \ {f}
        /\ UNCHANGED <<files, symbols, relations>>
    BY <1>7, <1>0, <2>0 DEF IndexFts, DeleteFts, NextFile, Goto, TypeOK
  <2>2. \A t \in Scanner : t = s
    BY DEF OneWriter
  <2>3. fts_files' = [fts_files EXCEPT ![f] = FtsEntry(files[f])]
    <3>1. CASE IndexFts(s)
      BY <2>0, <3>1 DEF IndexFts, AgreeInv, Stage
    <3>2. CASE DeleteFts(s)
      BY <2>0, <3>2 DEF DeleteFts, AgreeInv, Stage, FtsEntry
    <3> QED
      BY <1>7, <3>1, <3>2
  <2>4. relations[f] = files[f] /\ RowsMatch(f)
    <3>1. CASE IndexFts(s)
      BY <2>0, <3>1 DEF IndexFts, AgreeInv, Stage
    <3>2. CASE DeleteFts(s)
      BY <2>0, <3>2 DEF DeleteFts, AgreeInv, Stage, RowsMatch
    <3> QED
      BY <1>7, <3>1, <3>2
  <2>5. Coherent(f)'
    BY <2>1, <2>3, <2>4, <1>0 DEF Coherent, RowsMatch, RowsOf, FtsEntry, TypeOK
  <2>6. ASSUME NEW g \in File, g # f PROVE Coherent(g)' \/ g \in cut'
    <3>1. Coherent(g) \/ g \in cut
      BY <2>0, <2>2, <2>6 DEF AgreeInv, StoresAgree, InFlight
    <3>2. fts_files'[g] = fts_files[g]
      BY <2>3, <2>6, <1>0 DEF TypeOK
    <3> QED
      BY <2>1, <2>6, <3>1, <3>2 DEF Coherent, RowsMatch, RowsOf
  <2>7. Stage(s)'
    BY <2>1 DEF Stage
  <2> QED
    BY <2>1, <2>2, <2>5, <2>6, <2>7 DEF AgreeInv, StoresAgree
<1>8. ASSUME NEW s \in Scanner, Finish(s) \/ Fail(s) PROVE AgreeInv'
  <2>1. \A t \in Scanner : t = s
    BY DEF OneWriter
  <2>2. /\ pc'[s] = "idle" /\ UNCHANGED <<files, symbols, relations, fts_files>>
        /\ cut \subseteq cut' /\ (Committing(s) => cur[s] \in cut')
    BY <1>8, <1>0
       DEF Finish, Fail, ForeignKeyError, Abort, CutShort, Leave, Goto, Committing, stores, TypeOK
  <2>3. \A f \in File : Coherent(f)' \/ f \in cut'
    BY <2>1, <2>2 DEF AgreeInv, StoresAgree, InFlight, Coherent, RowsMatch, RowsOf
  <2> QED
    BY <2>1, <2>2, <2>3 DEF AgreeInv, StoresAgree, Stage
<1>9. ASSUME NEW s \in Scanner, NEW f \in File, SkipFile(s, f) \/ ReadFile(s, f) PROVE AgreeInv'
  <2>1. ~Committing(s) /\ ~Committing(s)'
    BY <1>9, <1>0 DEF SkipFile, ReadFile, Goto, Committing, TypeOK
  <2> QED
    BY <1>1, <1>9, <2>1 DEF SkipFile, ReadFile, stores, history
<1>10. ASSUME NEW s \in Scanner,
              CheckHash(s) \/ EndWalk(s) \/ PutGitStats(s) \/ ReadDocs(s) \/ LinkDocs(s)
       PROVE  AgreeInv'
  <2>1. ~Committing(s) /\ ~Committing(s)'
    BY <1>10, <1>0 DEF CheckHash, EndWalk, PutGitStats, ReadDocs, LinkDocs, BeginCleanup, NextFile,
                       Goto, Committing, TypeOK
  <2> QED
    BY <1>1, <1>10, <2>1 DEF CheckHash, EndWalk, PutGitStats, ReadDocs, LinkDocs, stores, history
<1>11. ASSUME NEW s \in Scanner, NEW F \in SUBSET File, NEW m \in {"full", "incremental"},
              BeginWhole(s, m) \/ BeginPartial(s, F) \/ BeginRemove(s, F)
       PROVE  AgreeInv'
  <2>1. ~Committing(s) /\ ~Committing(s)'
    BY <1>11, <1>0 DEF BeginWhole, BeginPartial, Begin, BeginRemove, Goto, Committing, TypeOK
  <2> QED
    BY <1>1, <1>11, <2>1 DEF BeginWhole, BeginPartial, Begin, BeginRemove, stores, history
<1>12. ASSUME NEW f \in File, NEW c \in Stored, EditFile(f, c) PROVE AgreeInv'
  BY <1>2, <1>12 DEF EditFile, stores, scan
<1>13. CASE UNCHANGED vars
  BY <1>2, <1>13 DEF vars, stores, scan, history
<1> QED
  BY <1>3, <1>4, <1>5, <1>6, <1>7, <1>8, <1>9, <1>10, <1>11, <1>12, <1>13 DEF Next, Work

\* With one writer the files table vouches for the other stores: they agree on every
\* file but the one in work and those a scan was cut short on.
THEOREM OneWriterAgrees ==
  ASSUME OneWriter
  PROVE  Spec => []StoresAgree
<1>1. Init => AgreeInv
  BY ConstantTypes, Sentinels
     DEF Init, AgreeInv, StoresAgree, Stage, Coherent, RowsMatch, RowsOf, FtsEntry
<1>2. TypeInv /\ AgreeInv /\ [Next]_vars => AgreeInv'
  BY NextAgreeInv
<1>3. AgreeInv => StoresAgree
  BY DEF AgreeInv
<1> QED
  BY <1>1, <1>2, <1>3, InitTypeInv, NextTypeInv, PTL DEF Spec

-----------------------------------------------------------------------------
(* WholeScanFresh.                                                         *)

\* The hash of f has been compared, and stored if it differed.
HashStored(s, f) == ~(cur[s] = f /\ pc[s] \in {"check", "put"})

\* A visited file nobody edited since is on disk as it was read, and its row, once
\* its hash has been stored, is the one it should have.
VisitedFresh(s) ==
  \A f \in visited[s] \ touched[s] :
     /\ disk[f] # Absent /\ <<f, disk[f]>> \notin Oversized
     /\ HashStored(s, f) => files[f] = Want(f, disk[f])

Deleting == {"stale", "staleFts"}

\* A whole scan accounts for every row: the file was indexed before or visited, and
\* in the end visited or still to be deleted.
FreshOK(s) ==
  /\ pc[s] = "idle" => ~whole[s]
  /\ pc[s] \in Rewriting =>
       /\ cur[s] \in visited[s] \cap Parsable
       /\ cur[s] \in touched[s] \/ data[s] = disk[cur[s]]
  /\ whole[s] => VisitedFresh(s)
  /\ whole[s] /\ pc[s] \notin Deleting =>
       \A f \in File : files[f] # Absent => f \in existing[s] \cup visited[s]
  /\ whole[s] /\ pc[s] \in Deleting =>
       /\ \A f \in File : files[f] # Absent => f \in todo[s] \cup visited[s]
       /\ todo[s] \cap visited[s] = {}

FreshInv ==
  /\ \A f \in File : files[f] # Absent => f \in Parsable
  /\ \A s \in Scanner : FreshOK(s)

LEMMA NextFreshInv == OneWriter /\ TypeInv /\ FreshInv /\ [Next]_vars => FreshInv'
<1> SUFFICES ASSUME OneWriter, TypeInv, FreshInv, [Next]_vars PROVE FreshInv'
  OBVIOUS
<1> USE ConstantTypes, Sentinels
<1>0. TypeOK /\ CursorOK
  BY DEF TypeInv
<1>1. ASSUME NEW s \in Scanner, FreshOK(s)', \A f \in File : files'[f] \in {files[f], Absent}
      PROVE  FreshInv'
  BY <1>1 DEF OneWriter, FreshInv
<1>2. ASSUME NEW f \in File, NEW c \in Stored, EditFile(f, c) PROVE FreshInv'
  <2>1. UNCHANGED <<files, pc, whole, todo, existing, visited, cur, data>>
    BY <1>2 DEF EditFile, stores, scan
  <2>2. \A g \in File \ {f} : disk'[g] = disk[g]
    BY <1>2, <1>0 DEF EditFile, TypeOK
  <2> SUFFICES ASSUME NEW s \in Scanner PROVE FreshOK(s)'
    BY <2>1 DEF FreshInv
  <2>3. CASE pc[s] = "idle"
    BY <2>1, <2>3 DEF FreshInv, FreshOK, Rewriting
  <2>4. CASE pc[s] # "idle"
    <3>1. touched'[s] = touched[s] \cup {f}
      BY <1>2, <2>4 DEF EditFile
    <3>2. VisitedFresh(s) => VisitedFresh(s)'
      BY <2>1, <2>2, <3>1, <1>0 DEF VisitedFresh, HashStored, Want, TypeOK
    <3>3. pc[s] \in Rewriting => cur[s] \in File
      BY <1>0 DEF CursorOK
    <3> QED
      BY <2>1, <2>2, <3>1, <3>2, <3>3 DEF FreshInv, FreshOK
  <2> QED
    BY <2>3, <2>4
<1>3. ASSUME NEW s \in Scanner, NEW m \in {"full", "incremental"}, BeginWhole(s, m)
      PROVE  FreshInv'
  <2>1. /\ pc'[s] = "walk" /\ visited'[s] = {} /\ existing'[s] = Indexed
        /\ UNCHANGED files
    BY <1>3, <1>0 DEF BeginWhole, Begin, Goto, stores, TypeOK
  <2>2. FreshOK(s)'
    BY <2>1 DEF FreshOK, VisitedFresh, Rewriting, Deleting, Indexed
  <2> QED
    BY <1>1, <2>1, <2>2
<1>4. ASSUME NEW s \in Scanner, NEW F \in SUBSET File, BeginPartial(s, F) \/ BeginRemove(s, F)
      PROVE  FreshInv'
  <2>1. pc'[s] \in {"walk", "stale"} /\ ~whole'[s] /\ UNCHANGED files
    BY <1>4, <1>0
       DEF BeginPartial, Begin, BeginRemove, Goto, stores, TypeOK, FreshInv, FreshOK
  <2>2. FreshOK(s)'
    BY <2>1 DEF FreshOK, Rewriting
  <2> QED
    BY <1>1, <2>1, <2>2
<1>5. ASSUME NEW s \in Scanner, NEW f \in File, SkipFile(s, f) PROVE FreshInv'
  <2>1. /\ pc[s] = "walk"
        /\ UNCHANGED <<disk, files, pc, whole, existing, visited, cur, data, touched>>
    BY <1>5 DEF SkipFile, stores, history
  <2>2. FreshOK(s)'
    BY <2>1 DEF FreshInv, FreshOK, VisitedFresh, HashStored, Want, Rewriting, Deleting
  <2> QED
    BY <1>1, <2>1, <2>2
<1>6. ASSUME NEW s \in Scanner, NEW f \in File, ReadFile(s, f) PROVE FreshInv'
  <2>1. /\ pc[s] = "walk" /\ visited'[s] = visited[s] \cup {f}
        /\ disk[f] # Absent /\ <<f, disk[f]>> \notin Oversized
        /\ UNCHANGED <<disk, files, whole, existing, touched>>
    BY <1>6, <1>0 DEF ReadFile, stores, history, TypeOK
  <2>2. /\ f \in Parsable => pc'[s] = "check" /\ cur'[s] = f /\ data'[s] = disk[f]
        /\ f \notin Parsable => pc'[s] = "walk" /\ files[f] = Absent
    BY <1>6, <1>0 DEF ReadFile, Goto, TypeOK, FreshInv
  <2>3. whole[s] => VisitedFresh(s)'
    <3> SUFFICES ASSUME whole[s], NEW g \in visited'[s] \ touched'[s]
                 PROVE  /\ disk[g] # Absent /\ <<g, disk[g]>> \notin Oversized
                        /\ HashStored(s, g)' => files[g] = Want(g, disk[g])
      BY <2>1 DEF VisitedFresh, Want
    <3>1. CASE g = f
      BY <2>1, <2>2, <3>1 DEF HashStored, Want
    <3>2. CASE g # f
      BY <2>1, <3>2 DEF HashStored, FreshInv, FreshOK, VisitedFresh
    <3> QED
      BY <3>1, <3>2
  <2>4. FreshOK(s)'
    BY <2>1, <2>2, <2>3 DEF FreshInv, FreshOK, Rewriting, Deleting
  <2> QED
    BY <1>1, <2>1, <2>4
<1>7. ASSUME NEW s \in Scanner, CheckHash(s) PROVE FreshInv'
  <2>1. /\ pc[s] = "check" /\ pc'[s] \in {"walk", "put"}
        /\ UNCHANGED <<disk, files, whole, existing, visited, touched>>
    BY <1>7, <1>0 DEF CheckHash, NextFile, Goto, stores, history, TypeOK
  <2>2. /\ pc'[s] = "walk" => files[cur[s]] = data[s]
        /\ pc'[s] = "put" => UNCHANGED <<cur, data>>
    BY <1>7, <1>0 DEF CheckHash, NextFile, Unchanged, Goto, TypeOK
  <2>3. /\ cur[s] \in visited[s] \cap Parsable
        /\ cur[s] \in touched[s] \/ data[s] = disk[cur[s]]
    BY <2>1 DEF FreshInv, FreshOK, Rewriting
  <2>4. whole[s] => VisitedFresh(s)'
    BY <2>1, <2>2, <2>3 DEF FreshInv, FreshOK, VisitedFresh, HashStored, Want
  <2>5. FreshOK(s)'
    BY <2>1, <2>2, <2>3, <2>4 DEF FreshInv, FreshOK, Rewriting, Deleting
  <2> QED
    BY <1>1, <2>1, <2>5
<1>8. ASSUME NEW s \in Scanner, PutFile(s) PROVE FreshInv'
  <2>1. /\ pc[s] = "put" /\ pc'[s] = "symbols" /\ cur[s] \in File
        /\ files' = [files EXCEPT ![cur[s]] = data[s]]
        /\ UNCHANGED <<disk, whole, existing, visited, touched, cur, data>>
    BY <1>8, <1>0 DEF PutFile, Goto, history, TypeOK, CursorOK, Rewriting
  <2>2. /\ cur[s] \in visited[s] \cap Parsable
        /\ cur[s] \in touched[s] \/ data[s] = disk[cur[s]]
    BY <2>1 DEF FreshInv, FreshOK, Rewriting
  <2>3. /\ files'[cur[s]] = data[s]
        /\ \A f \in File \ {cur[s]} : files'[f] = files[f]
    BY <2>1, <1>0 DEF TypeOK
  <2>4. visited[s] \subseteq File
    BY <1>0 DEF TypeOK
  <2>5. whole[s] => VisitedFresh(s)'
    BY <2>1, <2>2, <2>3, <2>4 DEF FreshInv, FreshOK, VisitedFresh, HashStored, Want
  <2>6. FreshOK(s)'
    BY <2>1, <2>2, <2>3, <2>5 DEF FreshInv, FreshOK, Rewriting, Deleting
  <2> QED
    BY <2>2, <2>3, <2>6 DEF OneWriter, FreshInv
<1>9. ASSUME NEW s \in Scanner, ReplaceSymbols(s) \/ ReplaceRelations(s) PROVE FreshInv'
  <2>1. /\ pc[s] \in {"symbols", "relations"} /\ pc'[s] \in {"relations", "fts"}
        /\ UNCHANGED <<disk, files, whole, existing, visited, touched, cur, data>>
    BY <1>9, <1>0 DEF ReplaceSymbols, ReplaceRelations, Goto, history, TypeOK
  <2>2. FreshOK(s)'
    BY <2>1 DEF FreshInv, FreshOK, VisitedFresh, HashStored, Want, Rewriting, Deleting
  <2> QED
    BY <1>1, <2>1, <2>2
<1>10. ASSUME NEW s \in Scanner, IndexFts(s) \/ EndWalk(s) \/ PutGitStats(s) PROVE FreshInv'
  <2>1. /\ pc[s] \in {"fts", "walk", "git"} /\ pc'[s] \in {"walk", "git", "docs"}
        /\ UNCHANGED <<disk, files, whole, existing, visited, touched>>
    BY <1>10, <1>0 DEF IndexFts, EndWalk, PutGitStats, NextFile, Goto, stores, history, TypeOK
  <2>2. FreshOK(s)'
    BY <2>1 DEF FreshInv, FreshOK, VisitedFresh, HashStored, Want, Rewriting, Deleting
  <2> QED
    BY <1>1, <2>1, <2>2
<1>11. ASSUME NEW s \in Scanner, ReadDocs(s) \/ LinkDocs(s) PROVE FreshInv'
  <2>1. /\ pc[s] \in {"docs", "link"}
        /\ UNCHANGED <<disk, files, whole, existing, visited, touched, cur, data>>
    BY <1>11 DEF ReadDocs, LinkDocs, stores, history
  <2>2. \/ pc'[s] = "link"
        \/ pc'[s] = "stale" /\ todo'[s] = StaleAfter(s)
    BY <1>11, <1>0 DEF ReadDocs, LinkDocs, BeginCleanup, Goto, TypeOK
  <2>3. FreshOK(s)'
    BY <2>1, <2>2
       DEF FreshInv, FreshOK, VisitedFresh, HashStored, Want, Rewriting, Deleting, StaleAfter
  <2> QED
    BY <1>1, <2>1, <2>3
<1>12. ASSUME NEW s \in Scanner, NEW f \in File, DeleteCached(s, f) PROVE FreshInv'
  <2>1. /\ pc[s] = "stale" /\ pc'[s] = "staleFts" /\ f \in todo[s]
        /\ todo'[s] = todo[s] \ {f} /\ files' = [files EXCEPT ![f] = Absent]
        /\ UNCHANGED <<disk, whole, visited, touched>>
    BY <1>12, <1>0 DEF DeleteCached, Goto, history, TypeOK
  <2>2. \A g \in File : files'[g] = IF g = f THEN Absent ELSE files[g]
    BY <2>1, <1>0 DEF TypeOK
  <2>3. whole[s] => f \notin visited[s]
    BY <2>1 DEF FreshInv, FreshOK, Deleting
  <2>4. visited[s] \subseteq File
    BY <1>0 DEF TypeOK
  <2>5. whole[s] => VisitedFresh(s)'
    BY <2>1, <2>2, <2>3, <2>4 DEF FreshInv, FreshOK, VisitedFresh, HashStored, Want
  <2>6. FreshOK(s)'
    BY <2>1, <2>2, <2>5 DEF FreshInv, FreshOK, Rewriting, Deleting
  <2> QED
    BY <1>1, <2>2, <2>6
<1>13. ASSUME NEW s \in Scanner, DeleteFts(s) PROVE FreshInv'
  <2>1. /\ pc[s] = "staleFts" /\ pc'[s] = "stale"
        /\ UNCHANGED <<disk, files, whole, todo, visited, touched>>
    BY <1>13, <1>0 DEF DeleteFts, NextFile, Goto, TypeOK
  <2>2. FreshOK(s)'
    BY <2>1 DEF FreshInv, FreshOK, VisitedFresh, HashStored, Want, Rewriting, Deleting
  <2> QED
    BY <1>1, <2>1, <2>2
<1>14. ASSUME NEW s \in Scanner, Leave(s) PROVE FreshInv'
  <2>1. pc'[s] = "idle" /\ ~whole'[s] /\ UNCHANGED files
    BY <1>14, <1>0 DEF Leave, Goto, stores, TypeOK
  <2>2. FreshOK(s)'
    BY <2>1 DEF FreshOK, Rewriting
  <2> QED
    BY <1>1, <2>1, <2>2
<1>15. CASE UNCHANGED vars
  BY <1>15
     DEF vars, stores, scan, history, FreshInv, FreshOK, VisitedFresh, HashStored, Want
<1> QED
  BY <1>2, <1>3, <1>4, <1>5, <1>6, <1>7, <1>8, <1>9, <1>10, <1>11, <1>12, <1>13, <1>14, <1>15
     DEF Next, Work, Fail, Finish, ForeignKeyError, Abort, CutShort

LEMMA InitFreshInv == Init => FreshInv
BY DEF Init, FreshInv, FreshOK, Rewriting

\* When a whole-project scan by the only writer ends, every file nobody edited
\* meanwhile is cached at its content on disk if the walk read it, and gone if not.
THEOREM WholeScanIsFresh ==
  ASSUME OneWriter
  PROVE  Spec => []WholeScanFresh
<1>1. TypeInv /\ FreshInv /\ [Next]_vars => FreshInv'
  BY NextFreshInv
<1>2. TypeInv /\ FreshInv => WholeScanFresh
  <2> SUFFICES ASSUME TypeInv, FreshInv, NEW s \in Scanner, whole[s], AtEnd(s),
                      NEW f \in File \ touched[s]
               PROVE  files[f] = IF f \in visited[s] THEN Want(f, disk[f]) ELSE Absent
    BY DEF WholeScanFresh
  <2> QED
    BY DEF AtEnd, FreshInv, FreshOK, VisitedFresh, HashStored, Deleting
<1> QED
  BY <1>1, <1>2, InitFreshInv, InitTypeInv, NextTypeInv, PTL DEF Spec

-----------------------------------------------------------------------------
(* FullScanHeals.                                                          *)

\* The symbols of f have been written, if this scan had anything to write for it.
Written(s, f) == ~(cur[s] = f /\ pc[s] \in {"check", "put", "symbols"})

\* The names a visited file defines have rows, and these belong to files that this
\* scan neither rewrites nor deletes any more.
NamesKept(s) ==
  \A f \in visited[s] : files[f] # Absent /\ Written(s, f) =>
     \A n \in Defines[f][files[f]] :
        symbols[n] # NoRow /\ symbols[n].file \in visited[s] /\ Written(s, symbols[n].file)

\* What a full scan has rewritten is whole again.
VisitedHealed(s) ==
  \A f \in visited[s] : files[f] # Absent /\ ~(cur[s] = f /\ pc[s] \in Rewriting) => f \notin cut

HealOK(s) ==
  whole[s] /\ mode[s] = "full" =>
     /\ pc[s] \notin Deleting => todo[s] \cap visited[s] = {}
     /\ VisitedHealed(s)
     /\ NamesKept(s)

HealInv == \A s \in Scanner : HealOK(s)

LEMMA NextHealInv ==
  OneWriter /\ TypeInv /\ AgreeInv /\ FreshInv /\ HealInv /\ [Next]_vars => HealInv'
<1> SUFFICES ASSUME OneWriter, TypeInv, AgreeInv, FreshInv, HealInv, [Next]_vars PROVE HealInv'
  OBVIOUS
<1> USE ConstantTypes, Sentinels
<1>0. TypeOK /\ CursorOK
  BY DEF TypeInv
<1>1. ASSUME NEW s \in Scanner, HealOK(s)' PROVE HealInv'
  BY <1>1 DEF OneWriter, HealInv
<1>2. ASSUME UNCHANGED <<files, symbols, pc, mode, whole, todo, visited, cur, cut>> PROVE HealInv'
  BY <1>2 DEF HealInv, HealOK, VisitedHealed, NamesKept, Written
<1>3. ASSUME NEW s \in Scanner, NEW m \in {"full", "incremental"}, BeginWhole(s, m)
      PROVE  HealInv'
  <2>1. visited'[s] = {}
    BY <1>3, <1>0 DEF BeginWhole, Begin, TypeOK
  <2> QED
    BY <1>1, <2>1 DEF HealOK, VisitedHealed, NamesKept
<1>4. ASSUME NEW s \in Scanner, NEW F \in SUBSET File, BeginPartial(s, F) \/ BeginRemove(s, F)
      PROVE  HealInv'
  <2>1. ~whole'[s]
    BY <1>4, <1>0 DEF BeginPartial, Begin, BeginRemove, TypeOK, FreshInv, FreshOK
  <2> QED
    BY <1>1, <2>1 DEF HealOK
<1>5. ASSUME NEW s \in Scanner, NEW f \in File, SkipFile(s, f) PROVE HealInv'
  <2>1. /\ todo'[s] = todo[s] \ {f}
        /\ UNCHANGED <<files, symbols, pc, mode, whole, visited, cur, cut>>
    BY <1>5, <1>0 DEF SkipFile, stores, history, TypeOK
  <2>2. HealOK(s)'
    BY <2>1 DEF HealInv, HealOK, VisitedHealed, NamesKept, Written
  <2> QED
    BY <1>1, <2>2
<1>6. ASSUME NEW s \in Scanner, NEW f \in File, ReadFile(s, f) PROVE HealInv'
  <2>1. /\ pc[s] = "walk" /\ f \in todo[s]
        /\ todo'[s] = todo[s] \ {f} /\ visited'[s] = visited[s] \cup {f}
        /\ UNCHANGED <<files, symbols, mode, whole, cut>>
    BY <1>6, <1>0 DEF ReadFile, stores, history, TypeOK
  <2>2. /\ f \in Parsable => pc'[s] = "check" /\ cur'[s] = f
        /\ f \notin Parsable => pc'[s] = "walk" /\ files[f] = Absent
    BY <1>6, <1>0 DEF ReadFile, Goto, TypeOK, FreshInv
  <2> SUFFICES ASSUME whole[s], mode[s] = "full"
               PROVE  /\ todo'[s] \cap visited'[s] = {}
                      /\ VisitedHealed(s)'
                      /\ NamesKept(s)'
    BY <1>1, <2>1 DEF HealOK
  <2>3. todo[s] \cap visited[s] = {} /\ VisitedHealed(s) /\ NamesKept(s)
    BY <2>1 DEF HealInv, HealOK, Deleting
  <2>4. VisitedHealed(s)'
    BY <2>1, <2>2, <2>3 DEF VisitedHealed, Rewriting
  <2>5. NamesKept(s)'
    BY <2>1, <2>2, <2>3 DEF NamesKept, Written
  <2> QED
    BY <2>1, <2>3, <2>4, <2>5
<1>7. ASSUME NEW s \in Scanner, CheckHash(s) PROVE HealInv'
  <2>1. /\ pc[s] = "check" /\ (mode[s] = "full" => pc'[s] = "put" /\ cur' = cur)
        /\ UNCHANGED <<files, symbols, mode, whole, todo, visited, cut>>
    BY <1>7, <1>0 DEF CheckHash, Unchanged, Goto, stores, history, TypeOK
  <2>2. HealOK(s)'
    BY <2>1 DEF HealInv, HealOK, VisitedHealed, NamesKept, Written, Rewriting, Deleting
  <2> QED
    BY <1>1, <2>2
<1>8. ASSUME NEW s \in Scanner, PutFile(s) PROVE HealInv'
  <2>1. /\ pc[s] = "put" /\ pc'[s] = "symbols" /\ cur[s] \in File
        /\ files' = [files EXCEPT ![cur[s]] = data[s]]
        /\ UNCHANGED <<symbols, mode, whole, todo, visited, cur, cut>>
    BY <1>8, <1>0 DEF PutFile, Goto, history, TypeOK, CursorOK, Rewriting
  <2>2. \A f \in visited[s] \ {cur[s]} : files'[f] = files[f]
    BY <2>1, <1>0 DEF TypeOK
  <2>3. HealOK(s)'
    BY <2>1, <2>2 DEF HealInv, HealOK, VisitedHealed, NamesKept, Written, Rewriting, Deleting
  <2> QED
    BY <1>1, <2>3
<1>9. ASSUME NEW s \in Scanner, ReplaceSymbols(s) PROVE HealInv'
  <2>0. PICK f \in File : cur[s] = f
    BY <1>9, <1>0 DEF ReplaceSymbols, CursorOK, Rewriting
  <2>1. /\ pc[s] = "symbols" /\ pc'[s] = "relations" /\ files[f] = data[s]
        /\ data[s] \in Content /\ f \in visited[s]
        /\ symbols' = SymbolsAfter(f, data[s])
        /\ UNCHANGED <<files, mode, whole, todo, visited, cur, cut>>
    BY <1>9, <1>0, <2>0
       DEF ReplaceSymbols, Goto, history, TypeOK, CursorOK, AgreeInv, Stage, FreshInv, FreshOK, Rewriting
  <2> SUFFICES ASSUME whole[s], mode[s] = "full" PROVE NamesKept(s)'
    BY <1>1, <2>1 DEF HealInv, HealOK, VisitedHealed, Rewriting, Deleting
  <2> SUFFICES ASSUME NEW g \in visited[s], files[g] # Absent, NEW n \in Defines[g][files[g]]
               PROVE  symbols'[n] # NoRow /\ symbols'[n].file \in visited[s]
    BY <2>1 DEF NamesKept, Written
  <2>2. n \in Name
    BY <1>0 DEF TypeOK, Stored
  <2>3. CASE n \in Defines[f][data[s]]
    BY <2>1, <2>2, <2>3 DEF SymbolsAfter, SymbolRow
  <2>4. CASE n \notin Defines[f][data[s]]
    <3>1. g # f /\ Written(s, g)
      BY <2>0, <2>1, <2>4 DEF Written
    <3>2. symbols[n] # NoRow /\ symbols[n].file \in visited[s] /\ symbols[n].file # f
      BY <2>0, <2>1, <3>1 DEF HealInv, HealOK, NamesKept, Written
    <3> QED
      BY <2>1, <2>2, <2>4, <3>2 DEF SymbolsAfter, RowsOf
  <2> QED
    BY <2>3, <2>4
<1>10. ASSUME NEW s \in Scanner, ReplaceRelations(s) PROVE HealInv'
  <2>1. /\ pc[s] = "relations" /\ pc'[s] = "fts"
        /\ UNCHANGED <<files, symbols, mode, whole, todo, visited, cur, cut>>
    BY <1>10, <1>0 DEF ReplaceRelations, Goto, history, TypeOK
  <2>2. HealOK(s)'
    BY <2>1 DEF HealInv, HealOK, VisitedHealed, NamesKept, Written, Rewriting, Deleting
  <2> QED
    BY <1>1, <2>2
<1>11. ASSUME NEW s \in Scanner, IndexFts(s) PROVE HealInv'
  <2>1. /\ pc[s] = "fts" /\ pc'[s] = "walk" /\ cut' = cut \ {cur[s]}
        /\ UNCHANGED <<files, symbols, mode, whole, todo, visited>>
    BY <1>11, <1>0 DEF IndexFts, NextFile, Goto, TypeOK
  <2>2. HealOK(s)'
    BY <2>1 DEF HealInv, HealOK, VisitedHealed, NamesKept, Written, Rewriting, Deleting
  <2> QED
    BY <1>1, <2>2
<1>12. ASSUME NEW s \in Scanner, EndWalk(s) \/ PutGitStats(s) \/ ReadDocs(s) \/ LinkDocs(s)
       PROVE  HealInv'
  <2>1. /\ pc[s] \in {"walk", "git", "docs", "link"}
        /\ \/ pc'[s] \in {"git", "docs", "link"} /\ UNCHANGED todo
           \/ pc'[s] = "stale"
        /\ UNCHANGED <<files, symbols, mode, whole, visited, cur, cut>>
    BY <1>12, <1>0 DEF EndWalk, PutGitStats, ReadDocs, LinkDocs, BeginCleanup, Goto, stores, history, TypeOK
  <2>2. HealOK(s)'
    BY <2>1 DEF HealInv, HealOK, VisitedHealed, NamesKept, Written, Rewriting, Deleting
  <2> QED
    BY <1>1, <2>2
<1>13. ASSUME NEW s \in Scanner, NEW f \in File, DeleteCached(s, f) PROVE HealInv'
  <2>1. /\ pc[s] = "stale" /\ pc'[s] = "staleFts" /\ f \in todo[s]
        /\ files' = [files EXCEPT ![f] = Absent] /\ symbols' = CascadeSymbols(f)
        /\ UNCHANGED <<mode, whole, visited, cut>>
    BY <1>13, <1>0 DEF DeleteCached, Goto, history, TypeOK
  <2> SUFFICES ASSUME whole[s], mode[s] = "full" PROVE VisitedHealed(s)' /\ NamesKept(s)'
    BY <1>1, <2>1 DEF HealOK, Deleting
  <2>2. f \notin visited[s] /\ visited[s] \subseteq File
    BY <2>1, <1>0 DEF FreshInv, FreshOK, Deleting, TypeOK
  <2>3. VisitedHealed(s) /\ NamesKept(s)
    BY DEF HealInv, HealOK
  <2>4. \A g \in visited[s] : files'[g] = files[g]
    BY <2>1, <2>2, <1>0 DEF TypeOK
  <2>5. VisitedHealed(s)'
    BY <2>1, <2>3, <2>4 DEF VisitedHealed, Rewriting
  <2>6. ASSUME NEW g \in visited[s], files[g] # Absent, NEW n \in Defines[g][files[g]]
        PROVE  symbols'[n] # NoRow /\ symbols'[n].file \in visited[s]
    <3>1. n \in Name
      BY <2>2, <2>6, <1>0 DEF TypeOK, Stored
    <3>2. symbols[n] # NoRow /\ symbols[n].file \in visited[s]
      BY <2>1, <2>3, <2>6 DEF NamesKept, Written
    <3> QED
      BY <2>1, <2>2, <3>1, <3>2 DEF CascadeSymbols, RowsOf
  <2>7. NamesKept(s)'
    BY <2>1, <2>4, <2>6 DEF NamesKept, Written
  <2> QED
    BY <2>5, <2>7
<1>14. ASSUME NEW s \in Scanner, DeleteFts(s) PROVE HealInv'
  <2>1. /\ pc[s] = "staleFts" /\ pc'[s] = "stale" /\ cut' \subseteq cut
        /\ UNCHANGED <<files, symbols, mode, whole, visited>>
    BY <1>14, <1>0 DEF DeleteFts, NextFile, Goto, TypeOK
  <2>2. HealOK(s)'
    BY <2>1 DEF HealInv, HealOK, VisitedHealed, NamesKept, Written, Rewriting, Deleting
  <2> QED
    BY <1>1, <2>2
<1>15. ASSUME NEW s \in Scanner, Leave(s) PROVE HealInv'
  <2>1. ~whole'[s]
    BY <1>15, <1>0 DEF Leave, TypeOK
  <2> QED
    BY <1>1, <2>1 DEF HealOK
<1>16. ASSUME NEW f \in File, NEW c \in Stored, EditFile(f, c) PROVE HealInv'
  BY <1>2, <1>16 DEF EditFile, stores, scan
<1>17. CASE UNCHANGED vars
  BY <1>2, <1>17 DEF vars, stores, scan, history
<1> QED
  BY <1>3, <1>4, <1>5, <1>6, <1>7, <1>8, <1>9, <1>10, <1>11, <1>12, <1>13, <1>14, <1>15, <1>16, <1>17
     DEF Next, Work, Fail, Finish, ForeignKeyError, Abort, CutShort

\* When a full scan by the only writer ends, every indexed file is coherent, whatever
\* earlier scans left half written, and every name it defines has a row.
THEOREM FullScanRepairs ==
  ASSUME OneWriter
  PROVE  Spec => []FullScanHeals
<1>1. Init => AgreeInv /\ HealInv
  BY ConstantTypes, Sentinels
     DEF Init, AgreeInv, StoresAgree, Stage, Coherent, RowsMatch, RowsOf, FtsEntry, HealInv, HealOK
<1>2. TypeInv /\ AgreeInv /\ FreshInv /\ HealInv /\ [Next]_vars => AgreeInv' /\ FreshInv' /\ HealInv'
  BY NextAgreeInv, NextFreshInv, NextHealInv
<1>3. TypeInv /\ AgreeInv /\ FreshInv /\ HealInv => FullScanHeals
  <2> SUFFICES ASSUME TypeInv, AgreeInv, FreshInv, HealInv,
                      NEW s \in Scanner, whole[s], mode[s] = "full", AtEnd(s), NEW f \in Indexed
               PROVE  /\ Coherent(f)
                      /\ \A n \in Defines[f][files[f]] : symbols[n] # NoRow
    BY DEF FullScanHeals
  <2>1. f \in File /\ files[f] # Absent /\ f \in visited[s] /\ pc[s] = "stale"
    BY DEF AtEnd, Indexed, FreshInv, FreshOK, Deleting
  <2>2. VisitedHealed(s) /\ NamesKept(s)
    BY DEF HealInv, HealOK
  <2>3. f \notin cut
    BY <2>1, <2>2 DEF VisitedHealed, Rewriting
  <2>4. ~InFlight(f)
    BY <2>1 DEF OneWriter, InFlight, Committing
  <2> QED
    BY <2>1, <2>2, <2>3, <2>4 DEF AgreeInv, StoresAgree, NamesKept, Written
<1> QED
  BY <1>1, <1>2, <1>3, InitFreshInv, InitTypeInv, NextTypeInv, PTL DEF Spec

-----------------------------------------------------------------------------
(* The daemon.                                                             *)

\* The main loop and its scan.
InStep ==
  /\ ~whole[Daemon]
  /\ quarantined => loop = "sleep"
  /\ loop \in {"sleep", "delete", "scan", "stopped"} => pc[Daemon] = "idle"
  /\ loop = "delete" => batch.deleted # {}
  /\ loop = "scan" => batch.modified # {}
  /\ loop = "deleting" => pc[Daemon] \in {"stale", "staleFts"}
  /\ loop = "scanning" =>
        /\ pc[Daemon] \in {"walk", "docs", "link", "stale"} \cup Rewriting
        /\ mode[Daemon] = "incremental"
        /\ pc[Daemon] \in {"docs", "link", "stale"} => todo[Daemon] = {}
        /\ todo[Daemon] \cap visited[Daemon] = {}
  /\ pc[Daemon] \notin Rewriting \cup {"staleFts"} => cur[Daemon] = Absent
  /\ pc[Daemon] \in Rewriting \cup {"staleFts"} => cur[Daemon] \in Watched
  /\ todo[Daemon] \subseteq Watched

Announced(f) == \E i \in DOMAIN events : events[i].path = f

LastEvent(i, f) ==
  /\ i \in DOMAIN events
  /\ events[i].path = f
  /\ \A j \in DOMAIN events : j > i => events[j].path # f

\* There will be another word on f, or there should have been one.
Later(f) == Announced(f) \/ f \in modified \cup deleted \/ f \in forgotten

\* The watcher and the buffer tell the truth about every path that is not forgotten:
\* the last word on it is a deletion exactly if the file is gone.
Told ==
  \A f \in Watched \ forgotten :
     /\ \A i \in DOMAIN events :
           LastEvent(i, f) => (events[i].type = "deleted" <=> disk[f] = Absent)
     /\ f \in deleted /\ ~Announced(f) => disk[f] = Absent
     /\ f \in modified /\ ~Announced(f) => disk[f] # Absent

\* So does the batch, unless there will be another word.
BatchTold ==
  \A f \in Watched :
     /\ \/ loop = "delete" /\ f \in batch.deleted
        \/ loop = "deleting" /\ (f \in todo[Daemon] \/ f = cur[Daemon])
        => disk[f] = Absent \/ Later(f)
     /\ \/ loop \in {"delete", "deleting", "scan"} /\ f \in batch.modified
        \/ loop = "scanning" /\ f \in todo[Daemon]
        => disk[f] # Absent \/ Later(f)

\* What has been read of the file at the cursor, and written of it.
AtCursor ==
  /\ pc[Daemon] \in Rewriting =>
        /\ cur[Daemon] \in Parsable
        /\ <<cur[Daemon], data[Daemon]>> \notin Oversized
        /\ disk[cur[Daemon]] = data[Daemon] \/ Later(cur[Daemon])
  /\ pc[Daemon] \in {"symbols", "relations", "fts"} => files[cur[Daemon]] = data[Daemon]
  /\ pc[Daemon] = "staleFts" => files[cur[Daemon]] = Absent
  /\ \A f \in File \ Parsable : files[f] = Absent

\* StaleIsPending, with what is pending split into the batch and what comes later.
OnItsWay == \A f \in Watched : Fresh(f) \/ InBatch(f) \/ Later(f)

DaemonTypeInv == DaemonTypeOK /\ CursorOK

DaemonInv == DaemonTypeInv /\ InStep /\ Told /\ BatchTold /\ AtCursor /\ OnItsWay

-----------------------------------------------------------------------------
(* Types.                                                                  *)

\* The daemon is the one scanner.
LEMMA DaemonScans ==
  /\ Daemon \in Scanner
  /\ \A s \in Scanner : s = Daemon
  /\ Watched \subseteq File
BY DaemonAssumption

LEMMA DaemonInitType == DaemonInit => DaemonTypeInv
<1> SUFFICES ASSUME DaemonInit PROVE DaemonTypeInv
  OBVIOUS
<1> USE ConstantTypes, Sentinels DEF DaemonInit
<1>1. files \in [File -> Stored]
  BY DEF Want, Stored
<1>2. /\ specifies \subseteq File \X File
      /\ git_stats \subseteq File
      /\ fts_files \in [File -> Stored \cup {PathOnly}]
  <2>1. specifies \subseteq File \X File
    BY DEF DocLinks, Indexed
  <2>2. git_stats \subseteq File
    OBVIOUS
  <2>3. \A f \in File : FtsEntry(files[f]) \in Stored \cup {PathOnly}
    BY <1>1 DEF FtsEntry
  <2>4. fts_files \in [File -> Stored \cup {PathOnly}]
    BY <2>3
  <2> QED
    BY <2>1, <2>2, <2>4
<1>3. symbols \in [Name -> SymbolRow \cup {NoRow}]
  BY DEF ScannedRows
<1>4. TypeOK
  BY <1>1, <1>2, <1>3 DEF TypeOK, Stored, Phase
<1>5. CursorOK
  BY DEF CursorOK, Rewriting
<1>6. batch \in [modified : SUBSET Watched, deleted : SUBSET Watched]
  BY DEF EmptyBatch
<1>7. events \in Seq(Event) /\ changes \in 0..MaxChanges
  BY DaemonAssumption
<1>8. quarantined \in BOOLEAN /\ corrupt \in BOOLEAN
  BY Zenon
<1>9. modified = {} /\ deleted = {} /\ forgotten = {} /\ loop = "sleep"
  OBVIOUS
<1> QED
  BY <1>4, <1>5, <1>6, <1>7, <1>8, <1>9 DEF DaemonTypeInv, DaemonTypeOK

\* One event for a change, of a type that tells whether the file is gone.
LEMMA ChangeNotifies ==
  ASSUME NEW f \in File, NEW c \in Stored, Change(f, c)
  PROVE  \E type \in {"created", "modified", "deleted"} :
            Notify(type, f) /\ (type = "deleted" <=> c = Absent)
<1> DEFINE type == CASE c = Absent -> "deleted"
                     [] c # Absent /\ disk[f] = Absent -> "created"
                     [] OTHER -> "modified"
<1>1. type \in {"created", "modified", "deleted"} /\ (type = "deleted" <=> c = Absent)
  OBVIOUS
<1>2. Notify(type, f)
  BY DEF Change
<1> QED
  BY <1>1, <1>2

\* The watcher only reports paths that match PATTERNS.
LEMMA NotifyType ==
  ASSUME events \in Seq(Event), NEW f,
         NEW type \in {"created", "modified", "deleted", "moved"}, Notify(type, f)
  PROVE  events' \in Seq(Event)
<1>1. CASE loop = "stopped" \/ f \notin Watched
  BY <1>1 DEF Notify
<1>2. CASE loop # "stopped" /\ f \in Watched
  <2>1. [type |-> type, path |-> f] \in Event
    BY <1>2 DEF Event
  <2> QED
    BY <1>2, <2>1 DEF Notify
<1> QED
  BY <1>1, <1>2

\* Almost every step of the daemon is one of its index, or leaves the index alone.
LEMMA DaemonIsScanner ==
  ASSUME DaemonTypeInv, InStep, DaemonNext
  PROVE  \/ [Next]_vars
         \/ \E f \in File, g \in File : Move(f, g)
         \/ DeleteContext
         \/ CutShort(Daemon)
<1> USE DaemonScans
<1>1. ASSUME NEW f \in File, NEW c \in Stored, Change(f, c) PROVE Next
  BY <1>1 DEF Change, Next
<1>2. CASE OnAnyEvent \/ FlushAll \/ Quarantine \/ Stop \/ Start \/ CacheGoesBad
  BY <1>2 DEF OnAnyEvent, FlushAll, Quarantine, Stop, Start, CacheGoesBad, indexVars
<1>3. CASE DeleteFiles
  <2>1. batch.deleted \in (SUBSET File) \ {{}}
    BY <1>3 DEF DeleteFiles, InStep, DaemonTypeInv, DaemonTypeOK
  <2> QED
    BY <1>3, <2>1 DEF DeleteFiles, Next
<1>4. CASE ScanModified
  <2>1. batch.modified \in (SUBSET File) \ {{}}
    BY <1>4 DEF ScanModified, InStep, DaemonTypeInv, DaemonTypeOK
  <2> QED
    BY <1>4, <2>1 DEF ScanModified, Next
<1>5. CASE FilesDeleted \/ ModifiedScanned
  BY <1>5 DEF FilesDeleted, ModifiedScanned, Next
<1>6. CASE IndexStep
  BY <1>6 DEF IndexStep, Next
<1>7. CASE BatchFails
  BY <1>7 DEF BatchFails, Next
<1>8. CASE Kill
  <2>1. CASE pc[Daemon] = "idle"
    BY <1>8, <2>1 DEF Kill, indexVars
  <2>2. CASE pc[Daemon] # "idle"
    BY <1>8, <2>2 DEF Kill
  <2> QED
    BY <2>1, <2>2
<1> QED
  BY <1>1, <1>2, <1>3, <1>4, <1>5, <1>6, <1>7, <1>8 DEF DaemonNext, MainLoop

LEMMA IndexTypeStep ==
  ASSUME DaemonTypeInv, InStep, DaemonNext
  PROVE  TypeOK' /\ CursorOK'
<1>0. TypeInv
  BY DEF DaemonTypeInv, DaemonTypeOK, TypeInv
<1>1. CASE [Next]_vars
  BY <1>0, <1>1, NextTypeInv DEF TypeInv
<1>2. ASSUME NEW f \in File, NEW g \in File, Move(f, g) PROVE TypeOK' /\ CursorOK'
  <2>1. disk' \in [File -> Stored]
    BY <1>0, <1>2 DEF Move, TypeInv, TypeOK, Stored
  <2>2. touched' \in [Scanner -> SUBSET File]
    BY <1>0, <1>2 DEF Move, TypeInv, TypeOK
  <2> QED
    BY <1>0, <1>2, <2>1, <2>2 DEF Move, stores, scan, TypeInv, TypeOK, CursorOK
<1>3. CASE DeleteContext
  BY <1>0, <1>3 DEF DeleteContext, scan, history, TypeInv, TypeOK, CursorOK, Stored
<1>4. CASE CutShort(Daemon)
  BY <1>0, <1>4, LeaveTypeInv, DaemonScans DEF CutShort, TypeInv
<1> QED
  BY <1>1, <1>2, <1>3, <1>4, DaemonIsScanner

LEMMA DaemonTypeStep ==
  ASSUME DaemonTypeInv, InStep, DaemonNext
  PROVE  DaemonTypeInv'
<1> USE DEF MainLoop
<1>1. TypeOK' /\ CursorOK'
  BY IndexTypeStep
<1>0. DaemonTypeOK
  BY DEF DaemonTypeInv
<1>2. events' \in Seq(Event)
  <2>1. ASSUME NEW f \in File, NEW c \in Stored, Change(f, c) PROVE events' \in Seq(Event)
    BY <1>0, <2>1, ChangeNotifies, NotifyType DEF DaemonTypeOK
  <2>2. ASSUME NEW f \in File, NEW g \in File, Move(f, g) PROVE events' \in Seq(Event)
    BY <1>0, <2>2, NotifyType DEF Move, DaemonTypeOK
  <2>3. CASE OnAnyEvent
    BY <1>0, <2>3 DEF OnAnyEvent, DaemonTypeOK
  <2>4. CASE Stop \/ Kill
    <3>1. events' = <<>>
      BY <2>4 DEF Stop, Kill, Halt
    <3> QED
      BY <3>1
  <2>5. CASE MainLoop \/ Start \/ CacheGoesBad \/ DeleteContext
    BY <1>0, <2>5 DEF DaemonTypeOK, FlushAll, Quarantine, DeleteFiles, FilesDeleted, ScanModified,
       ModifiedScanned, IndexStep, BatchFails, Start, CacheGoesBad, DeleteContext
  <2> QED
    BY <2>1, <2>2, <2>3, <2>4, <2>5 DEF DaemonNext
<1>3. /\ modified' \subseteq Watched /\ deleted' \subseteq Watched
      /\ modified' \cap deleted' = {}
  <2>1. CASE OnAnyEvent
    <3>1. Head(events) \in Event
      BY <1>0, <2>1 DEF OnAnyEvent, DaemonTypeOK
    <3>2. Head(events).path \in Watched
      BY <3>1 DEF Event
    <3> QED
      BY <1>0, <2>1, <3>2 DEF OnAnyEvent, BufferAdd, DaemonTypeOK
  <2>2. CASE UNCHANGED buffer \/ (modified' = {} /\ deleted' = {})
    BY <1>0, <2>2 DEF buffer, DaemonTypeOK
  <2> QED
    BY <2>1, <2>2 DEF DaemonNext, Change, Move, FlushAll, Quarantine, DeleteFiles, FilesDeleted,
       ScanModified, ModifiedScanned, IndexStep, BatchFails, Stop, Kill, Halt, Start,
       CacheGoesBad, DeleteContext
<1>4. batch' \in [modified : SUBSET Watched, deleted : SUBSET Watched]
  <2>1. CASE FlushAll
    BY <1>0, <2>1 DEF FlushAll, DaemonTypeOK
  <2>2. CASE UNCHANGED batch \/ batch' = EmptyBatch
    BY <1>0, <2>2 DEF EmptyBatch, DaemonTypeOK
  <2> QED
    BY <2>1, <2>2 DEF DaemonNext, Change, Move, OnAnyEvent, Quarantine, DeleteFiles, FilesDeleted,
       ScanModified, ModifiedScanned, EndBatch, IndexStep, BatchFails, Stop, Kill, Halt, Start,
       CacheGoesBad, DeleteContext
<1>5. loop' \in {"sleep", "delete", "deleting", "scan", "scanning", "stopped"}
  BY <1>0 DEF DaemonTypeOK, DaemonNext, Change, Move, OnAnyEvent, FlushAll, Quarantine, DeleteFiles,
     FilesDeleted, ScanModified, ModifiedScanned, EndBatch, IndexStep, BatchFails, Stop, Kill,
     Halt, Start, CacheGoesBad, DeleteContext
<1>6. quarantined' \in BOOLEAN /\ corrupt' \in BOOLEAN
  <2>1. \/ UNCHANGED <<quarantined, corrupt>>
        \/ quarantined' = TRUE /\ corrupt' = corrupt
        \/ quarantined' = FALSE /\ corrupt' = corrupt
        \/ quarantined' = quarantined /\ corrupt' \in {TRUE, FALSE}
    BY DEF DaemonNext, Change, Move, OnAnyEvent, FlushAll, Quarantine, DeleteFiles, FilesDeleted,
       ScanModified, ModifiedScanned, EndBatch, IndexStep, BatchFails, Stop, Kill, Halt, Start,
       CacheGoesBad, DeleteContext, rest
  <2> QED
    BY <1>0, <2>1, Zenon DEF DaemonTypeOK
<1>7. changes' \in 0..MaxChanges
  <2>1. \/ changes' = changes
        \/ changes < MaxChanges /\ changes' = changes + 1
    BY DEF DaemonNext, Change, Move, OnAnyEvent, FlushAll, Quarantine, DeleteFiles, FilesDeleted,
       ScanModified, ModifiedScanned, EndBatch, IndexStep, BatchFails, Stop, Kill, Halt, Start,
       CacheGoesBad, DeleteContext, rest
  <2> QED
    BY <1>0, <2>1, DaemonAssumption DEF DaemonTypeOK
<1>8. forgotten' \subseteq Watched
  <2>1. ASSUME NEW F, Forget(F) PROVE forgotten' \subseteq Watched
    BY <1>0, <2>1 DEF Forget, DaemonTypeOK
  <2>2. CASE forgotten' \subseteq forgotten
    BY <1>0, <2>2 DEF DaemonTypeOK
  <2> QED
    BY <2>1, <2>2 DEF DaemonNext, Change, Move, OnAnyEvent, FlushAll, Quarantine, DeleteFiles,
       FilesDeleted, ScanModified, ModifiedScanned, EndBatch, IndexStep, BatchFails, Stop, Kill,
       Halt, Start, CacheGoesBad, DeleteContext
<1> QED
  BY <1>1, <1>2, <1>3, <1>4, <1>5, <1>6, <1>7, <1>8 DEF DaemonTypeInv, DaemonTypeOK

-----------------------------------------------------------------------------
(* The queue of the watcher and the buffer.                                *)

\* Appending an event makes it the last one of its path, and of no other.
LEMMA QueueGrows ==
  ASSUME events \in Seq(Event), NEW e \in Event, events' = Append(events, e)
  PROVE  /\ Announced(e.path)'
         /\ \A f : Announced(f) => Announced(f)'
         /\ \A f : Announced(f)' => Announced(f) \/ f = e.path
         /\ \A f, i : LastEvent(i, f)' =>
               \/ f = e.path /\ events'[i] = e
               \/ f # e.path /\ LastEvent(i, f) /\ events'[i] = events[i]
<1>1. /\ Len(events) \in Nat /\ DOMAIN events = 1..Len(events)
      /\ DOMAIN events' = 1..(Len(events) + 1)
      /\ \A i \in DOMAIN events : events'[i] = events[i]
      /\ events'[Len(events) + 1] = e
  OBVIOUS
<1>2. Announced(e.path)'
  BY <1>1 DEF Announced
<1>3. ASSUME NEW f, Announced(f) PROVE Announced(f)'
  BY <1>1, <1>3 DEF Announced
<1>4. ASSUME NEW f, Announced(f)' PROVE Announced(f) \/ f = e.path
  BY <1>1, <1>4 DEF Announced
<1>5. ASSUME NEW f, NEW i, LastEvent(i, f)'
      PROVE  \/ f = e.path /\ events'[i] = e
             \/ f # e.path /\ LastEvent(i, f) /\ events'[i] = events[i]
  <2>1. CASE f = e.path
    BY <1>1, <1>5, <2>1 DEF LastEvent
  <2>2. CASE f # e.path
    BY <1>1, <1>5, <2>2 DEF LastEvent
  <2> QED
    BY <2>1, <2>2
<1> QED
  BY <1>2, <1>3, <1>4, <1>5

\* Handing the head to the buffer keeps the last event of every other path the last.
LEMMA QueueShrinks ==
  ASSUME events \in Seq(Event), events # <<>>, events' = Tail(events)
  PROVE  /\ \A f : Announced(f)' => Announced(f)
         /\ \A f : Announced(f) => Announced(f)' \/ f = Head(events).path
         /\ \A f : f = Head(events).path /\ ~Announced(f)' =>
               LastEvent(1, f) /\ events[1] = Head(events)
         /\ \A f : \A i \in DOMAIN events' :
               LastEvent(i, f)' => LastEvent(i + 1, f) /\ events'[i] = events[i + 1]
<1>1. /\ Len(events) \in Nat \ {0} /\ DOMAIN events = 1..Len(events)
      /\ DOMAIN events' = 1..(Len(events) - 1)
      /\ \A i \in DOMAIN events' : events'[i] = events[i + 1]
      /\ Head(events) = events[1]
  OBVIOUS
<1>2. ASSUME NEW f, Announced(f)' PROVE Announced(f)
  BY <1>1, <1>2 DEF Announced
<1>3. \A i \in DOMAIN events : i = 1 \/ (i - 1 \in DOMAIN events' /\ events'[i - 1] = events[i])
  BY <1>1
<1>4. ASSUME NEW f, Announced(f), f # Head(events).path PROVE Announced(f)'
  BY <1>1, <1>3, <1>4 DEF Announced
<1>5. ASSUME NEW f, f = Head(events).path, ~Announced(f)' PROVE LastEvent(1, f)
  BY <1>1, <1>3, <1>5 DEF Announced, LastEvent
<1>6. ASSUME NEW f, NEW i \in DOMAIN events', LastEvent(i, f)' PROVE LastEvent(i + 1, f)
  <2>1. i + 1 \in DOMAIN events /\ events[i + 1].path = f
    BY <1>1, <1>6 DEF LastEvent
  <2>2. ASSUME NEW j \in DOMAIN events, j > i + 1 PROVE events[j].path # f
    <3>1. j - 1 \in DOMAIN events' /\ j - 1 > i /\ events'[j - 1] = events[j]
      BY <1>1, <2>2
    <3> QED
      BY <1>6, <3>1 DEF LastEvent
  <2> QED
    BY <2>1, <2>2 DEF LastEvent
<1> QED
  BY <1>1, <1>2, <1>4, <1>5, <1>6

\* As long as the disk is the same, the queue still tells the truth after any step
\* that only takes paths out of the buffer, or forgets them.
LEMMA ToldFrame ==
  ASSUME Told, disk' = disk, events' = events,
         modified' \subseteq modified, deleted' \subseteq deleted, forgotten \subseteq forgotten'
  PROVE  Told'
BY DEF Told, LastEvent, Announced

\* What is later stays so while the buffer is not flushed.
LEMMA LaterFrame ==
  ASSUME NEW f, Later(f), events' = events, UNCHANGED buffer, forgotten \subseteq forgotten'
  PROVE  Later(f)'
BY DEF Later, Announced, buffer

\* A change is announced, or forgotten when nobody watches.
LEMMA ChangeTold ==
  ASSUME DaemonTypeInv, Told, NEW f \in File, NEW c \in Stored, Change(f, c)
  PROVE  /\ Told'
         /\ \A g \in Watched : Later(g) => Later(g)'
         /\ \A g \in Watched : disk'[g] = disk[g] \/ Later(g)'
<1>1. PICK type \in {"created", "modified", "deleted"} :
         Notify(type, f) /\ (type = "deleted" <=> c = Absent)
  BY ChangeNotifies
<1>2. /\ disk'[f] = c
      /\ \A g \in File \ {f} : disk'[g] = disk[g]
      /\ UNCHANGED buffer
  BY DaemonScans DEF Change, EditFile, DaemonTypeInv, DaemonTypeOK, TypeOK
<1>3. CASE loop = "stopped"
  <2>1. events' = events /\ forgotten' = forgotten \cup ({f} \cap Watched)
    BY <1>1, <1>3 DEF Notify, Change, Forget
  <2> QED
    BY <1>2, <2>1, DaemonScans DEF Told, LastEvent, Announced, Later, buffer
<1>4. CASE loop # "stopped" /\ f \notin Watched
  <2>1. events' = events /\ forgotten' = forgotten \ {f}
    BY <1>1, <1>4 DEF Notify, Change
  <2> QED
    BY <1>2, <1>4, <2>1, DaemonScans DEF Told, LastEvent, Announced, Later, buffer
<1>5. CASE loop # "stopped" /\ f \in Watched
  <2> DEFINE e == [type |-> type, path |-> f]
  <2>1. e \in Event /\ e.path = f /\ e.type = type
    BY <1>5 DEF Event
  <2>2. events' = Append(events, e) /\ forgotten' = forgotten \ {f}
    BY <1>1, <1>5 DEF Notify, Change
  <2>3. events \in Seq(Event)
    BY DEF DaemonTypeInv, DaemonTypeOK
  <2> HIDE DEF e
  <2>4. /\ Announced(f)'
        /\ \A g : Announced(g) => Announced(g)'
        /\ \A g, i : LastEvent(i, g)' =>
               \/ g = f /\ events'[i] = e
               \/ g # f /\ LastEvent(i, g) /\ events'[i] = events[i]
    BY <2>1, <2>2, <2>3, QueueGrows
  <2>5. \A g \in Watched : Later(g) => Later(g)'
    BY <1>2, <2>2, <2>4 DEF Later, buffer
  <2>6. \A g \in Watched : disk'[g] = disk[g] \/ Later(g)'
    BY <1>2, <2>4, DaemonScans DEF Later
  <2>7. ASSUME NEW g \in Watched \ forgotten', NEW i \in DOMAIN events', LastEvent(i, g)'
        PROVE  events'[i].type = "deleted" <=> disk'[g] = Absent
    <3>1. CASE g = f
      BY <1>1, <1>2, <2>1, <2>4, <2>7, <3>1
    <3>2. CASE g # f
      <4>1. LastEvent(i, g) /\ events'[i] = events[i] /\ g \notin forgotten /\ i \in DOMAIN events
        BY <2>2, <2>4, <2>7, <3>2 DEF LastEvent
      <4> QED
        BY <1>2, <2>7, <3>2, <4>1, DaemonScans DEF Told
    <3> QED
      BY <3>1, <3>2
  <2>8. ASSUME NEW g \in Watched \ forgotten', ~Announced(g)'
        PROVE  /\ g \in deleted' => disk'[g] = Absent
               /\ g \in modified' => disk'[g] # Absent
    <3>1. g # f /\ g \notin forgotten /\ ~Announced(g)
      BY <2>2, <2>4, <2>8
    <3> QED
      BY <1>2, <2>8, <3>1, DaemonScans DEF Told, buffer
  <2> QED
    BY <2>5, <2>6, <2>7, <2>8 DEF Told
<1> QED
  BY <1>3, <1>4, <1>5

\* A rename is reported under the old path only: both paths are forgotten.
LEMMA MoveTold ==
  ASSUME DaemonTypeInv, Told, NEW f \in File, NEW g \in File, Move(f, g)
  PROVE  /\ Told'
         /\ \A h \in Watched : Later(h) => Later(h)'
         /\ \A h \in Watched : disk'[h] = disk[h] \/ Later(h)'
<1>1. /\ \A h \in File \ {f, g} : disk'[h] = disk[h]
      /\ UNCHANGED buffer
      /\ forgotten' = forgotten \cup ({f, g} \cap Watched)
      /\ Notify("moved", f)
  BY DaemonScans DEF Move, Forget, DaemonTypeInv, DaemonTypeOK, TypeOK
<1>2. /\ \A h : Announced(h) => Announced(h)'
      /\ \A h \in Watched \ {f, g} : Announced(h)' => Announced(h)
      /\ \A h \in Watched \ {f, g} : \A i : LastEvent(i, h)' =>
            LastEvent(i, h) /\ events'[i] = events[i]
  <2>1. CASE loop = "stopped" \/ f \notin Watched
    BY <1>1, <2>1 DEF Notify, Announced, LastEvent
  <2>2. CASE loop # "stopped" /\ f \in Watched
    <3> DEFINE e == [type |-> "moved", path |-> f]
    <3>1. e \in Event /\ e.path = f
      BY <2>2 DEF Event
    <3>2. events' = Append(events, e) /\ events \in Seq(Event)
      BY <1>1, <2>2 DEF Notify, DaemonTypeInv, DaemonTypeOK
    <3> HIDE DEF e
    <3>3. /\ \A h : Announced(h) => Announced(h)'
          /\ \A h : Announced(h)' => Announced(h) \/ h = e.path
          /\ \A h, i : LastEvent(i, h)' =>
                \/ h = e.path /\ events'[i] = e
                \/ h # e.path /\ LastEvent(i, h) /\ events'[i] = events[i]
      BY <3>1, <3>2, QueueGrows
    <3> QED
      BY <3>1, <3>3
  <2> QED
    BY <2>1, <2>2
<1>3. ASSUME NEW h \in Watched PROVE (Later(h) => Later(h)') /\ (disk'[h] = disk[h] \/ Later(h)')
  BY <1>1, <1>2, DaemonScans DEF Later, buffer
<1>4. ASSUME NEW h \in Watched \ forgotten', NEW i \in DOMAIN events', LastEvent(i, h)'
      PROVE  events'[i].type = "deleted" <=> disk'[h] = Absent
  <2>1. h \notin {f, g} /\ h \notin forgotten
    BY <1>1
  <2>2. LastEvent(i, h) /\ events'[i] = events[i] /\ i \in DOMAIN events
    BY <1>2, <1>4, <2>1 DEF LastEvent
  <2> QED
    BY <1>1, <2>1, <2>2, DaemonScans DEF Told
<1>5. ASSUME NEW h \in Watched \ forgotten', ~Announced(h)'
      PROVE  /\ h \in deleted' => disk'[h] = Absent
             /\ h \in modified' => disk'[h] # Absent
  BY <1>1, <1>2, <1>5, DaemonScans DEF Told, buffer
<1> QED
  BY <1>3, <1>4, <1>5 DEF Told

\* The buffer takes over what the event says of its path, and forgets what earlier
\* ones said.
LEMMA DeliveryTold ==
  ASSUME DaemonTypeInv, Told, OnAnyEvent
  PROVE  /\ Told'
         /\ \A h \in Watched : Later(h) => Later(h)'
<1> DEFINE f == Head(events).path
           type == Head(events).type
<1>1. /\ events \in Seq(Event) /\ events # <<>> /\ events' = Tail(events)
      /\ UNCHANGED <<disk, forgotten>>
      /\ BufferAdd(type, f)
  BY DEF OnAnyEvent, indexVars, vars, DaemonTypeInv, DaemonTypeOK
<1>2. /\ \A g : Announced(g)' => Announced(g)
      /\ \A g : Announced(g) => Announced(g)' \/ g = f
      /\ \A g : g = f /\ ~Announced(g)' => LastEvent(1, g) /\ events[1] = Head(events)
      /\ \A g : \A i \in DOMAIN events' :
            LastEvent(i, g)' => LastEvent(i + 1, g) /\ events'[i] = events[i + 1]
  BY <1>1, QueueShrinks
<1>3. /\ f \in modified' \cup deleted'
      /\ f \in deleted' => type = "deleted"
      /\ f \in modified' => type # "deleted"
      /\ \A g : g # f => (g \in deleted' <=> g \in deleted) /\ (g \in modified' <=> g \in modified)
  BY <1>1 DEF BufferAdd
<1>4. 1 \in DOMAIN events /\ \A i \in DOMAIN events' : i + 1 \in DOMAIN events
  BY <1>1
<1> HIDE DEF f, type
<1>5. \A h \in Watched : Later(h) => Later(h)'
  BY <1>1, <1>2, <1>3 DEF Later
<1>6. ASSUME NEW h \in Watched \ forgotten', NEW i \in DOMAIN events', LastEvent(i, h)'
      PROVE  events'[i].type = "deleted" <=> disk'[h] = Absent
  BY <1>1, <1>2, <1>4, <1>6 DEF Told
<1>7. ASSUME NEW h \in Watched \ forgotten', ~Announced(h)'
      PROVE  /\ h \in deleted' => disk'[h] = Absent
             /\ h \in modified' => disk'[h] # Absent
  <2>1. CASE h = f
    <3>1. LastEvent(1, h) /\ events[1].type = type
      BY <1>2, <1>7, <2>1 DEF type
    <3>2. type = "deleted" <=> disk[h] = Absent
      BY <1>1, <1>4, <1>7, <3>1 DEF Told
    <3> QED
      BY <1>1, <1>3, <2>1, <3>2
  <2>2. CASE h # f
    BY <1>1, <1>2, <1>3, <1>7, <2>2 DEF Told
  <2> QED
    BY <2>1, <2>2
<1> QED
  BY <1>5, <1>6, <1>7 DEF Told

-----------------------------------------------------------------------------
(* The main loop.                                                          *)

\* Steps outside the main loop: whatever they do to a path, there is a later word on it.
LEMMA Elsewhere ==
  ASSUME DaemonInv, UNCHANGED <<stores, scan, batch, loop, quarantined>>,
         \A f \in Watched : Later(f) => Later(f)',
         \A f \in Watched : disk'[f] = disk[f] \/ Later(f)'
  PROVE  InStep' /\ BatchTold' /\ AtCursor' /\ OnItsWay'
<1>1. InStep /\ BatchTold /\ AtCursor /\ OnItsWay
  BY DEF DaemonInv
<1>2. InStep'
  BY <1>1 DEF InStep, stores, scan
<1>3. BatchTold'
  BY <1>1 DEF BatchTold, scan
<1>4. AtCursor'
  <2>1. pc[Daemon] \in Rewriting => cur[Daemon] \in Watched
    BY <1>1 DEF InStep
  <2> QED
    BY <1>1, <2>1 DEF AtCursor, stores, scan
<1>5. OnItsWay'
  BY <1>1 DEF OnItsWay, Fresh, InBatch, stores, scan
<1> QED
  BY <1>2, <1>3, <1>4, <1>5

\* A batch that is over leaves nothing behind, if all its work is done or will be.
LEMMA BatchOver ==
  ASSUME DaemonInv, disk' = disk, files' = files,
         ~whole'[Daemon], pc'[Daemon] = "idle", cur'[Daemon] = Absent,
         todo'[Daemon] \subseteq Watched,
         loop' \in {"sleep", "stopped"}, quarantined' => loop' = "sleep",
         \A f \in Watched : Fresh(f) \/ Later(f)'
  PROVE  InStep' /\ BatchTold' /\ AtCursor' /\ OnItsWay'
<1>1. \A f \in File \ Parsable : files[f] = Absent
  BY DEF DaemonInv, AtCursor
<1>2. InStep'
  BY DEF InStep, Rewriting
<1>3. BatchTold'
  BY DEF BatchTold
<1>4. AtCursor'
  BY <1>1 DEF AtCursor, Rewriting
<1>5. OnItsWay'
  BY DEF OnItsWay, Fresh
<1> QED
  BY <1>2, <1>3, <1>4, <1>5

LEMMA FlushStep ==
  ASSUME DaemonInv, FlushAll
  PROVE  Told' /\ InStep' /\ BatchTold' /\ AtCursor' /\ OnItsWay'
<1>0. /\ InStep /\ Told /\ BatchTold /\ AtCursor /\ OnItsWay
      /\ modified \subseteq Watched /\ deleted \subseteq Watched
  BY DEF DaemonInv, DaemonTypeInv, DaemonTypeOK
<1>1. /\ loop = "sleep" /\ pc[Daemon] = "idle" /\ cur[Daemon] = Absent
      /\ UNCHANGED <<events, quarantined>> /\ modified' = {} /\ deleted' = {}
      /\ UNCHANGED <<disk, files, pc, mode, whole, todo, cur, data>>
  BY <1>0 DEF FlushAll, InStep, indexVars, vars, stores, scan, rest, Rewriting
<1>2. Absent \notin Watched
  BY DaemonScans, Sentinels
<1>3. \A f \in Watched : ~InBatch(f)
  BY <1>1, <1>2 DEF InBatch
<1>4. \A f : Announced(f)' <=> Announced(f)
  BY <1>1 DEF Announced
<1>5. CASE quarantined
  <2>1. forgotten' = forgotten \cup modified \cup deleted /\ loop' = "sleep"
    BY <1>0, <1>1, <1>5 DEF FlushAll, Forget
  <2>2. Told'
    BY <1>0, <1>1, <2>1, ToldFrame
  <2>3. \A f \in Watched : Fresh(f) \/ Later(f)'
    BY <1>0, <1>3, <1>4, <2>1 DEF OnItsWay, Later
  <2> QED
    BY <1>0, <1>1, <2>1, <2>2, <2>3, BatchOver DEF InStep
<1>6. CASE ~quarantined
  <2>1. /\ batch' = [modified |-> modified, deleted |-> deleted]
        /\ loop' = IF deleted = {} THEN "scan" ELSE "delete"
        /\ modified \cup deleted # {}
        /\ forgotten' = forgotten
    BY <1>6 DEF FlushAll
  <2>2. Told'
    BY <1>0, <1>1, <2>1, ToldFrame
  <2>3. InStep'
    BY <1>0, <1>1, <1>6, <2>1 DEF InStep
  <2>4. ASSUME NEW f \in Watched
        PROVE  /\ f \in deleted => disk[f] = Absent \/ Later(f)'
               /\ f \in modified => disk[f] # Absent \/ Later(f)'
    BY <1>0, <1>4, <2>1 DEF Told, Later
  <2>5. BatchTold'
    BY <1>1, <2>1, <2>4 DEF BatchTold
  <2>6. AtCursor'
    BY <1>0, <1>1 DEF AtCursor, Rewriting
  <2>7. ASSUME NEW f \in Watched PROVE Fresh(f)' \/ InBatch(f)' \/ Later(f)'
    <3>1. CASE Fresh(f)
      BY <1>1, <3>1 DEF Fresh
    <3>2. CASE Announced(f) \/ f \in forgotten
      BY <1>4, <2>1, <3>2 DEF Later
    <3>3. CASE f \in modified \cup deleted
      BY <2>1, <3>3 DEF InBatch
    <3> QED
      BY <1>0, <1>3, <3>1, <3>2, <3>3 DEF OnItsWay, Later
  <2> QED
    BY <2>2, <2>3, <2>5, <2>6, <2>7 DEF OnItsWay
<1> QED
  BY <1>5, <1>6

\* What the index of the daemon looks like when a scan or a pass has been left.
LEMMA LeftBehind ==
  ASSUME DaemonTypeInv, Leave(Daemon)
  PROVE  /\ disk' = disk /\ files' = files
         /\ ~whole'[Daemon] /\ pc'[Daemon] = "idle" /\ cur'[Daemon] = Absent
         /\ todo'[Daemon] = {}
BY DaemonScans DEF Leave, Goto, stores, DaemonTypeInv, DaemonTypeOK, TypeOK

\* The batch was processed.
LEMMA BatchDone ==
  ASSUME DaemonInv, FilesDeleted \/ ModifiedScanned
  PROVE  Told' /\ InStep' /\ BatchTold' /\ AtCursor' /\ OnItsWay'
<1>0. /\ DaemonTypeInv /\ InStep /\ Told /\ BatchTold /\ AtCursor /\ OnItsWay
      /\ Absent \notin Watched
  BY DaemonScans, Sentinels DEF DaemonInv
<1>1. /\ pc[Daemon] = "stale" /\ todo[Daemon] = {} /\ cur[Daemon] = Absent
      /\ Leave(Daemon) /\ quarantined' = quarantined
      /\ events' = events /\ UNCHANGED buffer /\ forgotten' = forgotten
  BY <1>0 DEF FilesDeleted, ModifiedScanned, Finish, InStep, Rewriting, rest
<1>2. /\ disk' = disk /\ files' = files
      /\ ~whole'[Daemon] /\ pc'[Daemon] = "idle" /\ cur'[Daemon] = Absent
      /\ todo'[Daemon] = {}
  BY <1>0, <1>1, LeftBehind
<1>3. Told'
  BY <1>0, <1>1, <1>2, ToldFrame DEF buffer
<1>4. \A f : Later(f)' <=> Later(f)
  BY <1>1 DEF Later, Announced, buffer
<1>5. loop \in {"deleting", "scanning"} /\ ~quarantined
  BY <1>0 DEF FilesDeleted, ModifiedScanned, InStep
<1>6. CASE loop' = "sleep"
  <2>1. loop = "deleting" => batch.modified = {}
    BY <1>6 DEF FilesDeleted, ModifiedScanned
  <2>2. \A f \in Watched : Fresh(f) \/ Later(f)'
    BY <1>0, <1>1, <1>4, <1>5, <2>1 DEF OnItsWay, InBatch
  <2> QED
    BY <1>1, <1>2, <1>3, <1>5, <1>6, <2>2, BatchOver
<1>7. CASE loop = "deleting" /\ loop' = "scan" /\ batch' = batch /\ batch.modified # {}
  <2>1. InStep'
    BY <1>1, <1>2, <1>5, <1>7 DEF InStep, Rewriting
  <2>2. BatchTold'
    BY <1>0, <1>2, <1>4, <1>7 DEF BatchTold
  <2>3. AtCursor'
    BY <1>0, <1>2 DEF AtCursor, Rewriting
  <2>4. OnItsWay'
    BY <1>0, <1>1, <1>2, <1>4, <1>7 DEF OnItsWay, Fresh, InBatch
  <2> QED
    BY <1>3, <2>1, <2>2, <2>3, <2>4
<1> QED
  BY <1>6, <1>7 DEF FilesDeleted, ModifiedScanned, EndBatch

\* The batch was dropped, or the daemon has stopped: what was under way is forgotten.
LEMMA BatchDropped ==
  ASSUME DaemonInv, Quarantine \/ BatchFails \/ Stop \/ Kill
  PROVE  Told' /\ InStep' /\ BatchTold' /\ AtCursor' /\ OnItsWay'
<1>0. DaemonTypeInv /\ InStep /\ Told /\ OnItsWay
  BY DEF DaemonInv
<1>1. /\ disk' = disk /\ files' = files
      /\ ~whole'[Daemon] /\ pc'[Daemon] = "idle" /\ cur'[Daemon] = Absent
      /\ todo'[Daemon] \subseteq Watched
  <2>1. CASE UNCHANGED indexVars /\ pc[Daemon] = "idle"
    BY <1>0, <2>1 DEF InStep, Rewriting, indexVars, vars, stores, scan
  <2>2. CASE Leave(Daemon)
    BY <1>0, <2>2, LeftBehind
  <2> QED
    BY <1>0, <2>1, <2>2 DEF InStep, Quarantine, BatchFails, Stop, Kill, Fail, ForeignKeyError,
       Abort, CutShort
<1>2. loop' \in {"sleep", "stopped"} /\ (quarantined' => loop' = "sleep")
  BY <1>0 DEF Quarantine, BatchFails, Stop, Kill, Halt, EndBatch, rest, InStep
<1>3. CASE Quarantine \/ BatchFails
  <2>1. /\ events' = events /\ UNCHANGED buffer
        /\ forgotten' = forgotten \cup {f \in Watched : InBatch(f)}
    BY <1>3 DEF Quarantine, BatchFails, Forget
  <2>2. Told'
    BY <1>0, <1>1, <2>1, ToldFrame DEF buffer
  <2>3. \A f \in Watched : Fresh(f) \/ Later(f)'
    BY <1>0, <2>1 DEF OnItsWay, Later, Announced, buffer
  <2> QED
    BY <1>1, <1>2, <2>2, <2>3, BatchOver
<1>4. CASE Stop \/ Kill
  <2>1. /\ events' = <<>> /\ modified' = {} /\ deleted' = {}
        /\ forgotten' = forgotten \cup {f \in Watched : Pending(f)}
    BY <1>4 DEF Stop, Kill, Halt, Forget
  <2>2. Told'
    BY <2>1 DEF Told, LastEvent
  <2>3. \A f \in Watched : Fresh(f) \/ Later(f)'
    BY <1>0, <2>1 DEF OnItsWay, Pending, Later, Announced
  <2> QED
    BY <1>1, <1>2, <2>2, <2>3, BatchOver
<1> QED
  BY <1>3, <1>4

\* A deletion pass or a scan begins, with the paths of the batch.
LEMMA BatchBegins ==
  ASSUME DaemonInv, DeleteFiles \/ ScanModified
  PROVE  Told' /\ InStep' /\ BatchTold' /\ AtCursor' /\ OnItsWay'
<1>0. /\ DaemonTypeInv /\ InStep /\ Told /\ BatchTold /\ AtCursor /\ OnItsWay
      /\ Absent \notin Watched
      /\ batch.deleted \subseteq Watched /\ batch.modified \subseteq Watched
  BY DaemonScans, Sentinels DEF DaemonInv, DaemonTypeInv, DaemonTypeOK
<1>1. /\ pc[Daemon] = "idle" /\ cur[Daemon] = Absent /\ ~quarantined
      /\ disk' = disk /\ files' = files /\ cur' = cur /\ quarantined' = quarantined
      /\ batch' = batch /\ events' = events /\ UNCHANGED buffer /\ forgotten' = forgotten
  BY <1>0 DEF DeleteFiles, ScanModified, BeginRemove, BeginPartial, Begin, InStep, Rewriting,
     stores, rest
<1>2. Told'
  BY <1>0, <1>1, ToldFrame DEF buffer
<1>3. \A f : Later(f)' <=> Later(f)
  BY <1>1 DEF Later, Announced, buffer
<1>4. AtCursor' <=> \A f \in File \ Parsable : files'[f] = Absent
  <2>1. pc'[Daemon] \in {"stale", "walk"}
    BY <1>0, DaemonScans DEF DeleteFiles, ScanModified, BeginRemove, BeginPartial, Begin, Goto,
       DaemonTypeInv, DaemonTypeOK, TypeOK
  <2> QED
    BY <2>1 DEF AtCursor, Rewriting
<1>5. AtCursor'
  BY <1>0, <1>1, <1>4 DEF AtCursor
<1>6. CASE DeleteFiles
  <2>1. /\ loop = "delete" /\ loop' = "deleting" /\ pc'[Daemon] = "stale"
        /\ todo'[Daemon] = batch.deleted /\ ~whole'[Daemon]
    BY <1>0, <1>6, DaemonScans DEF DeleteFiles, BeginRemove, Goto, InStep,
       DaemonTypeInv, DaemonTypeOK, TypeOK
  <2>2. InStep'
    BY <1>0, <1>1, <2>1 DEF InStep, Rewriting
  <2>3. BatchTold'
    BY <1>0, <1>1, <1>3, <2>1 DEF BatchTold
  <2>4. OnItsWay'
    BY <1>0, <1>1, <1>3, <2>1 DEF OnItsWay, Fresh, InBatch
  <2> QED
    BY <1>2, <1>5, <2>2, <2>3, <2>4
<1>7. CASE ScanModified
  <2>1. /\ loop = "scan" /\ loop' = "scanning" /\ pc'[Daemon] = "walk"
        /\ todo'[Daemon] = {f \in batch.modified : disk[f] # Absent}
        /\ ~whole'[Daemon] /\ mode'[Daemon] = "incremental" /\ visited'[Daemon] = {}
    BY <1>0, <1>7, DaemonScans DEF ScanModified, BeginPartial, Begin, Goto,
       DaemonTypeInv, DaemonTypeOK, TypeOK
  <2>2. InStep'
    BY <1>0, <1>1, <2>1 DEF InStep, Rewriting
  <2>3. BatchTold'
    BY <1>0, <1>1, <1>3, <2>1 DEF BatchTold
  <2>4. OnItsWay'
    BY <1>0, <1>1, <1>3, <2>1 DEF OnItsWay, BatchTold, Fresh, InBatch
  <2> QED
    BY <1>2, <1>5, <2>2, <2>3, <2>4
<1> QED
  BY <1>6, <1>7

\* Between batches: the daemon starts again, the cache goes bad or is thrown away.
LEMMA BetweenBatches ==
  ASSUME DaemonInv, Start \/ CacheGoesBad \/ DeleteContext
  PROVE  Told' /\ InStep' /\ BatchTold' /\ AtCursor' /\ OnItsWay'
<1>0. DaemonTypeInv /\ InStep /\ Told /\ BatchTold /\ AtCursor /\ OnItsWay
  BY DEF DaemonInv
<1>1. /\ pc[Daemon] = "idle"
      /\ disk' = disk /\ UNCHANGED scan /\ batch' = batch /\ quarantined' = quarantined
      /\ loop' = loop \/ (loop = "stopped" /\ loop' = "sleep")
      /\ events' = events /\ UNCHANGED buffer /\ forgotten \subseteq forgotten'
  BY <1>0 DEF Start, CacheGoesBad, DeleteContext, Forget, InStep, indexVars, vars, rest
<1>2. Told'
  BY <1>0, <1>1, ToldFrame DEF buffer
<1>3. \A f : Later(f) => Later(f)'
  BY <1>1, LaterFrame
<1>4. InStep'
  BY <1>0, <1>1 DEF InStep, scan
<1>5. BatchTold'
  BY <1>0, <1>1, <1>3 DEF BatchTold, InStep, scan
<1>6. CASE files' = files
  <2>1. AtCursor'
    BY <1>0, <1>1, <1>6 DEF AtCursor, Rewriting, scan
  <2>2. OnItsWay'
    BY <1>0, <1>1, <1>3, <1>6 DEF OnItsWay, Fresh, InBatch, scan
  <2> QED
    BY <1>2, <1>4, <1>5, <2>1, <2>2
<1>7. CASE DeleteContext
  <2>1. /\ \A f \in File : files'[f] = Absent
        /\ \A f \in Watched : disk[f] = Absent \/ f \in forgotten'
    BY <1>7, DaemonScans DEF DeleteContext, Forget
  <2>2. AtCursor'
    BY <1>1, <2>1 DEF AtCursor, Rewriting, scan
  <2>3. OnItsWay'
    BY <1>1, <2>1, DaemonScans DEF OnItsWay, Fresh, Want, Later
  <2> QED
    BY <1>2, <1>4, <1>5, <2>2, <2>3
<1> QED
  BY <1>6, <1>7 DEF Start, CacheGoesBad, indexVars, vars, stores

-----------------------------------------------------------------------------
(* The steps within a batch.                                               *)

\* What a step of the index leaves alone.
LEMMA IndexFrame ==
  ASSUME DaemonInv, IndexStep
  PROVE  /\ pc[Daemon] # "idle" /\ loop \in {"deleting", "scanning"}
         /\ disk' = disk /\ events' = events /\ UNCHANGED buffer
         /\ loop' = loop /\ batch' = batch /\ quarantined' = quarantined
         /\ whole' = whole /\ mode' = mode
         /\ Told'
         /\ \A f : Later(f) => Later(f)'
<1>1. pc[Daemon] # "idle"
  BY DEF IndexStep, Work, SkipFile, ReadFile, DeleteCached, CheckHash, PutFile, ReplaceSymbols,
     ReplaceRelations, IndexFts, EndWalk, PutGitStats, ReadDocs, LinkDocs, DeleteFts
<1>2. loop \in {"deleting", "scanning"}
  BY <1>1 DEF DaemonInv, DaemonTypeInv, DaemonTypeOK, InStep
<1>3. disk' = disk /\ whole' = whole /\ mode' = mode
  BY DEF IndexStep, Work, SkipFile, ReadFile, DeleteCached, CheckHash, PutFile, ReplaceSymbols,
     ReplaceRelations, IndexFts, EndWalk, PutGitStats, ReadDocs, LinkDocs, DeleteFts
<1>4. /\ events' = events /\ UNCHANGED buffer /\ forgotten \subseteq forgotten'
      /\ loop' = loop /\ batch' = batch /\ quarantined' = quarantined
  BY DEF IndexStep, Forget, rest
<1>5. Told'
  BY <1>3, <1>4, ToldFrame DEF buffer, DaemonInv
<1> QED
  BY <1>1, <1>2, <1>3, <1>4, <1>5, LaterFrame

\* A step that does not move the cursor, and drops from the loop only paths whose row
\* is fresh or on which there is a later word.
LEMMA LoopStep ==
  ASSUME DaemonInv, IndexStep, files' = files, cur' = cur, cur[Daemon] = Absent,
         todo'[Daemon] \subseteq todo[Daemon],
         \A f \in todo[Daemon] : f \in todo'[Daemon] \/ Fresh(f) \/ Later(f)',
         todo'[Daemon] \cap visited'[Daemon] = {},
         loop = "scanning" /\ pc'[Daemon] \in {"walk", "docs", "link", "stale"}
           /\ (pc'[Daemon] # "walk" => todo'[Daemon] = {})
  PROVE  InStep' /\ BatchTold' /\ AtCursor' /\ OnItsWay'
<1>0. InStep /\ BatchTold /\ AtCursor /\ OnItsWay /\ Absent \notin Watched
  BY DaemonScans, Sentinels DEF DaemonInv
<1>1. /\ disk' = disk /\ loop' = loop /\ batch' = batch /\ quarantined' = quarantined
      /\ whole' = whole /\ mode' = mode
      /\ \A f : Later(f) => Later(f)'
  BY IndexFrame
<1>2. InStep'
  BY <1>0, <1>1 DEF InStep, Rewriting
<1>3. BatchTold'
  BY <1>0, <1>1 DEF BatchTold
<1>4. AtCursor'
  BY <1>0 DEF AtCursor, Rewriting
<1>5. OnItsWay'
  BY <1>0, <1>1 DEF OnItsWay, Fresh, InBatch
<1> QED
  BY <1>2, <1>3, <1>4, <1>5

\* The walk: what it passes over is forgotten, unless it is gone and a later event says so.
LEMMA SkipStep ==
  ASSUME DaemonInv, IndexStep, NEW f \in File, SkipFile(Daemon, f)
  PROVE  InStep' /\ BatchTold' /\ AtCursor' /\ OnItsWay'
<1>0. InStep /\ BatchTold /\ DaemonTypeInv
  BY DEF DaemonInv
<1>1. /\ pc[Daemon] = "walk" /\ f \in todo[Daemon] /\ loop = "scanning" /\ f \in Watched
      /\ cur[Daemon] = Absent
      /\ todo'[Daemon] = todo[Daemon] \ {f} /\ visited' = visited /\ pc' = pc /\ cur' = cur
      /\ files' = files
  BY <1>0, IndexFrame, DaemonScans
     DEF SkipFile, stores, InStep, Rewriting, DaemonTypeInv, DaemonTypeOK, TypeOK
<1>2. Later(f)'
  <2>1. CASE disk[f] = Absent
    BY <1>0, <1>1, <2>1, IndexFrame DEF BatchTold
  <2>2. CASE disk[f] # Absent
    <3>1. f \in Skipped
      BY <1>0, <1>1, <2>2 DEF Skipped, InStep
    <3>2. f \in forgotten'
      BY <1>1, <3>1 DEF IndexStep, Forget
    <3> QED
      BY <3>2 DEF Later
  <2> QED
    BY <2>1, <2>2
<1> QED
  BY <1>0, <1>1, <1>2, LoopStep DEF InStep

\* What is read is what is on disk now, and becomes the work at the cursor.
LEMMA ReadStep ==
  ASSUME DaemonInv, IndexStep, NEW f \in File, ReadFile(Daemon, f)
  PROVE  InStep' /\ BatchTold' /\ AtCursor' /\ OnItsWay'
<1>0. /\ InStep /\ BatchTold /\ AtCursor /\ OnItsWay /\ DaemonTypeInv
      /\ Absent \notin Watched
  BY DaemonScans, Sentinels DEF DaemonInv
<1>1. /\ pc[Daemon] = "walk" /\ f \in todo[Daemon] /\ loop = "scanning" /\ f \in Watched
      /\ cur[Daemon] = Absent
      /\ <<f, disk[f]>> \notin Oversized
      /\ todo'[Daemon] = todo[Daemon] \ {f} /\ visited'[Daemon] = visited[Daemon] \cup {f}
      /\ files' = files
  BY <1>0, IndexFrame, DaemonScans
     DEF ReadFile, stores, InStep, Rewriting, DaemonTypeInv, DaemonTypeOK, TypeOK
<1>2. /\ disk' = disk /\ loop' = loop /\ batch' = batch /\ quarantined' = quarantined
      /\ whole' = whole /\ mode' = mode
      /\ \A g : Later(g) => Later(g)'
  BY IndexFrame
<1>3. CASE f \in Parsable
  <2>1. pc'[Daemon] = "check" /\ cur'[Daemon] = f /\ data'[Daemon] = disk[f]
    BY <1>0, <1>3, DaemonScans DEF ReadFile, Goto, DaemonTypeInv, DaemonTypeOK, TypeOK
  <2>2. InStep'
    BY <1>0, <1>1, <1>2, <2>1 DEF InStep, Rewriting
  <2>3. BatchTold'
    BY <1>0, <1>1, <1>2 DEF BatchTold
  <2>4. AtCursor'
    BY <1>0, <1>1, <1>2, <1>3, <2>1 DEF AtCursor, Rewriting
  <2>5. OnItsWay'
    BY <1>0, <1>1, <1>2, <2>1 DEF OnItsWay, Fresh, InBatch
  <2> QED
    BY <2>2, <2>3, <2>4, <2>5
<1>4. CASE f \notin Parsable
  <2>1. pc' = pc /\ cur' = cur
    BY <1>4 DEF ReadFile
  <2>2. Fresh(f)
    BY <1>0, <1>4 DEF AtCursor, Fresh, Want
  <2>3. todo'[Daemon] \cap visited'[Daemon] = {}
    BY <1>0, <1>1 DEF InStep
  <2> QED
    BY <1>1, <2>1, <2>2, <2>3, LoopStep
<1> QED
  BY <1>3, <1>4

\* A row that holds what was read is up to date, unless there is a later word.
LEMMA RowAtCursor ==
  ASSUME DaemonInv, pc[Daemon] \in Rewriting, files[cur[Daemon]] = data[Daemon]
  PROVE  Fresh(cur[Daemon]) \/ Later(cur[Daemon])
BY DEF DaemonInv, AtCursor, Fresh, Want

\* The file at the cursor is done, and the loop goes on.
LEMMA CursorDone ==
  ASSUME DaemonInv, IndexStep, NextFile(Daemon, pc'[Daemon]), files' = files,
         todo' = todo, visited' = visited,
         \/ pc[Daemon] \in Rewriting /\ pc'[Daemon] = "walk"
         \/ pc[Daemon] = "staleFts" /\ pc'[Daemon] = "stale",
         Fresh(cur[Daemon]) \/ Later(cur[Daemon])
  PROVE  InStep' /\ BatchTold' /\ AtCursor' /\ OnItsWay'
<1>0. /\ InStep /\ BatchTold /\ AtCursor /\ OnItsWay /\ DaemonTypeInv
      /\ Absent \notin Watched
  BY DaemonScans, Sentinels DEF DaemonInv
<1>1. /\ disk' = disk /\ loop' = loop /\ batch' = batch /\ quarantined' = quarantined
      /\ whole' = whole /\ mode' = mode
      /\ \A g : Later(g) => Later(g)'
  BY IndexFrame
<1>2. cur'[Daemon] = Absent
  BY <1>0, DaemonScans DEF NextFile, DaemonTypeInv, DaemonTypeOK, TypeOK
<1>3. InStep'
  BY <1>0, <1>1, <1>2, IndexFrame DEF InStep, Rewriting
<1>4. BatchTold'
  BY <1>0, <1>1, <1>2 DEF BatchTold
<1>5. AtCursor'
  BY <1>0 DEF AtCursor, Rewriting
<1>6. ASSUME NEW f \in Watched PROVE Fresh(f)' \/ InBatch(f)' \/ Later(f)'
  <2>1. CASE f = cur[Daemon]
    <3>1. Fresh(f) \/ Later(f)
      BY <2>1
    <3> QED
      BY <1>1, <3>1 DEF Fresh
  <2>2. CASE f # cur[Daemon]
    BY <1>0, <1>1, <2>2 DEF OnItsWay, Fresh, InBatch
  <2> QED
    BY <2>1, <2>2
<1> QED
  BY <1>3, <1>4, <1>5, <1>6 DEF OnItsWay

\* The commits of one file, between the reading and the last commit.
LEMMA CursorMoves ==
  ASSUME DaemonInv, IndexStep, pc[Daemon] \in Rewriting, cur' = cur, data' = data,
         todo' = todo, visited' = visited,
         \/ pc'[Daemon] = "put" /\ files' = files
         \/ /\ pc'[Daemon] \in {"symbols", "relations", "fts"}
            /\ files' = [files EXCEPT ![cur[Daemon]] = data[Daemon]]
  PROVE  InStep' /\ BatchTold' /\ AtCursor' /\ OnItsWay'
<1>0. /\ InStep /\ BatchTold /\ AtCursor /\ OnItsWay /\ DaemonTypeInv
      /\ cur[Daemon] \in File
  BY DaemonScans DEF DaemonInv, DaemonTypeInv, CursorOK
<1>1. /\ disk' = disk /\ loop' = loop /\ batch' = batch /\ quarantined' = quarantined
      /\ whole' = whole /\ mode' = mode
      /\ \A g : Later(g) => Later(g)'
  BY IndexFrame
<1>2. /\ \A f \in File \ {cur[Daemon]} : files'[f] = files[f]
      /\ pc'[Daemon] \in {"symbols", "relations", "fts"} => files'[cur[Daemon]] = data[Daemon]
      /\ pc'[Daemon] \in {"put", "symbols", "relations", "fts"}
  BY <1>0 DEF DaemonTypeInv, DaemonTypeOK, TypeOK
<1>3. InStep'
  BY <1>0, <1>1, <1>2, IndexFrame DEF InStep, Rewriting
<1>4. BatchTold'
  BY <1>0, <1>1 DEF BatchTold
<1>5. AtCursor'
  BY <1>0, <1>1, <1>2 DEF AtCursor, Rewriting
<1>6. ASSUME NEW f \in Watched PROVE Fresh(f)' \/ InBatch(f)' \/ Later(f)'
  <2>1. CASE f = cur[Daemon]
    BY <2>1 DEF InBatch
  <2>2. CASE f # cur[Daemon]
    BY <1>0, <1>1, <1>2, <2>2, DaemonScans DEF OnItsWay, Fresh, InBatch
  <2> QED
    BY <2>1, <2>2
<1> QED
  BY <1>3, <1>4, <1>5, <1>6 DEF OnItsWay

LEMMA FileStep ==
  ASSUME DaemonInv, IndexStep,
         \/ CheckHash(Daemon) \/ PutFile(Daemon) \/ ReplaceSymbols(Daemon)
         \/ ReplaceRelations(Daemon) \/ IndexFts(Daemon)
  PROVE  InStep' /\ BatchTold' /\ AtCursor' /\ OnItsWay'
<1>0. AtCursor /\ pc \in [Scanner -> Phase] /\ files \in [File -> Stored]
  BY DEF DaemonInv, DaemonTypeInv, DaemonTypeOK, TypeOK
<1>1. pc[Daemon] \in Rewriting /\ todo' = todo /\ visited' = visited
  BY DEF CheckHash, PutFile, ReplaceSymbols, ReplaceRelations, IndexFts, Rewriting
<1>3. CASE CheckHash(Daemon)
  <2>1. CASE Unchanged(Daemon)
    <3>1. NextFile(Daemon, "walk") /\ files' = files
      BY <1>3, <2>1 DEF CheckHash, stores
    <3>2. pc'[Daemon] = "walk"
      BY <1>0, <3>1, DaemonScans DEF NextFile, Goto
    <3>3. Fresh(cur[Daemon]) \/ Later(cur[Daemon])
      BY <1>1, <2>1, RowAtCursor DEF Unchanged
    <3> QED
      BY <1>1, <3>1, <3>2, <3>3, CursorDone
  <2>2. CASE ~Unchanged(Daemon)
    <3>1. pc'[Daemon] = "put" /\ files' = files /\ cur' = cur /\ data' = data
      BY <1>0, <1>3, <2>2, DaemonScans DEF CheckHash, Goto, stores
    <3> QED
      BY <1>1, <3>1, CursorMoves
  <2> QED
    BY <2>1, <2>2
<1>4. CASE PutFile(Daemon)
  <2>1. /\ pc'[Daemon] = "symbols" /\ cur' = cur /\ data' = data
        /\ files' = [files EXCEPT ![cur[Daemon]] = data[Daemon]]
    BY <1>0, <1>4, DaemonScans DEF PutFile, Goto
  <2> QED
    BY <1>1, <2>1, CursorMoves
<1>5. CASE ReplaceSymbols(Daemon) \/ ReplaceRelations(Daemon)
  <2>1. /\ pc'[Daemon] \in {"relations", "fts"} /\ cur' = cur /\ data' = data
        /\ files' = files
        /\ files[cur[Daemon]] = data[Daemon]
    BY <1>0, <1>5, DaemonScans DEF ReplaceSymbols, ReplaceRelations, Goto, AtCursor
  <2>2. files' = [files EXCEPT ![cur[Daemon]] = data[Daemon]]
    BY <1>0, <2>1
  <2> QED
    BY <1>1, <2>1, <2>2, CursorMoves
<1>6. CASE IndexFts(Daemon)
  <2>1. NextFile(Daemon, "walk") /\ files' = files /\ files[cur[Daemon]] = data[Daemon]
    BY <1>0, <1>6 DEF IndexFts, AtCursor
  <2>2. pc'[Daemon] = "walk"
    BY <1>0, <2>1, DaemonScans DEF NextFile, Goto
  <2>3. Fresh(cur[Daemon]) \/ Later(cur[Daemon])
    BY <1>1, <2>1, RowAtCursor
  <2> QED
    BY <1>1, <2>1, <2>2, <2>3, CursorDone
<1> QED
  BY <1>3, <1>4, <1>5, <1>6

\* After the walk of a partial scan there is nothing left to drop.
LEMMA AfterWalk ==
  ASSUME DaemonInv, IndexStep,
         EndWalk(Daemon) \/ PutGitStats(Daemon) \/ ReadDocs(Daemon) \/ LinkDocs(Daemon)
  PROVE  InStep' /\ BatchTold' /\ AtCursor' /\ OnItsWay'
<1>0. InStep /\ pc \in [Scanner -> Phase] /\ todo \in [Scanner -> SUBSET File]
  BY DEF DaemonInv, DaemonTypeInv, DaemonTypeOK, TypeOK
<1>1. /\ pc[Daemon] \in {"walk", "docs", "link"} /\ loop = "scanning"
      /\ cur[Daemon] = Absent /\ todo[Daemon] = {}
      /\ files' = files /\ cur' = cur
  BY <1>0, IndexFrame DEF InStep, EndWalk, PutGitStats, ReadDocs, LinkDocs, Rewriting, stores
<1>2. StaleAfter(Daemon) = {}
  BY <1>0 DEF StaleAfter, InStep
<1>3. todo'[Daemon] = {}
  <2>1. CASE todo' = todo
    BY <1>1, <2>1
  <2>2. CASE BeginCleanup(Daemon)
    BY <1>0, <1>2, <2>2, DaemonScans DEF BeginCleanup
  <2> QED
    BY <2>1, <2>2 DEF EndWalk, PutGitStats, ReadDocs, LinkDocs
<1>4. pc'[Daemon] \in {"docs", "link", "stale"}
  BY <1>0, <1>1, DaemonScans
     DEF EndWalk, PutGitStats, ReadDocs, LinkDocs, BeginCleanup, Goto, InStep
<1> QED
  BY <1>1, <1>3, <1>4, LoopStep

\* The deletion pass takes the row of a file that is gone, or comes back to later.
LEMMA DeleteStep ==
  ASSUME DaemonInv, IndexStep, NEW f \in File, DeleteCached(Daemon, f)
  PROVE  InStep' /\ BatchTold' /\ AtCursor' /\ OnItsWay'
<1>0. /\ InStep /\ BatchTold /\ AtCursor /\ OnItsWay /\ DaemonTypeInv
      /\ Absent \notin Watched
  BY DaemonScans, Sentinels DEF DaemonInv
<1>1. /\ pc[Daemon] = "stale" /\ f \in todo[Daemon] /\ loop = "deleting" /\ f \in Watched
      /\ pc'[Daemon] = "staleFts" /\ cur[Daemon] = Absent /\ cur'[Daemon] = f
      /\ todo'[Daemon] = todo[Daemon] \ {f}
      /\ files'[f] = Absent /\ \A g \in File \ {f} : files'[g] = files[g]
  BY <1>0, IndexFrame, DaemonScans
     DEF DeleteCached, Goto, InStep, Rewriting, DaemonTypeInv, DaemonTypeOK, TypeOK
<1>2. /\ disk' = disk /\ loop' = loop /\ batch' = batch /\ quarantined' = quarantined
      /\ whole' = whole /\ mode' = mode
      /\ \A g : Later(g) => Later(g)'
  BY IndexFrame
<1>3. InStep'
  BY <1>0, <1>1, <1>2 DEF InStep, Rewriting
<1>4. BatchTold'
  BY <1>0, <1>1, <1>2 DEF BatchTold
<1>5. AtCursor'
  BY <1>0, <1>1 DEF AtCursor, Rewriting
<1>6. ASSUME NEW g \in Watched PROVE Fresh(g)' \/ InBatch(g)' \/ Later(g)'
  <2>1. CASE g = f
    BY <1>1, <2>1 DEF InBatch
  <2>2. CASE g # f
    BY <1>0, <1>1, <1>2, <2>2, DaemonScans DEF OnItsWay, Fresh, InBatch
  <2> QED
    BY <2>1, <2>2
<1> QED
  BY <1>3, <1>4, <1>5, <1>6 DEF OnItsWay

LEMMA DeletedStep ==
  ASSUME DaemonInv, IndexStep, DeleteFts(Daemon)
  PROVE  InStep' /\ BatchTold' /\ AtCursor' /\ OnItsWay'
<1>0. InStep /\ BatchTold /\ AtCursor /\ pc \in [Scanner -> Phase]
  BY DEF DaemonInv, DaemonTypeInv, DaemonTypeOK, TypeOK
<1>1. /\ pc[Daemon] = "staleFts" /\ loop = "deleting"
      /\ NextFile(Daemon, "stale") /\ files' = files /\ todo' = todo /\ visited' = visited
      /\ cur[Daemon] \in Watched /\ files[cur[Daemon]] = Absent
  BY <1>0, IndexFrame DEF DeleteFts, InStep, AtCursor, Rewriting
<1>2. pc'[Daemon] = "stale"
  BY <1>0, <1>1, DaemonScans DEF NextFile, Goto
<1>3. Fresh(cur[Daemon]) \/ Later(cur[Daemon])
  BY <1>0, <1>1 DEF BatchTold, Fresh, Want
<1> QED
  BY <1>1, <1>2, <1>3, CursorDone

LEMMA BatchStep ==
  ASSUME DaemonInv, IndexStep
  PROVE  Told' /\ InStep' /\ BatchTold' /\ AtCursor' /\ OnItsWay'
<1>1. Work(Daemon) /\ Told'
  BY IndexFrame DEF IndexStep
<1> QED
  BY <1>1, SkipStep, ReadStep, FileStep, AfterWalk, DeleteStep, DeletedStep DEF Work

-----------------------------------------------------------------------------
(* The theorems.                                                           *)

LEMMA DaemonInitInv == DaemonInit => DaemonInv
<1> SUFFICES ASSUME DaemonInit PROVE DaemonInv
  OBVIOUS
<1>1. /\ pc[Daemon] = "idle" /\ ~whole[Daemon] /\ cur[Daemon] = Absent /\ todo[Daemon] = {}
      /\ loop = "sleep" /\ ~quarantined /\ events = <<>> /\ modified = {} /\ deleted = {}
      /\ \A f \in File : files[f] = Want(f, disk[f])
  BY DaemonScans DEF DaemonInit
<1>2. InStep
  BY <1>1 DEF InStep, Rewriting
<1>3. Told
  BY <1>1 DEF Told
<1>4. BatchTold
  BY <1>1 DEF BatchTold
<1>5. AtCursor
  BY <1>1 DEF AtCursor, Rewriting, Want
<1>6. OnItsWay
  BY <1>1, DaemonScans DEF OnItsWay, Fresh
<1> QED
  BY <1>2, <1>3, <1>4, <1>5, <1>6, DaemonInitType DEF DaemonInv

LEMMA DaemonNextInv == DaemonInv /\ [DaemonNext]_daemonVars => DaemonInv'
<1> SUFFICES ASSUME DaemonInv, [DaemonNext]_daemonVars PROVE DaemonInv'
  OBVIOUS
<1>0. DaemonTypeInv /\ InStep /\ Told
  BY DEF DaemonInv
<1>1. CASE UNCHANGED daemonVars
  <2>1. UNCHANGED <<vars, events, buffer, batch, loop, rest, forgotten>>
    BY <1>1 DEF daemonVars
  <2>2. DaemonTypeInv'
    BY <1>0, <2>1 DEF vars, stores, scan, history, buffer, rest, DaemonTypeInv, DaemonTypeOK,
                      TypeOK, CursorOK
  <2>3. Told' /\ \A f : Later(f) => Later(f)'
    BY <1>0, <2>1 DEF vars, buffer, Told, Later, Announced, LastEvent
  <2>4. InStep' /\ BatchTold' /\ AtCursor' /\ OnItsWay'
    BY <2>1, <2>3, Elsewhere DEF vars, rest
  <2> QED
    BY <2>2, <2>3, <2>4 DEF DaemonInv
<1>2. CASE DaemonNext
  <2>1. DaemonTypeInv'
    BY <1>0, <1>2, DaemonTypeStep
  <2>2. ASSUME NEW f \in File, NEW c \in Stored, Change(f, c)
        PROVE  Told' /\ InStep' /\ BatchTold' /\ AtCursor' /\ OnItsWay'
    BY <1>0, <2>2, ChangeTold, Elsewhere DEF Change, EditFile
  <2>3. ASSUME NEW f \in File, NEW g \in File, Move(f, g)
        PROVE  Told' /\ InStep' /\ BatchTold' /\ AtCursor' /\ OnItsWay'
    BY <1>0, <2>3, MoveTold, Elsewhere DEF Move
  <2>4. CASE OnAnyEvent
    <3>1. /\ UNCHANGED <<stores, scan, batch, loop, quarantined>>
          /\ disk' = disk
      BY <2>4 DEF OnAnyEvent, indexVars, vars, rest
    <3>2. Told' /\ \A f \in Watched : Later(f) => Later(f)'
      BY <1>0, <2>4, DeliveryTold
    <3>3. \A f \in Watched : disk'[f] = disk[f] \/ Later(f)'
      BY <3>1
    <3>4. InStep' /\ BatchTold' /\ AtCursor' /\ OnItsWay'
      BY <3>1, <3>2, <3>3, Elsewhere
    <3> QED
      BY <2>1, <3>2, <3>4 DEF DaemonInv
  <2> QED
    BY <1>2, <2>1, <2>2, <2>3, <2>4, FlushStep, BatchDone, BatchDropped, BatchBegins,
       BetweenBatches, BatchStep DEF DaemonNext, MainLoop, DaemonInv
<1> QED
  BY <1>1, <1>2

LEMMA AlwaysDaemonInv == DaemonSpec => []DaemonInv
BY DaemonInitInv, DaemonNextInv, PTL DEF DaemonSpec

\* The queue, the buffer and the batch hold watched paths only, no path is in both sets
\* of the buffer, and the index underneath stays well typed, through renames, restarts,
\* failures and a cache that is deleted under the daemon.
THEOREM DaemonTypeCorrect == DaemonSpec => []DaemonTypeOK
<1>1. DaemonInv => DaemonTypeOK
  BY DEF DaemonInv, DaemonTypeInv
<1> QED
  BY <1>1, AlwaysDaemonInv, PTL

\* No change is lost between the watcher and the index: for any files and any number of
\* changes, a watched file whose row is out of date has work on its way, or the daemon
\* has dropped its last change at one of the places that are known to.
THEOREM NoChangeLost == DaemonSpec => []StaleIsPending
<1>1. DaemonInv => StaleIsPending
  BY DEF DaemonInv, OnItsWay, StaleIsPending, Pending, Later, Announced
<1> QED
  BY <1>1, AlwaysDaemonInv, PTL

\* A quarantined project sleeps: no step of the main loop touches its index until the
\* daemon is started again.
THEOREM FrozenInQuarantine == DaemonSpec => QuarantineFreezes
<1>1. DaemonInv /\ DaemonInv' /\ [DaemonNext]_daemonVars
        => [quarantined /\ MainLoop => UNCHANGED stores]_daemonVars
  <2> SUFFICES ASSUME DaemonInv, quarantined, MainLoop PROVE UNCHANGED stores
    OBVIOUS
  <2>1. loop = "sleep" /\ pc[Daemon] = "idle"
    BY DEF DaemonInv, InStep
  <2>2. ~IndexStep
    BY <2>1, IndexFrame
  <2>3. FlushAll
    BY <2>1, <2>2 DEF MainLoop, Quarantine, DeleteFiles, FilesDeleted, ScanModified,
                      ModifiedScanned, BatchFails
  <2> QED
    BY <2>3 DEF FlushAll, indexVars, vars
<1> QED
  BY <1>1, AlwaysDaemonInv, PTL DEF DaemonSpec, QuarantineFreezes

=============================================================================
