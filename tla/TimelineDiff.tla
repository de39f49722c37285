---------------------------- MODULE TimelineDiff ----------------------------
(***************************************************************************)
(* From two snapshots of a project's symbols to the events that lead from  *)
(* one to the other: libs/symbol_timeline/snapshot_builder.py, differ.py   *)
(* and rename_detect.py.                                                   *)
(*                                                                         *)
(* A snapshot is a function from the ids of the symbols that exist to the  *)
(* path and the content hash of each.  The id is a hash of path, name and  *)
(* kind, so the path and the name are functions of it.                     *)
(***************************************************************************)
EXTENDS Integers, SequencesExt

CONSTANTS
  Symbol,     \* symbol ids, numbered in the order in which they sort
  Body,       \* source slices of symbols
  Tree,       \* what a scan may find: the body of each symbol, or that there is none
  FilePath,   \* [Symbol -> paths]
  FqName,     \* [Symbol -> qualified names]
  LeafRatio,  \* [qualified names \X qualified names -> 0..100]: similarity of last segments
  Threshold,  \* timeline.rename_similarity_threshold, in percent
  Absent      \* no such symbol, no such file, no row

ASSUME TimelineDiffAssumption ==
  /\ Symbol \subseteq Nat
  /\ Threshold \in 1..100
  /\ Absent \notin Body
  /\ Tree \subseteq [Symbol -> Body \cup {Absent}]
  /\ [s \in Symbol |-> Absent] \in Tree
  /\ \A r, a \in Symbol : LeafRatio[<<FqName[r], FqName[a]>>] \in 0..100

NoSymbols == [s \in {} |-> Absent]

\* compute_symbol_content_hash: the qualified name and the source slice.
ContentHash(s, body) == <<FqName[s], body>>

BuildSnapshot(tree) ==
  [s \in {s \in Symbol : tree[s] # Absent} |-> [hash |-> ContentHash(s, tree[s]), path |-> FilePath[s]]]

-----------------------------------------------------------------------------
Hashes == {ContentHash(s, body) : s \in Symbol, body \in Body}

Paths == {FilePath[s] : s \in Symbol}

\* The rows of symbol_timeline_events, but for their id.
EventRow ==
  [type : {"added", "removed", "modified", "moved"}, sym : Symbol, hash : Hashes, path : Paths,
   commit : Nat \cup {Absent}, ts : Nat, orphaned : BOOLEAN]

ASSUME AbsentAssumption ==
  /\ Absent \notin Nat \cup EventRow
  /\ \A tree \in Tree : BuildSnapshot(tree) # Absent

TimelineEvent(type, s, snap, commit, ts) ==
  [type |-> type, sym |-> s, hash |-> snap[s].hash, path |-> snap[s].path,
   commit |-> commit, ts |-> ts, orphaned |-> FALSE]

\* What of a symbol both snapshots have is different.
Changed(before, after) ==
  IF before.hash # after.hash THEN "modified" ELSE IF before.path # after.path THEN "moved" ELSE "same"

\* diff_ast_snapshots: an event for each symbol that was added, removed or changed.
DiffAstSnapshots(prev, curr, commit, ts) ==
  {TimelineEvent("added", s, curr, commit, ts) : s \in DOMAIN curr \ DOMAIN prev}
    \cup {TimelineEvent("removed", s, prev, commit, ts) : s \in DOMAIN prev \ DOMAIN curr}
    \cup {TimelineEvent(Changed(prev[s], curr[s]), s, curr, commit, ts) :
            s \in {t \in DOMAIN prev \cap DOMAIN curr : Changed(prev[t], curr[t]) # "same"}}

\* _similarity, in percent.  Equal last segments count 90, whatever precedes them.
Similarity(removed, added) ==
  IF removed.hash = added.hash THEN 100
  ELSE LET ratio == LeafRatio[<<FqName[removed.sym], FqName[added.sym]>>]
       IN  IF ratio = 100 THEN 90 ELSE ratio

OfType(events, type) == {e \in events : e.type = type}

\* The first of the added events that is most similar to the removed one, if any is at
\* all.
BestAdded(removed, added) ==
  LET best == {a \in added : /\ Similarity(removed, a) > 0
                             /\ \A b \in added : Similarity(removed, b) <= Similarity(removed, a)}
  IN  IF best = {} THEN Absent ELSE CHOOSE a \in best : \A b \in best : a.sym <= b.sym

Paired(removed, added) == added # Absent /\ Similarity(removed, added) >= Threshold

\* Variant of Consumes: a candidate consumes its two events as well.
ConsumesCandidates(removed, added) == Paired(removed, added)

\* Only an edge of full confidence consumes its two events.
Consumes(removed, added) == added # Absent /\ Similarity(removed, added) = 100

\* The greedy pairing: each removed event, in the order of the ids, takes the best of the
\* added ones that those before it have not consumed.
BestOf(added, removed) ==
  LET best[r \in removed] ==
        BestAdded(r, added \ {best[q] : q \in {p \in removed : p.sym < r.sym /\ Consumes(p, best[p])}})
  IN  best

\* pair_renames: the rename edges, and the events no confirmed edge stands for.
PairRenames(events) ==
  LET added   == OfType(events, "added")
      removed == OfType(events, "removed")
      best    == BestOf(added, removed)
      pairs   == {r \in removed : Paired(r, best[r])}
      gone    == {r \in removed : Consumes(r, best[r])}
  IN  [edges  |-> {[old |-> r.sym, new |-> best[r].sym, candidate |-> Similarity(r, best[r]) < 100,
                    commit |-> r.commit, ts |-> r.ts] : r \in pairs},
       events |-> events \ (gone \cup {best[r] : r \in gone})]

\* The calls emit_timeline makes on the sink between on_scan_begin and on_scan_end:
\* the events, those of changed symbols first, then added and removed ones, then the
\* edges, all in the order of the ids.
Dispatch(prev, curr, commit, ts) == PairRenames(DiffAstSnapshots(prev, curr, commit, ts))

NoRows == [events |-> {}, edges |-> {}]

Turn(event) == CASE event.type = "added" -> 2 [] event.type = "removed" -> 3 [] OTHER -> 1

FirstEvent(events) ==
  CHOOSE e \in events : \A f \in events : Turn(e) < Turn(f) \/ (Turn(e) = Turn(f) /\ e.sym <= f.sym)

FirstEdge(edges) == CHOOSE e \in edges : \A f \in edges : e.old <= f.old

=============================================================================
