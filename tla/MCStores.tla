------------------------------- MODULE MCStores -------------------------------
(***************************************************************************)
(* The four stores beside the index (summaries, session usage, memories and *)
(* vectors) for TLC.  They share nothing here, so a behaviour is one of     *)
(* them at a time: `scene` says which, and the others keep their initial    *)
(* states.                                                                 *)
(***************************************************************************)
EXTENDS Summaries, UsageCache, MemoryStore, VectorIndex, TLC

CONSTANTS r1, r2, f1, f2, a, b, gone, m1, m2, p1, p2, x1, x2

VARIABLE scene

(* One call costs four; a second one exceeds the budget. *)
MCListed == [mini |-> [input |-> 2, cached |-> 1, output |-> 1]]

(* Projects with names of their own. *)
MCName == [p \in {p1, p2} |-> p]

vars == <<scene, summariesVars, usageVars, memoryVars, vectorVars>>

(* A store that is not on stage rests in one initial state, so that the     *)
(* four state spaces add up and do not multiply.  The two projects of the   *)
(* vector index begin with one file each, unscanned.                        *)
Init ==
    /\ scene \in {"summaries", "usage", "memory", "vectors"}
    /\ SummariesInit
    /\ scene # "summaries" => disk[f1] = a /\ disk[f2] = a /\ llm.provider = "openai"
    /\ UsageInit
    /\ MemoryInit
    /\ VectorInit
    /\ dimension = 1
    /\ tree = [p \in {p1, p2} |-> [x \in {x1, x2} |-> IF x = x1 THEN a ELSE gone]]

Next ==
    \/ /\ scene = "summaries" /\ SummariesNext
       /\ UNCHANGED <<scene, usageVars, memoryVars, vectorVars>>
    \/ /\ scene = "usage" /\ UsageNext
       /\ UNCHANGED <<scene, summariesVars, memoryVars, vectorVars>>
    \/ /\ scene = "memory" /\ MemoryNext
       /\ UNCHANGED <<scene, summariesVars, usageVars, vectorVars>>
    \/ /\ scene = "vectors" /\ VectorNext
       /\ UNCHANGED <<scene, summariesVars, usageVars, memoryVars>>

Spec == Init /\ [][Next]_vars

(* Processes, and the files of a run, are interchangeable; only safety is   *)
(* checked.                                                                *)
Symmetry == UNION {Permutations({r1, r2}), Permutations({f1, f2}), Permutations({m1, m2})}
===============================================================================
