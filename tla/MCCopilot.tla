------------------------------ MODULE MCCopilot ------------------------------
(***************************************************************************)
(* The copilot and the pack its `ask` returns, for TLC.  Copilot takes the   *)
(* pack as one step and Retrieval takes it apart, and they share no state,  *)
(* so a behaviour is one of them at a time: `scene` says which.             *)
(***************************************************************************)
EXTENDS Copilot, Retrieval

VARIABLE scene

(* One project with a module of two segments and a Markdown file at its root. *)

\* wiki_filename and lint's _to_stem.
MCArticleOf == [m \in Module |-> IF m = "libs/core" THEN "libs-core" ELSE "README"]
MCLintNameOf == [m \in Module |-> IF m = "libs/core" THEN "libs-core" ELSE "README.md"]

\* The module changes, goes and comes back; the Markdown file stays what it is.
MCVersionsOf == [m \in Module |-> IF m = "libs/core" THEN {0, 1, 2} ELSE {1}]

(* For retrieval, a project of two modules, a test, a configuration file and *)
(* a path that only the test names.  The second content of app/a.py lost its *)
(* function.                                                                *)
File == [a |-> "app/a.py", b |-> "app/b.py", old |-> "app/old.py", test |-> "tests/t.py",
         conf |-> "app.yaml"]
MCPaths == {File.a, File.b, File.old, File.test, File.conf}
MCSymbols == {"app.a.f", "app.b.g"}
Prose == {"a1", "a2", "b1", "t1", "y1"}
MCHome == [s \in MCSymbols |-> IF s = "app.a.f" THEN File.a ELSE File.b]
MCDisk == [p \in MCPaths |-> CASE p = File.a -> "a1" [] p = File.b -> "b1" [] p = File.test -> "t1"
                               [] p = File.conf -> "y1" [] OTHER -> Gone]
MCContents == [p \in MCPaths |-> CASE p = File.a -> {"a1", "a2"} [] p = File.b -> {"b1"}
                                   [] OTHER -> {}]
MCNames == [c \in Prose |-> CASE c = "a1" -> {"app.a.f"} [] c = "b1" -> {"app.b.g"}
                              [] OTHER -> {}]
MCRefs == [c \in Prose |-> CASE c = "a1" -> MCSymbols
                             [] c \in {"a2", "b1"} -> {"app.b.g"}
                             [] c = "t1" -> {File.a, File.old, "app.a.f"}
                             [] OTHER -> {}]
MCRole == [p \in MCPaths |-> CASE p = File.test -> "test" [] p = File.conf -> "config"
                               [] OTHER -> "source"]
MCPosition == [p \in MCPaths |-> CASE p = File.conf -> 1 [] p = File.a -> 2 [] p = File.b -> 3
                                   [] p = File.old -> 4 [] OTHER -> 5]
MCRow == [n \in MCSymbols \X MCPaths |-> IF n[1] = "app.a.f" THEN 1 ELSE 2]
MCCentral == [p \in MCPaths |-> CASE p = File.b -> 90 [] p = File.a -> 50 [] p = File.old -> 40
                                  [] OTHER -> 10]
MCChurned == {File.a}
MCYoung == {File.b}
MCAnswers == {NoScores, [p \in {File.b, File.old} |-> IF p = File.b THEN 60 ELSE 80]}

Given(scores, all) == [n \in all |-> IF n \in DOMAIN scores THEN scores[n] ELSE 0]

(* A name that matches next to words in a test and a configuration file; no  *)
(* name, but two texts with all words, one of them with its path too.        *)
MCQueries ==
  {[name |-> Given([n \in {"app.a.f"} |-> 5000], MCSymbols),
    strict |-> Given(NoScores, Prose), loose |-> Given([y1 |-> 900, t1 |-> 1100], Prose),
    inPath |-> Given(NoScores, MCPaths), config |-> TRUE, docs |-> FALSE],
   [name |-> Given(NoScores, MCSymbols),
    strict |-> Given([b1 |-> 2000, a2 |-> 2100], Prose), loose |-> Given([t1 |-> 500], Prose),
    inPath |-> Given([p \in {File.b} |-> 750], MCPaths), config |-> FALSE, docs |-> FALSE]}

MCInit == scene \in {"copilot", "pack"} /\ Init /\ RetrievalInit

MCNext ==
  \/ scene = "copilot" /\ Next /\ UNCHANGED <<scene, retrievalVars>>
  \/ scene = "pack" /\ RetrievalNext /\ UNCHANGED <<scene, vars>>

MCSpec == MCInit /\ [][MCNext]_<<scene, vars, retrievalVars>>
=============================================================================
