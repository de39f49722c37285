--------------------------- MODULE MCWikiRefresh ---------------------------
(* WikiRefresh for TLC.  Commands, and runners, are interchangeable.        *)
EXTENDS WikiRefresh, TLC

Symmetric == Permutations(Command) \cup Permutations(Runner)

\* Commands overlap, or writes are seen half done, but not both in one run.
OneDisturbance == {e \in [serial : BOOLEAN, torn : BOOLEAN] : e.serial \/ ~e.torn}

=============================================================================
