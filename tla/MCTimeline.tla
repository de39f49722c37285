----------------------------- MODULE MCTimeline -----------------------------
(* Timeline for TLC: a function in two files and another in a third.        *)
EXTENDS Timeline

CONSTANTS a, b, c, x, y, t1

\* Kept for three ticks of the clock, or switched off.
MCConfigs == {[enabled |-> TRUE, retention |-> 3], [enabled |-> FALSE, retention |-> 0]}

MCPath == [s \in Symbol |-> s]

\* The first two have the same name, so that one can be the other renamed.
MCName == [s \in Symbol |-> IF s <= 2 THEN "x.run" ELSE "y.stop"]

MCRatio == [p \in Range(MCName) \X Range(MCName) |-> IF p[1] = p[2] THEN 100 ELSE 40]

MCImportance == [s \in Symbol |-> IF s = 2 THEN 1 ELSE 0]

MCContains == [p \in {"run", "s"} |-> IF p = "run" THEN Symbol \cap {1, 2} ELSE Symbol]

\* Only the first changes its body, and only while it is alone.
MCTree == {t \in [Symbol -> Body \cup {Absent}] : t[2] # y /\ t # <<y, x>>}

=============================================================================
