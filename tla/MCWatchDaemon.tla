--------------------------- MODULE MCWatchDaemon ---------------------------
(* Values of the constants of WatchDaemon for TLC: a source file and a docs  *)
(* file that mentions it.                                                    *)
EXTENDS WatchDaemon

CONSTANTS f1, f2, c1, c2, n1

MCDefines ==
  [f \in File |-> [c \in Content |-> IF f = f1 /\ c = c1 THEN {n1} ELSE {}]]

MCMentions == [c \in Content |-> IF c = c1 THEN {f1} ELSE {}]

MCOversized == {<<f1, c2>>}

=============================================================================
