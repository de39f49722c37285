---------------------------- MODULE MCWikiState ----------------------------
(* WikiState for TLC: a module of two files and one of one.                 *)
EXTENDS WikiState

CONSTANTS a1, a2, b1, c1, c2, ma, mb, ctx

MCModuleOf == [f \in File |-> IF f = b1 THEN mb ELSE ma]

\* The file a1 is edited, the others come and go.
MCContentOf == [f \in File |-> IF f = a1 THEN {c1, c2} ELSE {c1}]

\* The daemon scans, or deletes a file, once, ctx scans twice.
MCMaxScans == [s \in Scanner |-> IF s = ctx THEN 2 ELSE 1]

=============================================================================
