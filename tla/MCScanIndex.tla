---------------------------- MODULE MCScanIndex ----------------------------
(* Values of the constants of ScanIndex for TLC: a docs file that mentions a *)
(* source file, and two source files that can define the same symbol name.   *)
EXTENDS ScanIndex, TLC

CONSTANTS f1, f2, f3, c1, c2, n1, n2

\* f1 and f2 stand for app.py and app/__init__.py, both the module "app".
MCDefines ==
  [f \in File |-> [c \in Content |->
     CASE f = f1 -> IF c = c1 THEN {n1} ELSE {n1, n2}
       [] f = f2 -> IF c = c1 THEN {n1} ELSE {}
       [] OTHER  -> {}]]

MCMentions == [c \in Content |-> IF c = c1 THEN {f1} ELSE {}]

MCOversized == {<<f2, c2>>}

NoOversized == {}

\* The scanners are interchangeable: no property and no fairness names one.
Scanners == Permutations(Scanner)

=============================================================================
