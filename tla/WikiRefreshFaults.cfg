\* Commands that overlap or writes seen half done (never both in one run), runners
\* that are cancelled, killed, or live for more than an hour.
SPECIFICATION RefreshSpec
CONSTANTS
  Command = {k1, k2}
  Runner = {r1, r2}
  Conditions <- OneDisturbance
  MayKill = TRUE
  MayExpire = TRUE
  NoFile = NoFile
  Torn = Torn
  NoPid = NoPid
INVARIANTS OneRunnerWhenCalm NoWedge WorkIsVisible
SYMMETRY Symmetric
CHECK_DEADLOCK FALSE
