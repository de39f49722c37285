SPECIFICATION Spec
CONSTANTS
  Scopes = {"user", "project"}
  l1 = l1
  l2 = l2
  Lines <- MCLines
  Versions <- MCVersions
  Provider <- MCProvider
  MaxUpsets = 3
INVARIANTS GuideKept WhatIsSaidHolds
PROPERTY HintsLeadToHealth
CHECK_DEADLOCK FALSE
