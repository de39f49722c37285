\* One writer at a time, which can die or fail to write at any point.
SPECIFICATION Spec
CONSTANTS
  Writer = {w1}
  Root = {r1, r2}
  Status = {pending, ok}
  Setting = {factory, custom}
  Pending = pending
  Factory = factory
  None = None
  MayCrash = TRUE
  MayFail = TRUE
  NoFile = NoFile
  Torn = Torn
INVARIANTS NeverHalfWritten
PROPERTIES KeepsContract
