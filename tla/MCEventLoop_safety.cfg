CONSTANTS
  Journals = {j1, j2}
  Kinds = {"comm"}
  MaxEvents = 1
  MaxFrames = 3
  MaxClock = 2
  MaxPages = 2
  Traced = FALSE
SPECIFICATION Spec
SYMMETRY Symmetric
CHECK_DEADLOCK FALSE
INVARIANTS
  TypeOK
  MergeOrder
  NoWakeupLost
