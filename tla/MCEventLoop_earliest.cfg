CONSTANTS
  Journals = {j1, j2}
  Kinds = {"comm"}
  MaxEvents = 10
  MaxFrames = 3
  MaxClock = 1
  MaxPages = 2
  Traced = TRUE
SPECIFICATION Spec
SYMMETRY Symmetric
CHECK_DEADLOCK FALSE
INVARIANTS
  EarliestFirst
