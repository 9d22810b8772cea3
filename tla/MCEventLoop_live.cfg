CONSTANTS
  Journals = {j1, j2}
  Kinds = {"engine", "comm"}
  MaxEvents = 1
  MaxFrames = 2
  MaxClock = 1
  MaxPages = 2
  Traced = FALSE
SPECIFICATION FairSpec
CHECK_DEADLOCK FALSE
PROPERTIES
  ImplementsLogs
  StopIsFinal
  Delivered
  StopEnds
  TerminateEnds
