CONSTANTS
  Writer = w
  Readers = {r1}
  Bodies = {a}
  NoBody = NoBody
  DataLens = {0, 1}
  HeaderLen = 2
  PageSize = 9
  MaxPages = 2
  MaxFrames = 3
  MaxClock = 2
  MaxCrashes = 1
  CrashPoints = {"published"}
SPECIFICATION Spec
CHECK_DEADLOCK FALSE
INVARIANTS
  PageEndIsLast
