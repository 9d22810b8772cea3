CONSTANTS
  Writer = w
  Readers = {r1}
  Bodies = {a, b}
  NoBody = NoBody
  DataLens = {0, 1}
  HeaderLen = 2
  PageSize = 9
  MaxPages = 2
  MaxFrames = 3
  MaxClock = 3
  MaxCrashes = 1
  CrashPoints = {"made", "faulted", "seekPage", "seekFrame", "ready", "making", "turned", "ended", "opened", "filled", "zeroed", "stamped"}
SPECIFICATION Spec
SYMMETRY Symmetric
CHECK_DEADLOCK FALSE
INVARIANTS
  TypeOK
  DeliveredInOrder
  PublishedStays
  WriterAtTheEnd
  JoinSkipsOnlyOld
