CONSTANTS
  Writer = w
  Readers = {r1}
  Bodies = {a}
  NoBody = NoBody
  DataLens = {0, 1}
  HeaderLen = 2
  PageSize = 9
  MaxPages = 2
  MaxFrames = 3
  MaxClock = 3
  MaxCrashes = 1
  CrashPoints = {"ready", "making", "opened", "filled", "zeroed", "stamped"}
SPECIFICATION FairSpec
CHECK_DEADLOCK FALSE
INVARIANTS
  PagesAreClosed
PROPERTIES
  ImplementsLog
  SeekEnds
  SamePageDelivered
