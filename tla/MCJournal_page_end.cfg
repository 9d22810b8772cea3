CONSTANTS
  Writer = w
  Readers = {r1}
  Bodies = {a}
  NoBody = NoBody
  DataLens = {0}
  HeaderLen = 2
  PageSize = 9
  MaxPages = 2
  MaxFrames = 3
  MaxClock = 1
  MaxCrashes = 0
  CrashPoints = {}
SPECIFICATION FairSpec
CHECK_DEADLOCK FALSE
PROPERTIES
  EveryFrameDelivered
