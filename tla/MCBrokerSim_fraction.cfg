CONSTANTS
  Orders = {1}
  Inputs <- HalfInputs
  Boards <- HalfBoards
  Modes = {"live"}
  None = None
  Cash = 80
  Scale = 4
  Slip = 1
  FeeRate = 1
  Lot = 2
  DefaultPrice = 2
  Noise = 1
  MaxCancels = 2
  MaxInbox = 2
  MaxResp = 2
SPECIFICATION Spec
CHECK_DEADLOCK FALSE
INVARIANTS
  FillsAtMostVolume
