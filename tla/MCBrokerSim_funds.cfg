CONSTANTS
  Orders = {1}
  Inputs <- PoorInputs
  Boards <- PoorBoards
  Modes = {"live"}
  None = None
  Cash = 2
  Scale = 1
  Slip = 0
  FeeRate = 0
  Lot = 1
  DefaultPrice = 2
  Noise = 1
  MaxCancels = 2
  MaxInbox = 2
  MaxResp = 2
SPECIFICATION Spec
CHECK_DEADLOCK FALSE
INVARIANTS
  SpendsWhatThereIs
