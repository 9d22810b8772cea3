CONSTANTS
  Orders = {1, 2}
  Inputs <- SomeInputs
  Boards <- SomeBoards
  Modes = {"live", "backtest"}
  None = None
  Cash = 80
  Scale = 4
  Slip = 1
  FeeRate = 1
  Lot = 1
  DefaultPrice = 2
  Noise = 1
  MaxCancels = 2
  MaxInbox = 2
  MaxResp = 2
SPECIFICATION FairSpec
CHECK_DEADLOCK FALSE
INVARIANTS
  TypeOK
  Conserved
  LimitRespected
  BooksAgree
PROPERTIES
  CancelIsFinal
  ImplementsExchange
  CancelAnswered
