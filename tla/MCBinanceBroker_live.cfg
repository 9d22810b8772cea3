CONSTANTS
  order = order
  cancel = cancel
  status = status
  positions = positions
  Requests = {order, cancel, status, positions}
  None = None
  Tries = 2
  MaxFaults = 3
  ReqType <- TypeOf
  Target <- TargetOf
SPECIFICATION FairSpec
CHECK_DEADLOCK FALSE
INVARIANTS
  TypeOK
  AnswersAsSent
PROPERTIES
  UnknownIsEarly
  RefusedWhileDown
  ImplementsDesk
  StartEnds
  ReadyAgain
