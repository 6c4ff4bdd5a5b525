SPECIFICATION FrontSpec
CONSTANTS
  Requests <- MCRequests
  MAX_BODY_LEN = 66
  BUF_SIZE = 60
  AssumeKeepAlive = FALSE
  Scale = 10000
  MaxKnown = 2
  IntMax = 127
  NotADate = NotADate
INVARIANTS
  AcceptedMeansBody
  AcceptedIsComplete
  VectorInRange
  WellFormedIsAccepted
  FramedAsSent
  ChunksDoNotMatter
PROPERTIES
  EveryRequestSettles
CHECK_DEADLOCK FALSE
