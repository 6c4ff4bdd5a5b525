SPECIFICATION Spec
CONSTANTS
  Streams <- MCAllStreams
  Shapes <- MCShapes
  MaxRequests = 3
  BUF_SIZE = 5
  MAX_PIPELINED_RESPONSES = 2
  ResponseLen = 2
  SendBuffer = 3
CHECK_DEADLOCK FALSE
INVARIANTS
  TypeOK
  NoLostWakeup
  WireFollowsReplies
  ResponseMatchesRequest
  RejectIsFinal
  CloseAbandonsNothing
PROPERTIES
  EveryRequestAnswered
  HalfCloseNoticed
