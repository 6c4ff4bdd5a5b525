SPECIFICATION Spec
CONSTANTS
  Streams <- MCStreams
  Shapes <- MCKeepShapes
  MaxRequests = 4
  BUF_SIZE = 8
  MAX_PIPELINED_RESPONSES = 2
  ResponseLen = 2
  SendBuffer = 3
CHECK_DEADLOCK FALSE
INVARIANTS
  ResponseMatchesRequest
