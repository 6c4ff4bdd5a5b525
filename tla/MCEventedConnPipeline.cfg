SPECIFICATION Spec
CONSTANTS
  Streams <- MCStreams
  Shapes <- MCKeepShapes
  MaxRequests = 3
  BUF_SIZE = 5
  MAX_PIPELINED_RESPONSES = 4
  ResponseLen = 2
  SendBuffer = 3
CHECK_DEADLOCK FALSE
INVARIANTS
  PipelinedRequestsServed
