SPECIFICATION Spec
CONSTANTS
  c1 = c1
  c2 = c2
  NoFile = NoFile
  Clients <- TwoClients
  Keep <- KeepAlive
  RequestLen <- Pieces
  Finishing <- Second
  Resetting <- First
  Slow <- Second
  Sizes <- ThreeSizes
  RecvFdBudget = 2
  BufPoolCap = 1
  SendBuffer = 1
  MaxLinks = 2
INVARIANTS
  EventIsForItsConnection
  InterestMatchesKernel
  NothingLeaks
PROPERTIES
  EveryRequestServed
CHECK_DEADLOCK FALSE
