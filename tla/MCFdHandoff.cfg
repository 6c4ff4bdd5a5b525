SPECIFICATION Spec
CONSTANTS
  c1 = c1
  c2 = c2
  c3 = c3
  k1 = k1
  k2 = k2
  k3 = k3
  NoClient = NoClient
  NoSlot = NoSlot
  Clients <- ThreeClients
  WorkerCount = 2
  Slots <- TwoSlots
  QueueDepth = 1
  Backlog = 1
  RecvFdBudget = 1
  AcceptBudget = 0
  MaxWorkerCrashes = 1
  MaxLbCrashes = 0
  MaxRecvErrors = 1
INVARIANTS
  OnlyFaultsLose
  GiveUpTakesTwoBreaks
PROPERTIES
  EveryClientSettles
CHECK_DEADLOCK FALSE
