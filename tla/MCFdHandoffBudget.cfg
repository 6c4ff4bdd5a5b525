SPECIFICATION Spec
CONSTANTS
  c1 = c1
  c2 = c2
  c3 = c3
  k1 = k1
  k2 = k2
  k3 = k3
  NoClient = NoClient
  NoSlot = NoSlot
  Clients <- ThreeClients
  WorkerCount = 1
  Slots <- TwoSlots
  QueueDepth = 2
  Backlog = 1
  RecvFdBudget = 1
  AcceptBudget = 0
  MaxWorkerCrashes = 0
  MaxLbCrashes = 0
  MaxRecvErrors = 0
PROPERTIES
  EveryClientSettles
CHECK_DEADLOCK FALSE
