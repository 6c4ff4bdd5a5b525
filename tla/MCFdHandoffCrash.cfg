SPECIFICATION Spec
CONSTANTS
  c1 = c1
  c2 = c2
  c3 = c3
  k1 = k1
  k2 = k2
  k3 = k3
  NoClient = NoClient
  NoSlot = NoSlot
  Clients <- ThreeClients
  WorkerCount = 1
  Slots <- ThreeSlots
  QueueDepth = 2
  Backlog = 2
  RecvFdBudget = 2
  AcceptBudget = 2
  MaxWorkerCrashes = 2
  MaxLbCrashes = 1
  MaxRecvErrors = 1
INVARIANTS
  DescriptorsAreCurrent
  NothingStranded
PROPERTIES
  HandoffIsAbstract
CHECK_DEADLOCK FALSE
