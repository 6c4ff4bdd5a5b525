SPECIFICATION Spec
CONSTANTS
  Inputs <- MCInputs
  Unit = 4
  WorkerScale = 10
  Dims = 14
  PACKED_DIMS = 16
  K = 5
  LANES = 8
  ByVariance = FALSE
  TreeDepth = 3
  LEARNED_TREE_MAX_DEPTH = 2
  KEY_LOOKUP_SIZE = 4
  SampleQueries = 16
  FewValues = 3
  Garbage = 999
CHECK_DEADLOCK FALSE
INVARIANTS
  OpenedIsWhole
  EveryReferenceServed
  MappedTreeIsSound
  TrainedOnItsQueries
  CandidatesSeparate
