SPECIFICATION Spec
CONSTANTS
  Searches <- MCSearches
  K = 2
  Infinity = 1000
  NoIndex = 8
  NoNode = NoNode
  NoLabel = NoLabel
  LabelDefer = TRUE
  TreeStack = 2
  DeferStack = 1
  NoKey = 4
  Unrestricted = Unrestricted
  InsertionSortMax = 32
  Dims = 2
  ByVariance = FALSE
  TreeDepth = 2
  LEARNED_TREE_MAX_DEPTH = 10
INVARIANTS
  TypeOK
  NothingForgotten
  NoReferenceTwice
  DeferredHaveOneLabel
  CountIsExact
  RestrictedAgrees
PROPERTIES
  SearchEnds
CHECK_DEADLOCK FALSE
