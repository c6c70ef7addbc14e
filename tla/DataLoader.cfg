SPECIFICATION FairSpec
CONSTANTS
  Examples = 9
  MicroBatchSize = 2
  Capacity = 2
  Puzzle <- MCPuzzle
  Orders <- MCOrders
  MaxCalls = 2
INVARIANTS
  TypeOK
  InOrder
  DrainedEpochIsComplete
  BoundedPrefetch
PROPERTIES
  LoaderEnds
  StreamFairSpec
CHECK_DEADLOCK FALSE
