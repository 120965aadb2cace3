CONSTANTS
  Capacity = 5  BlockWords = 2  RetryLimit = 3
  AcqCounts <- SomeCounts
  Settings <- OneReordering
SPECIFICATION Spec
INVARIANTS EachBlockWhenRequested
CHECK_DEADLOCK FALSE
