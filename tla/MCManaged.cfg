CONSTANTS
  Consumers = {c1, c2}
  Capacity = 2
  MaxItems = 2
  MaxBatch = 2
  MaxFailed = 0
SPECIFICATION LiveMSpec
CHECK_DEADLOCK FALSE
INVARIANTS NothingLeftBehind ProcessedOnce
PROPERTIES StopReturns EveryItemProcessed
