CONSTANTS
  Consumers = {c1, c2}
  Capacity = 2
  MaxItems = 3
  MaxBatch = 2
  MaxFailed = 1
SPECIFICATION Spec
SYMMETRY Symmetry
INVARIANTS NoSlotRace ExactlyOnce SizeBounds StatisticsAgree
PROPERTIES EmptyIsEmpty FullIsFull ImplementsFifo
