CONSTANTS
  Consumers = {c1, c2}
  Capacity = 1
  MaxItems = 3
  MaxBatch = 2
  MaxFailed = 1
SPECIFICATION Spec
SYMMETRY Symmetry
INVARIANTS WritesReadySlot
