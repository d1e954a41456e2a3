CONSTANTS
  Threads = {a, b, c}
  Nodes = {n1, n2, n3}
  Null = null
  MaxHazards = 2
  MaxPushes = 4
  BeyondStray = FALSE
SPECIFICATION Spec
SYMMETRY Symmetry
INVARIANTS ProtectedLives NodesAccounted
PROPERTIES ImplementsStack
CHECK_DEADLOCK FALSE
