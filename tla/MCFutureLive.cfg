CONSTANTS
  Clients = {a, b}
  Workers = {w}
  NoThread = none
  InlineKinds = {"plain"}
  QueuedKinds = {"get"}
  MaxStates = 2
  MaxCalls = 4
SPECIFICATION LiveSpec
PROPERTIES GetEnds ThenCompletes
CHECK_DEADLOCK FALSE
