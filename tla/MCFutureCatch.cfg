CONSTANTS
  Clients = {a, b}
  Workers = {w}
  NoThread = none
  InlineKinds = {"get"}
  QueuedKinds = {}
  MaxStates = 3
  MaxCalls = 3
SPECIFICATION LiveSpec
CHECK_DEADLOCK FALSE
PROPERTIES CatchErrorCompletes
