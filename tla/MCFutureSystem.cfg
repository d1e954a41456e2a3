CONSTANTS
  Clients = {a, b}
  Workers = {w}
  NoThread = none
  InlineKinds = {"plain", "any"}
  QueuedKinds = {"get"}
  MaxStates = 3
  MaxCalls = 4
SPECIFICATION Spec
SYMMETRY Symmetry
INVARIANTS ContinuationNotLost LocksAreOrdered SleepersWillBeWoken RunsOnce
PROPERTIES SettledOnce
CHECK_DEADLOCK FALSE
