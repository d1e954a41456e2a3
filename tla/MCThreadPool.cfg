CONSTANTS
  Clients = {a, b}
  Workers = {w1, w2, w3}
  NoThread = none
  MaxTasks = 4
SPECIFICATION LiveSpec
INVARIANTS WorkIsNoticed DestroyedQuietly
PROPERTIES ImplementsPool TaskIsRun DestructorReturns
CHECK_DEADLOCK FALSE
