CONSTANTS
  Coroutines = {c1, c2}
  NumWorkers = 2
  Client = client
  Detached = {d1, d2}
  MaxAwaits = 2
SPECIFICATION LiveSpec
INVARIANTS InOnePlace ActiveCoversPending FramesOutliveUse
PROPERTIES ScheduledIsResumed WaitReturns DestructorReturns
CHECK_DEADLOCK FALSE
