SPECIFICATION LiveSpec
CONSTANTS
  Threads = {t1, t2}
  SpinInit = 1
  SpinMin = 1
  SpinMax = 2
  SleepMax = 2
  AdaptEvery = 2
  MinSamples = 1
  MaxTotal = 2
  MaxResets = 1
INVARIANTS MutualExclusion WordMatchesOwner NeverSurprised WaitersAreReal StatisticsAddUp TunesOnWholePeriods
PROPERTIES NoLostWaiter
CHECK_DEADLOCK FALSE
