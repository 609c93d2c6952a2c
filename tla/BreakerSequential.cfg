\* One goroutine, six calls, a ring of two buckets that is gone round once.
\* Calls are bounded: when they are used up, and the clock is at its bound,
\* nothing is left to do.
SPECIFICATION Spec
CONSTANTS
  WindowSize = 4
  NumBuckets = 2
  Millisecond = 1
  g1 = g1
  g2 = g2
  Goroutines = {g1}
  RequestVolumeThreshold = 2
  ErrorThresholdPercentage = 30
  SleepWindow = 2
  HealthInterval = 0
  Dynamic = {}
  MaxTime = 5
  MaxCalls = 6
  MaxChanges = 0
INVARIANT TypeOK
PROPERTIES
  OpensOnEvidence
  TrialAfterSleep
CHECK_DEADLOCK FALSE
