\* One goroutine has summed the statistics when the other's trial resets them.
\* Calls are bounded: when they are used up, and the clock is at its bound,
\* nothing is left to do.
SPECIFICATION Spec
CONSTANTS
  WindowSize = 4
  NumBuckets = 1
  Millisecond = 1
  g1 = g1
  g2 = g2
  Goroutines = {g1, g2}
  RequestVolumeThreshold = 1
  ErrorThresholdPercentage = 30
  SleepWindow = 0
  HealthInterval = 0
  Dynamic = {}
  MaxTime = 3
  MaxCalls = 4
  MaxChanges = 0
PROPERTY OpensOnEvidence
CHECK_DEADLOCK FALSE
