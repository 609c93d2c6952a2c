\* Two goroutines, three calls: one opens the circuit, two race for the trial.
\* One bucket as wide as the behaviour is long; a single error opens the circuit.
\* Any switch changes between any two accesses, once in a behaviour.
\* Calls are bounded: when they are used up, and the clock is at its bound,
\* nothing is left to do.
SPECIFICATION Spec
CONSTANTS
  WindowSize = 4
  NumBuckets = 1
  Millisecond = 1
  g1 = g1
  g2 = g2
  Goroutines = {g1, g2}
  RequestVolumeThreshold = 1
  ErrorThresholdPercentage = 30
  SleepWindow = 1
  HealthInterval = 0
  Dynamic = {"Enabled", "ForceOpen", "ForceClosed"}
  MaxTime = 2
  MaxCalls = 3
  MaxChanges = 1
INVARIANT VerdictJustified
PROPERTIES
  ImplementsContract
  TrialSpacing
  ImplementsRecovery
SYMMETRY Symmetric
CHECK_DEADLOCK FALSE
