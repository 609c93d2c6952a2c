\* Two workers under one cache key, one slot each command, three calls with
\* every outcome: a worker looks up again after its answer was cached.  The
\* second command's fallback is disabled, so commands are not symmetric.
\* Calls of Exec are bounded: when they are used up nothing is left to do.
SPECIFICATION Spec
CONSTANTS
  Workers = {w1, w2}
  Commands = {c1, c2}
  Keys = {k1}
  NoKey = none
  FallbackEnabled = {c1}
  MaxConcurrent = 1
  RunErrors = {"timeout", "rejected"}
  Panics = {"other"}
  Durations <- Took
  Millisecond = 2
  MaxExecs = 3
INVARIANTS
  TypeOK
  NoErrorMeansAnswer
  EventsTellOutcome
  ExecutionsCountOnce
  ServedWasReturned
  StampedeIsBounded
  LogIsSummarised
SYMMETRY Symmetric
CHECK_DEADLOCK FALSE
