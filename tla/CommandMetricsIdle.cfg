\* A value is stored, then nothing is asked for longer than the ring spans.
SPECIFICATION Spec
CONSTANTS
  WindowSize = 2
  NumBuckets = 2
  Millisecond = 1
  MaxItems = 2
  Workers = {w1}
  Readers = {r1}
  Executions <- MCExecutions
  Percentiles = {500}
  MaxTime = 4
  MaxUpdates = 1
  MaxReads = 0
INVARIANT ValuesAreRecent
