\* One worker, one reader; two buckets of one unit: the ring is gone round
\* twice, a bucket of two values overflows, a read spans the whole behaviour.
\* Updates, reads and the clock are bounded: in the end nothing is left to do
\* but to visit the percentile.
SPECIFICATION Spec
CONSTANTS
  WindowSize = 2
  NumBuckets = 2
  Millisecond = 1
  MaxItems = 2
  Workers = {w1}
  Readers = {r1}
  Executions <- MCExecutions
  Percentiles = {0, 250, 500, 750, 995, 1000}
  MaxTime = 3
  MaxUpdates = 3
  MaxReads = 1
INVARIANTS
  TypeOK
  TotalIsJustified
  ErrorsExceedOnlyByOverlap
  BucketsKeepLatest
  RecentUnlessIdled
  PercentilesCoverShare
PROPERTY KeepsRecentValues
