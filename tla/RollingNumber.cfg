\* Three buckets, raised to the least size of two units: the ring spans 6 units
\* and what is counted is up to 9 old; MaxTime 12 lets it grow older.
SPECIFICATION Spec
CONSTANTS
  WindowSize = 5
  NumBuckets = 3
  Millisecond = 2
  MaxTime = 12
  MaxIncrements = 3
INVARIANTS
  TypeOK
  CountedIsRecent
  DroppedIsOld
  BucketsCountStamps
  AgeByDistance
PROPERTY ImplementsSlidingWindow
