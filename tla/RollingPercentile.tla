------------------------- MODULE RollingPercentile -------------------------
(***************************************************************************)
(* num/rollingpercentile.go as operators on a record: the ring of a        *)
(* rolling number, with buckets that hold the latest MaxItems values in    *)
(* place of a count.  CommandMetrics.tla runs one such record.             *)
(*                                                                         *)
(* A value is a record: its value field is what the code stores, the other *)
(* two are history, when its bucket was looked up and when it was stored.  *)
(***************************************************************************)
EXTENDS RollingWindow, FiniteSets, SequencesExt

CONSTANT MaxItems   \* maxBucketItems

\* A bucket of no places makes add panic: see README, section 5.
ASSUME PercentileAssumption == MaxItems \in Nat \ {0}

Items == [value : Nat, found : Nat, stored : Nat]

EmptyBucket == [vals |-> << >>, currentPosition |-> 0]

PercentileBuckets == [vals : Seq(Items), currentPosition : 0 .. MaxItems - 1]

RollingPercentiles ==
  [currentBucket : Buckets, currentBucketTime : Nat, buckets : [Buckets -> PercentileBuckets]]

NewRollingPercentile(t) ==
  [currentBucket |-> 0, currentBucketTime |-> t, buckets |-> [b \in Buckets |-> EmptyBucket]]

\* Mutant of ResetBuckets: one bucket too many is reset.
ResetBucketsLong(p, t) ==
  {(p.currentBucket + i) % NumBuckets : i \in 1 .. (BucketsBehind(p, t) % NumBuckets) + 1}
\* Mutant of ResetBuckets: one bucket too few.
ResetBucketsShort(p, t) ==
  {(p.currentBucket + i) % NumBuckets : i \in 1 .. (BucketsBehind(p, t) % NumBuckets) - 1}

\* The buckets findCurrentBucket resets at time t.  Unlike the rolling
\* number's, the loop's bound is taken modulo the length of the ring.
ResetBuckets(p, t) ==
  {(p.currentBucket + i) % NumBuckets : i \in 1 .. (BucketsBehind(p, t) % NumBuckets)}

\* findCurrentBucket; the bucket it returns is the current one.
Visited(p, t) ==
  IF BucketsBehind(p, t) > 0
  THEN [currentBucket     |-> (p.currentBucket + BucketsBehind(p, t)) % NumBuckets,
        currentBucketTime |-> t,
        buckets |-> [b \in Buckets |->
                       IF b \in ResetBuckets(p, t) THEN EmptyBucket ELSE p.buckets[b]]]
  ELSE p

\* Mutant of BucketAdd: a full bucket overwrites its last place.
BucketAddLast(bucket, item) ==
  [vals |-> IF Len(bucket.vals) < MaxItems THEN Append(bucket.vals, item)
            ELSE [bucket.vals EXCEPT ![MaxItems] = item],
   currentPosition |-> (bucket.currentPosition + 1) % MaxItems]

\* percentileBucket.add; positions count from 0.
BucketAdd(bucket, item) ==
  [vals |-> IF Len(bucket.vals) < MaxItems THEN Append(bucket.vals, item)
            ELSE [bucket.vals EXCEPT ![bucket.currentPosition + 1] = item],
   currentPosition |-> (bucket.currentPosition + 1) % MaxItems]

\* What Get and Mean collect: the values of all buckets.
Collected(p) ==
  LET items == FlattenSeq([i \in 1 .. NumBuckets |-> p.buckets[i - 1].vals])
  IN  [i \in DOMAIN items |-> items[i].value]

AtMost(values, v) == {i \in DOMAIN values : values[i] <= v}
Below(values, v) == {i \in DOMAIN values : values[i] < v}

\* sort.Sort: the k-th place has the value that fewer than k values are below,
\* and that k values at least are at most.
Sorted(values) ==
  [k \in DOMAIN values |->
     CHOOSE v \in ToSet(values) :
       Cardinality(Below(values, v)) < k /\ k <= Cardinality(AtMost(values, v))]

\* math.Floor and math.Ceil of a rank in thousandths.
Low(rank) == rank \div 1000
High(rank) == (rank + 999) \div 1000

\* Mutant of Interpolated: interpolation starts at the upper of two neighbours.
InterpolatedHigh(rank, v, w) == w + ((rank % 1000) * (w - v)) \div 1000
\* What is between two neighbours, in exact arithmetic; the conversion to int
\* truncates.
Interpolated(rank, v, w) == v + ((rank % 1000) * (w - v)) \div 1000

\* calculatePercentile, for p in tenths of a percent and sorted values; places
\* count from 1 here.
Percentile(p, values) ==
  LET count == Len(values)
      rank  == p * count
      low   == Low(rank)
      high  == High(rank)
  IN  CASE count = 0 -> 0
        [] count # 0 /\ p <= 0 -> values[1]
        [] count # 0 /\ p > 0 /\ high >= count -> values[count]
        [] OTHER -> Interpolated(rank, values[low + 1], values[high + 1])
=============================================================================
