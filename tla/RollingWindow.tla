--------------------------- MODULE RollingWindow ---------------------------
(***************************************************************************)
(* The data structure behind num/rollingnumber.go, as operators on a       *)
(* record: a ring of NumBuckets counters, the index of the current one and *)
(* the clock reading at which it became current.  Every operator takes the *)
(* record and a clock reading and returns the record the Go method leaves  *)
(* behind.  RollingNumber.tla runs one such record as a state machine;     *)
(* CircuitBreaker.tla keeps two of them.                                   *)
(*                                                                         *)
(* Time is a number of clock units; one model unit stands for any real     *)
(* duration, Millisecond is the least bucket size in that unit.            *)
(***************************************************************************)
EXTENDS Integers, Functions

CONSTANTS WindowSize,   \* requested statistical window
          NumBuckets,   \* windowBuckets
          Millisecond   \* time.Millisecond, the least bucket size

ASSUME WindowAssumption ==
  /\ WindowSize \in Nat
  /\ NumBuckets \in Nat \ {0}
  /\ Millisecond \in Nat \ {0}

Buckets == 0 .. NumBuckets - 1

\* calculateBucketSize: integer division, never below one millisecond.
BucketSize ==
  LET size == WindowSize \div NumBuckets
  IN  IF size < Millisecond THEN Millisecond ELSE size

RollingNumbers ==
  [currentBucket : Buckets, currentBucketTime : Nat, buckets : [Buckets -> Nat]]

NewRollingNumber(t) ==
  [currentBucket |-> 0, currentBucketTime |-> t, buckets |-> [b \in Buckets |-> 0]]

BucketsBehind(n, t) == (t - n.currentBucketTime) \div BucketSize

\* Mutants of Recycled: the ring is walked one bucket short, one too far.
RecycledShort(n, t) ==
  {(n.currentBucket + i) % NumBuckets : i \in 1 .. BucketsBehind(n, t) - 1}
RecycledLong(n, t) ==
  IF BucketsBehind(n, t) > 0
  THEN {(n.currentBucket + i) % NumBuckets : i \in 1 .. BucketsBehind(n, t) + 1}
  ELSE {}

\* The buckets findCurrentBucket zeroes for reuse at time t.  The range is
\* empty when the clock has not left the current bucket (or went back).
Recycled(n, t) ==
  {(n.currentBucket + i) % NumBuckets : i \in 1 .. BucketsBehind(n, t)}

\* Mutant of FindCurrentBucket: the clock reading is not stored.
FindCurrentBucketNoTime(n, t) ==
  IF BucketsBehind(n, t) > 0
  THEN [n EXCEPT !.currentBucket = (@ + BucketsBehind(n, t)) % NumBuckets,
                 !.buckets = [b \in Buckets |-> IF b \in Recycled(n, t) THEN 0 ELSE @[b]]]
  ELSE n

\* Mutant of FindCurrentBucket: the index runs off the end of the ring.
FindCurrentBucketUnwrapped(n, t) ==
  IF BucketsBehind(n, t) > 0
  THEN [currentBucket     |-> n.currentBucket + BucketsBehind(n, t),
        currentBucketTime |-> t,
        buckets |-> [b \in Buckets |-> IF b \in Recycled(n, t) THEN 0 ELSE n.buckets[b]]]
  ELSE n

FindCurrentBucket(n, t) ==
  IF BucketsBehind(n, t) > 0
  THEN [currentBucket     |-> (n.currentBucket + BucketsBehind(n, t)) % NumBuckets,
        currentBucketTime |-> t,
        buckets |-> [b \in Buckets |-> IF b \in Recycled(n, t) THEN 0 ELSE n.buckets[b]]]
  ELSE n

\* Mutant of Incremented: the bucket index is taken before the ring moves on.
IncrementedStale(n, t) ==
  [FindCurrentBucket(n, t) EXCEPT !.buckets[n.currentBucket] = @ + 1]

Incremented(n, t) ==
  LET m == FindCurrentBucket(n, t)
  IN  [m EXCEPT !.buckets[m.currentBucket] = @ + 1]

\* The value Sum returns for a record FindCurrentBucket has just visited.
SumOf(n) == FoldFunction(LAMBDA x, y : x + y, 0, n.buckets)

ResetNumber(n, t) == NewRollingNumber(t)

\* The oldest an increment can be and still be counted: the ring moves on
\* only when it is visited and restarts the bucket clock at the visit, so a
\* bucket lasts up to, not including, twice its size.
ForgetAge == (2 * NumBuckets - 1) * BucketSize

\* The age up to which an increment is certain to be counted.
KeepAge == (NumBuckets - 1) * BucketSize
=============================================================================
