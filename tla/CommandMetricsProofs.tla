------------------------ MODULE CommandMetricsProofs ------------------------
(***************************************************************************)
(* For every window, number of buckets and places of a bucket, for any     *)
(* number of executors and readers, and any executions: what the           *)
(* percentile of CommandMetrics.tla keeps and what it drops, what a read   *)
(* of the counters has counted, and what Get makes of the values.  The     *)
(* first is the argument of RollingNumberProofs.tla, with a store that may *)
(* come late and a loop whose bound is taken modulo the ring.  The second  *)
(* is about sets of occurrences that no variable holds: the invariant says *)
(* there are some.  The third holds of any values: it is about places in a *)
(* sorted sequence.                                                        *)
(***************************************************************************)
EXTENDS CommandMetrics, RollingWindowProofs

-----------------------------------------------------------------------------
(* Remainders.                                                             *)

\* A quotient and a remainder determine each other.
LEMMA ModUnique ==
  ASSUME NEW m \in Nat \ {0}, NEW q \in Int, NEW r \in 0 .. m - 1
  PROVE  (q * m + r) % m = r
  OBVIOUS

\* Numbers less than m apart have different remainders.
LEMMA ModDistinct ==
  ASSUME NEW m \in Nat \ {0}, NEW a \in Nat, NEW b \in Nat, a < b, b - a < m
  PROVE  a % m # b % m
  <1>1. /\ a = (a \div m) * m + (a % m) /\ a \div m \in Int
        /\ b = (b \div m) * m + (b % m) /\ b \div m \in Int
    OBVIOUS
  <1> DEFINE x == a \div m
             y == b \div m
  <1> SUFFICES ASSUME a % m = b % m PROVE FALSE
    OBVIOUS
  <1> HIDE DEF x, y
  <1>2. y * m - x * m = b - a
    BY <1>1 DEF x, y
  <1>3. CASE y <= x
    <2>1. y * m <= x * m
      BY <1>1, <1>3, ProductOrder DEF x, y
    <2> QED BY <1>1, <1>2, <2>1 DEF x, y
  <1>4. CASE x + 1 <= y
    <2>1. (x + 1) * m <= y * m
      BY <1>1, <1>4, ProductOrder DEF x, y
    <2> QED BY <1>1, <1>2, <2>1 DEF x, y
  <1> QED BY <1>1, <1>3, <1>4 DEF x, y

\* The place of a bucket after the next one, whichever way it is counted.
LEMMA ModNext ==
  ASSUME NEW m \in Nat \ {0}, NEW a \in Nat
  PROVE  ((a % m) + 1) % m = (a + 1) % m
  <1> DEFINE q == a \div m
             r == a % m
  <1>1. q \in Int /\ r \in 0 .. m - 1 /\ a = q * m + r
    OBVIOUS
  <1> HIDE DEF q, r
  <1>2. CASE r + 1 < m
    <2>1. (r + 1) % m = r + 1
      BY <1>1, <1>2
    <2>2. r + 1 \in 0 .. m - 1 /\ a + 1 = q * m + (r + 1)
      BY <1>1, <1>2
    <2>3. (q * m + (r + 1)) % m = r + 1
      BY <1>1, <2>2, ModUnique
    <2> QED BY <2>1, <2>2, <2>3 DEF r
  <1>3. CASE r + 1 = m
    <2>1. (r + 1) % m = 0
      BY <1>3
    <2>2. 0 \in 0 .. m - 1 /\ a + 1 = (q + 1) * m + 0
      BY <1>1, <1>3
    <2>3. ((q + 1) * m + 0) % m = 0
      BY <1>1, <2>2, ModUnique
    <2> QED BY <2>1, <2>2, <2>3 DEF r
  <1> QED BY <1>1, <1>2, <1>3

\* A remainder is no greater than the number.
LEMMA ModSmaller ==
  ASSUME NEW m \in Nat \ {0}, NEW k \in Nat
  PROVE  k % m \in 0 .. m - 1 /\ k % m <= k /\ (k < m => k % m = k)
  <1>1. k % m \in 0 .. m - 1
    OBVIOUS
  <1>2. k < m => k % m = k
    OBVIOUS
  <1> QED BY <1>1, <1>2
-----------------------------------------------------------------------------
(* The ring of the percentile.                                             *)

\* k moves of the ring bring no bucket more than k moves further away.
LEMMA RingMoves ==
  ASSUME NEW c \in Buckets, NEW b \in Buckets, NEW k \in Nat
  PROVE  (((c + k) % NumBuckets) - b) % NumBuckets <= ((c - b) % NumBuckets) + k
  <1> USE WindowAssumption
  <1> DEFINE c2 == (c + k) % NumBuckets
             d == (c - b) % NumBuckets
             d2 == (c2 - b) % NumBuckets
  <1>1. /\ d \in 0 .. NumBuckets - 1
        /\ d = IF b <= c THEN c - b ELSE c - b + NumBuckets
    BY RingDistance DEF Buckets
  <1>2. c2 \in Buckets
    BY RingRange DEF Buckets
  <1>3. /\ d2 \in 0 .. NumBuckets - 1
        /\ d2 = IF b <= c2 THEN c2 - b ELSE c2 - b + NumBuckets
    BY <1>2, RingDistance DEF Buckets
  <1>4. k <= NumBuckets => c2 = IF c + k < NumBuckets THEN c + k ELSE c + k - NumBuckets
    BY RingStep
  <1> HIDE DEF c2, d, d2
  <1>5. d2 <= d + k
    BY <1>1, <1>2, <1>3, <1>4 DEF Buckets
  <1> QED BY <1>5 DEF c2, d, d2

\* How far behind the ring is, and how much time that accounts for.
LEMMA BehindBounds ==
  ASSUME NEW p \in RollingPercentiles, NEW t \in Nat, p.currentBucketTime <= t
  PROVE  LET k == BucketsBehind(p, t)
             elapsed == t - p.currentBucketTime
         IN  k \in Nat /\ k * BucketSize <= elapsed /\ elapsed < (k + 1) * BucketSize
  <1>1. t - p.currentBucketTime \in Nat
    BY DEF RollingPercentiles
  <1> QED
    BY <1>1, BucketSizePositive, DivBounds DEF BucketsBehind

\* findCurrentBucket stays inside the ring.
LEMMA VisitedTyped ==
  ASSUME NEW p \in RollingPercentiles, NEW t \in Nat, p.currentBucketTime <= t
  PROVE  /\ Visited(p, t) \in RollingPercentiles
         /\ Visited(p, t).currentBucketTime <= t
         /\ t - Visited(p, t).currentBucketTime < BucketSize
  <1> DEFINE k == BucketsBehind(p, t)
  <1>1. /\ k \in Nat /\ t - p.currentBucketTime < (k + 1) * BucketSize
        /\ BucketSize \in Nat \ {0}
    BY BehindBounds, BucketSizePositive
  <1>2. CASE k = 0
    BY <1>1, <1>2 DEF Visited
  <1>3. CASE k > 0
    <2>1. (p.currentBucket + k) % NumBuckets \in Buckets
      <3>1. p.currentBucket + k \in Int
        BY <1>1 DEF RollingPercentiles, Buckets
      <3> QED BY <3>1, RingRange
    <2>2. EmptyBucket \in PercentileBuckets
      BY PercentileAssumption DEF EmptyBucket, PercentileBuckets
    <2>3. [b \in Buckets |-> IF b \in ResetBuckets(p, t) THEN EmptyBucket ELSE p.buckets[b]]
            \in [Buckets -> PercentileBuckets]
      BY <2>2 DEF RollingPercentiles
    <2> QED BY <1>1, <1>3, <2>1, <2>3 DEF Visited, RollingPercentiles
  <1> QED BY <1>1, <1>2, <1>3

\* What is left of a bucket is k moves further away, unless the ring has
\* turned past it without resetting it; what was reset had completed its turn.
LEMMA VisitedDistance ==
  ASSUME NEW p \in RollingPercentiles, NEW t \in Nat, p.currentBucketTime <= t,
         NEW b \in Buckets
  PROVE  LET k == BucketsBehind(p, t)
             d == (p.currentBucket - b) % NumBuckets
             d2 == (Visited(p, t).currentBucket - b) % NumBuckets
         IN  /\ d \in 0 .. NumBuckets - 1 /\ d2 \in 0 .. NumBuckets - 1
             /\ d2 <= d + k
             /\ b \notin ResetBuckets(p, t) /\ k < NumBuckets => d2 = d + k
             /\ b \in ResetBuckets(p, t) => d + k >= NumBuckets
  <1> DEFINE k == BucketsBehind(p, t)
             c == p.currentBucket
             d == (c - b) % NumBuckets
             c2 == Visited(p, t).currentBucket
             d2 == (c2 - b) % NumBuckets
  <1> USE WindowAssumption
  <1>1. k \in Nat /\ c \in Buckets
    BY BehindBounds DEF RollingPercentiles
  <1>2. d \in 0 .. NumBuckets - 1
    BY <1>1, RingDistance DEF Buckets
  <1>3. c2 = (c + k) % NumBuckets
    <2>1. CASE k > 0
      BY <2>1 DEF Visited
    <2>2. CASE k = 0
      BY <1>1, <2>2 DEF Visited, Buckets
    <2> QED BY <1>1, <2>1, <2>2
  <1>4. c2 \in Buckets
    BY <1>1, <1>3, RingRange DEF Buckets
  <1>5. d2 \in 0 .. NumBuckets - 1
    BY <1>4, RingDistance DEF Buckets
  <1>6. d2 <= d + k
    BY <1>1, <1>3, RingMoves
  <1>7. k % NumBuckets \in 0 .. NumBuckets - 1 /\ k % NumBuckets <= k
          /\ (k < NumBuckets => k % NumBuckets = k)
    BY <1>1, ModSmaller
  <1>8. ASSUME b \notin ResetBuckets(p, t), k < NumBuckets
        PROVE  d2 = d + k
    <2>1. CASE k = 0
      BY <1>1, <1>2, <2>1 DEF Visited
    <2>2. CASE k > 0
      <3>1. b \notin {(c + i) % NumBuckets : i \in 1 .. k}
        BY <1>7, <1>8 DEF ResetBuckets
      <3> QED BY <1>1, <1>3, <2>2, <3>1, RingKeeps
    <2> QED BY <1>1, <2>1, <2>2
  <1>9. ASSUME b \in ResetBuckets(p, t)
        PROVE  d + k >= NumBuckets
    <2> DEFINE j == k % NumBuckets
    <2>1. b \in {(c + i) % NumBuckets : i \in 1 .. j}
      BY <1>9 DEF ResetBuckets
    <2> HIDE DEF j
    <2>2. j \in Nat \ {0} /\ j <= k
      BY <1>7, <2>1 DEF j
    <2>3. d + j >= NumBuckets
      BY <1>1, <2>1, <2>2, RingRecycles
    <2> QED BY <1>1, <1>2, <2>2, <2>3
  <1> QED BY <1>2, <1>5, <1>6, <1>8, <1>9
-----------------------------------------------------------------------------
(* One visit of the percentile, by Add, Get or Mean.                       *)

\* A visit leaves the percentile and its history well typed.
LEMMA VisitTyped2 ==
  ASSUME TypeOK, executionTime.currentBucketTime <= now, VisitPercentile
  PROVE  /\ executionTime' \in RollingPercentiles
         /\ executionTime'.currentBucketTime <= now
         /\ now - executionTime'.currentBucketTime < BucketSize
         /\ added' \in [Buckets -> Seq(Items)] /\ idled' \in BOOLEAN
  <1>1. executionTime \in RollingPercentiles /\ now \in Nat
    BY DEF TypeOK
  <1>2. executionTime' = Visited(executionTime, now)
    BY DEF VisitPercentile
  <1>3. added' \in [Buckets -> Seq(Items)] /\ idled' \in BOOLEAN
    BY DEF VisitPercentile, TypeOK
  <1> QED BY <1>1, <1>2, <1>3, VisitedTyped

\* A visit empties a bucket together with its history, or leaves both.
LEMMA VisitEmptiesOrKeeps ==
  ASSUME TypeOK, executionTime.currentBucketTime <= now, VisitPercentile,
         NEW b \in Buckets
  PROVE  \/ /\ BucketsBehind(executionTime, now) > 0
            /\ b \in ResetBuckets(executionTime, now)
            /\ executionTime'.buckets[b] = EmptyBucket /\ added'[b] = << >>
         \/ /\ b \notin ResetBuckets(executionTime, now)
            /\ executionTime'.buckets[b] = executionTime.buckets[b]
            /\ added'[b] = added[b]
  <1> DEFINE k == BucketsBehind(executionTime, now)
  <1>1. k \in Nat
    BY BehindBounds DEF TypeOK
  <1>2. CASE k = 0
    <2>1. b \notin ResetBuckets(executionTime, now)
      <3>1. k % NumBuckets = 0
        BY <1>2, WindowAssumption, ModSmaller
      <3> QED BY <3>1 DEF ResetBuckets
    <2> QED BY <1>2, <2>1 DEF VisitPercentile, Visited
  <1>3. CASE k > 0
    BY <1>3 DEF VisitPercentile, Visited
  <1> QED BY <1>1, <1>2, <1>3

\* An empty bucket holds the latest of nothing.
LEMMA NothingHeld == HoldsLatest(<< >>, << >>)
  BY PercentileAssumption DEF HoldsLatest

\* What a bucket holds is what its history says, before a visit and after.
LEMMA VisitKeepsLatest ==
  ASSUME TypeOK, executionTime.currentBucketTime <= now, VisitPercentile,
         Aligned, BucketsKeepLatest
  PROVE  Aligned' /\ BucketsKeepLatest'
  <1>1. Aligned'
    <2> SUFFICES ASSUME NEW b \in Buckets
                 PROVE  executionTime'.buckets[b].currentPosition = Len(added'[b]) % MaxItems
      BY DEF Aligned
    <2>1. CASE executionTime'.buckets[b] = EmptyBucket /\ added'[b] = << >>
      BY <2>1, PercentileAssumption, ModSmaller DEF EmptyBucket
    <2>2. CASE executionTime'.buckets[b] = executionTime.buckets[b] /\ added'[b] = added[b]
      BY <2>2 DEF Aligned
    <2> QED BY <2>1, <2>2, VisitEmptiesOrKeeps
  <1>2. BucketsKeepLatest'
    <2> SUFFICES ASSUME NEW b \in Buckets
                 PROVE  HoldsLatest(executionTime'.buckets[b].vals, added'[b])
      BY DEF BucketsKeepLatest, Held
    <2>1. CASE executionTime'.buckets[b] = EmptyBucket /\ added'[b] = << >>
      BY <2>1, NothingHeld DEF EmptyBucket
    <2>2. CASE executionTime'.buckets[b] = executionTime.buckets[b] /\ added'[b] = added[b]
      BY <2>2 DEF BucketsKeepLatest, Held
    <2> QED BY <2>1, <2>2, VisitEmptiesOrKeeps
  <1> QED BY <1>1, <1>2

\* What was looked up long ago, at the ring's clock, is so after a visit.
LEMMA VisitKeepsFound ==
  ASSUME TypeOK, executionTime.currentBucketTime <= now, VisitPercentile,
         NEW b \in Buckets, NEW t \in Nat,
         Elapsed(t) > (Distance(b) - 1) * BucketSize
  PROVE  (executionTime'.currentBucketTime - t)
           > (((executionTime'.currentBucket - b) % NumBuckets) - 1) * BucketSize
  <1> DEFINE p == executionTime
             k == BucketsBehind(p, now)
             d == (p.currentBucket - b) % NumBuckets
             d2 == (Visited(p, now).currentBucket - b) % NumBuckets
             S == BucketSize
  <1>1. /\ p \in RollingPercentiles /\ now \in Nat /\ p.currentBucketTime <= now
        /\ p.currentBucketTime \in Nat
        /\ p' = Visited(p, now)
    BY DEF TypeOK, VisitPercentile, RollingPercentiles
  <1>2. k \in Nat /\ k * S <= now - p.currentBucketTime /\ S \in Nat \ {0}
    BY <1>1, BehindBounds, BucketSizePositive
  <1>3. d \in 0 .. NumBuckets - 1 /\ d2 \in 0 .. NumBuckets - 1 /\ d2 <= d + k
    BY <1>1, VisitedDistance
  <1>4. p.currentBucketTime - t > (d - 1) * S
    BY DEF Elapsed, Distance
  <1>5. CASE k = 0
    BY <1>1, <1>4, <1>5 DEF Visited
  <1>6. CASE k > 0
    <2>1. p'.currentBucketTime = now
      BY <1>1, <1>6 DEF Visited
    <2> HIDE DEF k, d, d2, S
    <2>2. now - t > (d - 1) * S + k * S
      BY <1>1, <1>2, <1>3, <1>4, WindowAssumption
    <2>3. (d - 1) * S + k * S = (d - 1 + k) * S
      BY <1>2, <1>3, WindowAssumption, ProductSum
    <2>4. (d2 - 1) * S <= (d - 1 + k) * S
      BY <1>2, <1>3, WindowAssumption, ProductOrder
    <2>5. (d2 - 1) * S \in Int /\ (d - 1 + k) * S \in Int
      BY <1>2, <1>3, WindowAssumption
    <2>6. now - t > (d2 - 1) * S
      BY <1>1, <2>2, <2>3, <2>4, <2>5
    <2> QED BY <1>1, <2>1, <2>6 DEF d2, S
  <1> QED BY <1>2, <1>5, <1>6

\* What a visit drops was looked up longer ago than KeepAge.
LEMMA VisitDropsOld ==
  ASSUME TypeOK, executionTime.currentBucketTime <= now, VisitPercentile,
         NEW b \in Buckets, NEW t \in Nat,
         Elapsed(t) > (Distance(b) - 1) * BucketSize,
         b \in ResetBuckets(executionTime, now)
  PROVE  now - t > KeepAge
  <1> DEFINE p == executionTime
             k == BucketsBehind(p, now)
             d == (p.currentBucket - b) % NumBuckets
             S == BucketSize
  <1>1. /\ p \in RollingPercentiles /\ now \in Nat /\ p.currentBucketTime <= now
        /\ p.currentBucketTime \in Nat
    BY DEF TypeOK, VisitPercentile, RollingPercentiles
  <1>2. k \in Nat /\ k * S <= now - p.currentBucketTime /\ S \in Nat \ {0}
    BY <1>1, BehindBounds, BucketSizePositive
  <1>3. d \in 0 .. NumBuckets - 1 /\ d + k >= NumBuckets
    BY <1>1, VisitedDistance
  <1>4. p.currentBucketTime - t > (d - 1) * S
    BY DEF Elapsed, Distance
  <1>5. KeepAge = (NumBuckets - 1) * S
    BY DEF KeepAge
  <1> HIDE DEF k, d, S
  <1>6. now - t > (d - 1) * S + k * S
    BY <1>1, <1>2, <1>3, <1>4, WindowAssumption
  <1>7. (d - 1) * S + k * S = (d - 1 + k) * S
    BY <1>2, <1>3, WindowAssumption, ProductSum
  <1>8. (NumBuckets - 1) * S <= (d - 1 + k) * S
    BY <1>2, <1>3, WindowAssumption, ProductOrder
  <1>9. (NumBuckets - 1) * S \in Int /\ (d - 1 + k) * S \in Int
    BY <1>2, <1>3, WindowAssumption
  <1> QED BY <1>1, <1>5, <1>6, <1>7, <1>8, <1>9

\* What a bucket still holds after a visit that came in time was stored
\* within twice as many bucket sizes as the ring is past the bucket.
LEMMA VisitKeepsStored ==
  ASSUME TypeOK, executionTime.currentBucketTime <= now,
         BucketsBehind(executionTime, now) < NumBuckets,
         NEW b \in Buckets, b \notin ResetBuckets(executionTime, now), NEW t \in Nat,
         Elapsed(t) <= 2 * Distance(b) * BucketSize
  PROVE  LET q == Visited(executionTime, now)
         IN  q.currentBucketTime - t
               <= 2 * ((q.currentBucket - b) % NumBuckets) * BucketSize
  <1> DEFINE p == executionTime
             q == Visited(p, now)
             k == BucketsBehind(p, now)
             d == (p.currentBucket - b) % NumBuckets
             d2 == (q.currentBucket - b) % NumBuckets
             S == BucketSize
  <1>1. /\ p \in RollingPercentiles /\ now \in Nat /\ p.currentBucketTime <= now
        /\ p.currentBucketTime \in Nat
    BY DEF TypeOK, RollingPercentiles
  <1>2. k \in Nat /\ now - p.currentBucketTime < (k + 1) * S /\ S \in Nat \ {0}
    BY <1>1, BehindBounds, BucketSizePositive
  <1>3. d \in 0 .. NumBuckets - 1 /\ d2 = d + k
    BY <1>1, VisitedDistance
  <1>4. p.currentBucketTime - t <= 2 * d * S
    BY DEF Elapsed, Distance
  <1>5. CASE k = 0
    BY <1>1, <1>4, <1>5 DEF Visited
  <1>6. CASE k > 0
    <2>1. q.currentBucketTime = now
      BY <1>1, <1>6 DEF Visited
    <2> HIDE DEF k, d, d2, S, q
    <2>2. now - t <= (2 * d) * S + (k + 1) * S
      BY <1>1, <1>2, <1>3, <1>4, WindowAssumption
    <2>3. (2 * d) * S + (k + 1) * S = (2 * d + (k + 1)) * S
      BY <1>2, <1>3, WindowAssumption, ProductSum
    <2>4. (2 * d + (k + 1)) * S <= (2 * d2) * S
      BY <1>2, <1>3, <1>6, WindowAssumption, ProductOrder
    <2>5. (2 * d2) * S \in Int /\ (2 * d + (k + 1)) * S \in Int
      BY <1>2, <1>3, WindowAssumption
    <2>6. now - t <= 2 * d2 * S
      BY <1>1, <2>2, <2>3, <2>4, <2>5
    <2> QED BY <2>1, <2>6 DEF d2, S, q
  <1> QED BY <1>2, <1>5, <1>6
\* Values have the times they were looked up and stored at.
LEMMA ItemsTyped ==
  ASSUME NEW log \in Seq(Items), NEW item \in ToSet(log)
  PROVE  item \in Items /\ item.found \in Nat /\ item.stored \in Nat
  <1>1. PICK i \in DOMAIN log : item = log[i]
    BY DEF ToSet
  <1>2. item \in Items
    BY <1>1
  <1> QED BY <1>2 DEF Items

\* A visit keeps what is known of the age of the values, at their look-up ...
LEMMA VisitFound ==
  ASSUME TypeOK, executionTime.currentBucketTime <= now, VisitPercentile,
         FoundByDistance
  PROVE  /\ \A b \in Buckets : \A item \in ToSet(added'[b]) :
              executionTime'.currentBucketTime - item.found
                > (((executionTime'.currentBucket - b) % NumBuckets) - 1) * BucketSize
         /\ \A w \in Workers : At(w, "store") =>
              executionTime'.currentBucketTime - update[w].found
                > (((executionTime'.currentBucket - update[w].bucket) % NumBuckets) - 1)
                    * BucketSize
  <1>1. ASSUME NEW b \in Buckets, NEW item \in ToSet(added'[b])
        PROVE  executionTime'.currentBucketTime - item.found
                 > (((executionTime'.currentBucket - b) % NumBuckets) - 1) * BucketSize
    <2>1. added'[b] # << >>
      BY <1>1 DEF ToSet
    <2>2. item \in ToSet(added[b])
      BY <1>1, <2>1, VisitEmptiesOrKeeps
    <2>3. item.found \in Nat
      <3>1. added[b] \in Seq(Items)
        BY <1>1 DEF TypeOK
      <3> QED BY <2>2, <3>1, ItemsTyped
    <2>4. Elapsed(item.found) > (Distance(b) - 1) * BucketSize
      BY <2>2 DEF FoundByDistance
    <2> DEFINE t == item.found
    <2> HIDE DEF t
    <2>5. t \in Nat /\ Elapsed(t) > (Distance(b) - 1) * BucketSize
      BY <2>3, <2>4 DEF t
    <2>6. executionTime'.currentBucketTime - t
            > (((executionTime'.currentBucket - b) % NumBuckets) - 1) * BucketSize
      BY <2>5, VisitKeepsFound
    <2> QED BY <2>6 DEF t
  <1>2. ASSUME NEW w \in Workers, At(w, "store")
        PROVE  executionTime'.currentBucketTime - update[w].found
                 > (((executionTime'.currentBucket - update[w].bucket) % NumBuckets) - 1)
                     * BucketSize
    <2> DEFINE t == update[w].found
               b == update[w].bucket
    <2>1. t \in Nat /\ b \in Buckets
      BY DEF TypeOK, Updates
    <2>2. Elapsed(t) > (Distance(b) - 1) * BucketSize
      BY <1>2 DEF FoundByDistance
    <2> HIDE DEF t, b
    <2>3. executionTime'.currentBucketTime - t
            > (((executionTime'.currentBucket - b) % NumBuckets) - 1) * BucketSize
      BY <2>1, <2>2, VisitKeepsFound
    <2> QED BY <2>3 DEF t, b
  <1> QED BY <1>1, <1>2

\* ... and at their store.
LEMMA VisitStored ==
  ASSUME TypeOK, executionTime.currentBucketTime <= now, VisitPercentile,
         StoredByDistance
  PROVE  ~ idled' => \A b \in Buckets : \A item \in ToSet(executionTime'.buckets[b].vals) :
           executionTime'.currentBucketTime - item.stored
             <= 2 * ((executionTime'.currentBucket - b) % NumBuckets) * BucketSize
  <1> SUFFICES ASSUME ~ idled', NEW b \in Buckets,
                      NEW item \in ToSet(executionTime'.buckets[b].vals)
               PROVE  executionTime'.currentBucketTime - item.stored
                        <= 2 * ((executionTime'.currentBucket - b) % NumBuckets) * BucketSize
    OBVIOUS
  <1>1. /\ ~ idled /\ ~ (BucketsBehind(executionTime, now) >= NumBuckets)
        /\ executionTime' = Visited(executionTime, now)
    BY DEF VisitPercentile
  <1>2. BucketsBehind(executionTime, now) \in Nat
    BY BehindBounds DEF TypeOK
  <1>3. BucketsBehind(executionTime, now) < NumBuckets
    BY <1>1, <1>2, WindowAssumption
  <1>4. executionTime'.buckets[b] # EmptyBucket
    BY DEF ToSet, EmptyBucket
  <1>5. /\ b \notin ResetBuckets(executionTime, now)
        /\ executionTime'.buckets[b] = executionTime.buckets[b]
    BY <1>4, VisitEmptiesOrKeeps
  <1>6. item \in ToSet(executionTime.buckets[b].vals)
    BY <1>5
  <1>7. item.stored \in Nat
    <2>1. executionTime.buckets[b].vals \in Seq(Items)
      BY DEF TypeOK, RollingPercentiles, PercentileBuckets
    <2> QED BY <1>6, <2>1, ItemsTyped
  <1>8. Elapsed(item.stored) <= 2 * Distance(b) * BucketSize
    BY <1>1, <1>6 DEF StoredByDistance, Held
  <1> DEFINE t == item.stored
  <1> HIDE DEF t
  <1>9. t \in Nat /\ Elapsed(t) <= 2 * Distance(b) * BucketSize
    BY <1>7, <1>8 DEF t
  <1>10. LET q == Visited(executionTime, now)
         IN  q.currentBucketTime - t
               <= 2 * ((q.currentBucket - b) % NumBuckets) * BucketSize
    BY <1>3, <1>5, <1>9, VisitKeepsStored
  <1> QED BY <1>1, <1>10 DEF t

-----------------------------------------------------------------------------
(* percentileBucket.add.                                                   *)

\* A bucket stays a bucket: no value is stored past its places.
LEMMA AddTyped ==
  ASSUME NEW bucket \in PercentileBuckets, NEW item \in Items
  PROVE  BucketAdd(bucket, item) \in PercentileBuckets
  <1>1. bucket.vals \in Seq(Items) /\ bucket.currentPosition \in 0 .. MaxItems - 1
    BY DEF PercentileBuckets
  <1>2. (bucket.currentPosition + 1) % MaxItems \in 0 .. MaxItems - 1
    BY <1>1, PercentileAssumption
  <1>3. Append(bucket.vals, item) \in Seq(Items)
    BY <1>1
  <1>4. CASE ~ (Len(bucket.vals) < MaxItems)
    <2>1. bucket.currentPosition + 1 \in 1 .. Len(bucket.vals)
      BY <1>1, <1>4, PercentileAssumption
    <2>2. [bucket.vals EXCEPT ![bucket.currentPosition + 1] = item] \in Seq(Items)
      BY <1>1, <2>1
    <2> QED BY <1>2, <1>4, <2>2 DEF BucketAdd, PercentileBuckets
  <1>5. CASE Len(bucket.vals) < MaxItems
    BY <1>2, <1>3, <1>5 DEF BucketAdd, PercentileBuckets
  <1> QED BY <1>4, <1>5

\* What add leaves in the bucket was there before or is the new value.
LEMMA AddHolds ==
  ASSUME NEW bucket \in PercentileBuckets, NEW item \in Items,
         NEW x \in ToSet(BucketAdd(bucket, item).vals)
  PROVE  x \in ToSet(bucket.vals) \/ x = item
  <1>1. bucket.vals \in Seq(Items) /\ bucket.currentPosition \in 0 .. MaxItems - 1
    BY DEF PercentileBuckets
  <1>2. CASE Len(bucket.vals) < MaxItems
    <2>1. BucketAdd(bucket, item).vals = Append(bucket.vals, item)
      BY <1>2 DEF BucketAdd
    <2> QED BY <1>1, <2>1 DEF ToSet
  <1>3. CASE ~ (Len(bucket.vals) < MaxItems)
    <2>1. BucketAdd(bucket, item).vals
            = [bucket.vals EXCEPT ![bucket.currentPosition + 1] = item]
      BY <1>3 DEF BucketAdd
    <2> QED BY <1>1, <2>1 DEF ToSet
  <1> QED BY <1>2, <1>3

\* A bucket that holds the latest values of a history and knows its place
\* does so after add.
LEMMA AddKeepsLatest ==
  ASSUME NEW bucket \in PercentileBuckets, NEW item \in Items, NEW log \in Seq(Items),
         bucket.currentPosition = Len(log) % MaxItems, HoldsLatest(bucket.vals, log)
  PROVE  /\ BucketAdd(bucket, item).currentPosition = Len(Append(log, item)) % MaxItems
         /\ HoldsLatest(BucketAdd(bucket, item).vals, Append(log, item))
  <1> DEFINE new  == BucketAdd(bucket, item)
             held == bucket.vals
             log2 == Append(log, item)
             n    == Len(log)
  <1>1. /\ held \in Seq(Items) /\ MaxItems \in Nat \ {0} /\ n \in Nat
        /\ Len(log2) = n + 1 /\ log2[n + 1] = item
        /\ \A i \in 1 .. n : log2[i] = log[i]
        /\ Len(held) = IF n < MaxItems THEN n ELSE MaxItems
        /\ \A i \in 1 .. n : i > n - MaxItems => held[Place(i)] = log[i]
    BY PercentileAssumption DEF PercentileBuckets, HoldsLatest
  <1>2. new.currentPosition = (n + 1) % MaxItems
    BY <1>1, ModNext DEF BucketAdd
  <1>3. /\ n % MaxItems \in 0 .. MaxItems - 1
        /\ new.vals = IF n < MaxItems THEN Append(held, item)
                      ELSE [held EXCEPT ![(n % MaxItems) + 1] = item]
    <2>1. n < MaxItems => Len(held) < MaxItems
      BY <1>1
    <2>2. ~ (n < MaxItems) => ~ (Len(held) < MaxItems)
      BY <1>1
    <2> QED BY <1>1, <2>1, <2>2, ModSmaller DEF BucketAdd
  <1>4. ASSUME NEW i \in 1 .. n + 1
        PROVE  Place(i) \in 1 .. MaxItems /\ (i <= MaxItems => Place(i) = i)
    <2>1. i - 1 \in Nat /\ (i <= MaxItems => i - 1 < MaxItems)
      BY <1>1, <1>4
    <2>2. (i - 1) % MaxItems \in 0 .. MaxItems - 1 /\ (i - 1 < MaxItems => (i - 1) % MaxItems = i - 1)
      BY <1>1, <2>1, ModSmaller
    <2> QED BY <1>1, <1>4, <2>1, <2>2 DEF Place
  <1> HIDE DEF new, held, log2, n
  <1> SUFFICES /\ Len(new.vals) = IF n + 1 < MaxItems THEN n + 1 ELSE MaxItems
               /\ \A i \in 1 .. n + 1 : i > n + 1 - MaxItems =>
                    new.vals[Place(i)] = log2[i]
    <2>1. Len(new.vals) = IF Len(log2) < MaxItems THEN Len(log2) ELSE MaxItems
      BY <1>1
    <2>2. ASSUME NEW i \in 1 .. Len(log2), i > Len(log2) - MaxItems
          PROVE  new.vals[Place(i)] = log2[i]
      BY <1>1, <2>2
    <2>3. HoldsLatest(new.vals, log2) /\ new.currentPosition = Len(log2) % MaxItems
      BY <1>1, <1>2, <2>1, <2>2 DEF HoldsLatest
    <2> QED BY <2>3 DEF new, log2
  <1>5. CASE n < MaxItems
    <2>1. Len(new.vals) = n + 1 /\ new.vals[n + 1] = item
            /\ \A i \in 1 .. n : new.vals[i] = held[i]
      BY <1>1, <1>3, <1>5
    <2>2. ASSUME NEW i \in 1 .. n + 1
          PROVE  new.vals[Place(i)] = log2[i]
      <3>1. Place(i) = i
        BY <1>1, <1>4, <1>5, <2>2
      <3>2. i \in 1 .. n => held[i] = log[i]
        BY <1>1, <1>5, <3>1
      <3> QED BY <1>1, <2>1, <2>2, <3>1, <3>2
    <2>3. Len(new.vals) = IF n + 1 < MaxItems THEN n + 1 ELSE MaxItems
      BY <1>1, <1>5, <2>1
    <2> QED BY <2>2, <2>3
  <1>6. CASE n >= MaxItems
    <2>1. /\ Len(new.vals) = MaxItems /\ new.vals[(n % MaxItems) + 1] = item
          /\ \A j \in 1 .. MaxItems : j # (n % MaxItems) + 1 => new.vals[j] = held[j]
      BY <1>1, <1>3, <1>6
    <2>2. ASSUME NEW i \in 1 .. n + 1, i > n + 1 - MaxItems
          PROVE  new.vals[Place(i)] = log2[i]
      <3>1. Place(i) \in 1 .. MaxItems
        BY <1>4, <2>2
      <3>2. CASE i = n + 1
        BY <1>1, <2>1, <3>2 DEF Place
      <3>3. CASE i \in 1 .. n
        <4>1. held[Place(i)] = log[i]
          BY <1>1, <2>2, <3>3
        <4>2. Place(i) # (n % MaxItems) + 1
          <5>1. i - 1 \in Nat /\ i - 1 < n /\ n - (i - 1) < MaxItems
            BY <1>1, <2>2, <3>3
          <5>2. (i - 1) % MaxItems # n % MaxItems
            BY <1>1, <5>1, ModDistinct
          <5>3. (i - 1) % MaxItems \in Int /\ n % MaxItems \in Int
            BY <1>1, <5>1
          <5> QED BY <5>2, <5>3 DEF Place
        <4> QED BY <1>1, <2>1, <3>1, <3>3, <4>1, <4>2
      <3> QED BY <1>1, <2>2, <3>2, <3>3
    <2>3. Len(new.vals) = IF n + 1 < MaxItems THEN n + 1 ELSE MaxItems
      BY <1>1, <1>6, <2>1
    <2> QED BY <2>2, <2>3
  <1> QED BY <1>1, <1>5, <1>6
-----------------------------------------------------------------------------
(* The counters a reader sums.                                             *)

\* A sequence that names no event twice.
Distinct(s) == \A i, j \in DOMAIN s : s[i] = s[j] => i = j

\* Two such sequences with nothing in common make one.
LEMMA DistinctConcat ==
  ASSUME NEW s \in Seq(Events), NEW t \in Seq(Events), Distinct(s), Distinct(t),
         ToSet(s) \cap ToSet(t) = {}
  PROVE  /\ s \o t \in Seq(Events) /\ Distinct(s \o t)
         /\ ToSet(s \o t) = ToSet(s) \cup ToSet(t)
  <1>1. /\ s \o t \in Seq(Events) /\ Len(s \o t) = Len(s) + Len(t)
        /\ \A i \in 1 .. Len(s) : (s \o t)[i] = s[i]
        /\ \A i \in 1 .. Len(t) : (s \o t)[Len(s) + i] = t[i]
    OBVIOUS
  <1>2. \A i \in DOMAIN (s \o t) :
          \/ i \in DOMAIN s /\ (s \o t)[i] = s[i]
          \/ i - Len(s) \in DOMAIN t /\ (s \o t)[i] = t[i - Len(s)]
    BY <1>1
  <1>3. ASSUME NEW i \in DOMAIN (s \o t), NEW j \in DOMAIN (s \o t), (s \o t)[i] = (s \o t)[j]
        PROVE  i = j
    <2>1. i \in Int /\ j \in Int /\ Len(s) \in Int
      BY <1>1
    <2>2. CASE i \in DOMAIN s /\ (s \o t)[i] = s[i] /\ j \in DOMAIN s /\ (s \o t)[j] = s[j]
      BY <1>3, <2>2 DEF Distinct
    <2>3. CASE /\ i - Len(s) \in DOMAIN t /\ (s \o t)[i] = t[i - Len(s)]
               /\ j - Len(s) \in DOMAIN t /\ (s \o t)[j] = t[j - Len(s)]
      <3>1. i - Len(s) = j - Len(s)
        BY <1>3, <2>3 DEF Distinct
      <3> QED BY <2>1, <3>1
    <2>4. ASSUME NEW k \in DOMAIN s, NEW l \in DOMAIN t, s[k] = t[l] PROVE FALSE
      BY <2>4 DEF ToSet
    <2> QED BY <1>2, <1>3, <2>2, <2>3, <2>4
  <1>4. ToSet(s \o t) = ToSet(s) \cup ToSet(t)
    <2>1. ASSUME NEW e \in ToSet(s \o t) PROVE e \in ToSet(s) \cup ToSet(t)
      <3>1. PICK i \in DOMAIN (s \o t) : e = (s \o t)[i]
        BY DEF ToSet
      <3> QED BY <1>2, <3>1 DEF ToSet
    <2>2. ASSUME NEW e \in ToSet(s) PROVE e \in ToSet(s \o t)
      <3>1. PICK i \in DOMAIN s : e = s[i]
        BY DEF ToSet
      <3>2. i \in DOMAIN (s \o t) /\ (s \o t)[i] = e
        BY <1>1, <3>1
      <3> HIDE <1>1
      <3> QED BY <3>2 DEF ToSet
    <2>3. ASSUME NEW e \in ToSet(t) PROVE e \in ToSet(s \o t)
      <3>1. PICK i \in DOMAIN t : e = t[i]
        BY DEF ToSet
      <3>2. Len(s) + i \in DOMAIN (s \o t) /\ (s \o t)[Len(s) + i] = e
        BY <1>1, <3>1
      <3> HIDE <1>1
      <3> QED BY <3>2 DEF ToSet
    <2> QED BY <2>1, <2>2, <2>3
  <1> QED BY <1>1, <1>3, <1>4 DEF Distinct

\* One event, if executions have it.
LEMMA IfKnownIs ==
  ASSUME NEW e
  PROVE  /\ IfKnown(e) \in Seq(Events) /\ Distinct(IfKnown(e))
         /\ ToSet(IfKnown(e)) \subseteq {e}
  BY DEF IfKnown, Distinct, ToSet

\* Both sums read each counter once; what the errors read, the total reads.
LEMMA EventsOnce ==
  /\ TotalEvents \in Seq(Events) /\ ErrorEvents \in Seq(Events)
  /\ Distinct(TotalEvents) /\ Distinct(ErrorEvents)
  /\ ToSet(ErrorEvents) \subseteq ToSet(TotalEvents)
  <1> DEFINE s0 == IfKnown("Success")
             s1 == IfKnown("Failure")
             s2 == IfKnown("Timeout")
             s3 == IfKnown("ShortCircuited")
             s4 == IfKnown("SemaphoreRejected")
  <1>0. /\ s0 \in Seq(Events) /\ Distinct(s0) /\ ToSet(s0) \subseteq {"Success"}
        /\ s1 \in Seq(Events) /\ Distinct(s1) /\ ToSet(s1) \subseteq {"Failure"}
        /\ s2 \in Seq(Events) /\ Distinct(s2) /\ ToSet(s2) \subseteq {"Timeout"}
        /\ s3 \in Seq(Events) /\ Distinct(s3) /\ ToSet(s3) \subseteq {"ShortCircuited"}
        /\ s4 \in Seq(Events) /\ Distinct(s4) /\ ToSet(s4) \subseteq {"SemaphoreRejected"}
    BY IfKnownIs
  <1>5. ErrorEvents = ((s1 \o s2) \o s3) \o s4 /\ TotalEvents = s0 \o ErrorEvents
    BY DEF ErrorEvents, TotalEvents
  <1> HIDE DEF s0, s1, s2, s3, s4
  <1>1. /\ s1 \o s2 \in Seq(Events) /\ Distinct(s1 \o s2)
        /\ ToSet(s1 \o s2) \subseteq {"Failure", "Timeout"}
    <2>1. ToSet(s1) \cap ToSet(s2) = {}
      BY <1>0
    <2>2. ToSet(s1 \o s2) = ToSet(s1) \cup ToSet(s2)
      BY <1>0, <2>1, DistinctConcat
    <2> QED BY <1>0, <2>1, <2>2, DistinctConcat
  <1> DEFINE t == s1 \o s2
             u == t \o s3
             v == u \o s4
  <1>6. TotalEvents = s0 \o v /\ ErrorEvents = v
    BY <1>5
  <1> HIDE DEF t
  <1>2. /\ u \in Seq(Events) /\ Distinct(u)
        /\ ToSet(u) \subseteq {"Failure", "Timeout", "ShortCircuited"}
    <2>1. ToSet(t) \cap ToSet(s3) = {}
      BY <1>0, <1>1 DEF t
    <2>2. ToSet(u) = ToSet(t) \cup ToSet(s3)
      BY <1>0, <1>1, <2>1, DistinctConcat DEF t
    <2> QED BY <1>0, <1>1, <2>1, <2>2, DistinctConcat DEF t
  <1> HIDE DEF u
  <1>3. /\ v \in Seq(Events) /\ Distinct(v)
        /\ ToSet(v) \subseteq {"Failure", "Timeout", "ShortCircuited", "SemaphoreRejected"}
    <2>1. ToSet(u) \cap ToSet(s4) = {}
      BY <1>0, <1>2
    <2>2. ToSet(v) = ToSet(u) \cup ToSet(s4)
      BY <1>0, <1>2, <2>1, DistinctConcat
    <2> QED BY <1>0, <1>2, <2>1, <2>2, DistinctConcat
  <1> HIDE DEF v
  <1>4. /\ s0 \o v \in Seq(Events) /\ Distinct(s0 \o v) /\ ToSet(v) \subseteq ToSet(s0 \o v)
    <2>1. ToSet(s0) \cap ToSet(v) = {}
      BY <1>0, <1>3
    <2>2. ToSet(s0 \o v) = ToSet(s0) \cup ToSet(v)
      BY <1>0, <1>3, <2>1, DistinctConcat
    <2> QED BY <1>0, <1>3, <2>1, <2>2, DistinctConcat
  <1> QED BY <1>3, <1>4, <1>6

\* The total's counters are read first, then those of the errors.
LEMMA ReadOrder ==
  /\ ReadEvents \in Seq(Events) /\ Len(ReadEvents) = Len(TotalEvents) + Len(ErrorEvents)
  /\ Len(TotalEvents) \in Nat /\ Len(ErrorEvents) \in Nat
  /\ \A i \in 1 .. Len(TotalEvents) : ReadEvents[i] = TotalEvents[i]
  /\ \A i \in 1 .. Len(ErrorEvents) : ReadEvents[Len(TotalEvents) + i] = ErrorEvents[i]
  BY EventsOnce DEF ReadEvents

\* An idle reader has read nothing.
LEMMA NoReadTyped == NoRead \in Reads
  BY ReadOrder DEF NoRead, Reads

\* A reader that begins notes what it will be judged by.
LEMMA BegunTyped ==
  ASSUME NEW t \in Nat, NEW before \in [Events -> Nat]
  PROVE  LET new == [NoRead EXCEPT !.started = t, !.before = before]
         IN  /\ new \in Reads /\ new.next = 1 /\ new.total = 0 /\ new.errors = 0
             /\ new.started = t /\ new.before = before
  <1> DEFINE new1 == [NoRead EXCEPT !.started = t]
             new == [new1 EXCEPT !.before = before]
  <1>1. /\ NoRead \in Reads /\ NoRead.next = 1 /\ NoRead.total = 0 /\ NoRead.errors = 0
    BY NoReadTyped DEF NoRead
  <1>2. /\ new1 \in Reads /\ new1.next = 1 /\ new1.total = 0 /\ new1.errors = 0
        /\ new1.started = t
    BY <1>1 DEF Reads
  <1> HIDE DEF new1
  <1>3. /\ new \in Reads /\ new.next = 1 /\ new.total = 0 /\ new.errors = 0
        /\ new.started = t /\ new.before = before
    BY <1>2 DEF Reads
  <1> QED BY <1>3 DEF new1

\* A sum moves a reader on to the next counter, or to its end.
LEMMA SumReadType ==
  ASSUME TypeOK, Reading, NEW r \in Readers, At(r, "lookup") \/ At(r, "sum"),
         NEW value \in Nat, SumRead(r, value)
  PROVE  /\ read' \in [Readers -> Reads]
         /\ \E label \in {"done", "lookup"} : pc' = [pc EXCEPT ![r] = label]
         /\ read'[r].next = read[r].next + 1
         /\ \A g \in Readers : g # r => read'[g] = read[g]
         /\ pc'[r] = "lookup" => read'[r].next <= Len(ReadEvents)
         /\ pc'[r] = "done" => read'[r].next > Len(TotalEvents)
  <1> DEFINE ofTotal == read[r].next <= Len(TotalEvents)
             total   == IF ofTotal THEN read[r].total + value ELSE read[r].total
             errors  == IF ofTotal THEN read[r].errors ELSE read[r].errors + value
             last    == \/ read[r].next = Len(ReadEvents)
                        \/ read[r].next = Len(TotalEvents) /\ total = 0
             next    == read[r].next + 1
  <1>1. /\ read \in [Readers -> Reads] /\ read[r] \in Reads
        /\ pc \in [Workers \cup Readers ->
                     {"idle", "count", "find", "store", "lookup", "sum", "done"}]
    BY DEF TypeOK
  <1>2. read[r].next \in Nat /\ read[r].next <= Len(ReadEvents)
    BY <1>1 DEF Reading, Reads
  <1>0. Len(ReadEvents) \in Nat /\ Len(TotalEvents) \in Nat
          /\ Len(TotalEvents) <= Len(ReadEvents)
    BY ReadOrder
  <1>3. next \in 1 .. Len(ReadEvents) + 1 /\ total \in Nat /\ errors \in Nat
    <2>1. read[r].total \in Nat /\ read[r].errors \in Nat
      BY <1>1 DEF Reads
    <2>2. next \in 1 .. Len(ReadEvents) + 1
      BY <1>0, <1>2
    <2> QED BY <2>1, <2>2
  <1>4. /\ read' = [read EXCEPT ![r].next = next, ![r].total = total, ![r].errors = errors]
        /\ pc' = [pc EXCEPT ![r] = IF last THEN "done" ELSE "lookup"]
    BY DEF SumRead, Goto
  <1>5. ~ last => next <= Len(ReadEvents)
    <2>1. ~ last => read[r].next # Len(ReadEvents)
      OBVIOUS
    <2> HIDE DEF last
    <2> QED BY <1>0, <1>2, <2>1
  <1>6. last => next > Len(TotalEvents)
    <2>1. last => read[r].next = Len(ReadEvents) \/ read[r].next = Len(TotalEvents)
      OBVIOUS
    <2> HIDE DEF last
    <2> QED BY <1>0, <1>2, <2>1
  <1> HIDE DEF total, errors, last, next
  <1> DEFINE new == [read[r] EXCEPT !.next = next, !.total = total, !.errors = errors]
  <1>7. new \in Reads /\ new.next = next
    BY <1>1, <1>3 DEF Reads
  <1>8. read' = [read EXCEPT ![r] = new]
    BY <1>4
  <1> HIDE DEF new
  <1>9. /\ read' \in [Readers -> Reads] /\ read'[r].next = next
        /\ \A g \in Readers : g # r => read'[g] = read[g]
    BY <1>1, <1>7, <1>8
  <1>10. /\ \E label \in {"done", "lookup"} : pc' = [pc EXCEPT ![r] = label]
         /\ pc'[r] = "lookup" => ~ last
         /\ pc'[r] = "done" => last
    BY <1>1, <1>4
  <1> QED BY <1>5, <1>6, <1>9, <1>10 DEF next
-----------------------------------------------------------------------------
(* Types.                                                                  *)

\* fetchMetrics makes an empty percentile.
LEMMA NewPercentileTyped ==
  ASSUME NEW t \in Nat
  PROVE  NewRollingPercentile(t) \in RollingPercentiles
  <1>1. 0 \in Buckets
    BY WindowAssumption DEF Buckets
  <1>2. EmptyBucket \in PercentileBuckets
    BY PercentileAssumption DEF EmptyBucket, PercentileBuckets
  <1> QED BY <1>1, <1>2 DEF NewRollingPercentile, RollingPercentiles

\* A worker that makes no call has nothing left to count.
LEMMA NoUpdateTyped == NoUpdate \in Updates
  <1>1. 0 \in Buckets
    BY WindowAssumption DEF Buckets
  <1> QED BY <1>1 DEF NoUpdate, Updates

\* The counters stay rolling numbers, also one made for a new event.
LEMMA CountersTyped ==
  ASSUME TypeOK, NEW e \in Events
  PROVE  LET counters == [x \in DOMAIN eventCounters \cup {e} |->
                           IF x = e THEN Incremented(Counter(e), now) ELSE eventCounters[x]]
         IN  /\ DOMAIN counters \subseteq Events
             /\ \A x \in DOMAIN counters : counters[x] \in RollingNumbers
  <1> DEFINE new == Incremented(Counter(e), now)
  <1>1. now \in Nat
    BY DEF TypeOK
  <1>2. Counter(e) \in RollingNumbers
    BY <1>1, NewTyped DEF Counter, TypeOK
  <1>3. new \in RollingNumbers
    BY <1>1, <1>2, IncrementTyped
  <1> HIDE DEF new
  <1> QED BY <1>3 DEF TypeOK, new

\* update takes a call with an event at least, and the lock.
LEMMA BeginUpdateType ==
  ASSUME TypeOK, NEW w \in Workers, BeginUpdate(w)
  PROVE  TypeOK' /\ update'[w].todo # << >>
  <1>1. PICK x \in Executions :
          LET cached == "ResponseFromCache" \in ToSet(x.events)
          IN  update' = [update EXCEPT
                ![w].todo  = IF cached THEN <<"ResponseFromCache">> ELSE x.events,
                ![w].timed = ~ cached /\ ToSet(x.events) \cap Untimed = {},
                ![w].time  = x.time]
    BY DEF BeginUpdate
  <1> DEFINE cached == "ResponseFromCache" \in ToSet(x.events)
             todo == IF cached THEN <<"ResponseFromCache">> ELSE x.events
             timed == ~ cached /\ ToSet(x.events) \cap Untimed = {}
  <1>2. x.time \in Nat /\ x.events \in Seq(Events) /\ x.events # << >>
    BY MetricsAssumption
  <1>3. todo \in Seq(Events) /\ todo # << >>
    <2>1. CASE cached
      <3>1. "ResponseFromCache" \in Events
        BY <2>1 DEF Events
      <3> QED BY <2>1, <3>1
    <2>2. CASE ~ cached
      BY <1>2, <2>2
    <2> QED BY <2>1, <2>2
  <1>4. timed \in BOOLEAN
    OBVIOUS
  <1> HIDE DEF cached, todo, timed
  <1>5. update' = [update EXCEPT ![w].todo = todo, ![w].timed = timed, ![w].time = x.time]
    BY <1>1 DEF cached, todo, timed
  <1>6. update[w] \in Updates /\ update \in [Workers -> Updates]
    BY DEF TypeOK
  <1> DEFINE u == update
             u1 == [u EXCEPT ![w].todo = todo]
             u2 == [u1 EXCEPT ![w].timed = timed]
             u3 == [u2 EXCEPT ![w].time = x.time]
  <1>7. u1 \in [Workers -> Updates] /\ u1[w].todo = todo
    BY <1>3, <1>6 DEF Updates
  <1> HIDE DEF u1
  <1>8. u2 \in [Workers -> Updates] /\ u2[w].todo = todo
    BY <1>4, <1>7 DEF Updates
  <1> HIDE DEF u2
  <1>9. u3 \in [Workers -> Updates] /\ u3[w].todo = todo
    BY <1>2, <1>8 DEF Updates
  <1>10. update' = u3
    BY <1>5 DEF u1, u2
  <1>11. updates' \in 0 .. MaxUpdates
    <2>1. MaxUpdates \in Nat
      BY MetricsAssumption
    <2>2. updates' = updates + 1 /\ updates < MaxUpdates
      BY DEF BeginUpdate
    <2>3. updates \in 0 .. MaxUpdates
      BY DEF TypeOK
    <2> QED BY <2>1, <2>2, <2>3
  <1> QED BY <1>3, <1>9, <1>10, <1>11 DEF BeginUpdate, TypeOK, metrics, history, Goto, At

\* An event is counted, and the next one is left to count or none.
LEMMA CountEventType ==
  ASSUME TypeOK, Pending, NEW w \in Workers, CountEvent(w)
  PROVE  TypeOK' /\ (pc'[w] = "count" => update'[w].todo # << >>)
  <1> DEFINE e    == Head(update[w].todo)
             rest == Tail(update[w].todo)
             last == rest = << >> /\ ~ update[w].timed
  <1>1. update[w].todo \in Seq(Events) /\ update[w].todo # << >>
    BY DEF CountEvent, Pending, TypeOK, Updates
  <1>2. e \in Events /\ rest \in Seq(Events)
    BY <1>1
  <1> HIDE DEF e, rest
  <1>3. /\ eventCounters' = [x \in DOMAIN eventCounters \cup {e} |->
                                IF x = e THEN Incremented(Counter(e), now) ELSE eventCounters[x]]
        /\ occurred' = [occurred EXCEPT ![e] = Append(@, now)]
        /\ pc' = [pc EXCEPT ![w] = IF rest # << >> THEN "count" ELSE IF last THEN "idle" ELSE "find"]
        /\ update' = [update EXCEPT ![w] = IF last THEN NoUpdate
                                           ELSE [update[w] EXCEPT !.todo = rest]]
        /\ lock' = IF last THEN "free" ELSE lock
        /\ UNCHANGED <<executionTime, now, read, updates, reads, added, idled>>
    BY DEF CountEvent, Goto, e, rest
  <1>4. /\ DOMAIN eventCounters' \subseteq Events
        /\ \A x \in DOMAIN eventCounters' : eventCounters'[x] \in RollingNumbers
    BY <1>2, <1>3, CountersTyped
  <1>5. update' \in [Workers -> Updates]
    <2>1. [update[w] EXCEPT !.todo = rest] \in Updates
      BY <1>2 DEF TypeOK, Updates
    <2> QED BY <1>3, <2>1, NoUpdateTyped DEF TypeOK
  <1>6. occurred' \in [Events -> Seq(Nat)]
    <2>1. Append(occurred[e], now) \in Seq(Nat)
      BY <1>2 DEF TypeOK
    <2> QED BY <1>3, <2>1 DEF TypeOK
  <1>7. pc' \in [Workers \cup Readers ->
                   {"idle", "count", "find", "store", "lookup", "sum", "done"}]
    BY <1>3 DEF TypeOK
  <1>8. TypeOK'
    BY <1>3, <1>4, <1>5, <1>6, <1>7 DEF TypeOK
  <1>9. pc'[w] = "count" => update'[w].todo # << >>
    <2>1. pc'[w] = "count" => rest # << >>
      BY <1>3 DEF TypeOK
    <2>2. rest # << >> => update'[w] = [update[w] EXCEPT !.todo = rest]
      BY <1>3 DEF TypeOK
    <2> QED BY <2>1, <2>2 DEF TypeOK, Updates
  <1> QED BY <1>8, <1>9

\* Where a worker goes next is of no concern to the readers.
LEMMA ReadingKept ==
  ASSUME Reading, NEW w \in Workers, NEW label, UNCHANGED read,
         pc \in [Workers \cup Readers ->
                  {"idle", "count", "find", "store", "lookup", "sum", "done"}],
         pc[w] \notin {"lookup", "sum", "done"}, label \notin {"lookup", "sum", "done"},
         pc' = [pc EXCEPT ![w] = label], DOMAIN eventCounters \subseteq DOMAIN eventCounters'
  PROVE  Reading'
  <1> SUFFICES ASSUME NEW r \in Readers
               PROVE  /\ pc'[r] = "sum" => ReadEvents[read[r].next] \in DOMAIN eventCounters'
                      /\ pc'[r] \in {"lookup", "sum"} => read[r].next <= Len(ReadEvents)
                      /\ pc'[r] = "done" => read[r].next > Len(TotalEvents)
                      /\ pc'[r] \notin {"lookup", "sum", "done"} => read[r] = NoRead
    BY DEF Reading, At
  <1>1. CASE r = w
    BY <1>1 DEF Reading
  <1>2. CASE r # w
    BY <1>2 DEF Reading, At
  <1> QED BY <1>1, <1>2

\* Readers change counters and what they have read themselves.
LEMMA ReadType ==
  ASSUME TypeOK, Reading, NEW r \in Readers,
         BeginRead(r) \/ Lookup(r) \/ SumCounter(r) \/ EndRead(r)
  PROVE  /\ TypeOK' /\ Reading'
         /\ pc'[r] \in {"idle", "lookup", "sum", "done"}
         /\ \A g \in Workers \cup Readers : g # r => pc'[g] = pc[g]
  <1> DEFINE Steps == {"idle", "lookup", "sum", "done"}
             Here ==
               /\ pc'[r] = "sum" => ReadEvents[read'[r].next] \in DOMAIN eventCounters'
               /\ pc'[r] \in {"lookup", "sum"} => read'[r].next <= Len(ReadEvents)
               /\ pc'[r] = "done" => read'[r].next > Len(TotalEvents)
               /\ pc'[r] = "idle" => read'[r] = NoRead
  <1> SUFFICES /\ TypeOK' /\ Here
               /\ \E label \in Steps : pc' = [pc EXCEPT ![r] = label]
               /\ \A g \in Readers : g # r => read'[g] = read[g]
               /\ DOMAIN eventCounters' = DOMAIN eventCounters
    BY DEF TypeOK, Reading, At
  <1> USE DEF metrics, history
  <1>0. /\ read \in [Readers -> Reads] /\ read[r] \in Reads
        /\ pc \in [Workers \cup Readers ->
                     {"idle", "count", "find", "store", "lookup", "sum", "done"}]
    BY DEF TypeOK
  <1>1. CASE BeginRead(r)
    <2> DEFINE before == [e \in Events |-> Len(occurred[e])]
               new == [NoRead EXCEPT !.started = now, !.before = before]
               label == IF TotalEvents = << >> THEN "done" ELSE "lookup"
    <2>1. before \in [Events -> Nat] /\ now \in Nat
      BY DEF TypeOK
    <2>2. read[r] = NoRead
      BY <1>1 DEF BeginRead, Reading, At
    <2> HIDE DEF before
    <2>3. new \in Reads /\ new.next = 1
      BY <2>1, BegunTyped
    <2>4. read' = [read EXCEPT ![r] = new]
      BY <1>0, <1>1, <2>2 DEF BeginRead, before
    <2> HIDE DEF new
    <2>5. read' \in [Readers -> Reads] /\ read'[r].next = 1
            /\ \A g \in Readers : g # r => read'[g] = read[g]
      BY <1>0, <2>3, <2>4
    <2>6. reads' \in 0 .. MaxReads
      BY <1>1, MetricsAssumption DEF BeginRead, TypeOK
    <2>7. TotalEvents # << >> => 1 <= Len(ReadEvents)
      BY ReadOrder, EventsOnce
    <2>8. TotalEvents = << >> => Len(TotalEvents) = 0
      OBVIOUS
    <2>9. pc' = [pc EXCEPT ![r] = label] /\ label \in {"done", "lookup"}
            /\ (label = "lookup" <=> TotalEvents # << >>)
      BY <1>1 DEF BeginRead, Goto
    <2> HIDE DEF label
    <2>10. Here
      BY <1>0, <2>5, <2>7, <2>8, <2>9
    <2>11. TypeOK'
      BY <1>1, <2>5, <2>6, <2>9 DEF BeginRead, TypeOK
    <2> QED BY <1>1, <2>5, <2>9, <2>10, <2>11 DEF BeginRead
  <1>2. CASE Lookup(r)
    <2> DEFINE e == ReadEvents[read[r].next]
    <2>1. UNCHANGED <<metrics, now, update, updates, reads, history>> /\ pc[r] = "lookup"
      BY <1>2 DEF Lookup, At
    <2>2. CASE e \in DOMAIN eventCounters
      <3>1. pc' = [pc EXCEPT ![r] = "sum"] /\ read' = read
        BY <1>2, <2>2 DEF Lookup, Goto
      <3>2. read[r].next <= Len(ReadEvents)
        BY <2>1 DEF Reading, At
      <3>3. Here
        BY <1>0, <2>1, <2>2, <3>1, <3>2
      <3> QED BY <2>1, <3>1, <3>3 DEF TypeOK
    <2>3. CASE e \notin DOMAIN eventCounters
      <3>1. SumRead(r, 0) /\ At(r, "lookup")
        BY <1>2, <2>3 DEF Lookup
      <3>2. /\ read' \in [Readers -> Reads]
            /\ \E label \in {"done", "lookup"} : pc' = [pc EXCEPT ![r] = label]
            /\ \A g \in Readers : g # r => read'[g] = read[g]
            /\ pc'[r] = "lookup" => read'[r].next <= Len(ReadEvents)
            /\ pc'[r] = "done" => read'[r].next > Len(TotalEvents)
        BY <3>1, SumReadType
      <3>3. Here
        BY <1>0, <3>2
      <3> QED BY <2>1, <3>2, <3>3 DEF TypeOK
    <2> QED BY <2>2, <2>3
  <1>3. CASE SumCounter(r)
    <2> DEFINE e == ReadEvents[read[r].next]
               visited == FindCurrentBucket(eventCounters[e], now)
    <2>0. e \in DOMAIN eventCounters /\ eventCounters[e] \in RollingNumbers /\ now \in Nat
      BY <1>3 DEF SumCounter, Reading, At, TypeOK
    <2> HIDE DEF e
    <2>1. visited \in RollingNumbers
      BY <2>0, VisitTyped
    <2>2. eventCounters' = [eventCounters EXCEPT ![e] = visited]
            /\ SumRead(r, SumOf(eventCounters'[e])) /\ At(r, "sum")
      BY <1>3 DEF SumCounter, e
    <2> HIDE DEF visited
    <2>3. eventCounters'[e] \in RollingNumbers
      BY <2>0, <2>1, <2>2
    <2>4. SumOf(eventCounters'[e]) \in Nat
      BY <2>3, SumOfCounts
    <2>5. /\ DOMAIN eventCounters' = DOMAIN eventCounters /\ DOMAIN eventCounters' \subseteq Events
          /\ \A x \in DOMAIN eventCounters' : eventCounters'[x] \in RollingNumbers
      BY <2>1, <2>2 DEF TypeOK
    <2>6. /\ read' \in [Readers -> Reads]
          /\ \E label \in {"done", "lookup"} : pc' = [pc EXCEPT ![r] = label]
          /\ \A g \in Readers : g # r => read'[g] = read[g]
          /\ pc'[r] = "lookup" => read'[r].next <= Len(ReadEvents)
          /\ pc'[r] = "done" => read'[r].next > Len(TotalEvents)
      BY <2>2, <2>4, SumReadType
    <2>7. Here
      BY <1>0, <2>6
    <2> QED BY <1>3, <2>5, <2>6, <2>7 DEF SumCounter, TypeOK
  <1>4. CASE EndRead(r)
    <2>1. pc' = [pc EXCEPT ![r] = "idle"] /\ read' = [read EXCEPT ![r] = NoRead]
            /\ UNCHANGED <<metrics, now, update, updates, reads, history>>
      BY <1>4 DEF EndRead, Goto
    <2>2. read' \in [Readers -> Reads] /\ read'[r] = NoRead /\ pc'[r] = "idle"
            /\ \A g \in Readers : g # r => read'[g] = read[g]
      BY <1>0, <2>1, NoReadTyped
    <2> QED BY <2>1, <2>2 DEF TypeOK
  <1> QED BY <1>1, <1>2, <1>3, <1>4
-----------------------------------------------------------------------------
(* Every step keeps the invariant.                                         *)

\* fetchMetrics establishes it.
THEOREM InitEstablishes == Init => IInv
  <1> SUFFICES ASSUME Init PROVE IInv
    OBVIOUS
  <1> USE DEF Init
  <1>1. executionTime \in RollingPercentiles
    BY NewPercentileTyped
  <1>2. \A b \in Buckets : executionTime.buckets[b] = EmptyBucket /\ added[b] = << >>
    BY DEF NewRollingPercentile
  <1>3. TypeOK
    <2>1. {MaxTime, MaxUpdates, MaxReads} \subseteq Nat
      BY MetricsAssumption
    <2>2. update \in [Workers -> Updates]
      BY NoUpdateTyped
    <2>3. 0 \in 0 .. MaxTime /\ 0 \in 0 .. MaxUpdates /\ 0 \in 0 .. MaxReads
      BY <2>1
    <2>4. occurred \in [Events -> Seq(Nat)] /\ added \in [Buckets -> Seq(Items)]
      OBVIOUS
    <2>5. DOMAIN eventCounters = {}
      OBVIOUS
    <2>6. pc \in [Workers \cup Readers ->
                   {"idle", "count", "find", "store", "lookup", "sum", "done"}]
      OBVIOUS
    <2>7. lock = "free" /\ now = 0 /\ updates = 0 /\ reads = 0 /\ idled \in BOOLEAN
      OBVIOUS
    <2>8. read \in [Readers -> Reads]
      BY NoReadTyped
    <2> HIDE DEF Init
    <2> QED BY <1>1, <2>2, <2>3, <2>4, <2>5, <2>6, <2>7, <2>8 DEF TypeOK
  <1>4. Pending /\ Reading /\ executionTime.currentBucketTime <= now
    BY DEF Pending, Reading, At, NewRollingPercentile
  <1>5. Aligned
    <2>1. 0 % MaxItems = 0
      BY PercentileAssumption, ModSmaller
    <2> QED BY <1>2, <2>1 DEF Aligned, EmptyBucket
  <1>6. BucketsKeepLatest
    BY <1>2, NothingHeld DEF BucketsKeepLatest, Held, EmptyBucket
  <1>7. FoundByDistance
    BY <1>2 DEF FoundByDistance, ToSet, At
  <1>8. StoredByDistance
    BY <1>2 DEF StoredByDistance, ToSet, Held, EmptyBucket
  <1> QED BY <1>3, <1>4, <1>5, <1>6, <1>7, <1>8 DEF IInv

\* What leaves the percentile alone, and the call of a worker that is about
\* to store, has only to keep types and calls with an event.
LEMMA Elsewhere ==
  ASSUME IInv, TypeOK', Pending', Reading', UNCHANGED <<executionTime, added, idled>>, now <= now',
         \A w \in Workers : pc'[w] = "store" => pc[w] = "store" /\ update'[w] = update[w]
  PROVE  IInv'
  <1>1. executionTime'.currentBucketTime <= now'
    BY DEF IInv, TypeOK, RollingPercentiles
  <1>2. Aligned' /\ BucketsKeepLatest'
    BY DEF IInv, Aligned, BucketsKeepLatest, Held
  <1>3. StoredByDistance'
    BY DEF IInv, StoredByDistance, Held, Elapsed, Distance
  <1>4. FoundByDistance'
    BY DEF IInv, FoundByDistance, Elapsed, Distance, At
  <1> QED BY <1>1, <1>2, <1>3, <1>4 DEF IInv

\* update keeps the invariant while it counts ...
LEMMA CountingPreserves ==
  ASSUME IInv, NEW w \in Workers, BeginUpdate(w) \/ CountEvent(w)
  PROVE  IInv'
  <1>1. TypeOK /\ Pending
    BY DEF IInv
  <1>2. /\ TypeOK' /\ (pc'[w] = "count" => update'[w].todo # << >>)
        /\ UNCHANGED <<executionTime, now, added, idled>>
    BY <1>1, BeginUpdateType, CountEventType DEF BeginUpdate, CountEvent, history
  <1>3. /\ \A g \in Workers : g # w => pc'[g] = pc[g] /\ update'[g] = update[g]
        /\ pc'[w] # "store"
    BY <1>1 DEF BeginUpdate, CountEvent, Goto, TypeOK
  <1>4. Pending'
    BY <1>1, <1>2, <1>3 DEF Pending, At
  <1>5. now <= now'
    BY <1>1, <1>2 DEF TypeOK
  <1>6. Reading'
    <2>1. \E label \in {"count", "idle", "find"} : pc' = [pc EXCEPT ![w] = label]
      BY DEF BeginUpdate, CountEvent, Goto
    <2>2. /\ pc[w] \in {"idle", "count"} /\ UNCHANGED read
          /\ DOMAIN eventCounters \subseteq DOMAIN eventCounters'
      BY DEF BeginUpdate, CountEvent, At
    <2> QED BY <2>1, <2>2, ReadingKept DEF IInv, TypeOK
  <1> QED BY <1>2, <1>3, <1>4, <1>5, <1>6, Elsewhere

\* ... and readers of the counters keep it, too.
LEMMA ReadPreserves ==
  ASSUME IInv, NEW r \in Readers, BeginRead(r) \/ Lookup(r) \/ SumCounter(r) \/ EndRead(r)
  PROVE  IInv'
  <1>1. TypeOK /\ Pending /\ Reading
    BY DEF IInv
  <1>2. /\ TypeOK' /\ Reading' /\ pc'[r] \in {"idle", "lookup", "sum", "done"}
        /\ \A g \in Workers \cup Readers : g # r => pc'[g] = pc[g]
    BY <1>1, ReadType
  <1>3. UNCHANGED <<executionTime, now, added, idled, update>>
    BY DEF BeginRead, Lookup, SumCounter, EndRead, metrics, history
  <1>4. Pending'
    BY <1>1, <1>2, <1>3 DEF Pending, At
  <1>5. now <= now'
    BY <1>1, <1>3 DEF TypeOK
  <1>6. \A w \in Workers : pc'[w] = "store" => pc[w] = "store" /\ update'[w] = update[w]
    BY <1>2, <1>3
  <1> QED BY <1>2, <1>3, <1>4, <1>5, <1>6, Elsewhere

\* So does the passing of time: ages are taken at the ring's clock.
LEMMA TickPreserves == ASSUME IInv, Tick PROVE IInv'
  <1>1. TypeOK /\ Pending /\ Reading /\ MaxTime \in Nat
    BY MetricsAssumption DEF IInv
  <1>2. now' = now + 1 /\ now \in 0 .. MaxTime /\ now < MaxTime
    BY <1>1 DEF Tick, TypeOK
  <1>3. now' \in 0 .. MaxTime /\ now <= now'
    BY <1>1, <1>2
  <1>4. UNCHANGED <<metrics, pc, update, read, updates, reads, history>>
    BY DEF Tick
  <1>5. TypeOK' /\ Pending' /\ Reading'
    BY <1>1, <1>3, <1>4 DEF TypeOK, Pending, Reading, At, metrics, history
  <1> QED BY <1>3, <1>4, <1>5, Elsewhere DEF metrics, history

\* A visit keeps it, whoever makes it: what a worker about to store has found
\* does not change, or is the bucket just visited.
LEMMA VisitPreserves ==
  ASSUME IInv, VisitPercentile, TypeOK', Pending', Reading', now' = now,
         \A w \in Workers : pc'[w] = "store" =>
           \/ pc[w] = "store" /\ update'[w] = update[w]
           \/ update'[w].bucket = executionTime'.currentBucket /\ update'[w].found = now
  PROVE  IInv'
  <1>0. /\ TypeOK /\ executionTime.currentBucketTime <= now /\ Aligned
        /\ BucketsKeepLatest /\ FoundByDistance /\ StoredByDistance
    BY DEF IInv
  <1>1. /\ executionTime' \in RollingPercentiles /\ now \in Nat
        /\ executionTime'.currentBucketTime <= now
        /\ now - executionTime'.currentBucketTime < BucketSize
    BY <1>0, VisitTyped2 DEF TypeOK
  <1>2. Aligned' /\ BucketsKeepLatest'
    BY <1>0, VisitKeepsLatest
  <1>3. FoundByDistance'
    <2> SUFFICES ASSUME NEW w \in Workers, pc'[w] = "store"
                 PROVE  executionTime'.currentBucketTime - update'[w].found
                          > (((executionTime'.currentBucket - update'[w].bucket) % NumBuckets)
                              - 1) * BucketSize
      BY <1>0, VisitFound DEF FoundByDistance, Elapsed, Distance, At
    <2>1. CASE pc[w] = "store" /\ update'[w] = update[w]
      BY <1>0, <2>1, VisitFound DEF At
    <2>2. CASE update'[w].bucket = executionTime'.currentBucket /\ update'[w].found = now
      <3>1. executionTime'.currentBucket \in Buckets /\ executionTime'.currentBucketTime \in Nat
        BY <1>1 DEF RollingPercentiles
      <3>2. (executionTime'.currentBucket - executionTime'.currentBucket) % NumBuckets = 0
        BY <3>1, RingDistance DEF Buckets
      <3>3. executionTime'.currentBucketTime - now > (0 - 1) * BucketSize
        BY <1>1, <3>1, BucketSizePositive
      <3> QED BY <2>2, <3>2, <3>3
    <2> QED BY <2>1, <2>2
  <1>4. StoredByDistance'
    BY <1>0, VisitStored DEF StoredByDistance, Held, Elapsed, Distance
  <1> QED BY <1>1, <1>2, <1>3, <1>4 DEF IInv

\* Add looks its bucket up, and Get and Mean visit the ring.
LEMMA FindOrGetPreserves ==
  ASSUME IInv,
         \/ \E w \in Workers : FindBucket(w)
         \/ \E r \in Readers : GetOrMean(r)
  PROVE  IInv'
  <1>0. TypeOK /\ Pending /\ Reading /\ executionTime.currentBucketTime <= now
    BY DEF IInv
  <1>1. VisitPercentile /\ UNCHANGED <<eventCounters, lock, now, read, updates, reads, occurred>>
    BY DEF FindBucket, GetOrMean
  <1>2. /\ executionTime' \in RollingPercentiles
        /\ added' \in [Buckets -> Seq(Items)] /\ idled' \in BOOLEAN
    BY <1>0, <1>1, VisitTyped2
  <1>3. CASE \E w \in Workers : FindBucket(w)
    <2> PICK w \in Workers : FindBucket(w)
      BY <1>3
    <2> DEFINE u1 == [update EXCEPT ![w].bucket = executionTime'.currentBucket]
    <2>1. executionTime'.currentBucket \in Buckets /\ now \in Nat
      BY <1>0, <1>2 DEF RollingPercentiles, TypeOK
    <2>2. /\ u1 \in [Workers -> Updates] /\ u1[w].bucket = executionTime'.currentBucket
          /\ \A g \in Workers : g # w => u1[g] = update[g]
      BY <1>0, <2>1 DEF TypeOK, Updates
    <2>3. update' = [u1 EXCEPT ![w].found = now] /\ pc' = [pc EXCEPT ![w] = "store"]
      BY DEF FindBucket, Goto
    <2> HIDE DEF u1
    <2>4. /\ update' \in [Workers -> Updates]
          /\ update'[w].bucket = executionTime'.currentBucket /\ update'[w].found = now
          /\ \A g \in Workers : g # w => update'[g] = update[g]
      BY <2>1, <2>2, <2>3 DEF Updates
    <2>5. /\ pc' \in [Workers \cup Readers ->
                        {"idle", "count", "find", "store", "lookup", "sum", "done"}]
          /\ pc'[w] = "store" /\ \A g \in Workers : g # w => pc'[g] = pc[g]
      BY <1>0, <2>3 DEF TypeOK
    <2>6. TypeOK'
      BY <1>0, <1>1, <1>2, <2>4, <2>5 DEF TypeOK
    <2>7. Pending'
      BY <1>0, <2>4, <2>5 DEF Pending, At
    <2>8. now' = now
      BY <1>1
    <2>9. Reading'
      <3>1. pc[w] = "find" /\ UNCHANGED read /\ DOMAIN eventCounters \subseteq DOMAIN eventCounters'
        BY <1>1 DEF FindBucket, At
      <3> QED BY <1>0, <2>3, <3>1, ReadingKept DEF TypeOK
    <2> QED BY <1>1, <2>4, <2>5, <2>6, <2>7, <2>8, <2>9, VisitPreserves
  <1>4. CASE \E r \in Readers : GetOrMean(r)
    <2>1. UNCHANGED <<pc, update>> /\ now' = now
      BY <1>4 DEF GetOrMean
    <2>2. TypeOK' /\ Pending' /\ Reading'
      BY <1>0, <1>1, <1>2, <2>1 DEF TypeOK, Pending, Reading, At
    <2> QED BY <1>1, <2>1, <2>2, VisitPreserves
  <1> QED BY <1>3, <1>4

\* A value is stored in the bucket that was looked up, current or not.
LEMMA StorePreserves ==
  ASSUME IInv, NEW w \in Workers, StoreValue(w)
  PROVE  IInv'
  <1> DEFINE b    == update[w].bucket
             item == [value |-> update[w].time, found |-> update[w].found, stored |-> now]
             new  == BucketAdd(executionTime.buckets[b], item)
  <1>0. /\ TypeOK /\ Pending /\ Reading /\ executionTime.currentBucketTime <= now /\ Aligned
        /\ BucketsKeepLatest /\ FoundByDistance /\ StoredByDistance
    BY DEF IInv
  <1>1. /\ b \in Buckets /\ item \in Items /\ item.found = update[w].found
        /\ item.stored = now /\ now \in Nat
        /\ executionTime \in RollingPercentiles /\ executionTime.currentBucketTime \in Nat
        /\ executionTime.buckets \in [Buckets -> PercentileBuckets]
        /\ executionTime.buckets[b] \in PercentileBuckets
        /\ added \in [Buckets -> Seq(Items)] /\ added[b] \in Seq(Items)
    BY SMTT(30), <1>0 DEF TypeOK, Updates, Items, RollingPercentiles
  <1>2. new \in PercentileBuckets
    BY <1>1, AddTyped
  <1>3. /\ executionTime' = [executionTime EXCEPT !.buckets[b] = new]
        /\ added' = [added EXCEPT ![b] = Append(added[b], item)]
        /\ pc[w] = "store"
        /\ UNCHANGED <<eventCounters, now, read, updates, reads, occurred, idled>>
    BY DEF StoreValue, At
  <1>4. update' = [update EXCEPT ![w] = NoUpdate] /\ pc' = [pc EXCEPT ![w] = "idle"]
          /\ lock' = "free"
    BY DEF StoreValue, Goto
  <1>5. Elapsed(update[w].found) > (Distance(b) - 1) * BucketSize
    BY <1>0, <1>3 DEF FoundByDistance, At
  <1>6. /\ new.currentPosition = Len(Append(added[b], item)) % MaxItems
        /\ HoldsLatest(new.vals, Append(added[b], item))
    <2> DEFINE bucket == executionTime.buckets[b]
               log    == added[b]
    <2>1. bucket.currentPosition = Len(log) % MaxItems /\ HoldsLatest(bucket.vals, log)
      BY <1>0, <1>1 DEF Aligned, BucketsKeepLatest, Held
    <2>2. bucket \in PercentileBuckets /\ log \in Seq(Items) /\ item \in Items
      BY <1>1
    <2> HIDE DEF bucket, log, item
    <2>3. /\ BucketAdd(bucket, item).currentPosition = Len(Append(log, item)) % MaxItems
          /\ HoldsLatest(BucketAdd(bucket, item).vals, Append(log, item))
      BY <2>1, <2>2, AddKeepsLatest
    <2> QED BY <2>3 DEF bucket, log
  <1>7. \A x \in ToSet(new.vals) : x \in ToSet(Held(b)) \/ x = item
    BY <1>1, AddHolds DEF Held
  <1> HIDE DEF new, item, b
  <1>8. \A x \in ToSet(Append(added[b], item)) : x \in ToSet(added[b]) \/ x = item
    BY <1>1 DEF ToSet
  <1>9. /\ executionTime'.currentBucket = executionTime.currentBucket
        /\ executionTime'.currentBucketTime = executionTime.currentBucketTime
        /\ executionTime'.buckets = [executionTime.buckets EXCEPT ![b] = new]
        /\ executionTime' \in RollingPercentiles
    BY <1>1, <1>2, <1>3 DEF RollingPercentiles
  <1>10. /\ added' \in [Buckets -> Seq(Items)] /\ added'[b] = Append(added[b], item)
         /\ \A x \in Buckets : x # b => added'[x] = added[x]
    BY <1>1, <1>3
  <1>11. /\ executionTime'.buckets[b] = new
         /\ \A x \in Buckets : x # b => executionTime'.buckets[x] = executionTime.buckets[x]
    BY <1>1, <1>9
  <1>12. TypeOK'
    BY <1>0, <1>3, <1>4, <1>9, <1>10, NoUpdateTyped DEF TypeOK
  <1>13. Pending' /\ \A g \in Workers : pc'[g] = "store" => pc[g] = "store" /\ update'[g] = update[g]
    BY <1>0, <1>4 DEF Pending, At, TypeOK
  <1>15. Aligned'
    BY <1>0, <1>6, <1>10, <1>11 DEF Aligned
  <1>16. BucketsKeepLatest'
    BY <1>0, <1>6, <1>10, <1>11 DEF BucketsKeepLatest, Held
  <1>17. FoundByDistance'
    <2>1. ASSUME NEW x \in Buckets, NEW y \in ToSet(added'[x])
          PROVE  executionTime.currentBucketTime - y.found > (Distance(x) - 1) * BucketSize
      <3>1. CASE x = b /\ y = item
        BY <1>1, <1>5, <3>1 DEF Elapsed, item
      <3>2. CASE y \in ToSet(added[x])
        BY <1>0, <3>2 DEF FoundByDistance, Elapsed
      <3> QED BY <1>8, <1>10, <2>1, <3>1, <3>2
    <2>2. ASSUME NEW g \in Workers, pc'[g] = "store"
          PROVE  executionTime.currentBucketTime - update'[g].found
                   > (Distance(update'[g].bucket) - 1) * BucketSize
      BY <1>0, <1>13, <2>2 DEF FoundByDistance, At, Elapsed
    <2> QED BY <1>9, <2>1, <2>2 DEF FoundByDistance, Elapsed, Distance, At
  <1>18. StoredByDistance'
    <2> SUFFICES ASSUME ~ idled, NEW x \in Buckets,
                        NEW y \in ToSet(executionTime'.buckets[x].vals)
                 PROVE  executionTime.currentBucketTime - y.stored
                          <= 2 * Distance(x) * BucketSize
      BY <1>3, <1>9 DEF StoredByDistance, Held, Elapsed, Distance
    <2>1. CASE x = b /\ y = item
      <3>1. Distance(x) \in Nat
        <4>1. executionTime.currentBucket \in Buckets
          BY <1>1 DEF RollingPercentiles
        <4>2. (executionTime.currentBucket - x) % NumBuckets \in Buckets
          BY <4>1, RingDistance
        <4> QED BY <4>2 DEF Distance, Buckets
      <3>2. 0 * BucketSize <= (2 * Distance(x)) * BucketSize
        BY <3>1, BucketSizePositive, ProductOrder
      <3>3. executionTime.currentBucketTime - y.stored <= 0
        BY <1>0, <1>1, <2>1 DEF item
      <3>4. executionTime.currentBucketTime - y.stored \in Int
        BY <1>1, <2>1 DEF item
      <3>5. (2 * Distance(x)) * BucketSize \in Int
        BY <3>1, BucketSizePositive
      <3> QED BY <3>2, <3>3, <3>4, <3>5, BucketSizePositive
    <2>2. CASE y \in ToSet(Held(x))
      BY <1>0, <2>2 DEF StoredByDistance, Elapsed
    <2> QED BY <1>7, <1>11, <2>1, <2>2 DEF Held
  <1>19. executionTime'.currentBucketTime <= now'
    BY <1>0, <1>3, <1>9
  <1>20. Reading'
    <2>1. pc[w] \notin {"lookup", "sum", "done"} /\ UNCHANGED read
            /\ DOMAIN eventCounters \subseteq DOMAIN eventCounters'
      BY <1>3
    <2> QED BY <1>0, <1>4, <2>1, ReadingKept DEF TypeOK
  <1> QED BY <1>20, <1>12, <1>13, <1>15, <1>16, <1>17, <1>18, <1>19 DEF IInv

\* Every step keeps the invariant, and a stuttering one does.
THEOREM StepPreserves == IInv /\ [Next]_vars => IInv'
  <1> SUFFICES ASSUME IInv, [Next]_vars PROVE IInv'
    OBVIOUS
  <1>1. ASSUME NEW w \in Workers,
               BeginUpdate(w) \/ CountEvent(w) \/ FindBucket(w) \/ StoreValue(w)
        PROVE  IInv'
    BY <1>1, CountingPreserves, FindOrGetPreserves, StorePreserves
  <1>2. ASSUME NEW r \in Readers,
               BeginRead(r) \/ Lookup(r) \/ SumCounter(r) \/ EndRead(r) \/ GetOrMean(r)
        PROVE  IInv'
    BY <1>2, ReadPreserves, FindOrGetPreserves
  <1>3. CASE Tick
    BY <1>3, TickPreserves
  <1>4. CASE UNCHANGED vars
    <2>1. now <= now'
      BY <1>4 DEF IInv, TypeOK, vars
    <2>2. TypeOK' /\ Pending' /\ Reading'
      BY <1>4 DEF IInv, TypeOK, Pending, Reading, At, vars, metrics, history
    <2> QED BY <1>4, <2>1, <2>2, Elsewhere DEF vars, metrics, history
  <1> QED BY <1>1, <1>2, <1>3, <1>4 DEF Next

\* The invariant holds in every reachable state.
THEOREM Inductive == Spec => []IInv
  BY InitEstablishes, StepPreserves, PTL DEF Spec
-----------------------------------------------------------------------------
(* What follows.                                                           *)

\* Every reachable state is well typed: no bucket outside the ring, and no
\* place outside a bucket, is ever written.
THEOREM TypeCorrect == Spec => []TypeOK
  <1>1. IInv => TypeOK
    BY DEF IInv
  <1> QED BY <1>1, Inductive, PTL

\* Whenever it was reset, and whoever stores late, a bucket holds the latest
\* MaxItems of the values stored in it since, each in its place.
THEOREM LatestAreHeld == Spec => []BucketsKeepLatest
  <1>1. IInv => BucketsKeepLatest
    BY DEF IInv
  <1> QED BY <1>1, Inductive, PTL

\* What Get and Mean compute on is younger than ForgetAge, as long as the
\* percentile has been visited at least once in a window.
THEOREM NothingOldIsReported == Spec => []RecentUnlessIdled
  <1>1. ASSUME IInv PROVE RecentUnlessIdled
    <2> DEFINE p == executionTime
               q == Visited(p, now)
               k == BucketsBehind(p, now)
               S == BucketSize
    <2> SUFFICES ASSUME ~ idled, k < NumBuckets, NEW b \in Buckets,
                        NEW item \in ToSet(q.buckets[b].vals)
                 PROVE  now - item.stored < ForgetAge
      BY DEF RecentUnlessIdled, ValuesAreRecent, HeldNow
    <2>1. TypeOK /\ p.currentBucketTime <= now /\ StoredByDistance
      BY <1>1 DEF IInv
    <2>2. /\ p \in RollingPercentiles /\ now \in Nat /\ p.currentBucketTime \in Nat
          /\ S \in Nat \ {0} /\ NumBuckets \in Nat \ {0}
      BY <2>1, BucketSizePositive, WindowAssumption DEF TypeOK, RollingPercentiles
    <2>3. k \in Nat /\ now - p.currentBucketTime < (k + 1) * S
      BY <2>1, <2>2, BehindBounds
    <2>4. b \notin ResetBuckets(p, now) /\ q.buckets[b] = p.buckets[b]
      <3>1. CASE k = 0
        <4>1. k % NumBuckets = 0
          BY <3>1, WindowAssumption, ModSmaller
        <4> QED BY <2>3, <3>1, <4>1 DEF Visited, ResetBuckets
      <3>2. CASE k > 0
        <4>1. q.buckets[b] = IF b \in ResetBuckets(p, now) THEN EmptyBucket ELSE p.buckets[b]
          BY <3>2 DEF Visited
        <4>2. q.buckets[b] # EmptyBucket
          BY DEF ToSet, EmptyBucket
        <4> QED BY <4>1, <4>2
      <3> QED BY <2>3, <3>1, <3>2
    <2> DEFINE t == item.stored
               d == (p.currentBucket - b) % NumBuckets
               d2 == (q.currentBucket - b) % NumBuckets
    <2>5. t \in Nat /\ p.currentBucketTime - t <= 2 * d * S
      <3>1. item \in ToSet(p.buckets[b].vals) /\ p.buckets[b].vals \in Seq(Items)
        BY <2>2, <2>4 DEF RollingPercentiles, PercentileBuckets
      <3> QED BY <2>1, <3>1, ItemsTyped DEF StoredByDistance, Held, Elapsed, Distance
    <2>6. d \in 0 .. NumBuckets - 1 /\ d2 \in 0 .. NumBuckets - 1 /\ d2 = d + k
      BY <2>1, <2>2, <2>4, VisitedDistance
    <2>7. ForgetAge = (2 * NumBuckets - 1) * S
      BY DEF ForgetAge
    <2> HIDE DEF t, d, d2, k, S
    <2>8. now - t < (2 * d) * S + (k + 1) * S
      BY <2>2, <2>3, <2>5, <2>6
    <2>9. (2 * d) * S + (k + 1) * S = (2 * d + (k + 1)) * S
      BY <2>2, <2>3, <2>6, ProductSum
    <2>10. 2 * d + (k + 1) <= 2 * NumBuckets - 1
      BY <2>2, <2>3, <2>6
    <2>11. (2 * d + (k + 1)) * S <= (2 * NumBuckets - 1) * S
      BY <2>2, <2>3, <2>6, <2>10, ProductOrder
    <2>12. (2 * d + (k + 1)) * S \in Int /\ (2 * NumBuckets - 1) * S \in Int
      BY <2>2, <2>3, <2>6
    <2> QED BY <2>2, <2>5, <2>7, <2>8, <2>9, <2>11, <2>12 DEF t
  <1> QED BY <1>1, Inductive, PTL

\* A value is dropped to make room, or when its look-up is longer ago than
\* KeepAge: no visit, however late, drops one that is recent.
THEOREM RecentValuesAreKept == Spec => KeepsRecentValues
  <1>1. ASSUME IInv, [Next]_vars
        PROVE  [\A b \in Buckets : added'[b] = << >> =>
                  \A item \in ToSet(added[b]) : now - item.found > KeepAge]_vars
    <2> SUFFICES ASSUME NEW b \in Buckets, added'[b] = << >>,
                        NEW item \in ToSet(added[b])
                 PROVE  now - item.found > KeepAge \/ UNCHANGED vars
      OBVIOUS
    <2>0. TypeOK /\ executionTime.currentBucketTime <= now /\ FoundByDistance
      BY <1>1 DEF IInv
    <2>1. added[b] # << >> /\ added[b] \in Seq(Items) /\ added \in [Buckets -> Seq(Items)]
      BY <2>0 DEF ToSet, TypeOK
    <2>2. CASE VisitPercentile
      <3>1. b \in ResetBuckets(executionTime, now)
        BY <2>0, <2>1, <2>2, VisitEmptiesOrKeeps
      <3> DEFINE t == item.found
      <3>2. t \in Nat /\ Elapsed(t) > (Distance(b) - 1) * BucketSize
        BY <2>0, <2>1, ItemsTyped DEF FoundByDistance
      <3> HIDE DEF t
      <3>3. now - t > KeepAge
        BY <2>0, <2>2, <3>1, <3>2, VisitDropsOld
      <3> QED BY <3>3 DEF t
    <2>3. CASE added' = added
      BY <2>1, <2>3
    <2>4. ASSUME NEW w \in Workers, StoreValue(w)
          PROVE  FALSE
      <3> DEFINE c == update[w].bucket
                 new == [value |-> update[w].time, found |-> update[w].found, stored |-> now]
      <3> HIDE DEF c, new
      <3>1. added' = [added EXCEPT ![c] = Append(added[c], new)]
        BY <2>4 DEF StoreValue, c, new
      <3>2. CASE c = b
        <4>1. added'[b] = Append(added[b], new)
          BY <2>1, <3>1, <3>2
        <4>2. Len(Append(added[b], new)) = Len(added[b]) + 1
          BY <2>1
        <4> QED BY <2>1, <4>1, <4>2
      <3>3. CASE c # b
        BY <2>1, <3>1, <3>3
      <3> QED BY <3>2, <3>3
    <2>5. VisitPercentile \/ added' = added \/ \E w \in Workers : StoreValue(w)
      BY <1>1 DEF Next, vars, history, BeginUpdate, CountEvent, FindBucket, BeginRead,
                  Lookup, SumCounter, EndRead, GetOrMean, Tick
    <2> QED BY <2>2, <2>3, <2>4, <2>5
  <1> QED BY <1>1, Inductive, PTL DEF Spec, KeepsRecentValues
-----------------------------------------------------------------------------
(* What a reader has summed.  Each counter accounts for the occurrences of *)
(* its event, and a read's total and errors are the sizes of two sets of   *)
(* occurrences: those its sums found counted.  No variable holds these     *)
(* sets; that there are such sets is what every step keeps.                *)

TotalRead(next) == {TotalEvents[j] : j \in {i \in DOMAIN TotalEvents : i < next}}
ErrorsRead(next) ==
  {ErrorEvents[j] : j \in {i \in DOMAIN ErrorEvents : Len(TotalEvents) + i < next}}

\* place[e][i]: the bucket that counts the i-th occurrence of e, if one does.
CountersAccount(counters, occ, t, place) ==
  \A e \in Events :
    IF e \in DOMAIN counters
    THEN Accounts(counters[e], t, DOMAIN occ[e], occ[e], place[e])
    ELSE occ[e] = << >>

\* The total is that of the occurrences in T, all young when the read began,
\* and no occurrence before that is missing while it is counted.  The errors
\* are those of E: what occurred before the read began has been in the total.
Justifies(rd, occ, t, place, T, E) ==
  /\ IsFiniteSet(T) /\ rd.total = Cardinality(T)
  /\ IsFiniteSet(E) /\ rd.errors = Cardinality(E)
  /\ rd.started <= t
  /\ \A e \in Events : rd.before[e] <= Len(occ[e])
  /\ \A o \in T : \E e \in TotalRead(rd.next) : \E i \in 1 .. Len(occ[e]) :
       o = <<e, i>> /\ rd.started - occ[e][i] < ForgetAge
  /\ \A e \in TotalRead(rd.next) : \A i \in 1 .. rd.before[e] :
       place[e][i] \in Buckets => <<e, i>> \in T
  /\ \A o \in E : \E e \in ErrorsRead(rd.next) : \E i \in 1 .. Len(occ[e]) :
       o = <<e, i>> /\ (i <= rd.before[e] => o \in T)

\* occ2 goes on from occ; place2 counts nothing again that place does not.
GoesOn(occ, occ2, place, place2) ==
  \A e \in Events :
    /\ Len(occ[e]) <= Len(occ2[e])
    /\ \A i \in 1 .. Len(occ[e]) :
         occ2[e][i] = occ[e][i] /\ (place2[e][i] \in Buckets => place[e][i] \in Buckets)

ReadsJustified(rds, pcs, occ, t, place) ==
  \A r \in Readers : pcs[r] \in {"lookup", "sum", "done"} =>
    \E T, E : Justifies(rds[r], occ, t, place, T, E)

Justified ==
  \E place : /\ CountersAccount(eventCounters, occurred, now, place)
             /\ ReadsJustified(read, pc, occurred, now, place)

\* What is read are events.
LEMMA ReadAreEvents ==
  ASSUME NEW next
  PROVE  TotalRead(next) \subseteq Events /\ ErrorsRead(next) \subseteq Events
  BY EventsOnce DEF TotalRead, ErrorsRead

\* A read stays justified as events go on occurring and others visit the
\* counters, which never count again what they had dropped.
LEMMA JustifiedLater ==
  ASSUME NEW rd \in Reads, NEW occ \in [Events -> Seq(Nat)], NEW occ2 \in [Events -> Seq(Nat)],
         NEW t \in Nat, NEW t2 \in Nat, t <= t2, NEW place, NEW place2, NEW T, NEW E,
         Justifies(rd, occ, t, place, T, E), GoesOn(occ, occ2, place, place2)
  PROVE  Justifies(rd, occ2, t2, place2, T, E)
  <1>0. \A e \in Events : Len(occ[e]) <= Len(occ2[e]) /\ \A i \in 1 .. Len(occ[e]) :
          occ2[e][i] = occ[e][i] /\ (place2[e][i] \in Buckets => place[e][i] \in Buckets)
    BY DEF GoesOn
  <1>1. /\ TotalRead(rd.next) \subseteq Events /\ ErrorsRead(rd.next) \subseteq Events
        /\ rd.started \in Nat /\ rd.before \in [Events -> Nat]
        /\ \A e \in Events : Len(occ[e]) \in Nat /\ Len(occ2[e]) \in Nat
    BY ReadAreEvents DEF Reads
  <1>2. rd.started <= t2
    BY <1>1 DEF Justifies
  <1>3. \A e \in Events : rd.before[e] <= Len(occ2[e])
    BY <1>0, <1>1 DEF Justifies
  <1>4. ASSUME NEW o \in T
        PROVE  \E e \in TotalRead(rd.next) : \E i \in 1 .. Len(occ2[e]) :
                 o = <<e, i>> /\ rd.started - occ2[e][i] < ForgetAge
    <2>1. PICK e \in TotalRead(rd.next) : \E i \in 1 .. Len(occ[e]) :
                 o = <<e, i>> /\ rd.started - occ[e][i] < ForgetAge
      BY <1>4 DEF Justifies
    <2>2. PICK i \in 1 .. Len(occ[e]) : o = <<e, i>> /\ rd.started - occ[e][i] < ForgetAge
      BY <2>1
    <2>3. i \in 1 .. Len(occ2[e]) /\ occ2[e][i] = occ[e][i]
      BY <1>0, <1>1
    <2> QED BY <2>2, <2>3
  <1>5. ASSUME NEW e \in TotalRead(rd.next), NEW i \in 1 .. rd.before[e],
               place2[e][i] \in Buckets
        PROVE  <<e, i>> \in T
    <2>1. e \in Events /\ i \in 1 .. Len(occ[e])
      BY <1>1 DEF Justifies
    <2>2. place[e][i] \in Buckets
      BY <1>0, <1>5, <2>1
    <2> QED BY <2>2 DEF Justifies
  <1>6. ASSUME NEW o \in E
        PROVE  \E e \in ErrorsRead(rd.next) : \E i \in 1 .. Len(occ2[e]) :
                 o = <<e, i>> /\ (i <= rd.before[e] => o \in T)
    <2>1. PICK e \in ErrorsRead(rd.next) : \E i \in 1 .. Len(occ[e]) :
                 o = <<e, i>> /\ (i <= rd.before[e] => o \in T)
      BY <1>6 DEF Justifies
    <2>2. PICK i \in 1 .. Len(occ[e]) : o = <<e, i>> /\ (i <= rd.before[e] => o \in T)
      BY <2>1
    <2>3. i \in 1 .. Len(occ2[e])
      BY <1>0, <1>1
    <2> QED BY <2>2, <2>3
  <1>7. IsFiniteSet(T) /\ rd.total = Cardinality(T) /\ IsFiniteSet(E) /\ rd.errors = Cardinality(E)
    BY DEF Justifies
  <1> QED BY <1>2, <1>3, <1>4, <1>5, <1>6, <1>7 DEF Justifies

\* Nothing is missing from a read that has not begun to sum.
LEMMA JustifiedAtFirst ==
  ASSUME NEW rd \in Reads, NEW occ \in [Events -> Seq(Nat)], NEW t \in Nat, NEW place,
         rd.next = 1, rd.total = 0, rd.errors = 0, rd.started = t,
         rd.before = [e \in Events |-> Len(occ[e])]
  PROVE  Justifies(rd, occ, t, place, {}, {})
  <1>1. TotalRead(1) = {}
    BY ReadOrder, EventsOnce DEF TotalRead
  <1>2. \A e \in Events : rd.before[e] <= Len(occ[e])
    OBVIOUS
  <1> QED BY <1>1, <1>2, FS_EmptySet DEF Justifies

\* Sets with nothing in common add up.
LEMMA DisjointUnion ==
  ASSUME NEW S, IsFiniteSet(S), NEW T, IsFiniteSet(T), S \cap T = {}
  PROVE  IsFiniteSet(S \cup T) /\ Cardinality(S \cup T) = Cardinality(S) + Cardinality(T)
  <1>1. Cardinality(S \cap T) = 0 /\ Cardinality(S) \in Nat /\ Cardinality(T) \in Nat
    BY FS_EmptySet, FS_CardinalityType
  <1>2. /\ IsFiniteSet(S \cup T)
        /\ Cardinality(S \cup T) = Cardinality(S) + Cardinality(T) - Cardinality(S \cap T)
    BY FS_Union
  <1> DEFINE a == Cardinality(S)
             b == Cardinality(T)
             c == Cardinality(S \cap T)
             d == Cardinality(S \cup T)
  <1>3. IsFiniteSet(S \cup T) /\ d = a + b - c /\ c = 0 /\ a \in Nat /\ b \in Nat
    BY <1>1, <1>2
  <1> HIDE DEF a, b, c, d
  <1>4. IsFiniteSet(S \cup T) /\ d = a + b
    BY <1>3
  <1> QED BY <1>4 DEF a, b, d

\* Paired with an event, as many occurrences.
LEMMA PairedCardinality ==
  ASSUME NEW e, NEW C, IsFiniteSet(C)
  PROVE  IsFiniteSet({e} \X C) /\ Cardinality({e} \X C) = Cardinality(C)
  <1>1. IsFiniteSet({e}) /\ Cardinality({e}) = 1
    BY FS_Singleton
  <1>2. IsFiniteSet({e} \X C) /\ Cardinality({e} \X C) = Cardinality({e}) * Cardinality(C)
    BY <1>1, FS_Product
  <1>3. Cardinality(C) \in Nat
    BY FS_CardinalityType
  <1> QED BY <1>1, <1>2, <1>3

\* One more counter has been read.
LEMMA ReadNext ==
  ASSUME NEW next \in Nat \ {0}
  PROVE  /\ next <= Len(TotalEvents) =>
              /\ TotalRead(next + 1) = TotalRead(next) \cup {TotalEvents[next]}
              /\ ErrorsRead(next + 1) = ErrorsRead(next)
              /\ TotalEvents[next] \notin TotalRead(next)
         /\ next > Len(TotalEvents) =>
              TotalRead(next + 1) = ToSet(TotalEvents) /\ TotalRead(next) = ToSet(TotalEvents)
         /\ next > Len(TotalEvents) /\ next <= Len(ReadEvents) =>
              LET e == ErrorEvents[next - Len(TotalEvents)]
              IN  /\ ErrorsRead(next + 1) = ErrorsRead(next) \cup {e}
                  /\ e \notin ErrorsRead(next) /\ e \in ToSet(TotalEvents)
  <1> DEFINE n == Len(TotalEvents)
             m == Len(ErrorEvents)
  <1>1. /\ n \in Nat /\ m \in Nat /\ Len(ReadEvents) = n + m
        /\ DOMAIN TotalEvents = 1 .. n /\ DOMAIN ErrorEvents = 1 .. m
    BY ReadOrder, EventsOnce
  <1>2. ASSUME next <= n
        PROVE  /\ TotalRead(next + 1) = TotalRead(next) \cup {TotalEvents[next]}
               /\ ErrorsRead(next + 1) = ErrorsRead(next)
               /\ TotalEvents[next] \notin TotalRead(next)
    <2>1. {i \in 1 .. n : i < next + 1} = {i \in 1 .. n : i < next} \cup {next}
      BY <1>1, <1>2
    <2>2. {i \in 1 .. m : n + i < next + 1} = {} /\ {i \in 1 .. m : n + i < next} = {}
      BY <1>1, <1>2
    <2>3. TotalEvents[next] \notin TotalRead(next)
      <3> SUFFICES ASSUME NEW j \in 1 .. n, j < next, TotalEvents[j] = TotalEvents[next]
                   PROVE  FALSE
        BY <1>1 DEF TotalRead
      <3> QED BY <1>1, <1>2, EventsOnce DEF Distinct
    <2> QED BY <1>1, <2>1, <2>2, <2>3 DEF TotalRead, ErrorsRead
  <1>3. ASSUME next > n
        PROVE  TotalRead(next + 1) = ToSet(TotalEvents) /\ TotalRead(next) = ToSet(TotalEvents)
    <2>1. {i \in 1 .. n : i < next + 1} = 1 .. n /\ {i \in 1 .. n : i < next} = 1 .. n
      BY <1>1, <1>3
    <2> QED BY <1>1, <2>1 DEF TotalRead, ToSet
  <1>4. ASSUME next > n, next <= Len(ReadEvents)
        PROVE  LET e == ErrorEvents[next - n]
               IN  /\ ErrorsRead(next + 1) = ErrorsRead(next) \cup {e}
                   /\ e \notin ErrorsRead(next) /\ e \in ToSet(TotalEvents)
    <2>1. next - n \in 1 .. m
      BY <1>1, <1>4
    <2>2. {i \in 1 .. m : n + i < next + 1} = {i \in 1 .. m : n + i < next} \cup {next - n}
      BY <1>1, <1>4
    <2>3. ErrorEvents[next - n] \notin ErrorsRead(next)
      <3> SUFFICES ASSUME NEW j \in 1 .. m, n + j < next, ErrorEvents[j] = ErrorEvents[next - n]
                   PROVE  FALSE
        BY <1>1 DEF ErrorsRead
      <3>1. j = next - n
        BY <1>1, <2>1, EventsOnce DEF Distinct
      <3> QED BY <1>1, <3>1
    <2>4. ErrorEvents[next - n] \in ToSet(TotalEvents)
      BY <1>1, <2>1, EventsOnce DEF ToSet
    <2> QED BY <1>1, <2>2, <2>3, <2>4 DEF ErrorsRead
  <1> QED BY <1>2, <1>3, <1>4

\* C: the occurrences of e that are counted; each of them is young.
Counted(e, occ, t, place, C) ==
  /\ C = {i \in 1 .. Len(occ[e]) : place[e][i] \in Buckets} /\ IsFiniteSet(C)
  /\ \A i \in C : t - occ[e][i] < ForgetAge

\* A sum for the total adds the occurrences it found counted ...
LEMMA JustifiedTotal ==
  ASSUME NEW rd \in Reads, NEW rd2 \in Reads, NEW occ \in [Events -> Seq(Nat)],
         NEW t \in Nat, NEW place, NEW T, NEW E, Justifies(rd, occ, t, place, T, E),
         rd.next <= Len(TotalEvents), NEW e, e = TotalEvents[rd.next],
         NEW C, Counted(e, occ, t, place, C),
         rd2.next = rd.next + 1, rd2.total = rd.total + Cardinality(C),
         rd2.errors = rd.errors, rd2.started = rd.started, rd2.before = rd.before
  PROVE  Justifies(rd2, occ, t, place, T \cup ({e} \X C), E)
  <1> USE DEF Counted
  <1> DEFINE T2 == T \cup ({e} \X C)
  <1>1. /\ rd.next \in Nat \ {0} /\ rd.started \in Nat /\ rd.before \in [Events -> Nat]
        /\ rd.started <= t
    BY DEF Reads, Justifies
  <1>2. /\ TotalRead(rd2.next) = TotalRead(rd.next) \cup {e}
        /\ ErrorsRead(rd2.next) = ErrorsRead(rd.next)
        /\ e \notin TotalRead(rd.next) /\ e \in Events
    <2>1. TotalRead(rd2.next) \subseteq Events
      BY ReadAreEvents
    <2> QED BY <1>1, <2>1, ReadNext
  <1>3. IsFiniteSet(T2) /\ rd2.total = Cardinality(T2)
    <2> DEFINE P == {e} \X C
    <2>1. T \cap P = {}
      BY <1>2 DEF Justifies
    <2>2. IsFiniteSet(P) /\ Cardinality(P) = Cardinality(C) /\ T2 = T \cup P
      BY PairedCardinality
    <2>3. IsFiniteSet(T) /\ rd.total = Cardinality(T)
      BY DEF Justifies
    <2> HIDE DEF T2, P
    <2>4. IsFiniteSet(T2) /\ Cardinality(T2) = Cardinality(T) + Cardinality(P)
      BY <2>1, <2>2, <2>3, DisjointUnion
    <2> QED BY <2>2, <2>3, <2>4
  <1>4. ASSUME NEW o \in T2
        PROVE  \E x \in TotalRead(rd2.next) : \E i \in 1 .. Len(occ[x]) :
                 o = <<x, i>> /\ rd2.started - occ[x][i] < ForgetAge
    <2>1. CASE o \in T
      BY <1>2, <2>1 DEF Justifies
    <2>2. CASE o \in {e} \X C
      <3>1. PICK i \in C : o = <<e, i>>
        BY <2>2
      <3>2. i \in 1 .. Len(occ[e]) /\ occ[e][i] \in Nat
        BY <1>2, <3>1
      <3>3. rd2.started - occ[e][i] < ForgetAge
        <4> DEFINE at == occ[e][i]
        <4>1. ForgetAge \in Int
          BY BucketSizePositive, WindowAssumption DEF ForgetAge
        <4>2. t - at < ForgetAge /\ at \in Nat /\ rd2.started = rd.started
          BY <3>1, <3>2
        <4> HIDE DEF at
        <4>3. rd2.started - at < ForgetAge
          BY <1>1, <4>1, <4>2
        <4> QED BY <4>3 DEF at
      <3> QED BY <1>2, <3>1, <3>2, <3>3
    <2> QED BY <2>1, <2>2
  <1>5. ASSUME NEW x \in TotalRead(rd2.next), NEW i \in 1 .. rd2.before[x],
               place[x][i] \in Buckets
        PROVE  <<x, i>> \in T2
    <2>1. CASE x = e
      <3>1. i \in 1 .. Len(occ[e])
        BY <1>1, <1>2, <2>1 DEF Justifies
      <3> QED BY <1>5, <2>1, <3>1
    <2>2. CASE x # e
      BY <1>2, <1>5, <2>2 DEF Justifies
    <2> QED BY <2>1, <2>2
  <1>6. \A o \in E : \E x \in ErrorsRead(rd2.next) : \E i \in 1 .. Len(occ[x]) :
          o = <<x, i>> /\ (i <= rd2.before[x] => o \in T2)
    BY <1>2 DEF Justifies
  <1> HIDE DEF T2
  <1>7. Justifies(rd2, occ, t, place, T2, E)
    BY <1>3, <1>4, <1>5, <1>6 DEF Justifies
  <1> QED BY <1>7 DEF T2

\* ... and one for the errors likewise: the total has all that were before.
LEMMA JustifiedErrors ==
  ASSUME NEW rd \in Reads, NEW rd2 \in Reads, NEW occ \in [Events -> Seq(Nat)],
         NEW t \in Nat, NEW place, NEW T, NEW E, Justifies(rd, occ, t, place, T, E),
         rd.next > Len(TotalEvents), rd.next <= Len(ReadEvents),
         NEW e, e = ErrorEvents[rd.next - Len(TotalEvents)],
         NEW C, Counted(e, occ, t, place, C),
         rd2.next = rd.next + 1, rd2.errors = rd.errors + Cardinality(C),
         rd2.total = rd.total, rd2.started = rd.started, rd2.before = rd.before
  PROVE  Justifies(rd2, occ, t, place, T, E \cup ({e} \X C))
  <1> USE DEF Counted
  <1> DEFINE E2 == E \cup ({e} \X C)
  <1>1. /\ rd.next \in Nat \ {0} /\ rd.before \in [Events -> Nat]
    BY DEF Reads
  <1>2. /\ ErrorsRead(rd2.next) = ErrorsRead(rd.next) \cup {e}
        /\ TotalRead(rd2.next) = TotalRead(rd.next)
        /\ e \notin ErrorsRead(rd.next) /\ e \in TotalRead(rd.next) /\ e \in Events
    <2>1. TotalRead(rd.next) \subseteq Events
      BY ReadAreEvents
    <2> QED BY <1>1, <2>1, ReadNext
  <1>3. IsFiniteSet(E2) /\ rd2.errors = Cardinality(E2)
    <2> DEFINE P == {e} \X C
    <2>1. E \cap P = {}
      BY <1>2 DEF Justifies
    <2>2. IsFiniteSet(P) /\ Cardinality(P) = Cardinality(C) /\ E2 = E \cup P
      BY PairedCardinality
    <2>3. IsFiniteSet(E) /\ rd.errors = Cardinality(E)
      BY DEF Justifies
    <2> HIDE DEF E2, P
    <2>4. IsFiniteSet(E2) /\ Cardinality(E2) = Cardinality(E) + Cardinality(P)
      BY <2>1, <2>2, <2>3, DisjointUnion
    <2> QED BY <2>2, <2>3, <2>4
  <1>4. ASSUME NEW o \in E2
        PROVE  \E x \in ErrorsRead(rd2.next) : \E i \in 1 .. Len(occ[x]) :
                 o = <<x, i>> /\ (i <= rd2.before[x] => o \in T)
    <2>1. CASE o \in E
      BY <1>2, <2>1 DEF Justifies
    <2>2. CASE o \in {e} \X C
      <3>1. PICK i \in C : o = <<e, i>>
        BY <2>2
      <3>2. i \in 1 .. Len(occ[e]) /\ place[e][i] \in Buckets
        BY <3>1
      <3>3. ASSUME i <= rd.before[e] PROVE o \in T
        <4>1. i \in 1 .. rd.before[e]
          BY <1>1, <1>2, <3>2, <3>3
        <4> QED BY <1>2, <3>1, <3>2, <4>1 DEF Justifies
      <3> QED BY <1>2, <3>1, <3>2, <3>3
    <2> QED BY <2>1, <2>2
  <1>5. /\ \A o \in T : \E x \in TotalRead(rd2.next) : \E i \in 1 .. Len(occ[x]) :
             o = <<x, i>> /\ rd2.started - occ[x][i] < ForgetAge
        /\ \A x \in TotalRead(rd2.next) : \A i \in 1 .. rd2.before[x] :
             place[x][i] \in Buckets => <<x, i>> \in T
    BY <1>2 DEF Justifies
  <1> HIDE DEF E2
  <1>6. Justifies(rd2, occ, t, place, T, E2)
    BY <1>3, <1>4, <1>5 DEF Justifies
  <1> QED BY <1>6 DEF E2
-----------------------------------------------------------------------------
(* What the steps do to the counters.                                      *)

\* An event's occurrences are numbered from 1.
LEMMA OccurrencesNumbered ==
  ASSUME NEW s \in Seq(Nat)
  PROVE  DOMAIN s = 1 .. Len(s) /\ Len(s) \in Nat /\ s \in [1 .. Len(s) -> Nat]
  OBVIOUS

\* What is no longer counted is not counted again after a visit.
LEMMA PlacesAfter ==
  ASSUME NEW n, NEW O, NEW at, NEW p, NEW t \in Nat, Accounts(n, t, O, at, p),
         NEW i \in O, PlaceAfter(n, t, p)[i] \in Buckets
  PROVE  p[i] \in Buckets
  <1>1. p \in [O -> 0 .. NumBuckets] /\ NumBuckets \notin Buckets
    BY WindowAssumption DEF Accounts, Buckets
  <1> QED BY <1>1 DEF PlaceAfter

\* RollingSum's visit and sum: they count occurrences, all of them young, and
\* none that was not counted before.
LEMMA CountersVisit ==
  ASSUME NEW counters, NEW occ \in [Events -> Seq(Nat)], NEW t \in Nat, NEW place,
         CountersAccount(counters, occ, t, place), NEW e \in Events, e \in DOMAIN counters
  PROVE  LET visited == FindCurrentBucket(counters[e], t)
             place2 == [x \in Events |-> IF x = e THEN PlaceAfter(counters[e], t, place[e])
                                         ELSE place[x]]
             C == {i \in 1 .. Len(occ[e]) : place2[e][i] \in Buckets}
         IN  /\ CountersAccount([counters EXCEPT ![e] = visited], occ, t, place2)
             /\ GoesOn(occ, occ, place, place2)
             /\ IsFiniteSet(C) /\ SumOf(visited) = Cardinality(C)
             /\ \A i \in C : t - occ[e][i] < ForgetAge
  <1> DEFINE n == counters[e]
             visited == FindCurrentBucket(n, t)
             after == PlaceAfter(n, t, place[e])
             place2 == [x \in Events |-> IF x = e THEN after ELSE place[x]]
             O == 1 .. Len(occ[e])
             C == {i \in O : after[i] \in Buckets}
             counters2 == [counters EXCEPT ![e] = visited]
  <1>1. Accounts(n, t, O, occ[e], place[e]) /\ DOMAIN occ[e] = O
    BY OccurrencesNumbered DEF CountersAccount
  <1>2. Accounts(visited, t, O, occ[e], after)
    BY <1>1, AccountsVisit
  <1>3. /\ IsFiniteSet(C) /\ SumOf(visited) = Cardinality(C)
        /\ \A i \in C : t - occ[e][i] < ForgetAge
    <2> DEFINE at == occ[e]
               p == place[e]
    <2>1. Accounts(n, t, O, at, p)
      BY <1>1
    <2> HIDE DEF O, n, at, p
    <2> DEFINE counted == {i \in O : PlaceAfter(n, t, p)[i] \in Buckets}
    <2>2. /\ IsFiniteSet(counted) /\ SumOf(FindCurrentBucket(n, t)) = Cardinality(counted)
          /\ \A i \in counted : p[i] \in Buckets /\ t - at[i] < ForgetAge
      BY <2>1, AccountsSum
    <2>3. C = counted
      BY DEF p
    <2> HIDE DEF counted, C, visited
    <2>4. visited = FindCurrentBucket(n, t)
      BY DEF visited
    <2> QED BY <2>2, <2>3, <2>4 DEF at
  <1>4. \A i \in O : after[i] \in Buckets => place[e][i] \in Buckets
    BY <1>1, PlacesAfter
  <1> HIDE DEF n, visited, after
  <1>5. CountersAccount(counters2, occ, t, place2)
    <2> SUFFICES ASSUME NEW x \in Events
                 PROVE  IF x \in DOMAIN counters2
                        THEN Accounts(counters2[x], t, DOMAIN occ[x], occ[x], place2[x])
                        ELSE occ[x] = << >>
      BY DEF CountersAccount
    <2>1. CASE x = e
      BY <1>1, <1>2, <2>1
    <2>2. CASE x # e
      BY <2>2 DEF CountersAccount
    <2> QED BY <2>1, <2>2
  <1>6. GoesOn(occ, occ, place, place2)
    BY <1>4 DEF GoesOn
  <1>7. place2[e] = after
    OBVIOUS
  <1> HIDE DEF place2, counters2
  <1> QED BY <1>3, <1>5, <1>6, <1>7 DEF visited, n, after, place2, counters2

\* The event e is counted at time t, in a counter made for it if there is none.
Counts(counters, occ, e, t, counters2, occ2) ==
  LET n == IF e \in DOMAIN counters THEN counters[e] ELSE NewRollingNumber(t)
  IN  /\ counters2 = [x \in DOMAIN counters \cup {e} |->
                        IF x = e THEN Incremented(n, t) ELSE counters[x]]
      /\ occ2 = [occ EXCEPT ![e] = Append(@, t)]

\* The counters account for that occurrence, too.
LEMMA CountersIncrement ==
  ASSUME NEW counters, NEW occ \in [Events -> Seq(Nat)], NEW t \in Nat, NEW place,
         CountersAccount(counters, occ, t, place), NEW e \in Events,
         NEW counters2, NEW occ2, Counts(counters, occ, e, t, counters2, occ2)
  PROVE  /\ occ2 \in [Events -> Seq(Nat)]
         /\ \E place2 : CountersAccount(counters2, occ2, t, place2) /\ GoesOn(occ, occ2, place, place2)
  <1> DEFINE n == IF e \in DOMAIN counters THEN counters[e] ELSE NewRollingNumber(t)
             k == Len(occ[e])
             O == 1 .. k
             x1 == k + 1
  <1>1. DOMAIN occ[e] = O /\ k \in Nat /\ occ[e] \in [O -> Nat]
    BY OccurrencesNumbered
  <1>2. \E p : Accounts(n, t, O, occ[e], p) /\ \A i \in O : p[i] = place[e][i]
    <2>1. CASE e \in DOMAIN counters
      <3>1. Accounts(n, t, O, occ[e], place[e])
        BY <1>1, <2>1 DEF CountersAccount
      <3> HIDE DEF O
      <3> QED BY <3>1
    <2>2. CASE e \notin DOMAIN counters
      <3>1. k = 0
        BY <2>2 DEF CountersAccount
      <3>2. O = {}
        BY <3>1
      <3> DEFINE p == [i \in {} |-> 0]
      <3>3. p \in [{} -> 0 .. NumBuckets] /\ occ[e] \in [{} -> Nat]
        BY <1>1, <3>2
      <3> HIDE DEF p, O
      <3>4. Accounts(n, t, {}, occ[e], p)
        BY <2>2, <3>3, AccountsNew
      <3> QED BY <3>2, <3>4
    <2> QED BY <2>1, <2>2
  <1>3. PICK p : Accounts(n, t, O, occ[e], p) /\ \A i \in O : p[i] = place[e][i]
    BY <1>2
  <1> HIDE DEF n
  <1> DEFINE c == FindCurrentBucket(n, t).currentBucket
             after == PlaceAfter(n, t, p)
             p2 == [i \in O \cup {x1} |-> IF i = x1 THEN c ELSE after[i]]
             at2 == [i \in O \cup {x1} |-> IF i = x1 THEN t ELSE occ[e][i]]
             place2 == [x \in Events |-> IF x = e THEN p2 ELSE place[x]]
  <1>4. x1 \notin O /\ O \cup {x1} = 1 .. k + 1
    BY <1>1
  <1>5. Accounts(Incremented(n, t), t, O \cup {x1}, at2, p2)
    <2>1. p \in [O -> 0 .. NumBuckets] /\ n \in RollingNumbers
      BY <1>3 DEF Accounts
    <2>2. c \in 0 .. NumBuckets
      <3>1. FindCurrentBucket(n, t) \in RollingNumbers
        BY <2>1, VisitTyped
      <3> QED BY <3>1, WindowAssumption DEF RollingNumbers, Buckets
    <2>3. after \in [O -> 0 .. NumBuckets]
      BY <2>1, WindowAssumption DEF PlaceAfter
    <2> HIDE DEF c, after
    <2>4. /\ at2 \in [O \cup {x1} -> Nat] /\ at2[x1] = t /\ \A i \in O : at2[i] = occ[e][i]
          /\ p2 \in [O \cup {x1} -> 0 .. NumBuckets] /\ p2[x1] = c
          /\ \A i \in O : p2[i] = after[i]
      BY <1>1, <1>4, <2>2, <2>3
    <2> HIDE DEF O, x1, at2, p2
    <2> QED BY <1>3, <1>4, <2>4, AccountsIncrement DEF after, c
  <1>6. Append(occ[e], t) = at2 /\ DOMAIN Append(occ[e], t) = O \cup {x1}
    <2>1. /\ Append(occ[e], t) \in Seq(Nat) /\ Len(Append(occ[e], t)) = k + 1
          /\ \A i \in 1 .. k + 1 : Append(occ[e], t)[i] = IF i = k + 1 THEN t ELSE occ[e][i]
      OBVIOUS
    <2>2. Append(occ[e], t) \in [1 .. k + 1 -> Nat] /\ DOMAIN Append(occ[e], t) = 1 .. k + 1
      BY <2>1, OccurrencesNumbered
    <2>3. \A i \in 1 .. k + 1 : at2[i] = Append(occ[e], t)[i]
      BY <1>4, <2>1
    <2>4. at2 = [i \in 1 .. k + 1 |-> at2[i]]
      BY <1>4
    <2> HIDE DEF at2
    <2> QED BY <1>4, <2>2, <2>3, <2>4
  <1>7. \A i \in O : p2[i] \in Buckets => place[e][i] \in Buckets
    <2> SUFFICES ASSUME NEW i \in O, p2[i] \in Buckets PROVE place[e][i] \in Buckets
      OBVIOUS
    <2>1. p2[i] = after[i]
      BY <1>4
    <2> HIDE DEF O
    <2> QED BY <1>3, <2>1, PlacesAfter
  <1> HIDE DEF p2, at2, O, x1, after, c
  <1>11. /\ counters2 = [x \in DOMAIN counters \cup {e} |->
                           IF x = e THEN Incremented(n, t) ELSE counters[x]]
         /\ occ2 = [occ EXCEPT ![e] = Append(@, t)]
    BY DEF Counts, n
  <1>8. CountersAccount(counters2, occ2, t, place2)
    <2> SUFFICES ASSUME NEW x \in Events
                 PROVE  IF x \in DOMAIN counters2
                        THEN Accounts(counters2[x], t, DOMAIN occ2[x], occ2[x], place2[x])
                        ELSE occ2[x] = << >>
      BY DEF CountersAccount
    <2>1. CASE x = e
      BY <1>5, <1>6, <1>11, <2>1
    <2>2. CASE x # e
      BY <1>11, <2>2 DEF CountersAccount
    <2> QED BY <2>1, <2>2
  <1>9. occ2 \in [Events -> Seq(Nat)]
    BY <1>11
  <1>10. GoesOn(occ, occ2, place, place2)
    <2> SUFFICES ASSUME NEW x \in Events
                 PROVE  /\ Len(occ[x]) <= Len(occ2[x])
                        /\ \A i \in 1 .. Len(occ[x]) :
                             /\ occ2[x][i] = occ[x][i]
                             /\ place2[x][i] \in Buckets => place[x][i] \in Buckets
      BY DEF GoesOn
    <2>1. CASE x = e
      <3>1. occ2[x] = Append(occ[x], t) /\ occ[x] \in Seq(Nat)
        BY <1>11, <2>1
      <3>2. \A i \in 1 .. Len(occ[x]) : place2[x][i] \in Buckets => place[x][i] \in Buckets
        BY <1>7, <2>1 DEF O
      <3> HIDE DEF place2
      <3> QED BY <3>1, <3>2
    <2>2. CASE x # e
      BY <1>11, <2>2
    <2> QED BY <2>1, <2>2
  <1> HIDE DEF place2
  <1> QED BY <1>8, <1>9, <1>10
-----------------------------------------------------------------------------
(* Every step keeps the reads justified.                                   *)

\* A read under way stays justified while others count and visit.
LEMMA ReadLater ==
  ASSUME NEW rds \in [Readers -> Reads], NEW pcs,
         NEW occ \in [Events -> Seq(Nat)], NEW occ2 \in [Events -> Seq(Nat)],
         NEW t \in Nat, NEW t2 \in Nat, t <= t2, NEW place, NEW place2,
         ReadsJustified(rds, pcs, occ, t, place), GoesOn(occ, occ2, place, place2),
         NEW r \in Readers, pcs[r] \in {"lookup", "sum", "done"}, NEW rd, rd = rds[r]
  PROVE  \E T, E : Justifies(rd, occ2, t2, place2, T, E)
  <1>1. rd \in Reads
    OBVIOUS
  <1>2. PICK T, E : Justifies(rd, occ, t, place, T, E)
    BY DEF ReadsJustified
  <1>3. Justifies(rd, occ2, t2, place2, T, E)
    BY <1>1, <1>2, JustifiedLater
  <1> QED BY <1>3

\* What has not changed goes on.
LEMMA GoesOnItself ==
  ASSUME NEW occ \in [Events -> Seq(Nat)], NEW place
  PROVE  GoesOn(occ, occ, place, place)
  BY DEF GoesOn

\* fetchMetrics: no counters, no occurrences, no reads.
LEMMA JustifiedInit == Init => Justified
  <1> SUFFICES ASSUME Init PROVE Justified
    OBVIOUS
  <1>1. CountersAccount(eventCounters, occurred, now, 0)
    BY DEF Init, CountersAccount
  <1>2. ReadsJustified(read, pc, occurred, now, 0)
    BY DEF Init, ReadsJustified
  <1> QED BY <1>1, <1>2 DEF Justified

\* Steps that count nothing and read nothing, and the passing of time.
LEMMA JustifiedElsewhere ==
  ASSUME TypeOK, TypeOK', Justified, now <= now', UNCHANGED <<eventCounters, occurred, read>>,
         \A r \in Readers : pc'[r] \in {"lookup", "sum", "done"} =>
           pc[r] \in {"lookup", "sum", "done"}
  PROVE  Justified'
  <1>1. /\ now \in Nat /\ now' \in Nat /\ read \in [Readers -> Reads]
        /\ occurred \in [Events -> Seq(Nat)]
    BY DEF TypeOK
  <1>2. PICK place : /\ CountersAccount(eventCounters, occurred, now, place)
                     /\ ReadsJustified(read, pc, occurred, now, place)
    BY DEF Justified
  <1>3. CountersAccount(eventCounters, occurred, now', place)
    BY <1>1, <1>2, AccountsLater DEF CountersAccount
  <1>4. ReadsJustified(read, pc', occurred, now', place)
    <2>1. ASSUME NEW r \in Readers, pc'[r] \in {"lookup", "sum", "done"}
          PROVE  \E T, E : Justifies(read[r], occurred, now', place, T, E)
      <3>1. GoesOn(occurred, occurred, place, place) /\ pc[r] \in {"lookup", "sum", "done"}
        BY <1>1, <2>1, GoesOnItself
      <3> QED BY <1>1, <1>2, <3>1, ReadLater
    <2> QED BY <2>1 DEF ReadsJustified
  <1> QED BY <1>3, <1>4 DEF Justified

\* An event is counted.
LEMMA JustifiedCount ==
  ASSUME IInv, Justified, NEW w \in Workers, CountEvent(w)
  PROVE  Justified'
  <1> DEFINE e == Head(update[w].todo)
             n == Counter(e)
  <1>0. TypeOK /\ Pending /\ Reading
    BY DEF IInv
  <1>1. /\ now \in Nat /\ read \in [Readers -> Reads] /\ occurred \in [Events -> Seq(Nat)]
        /\ e \in Events
    <2>1. update[w].todo \in Seq(Events) /\ update[w].todo # << >>
      BY <1>0 DEF CountEvent, Pending, TypeOK, Updates
    <2>2. e \in Events
      BY <2>1
    <2> QED BY <1>0, <2>2 DEF TypeOK
  <1>2. PICK place : /\ CountersAccount(eventCounters, occurred, now, place)
                     /\ ReadsJustified(read, pc, occurred, now, place)
    BY DEF Justified
  <1> HIDE DEF e
  <1>3. /\ eventCounters' = [x \in DOMAIN eventCounters \cup {e} |->
                               IF x = e THEN Incremented(n, now) ELSE eventCounters[x]]
        /\ occurred' = [occurred EXCEPT ![e] = Append(@, now)]
        /\ now' = now /\ read' = read /\ pc[w] = "count"
        /\ \E label \in {"count", "idle", "find"} : pc' = [pc EXCEPT ![w] = label]
    BY DEF CountEvent, Goto, At, e
  <1>4. n = IF e \in DOMAIN eventCounters THEN eventCounters[e] ELSE NewRollingNumber(now)
    BY DEF Counter
  <1> HIDE DEF n
  <1>5. /\ occurred' \in [Events -> Seq(Nat)]
        /\ \E place2 : /\ CountersAccount(eventCounters', occurred', now, place2)
                       /\ GoesOn(occurred, occurred', place, place2)
    <2> DEFINE counters == eventCounters
               counters2 == eventCounters'
               occ == occurred
               occ2 == occurred'
               t == now
    <2>1. /\ Counts(counters, occ, e, t, counters2, occ2)
          /\ occ \in [Events -> Seq(Nat)] /\ t \in Nat /\ e \in Events
          /\ CountersAccount(counters, occ, t, place)
      BY <1>1, <1>2, <1>3, <1>4 DEF Counts
    <2> HIDE DEF counters, counters2, occ, occ2, t
    <2>2. /\ occ2 \in [Events -> Seq(Nat)]
          /\ \E place2 : CountersAccount(counters2, occ2, t, place2) /\ GoesOn(occ, occ2, place, place2)
      BY <2>1, CountersIncrement
    <2> QED BY <2>2 DEF counters, counters2, occ, occ2, t
  <1>6. PICK place2 : /\ CountersAccount(eventCounters', occurred', now, place2)
                      /\ GoesOn(occurred, occurred', place, place2)
    BY <1>5
  <1>7. \A r \in Readers : pc'[r] \in {"lookup", "sum", "done"} =>
          pc[r] \in {"lookup", "sum", "done"} /\ read'[r] = read[r]
    BY <1>0, <1>3 DEF TypeOK
  <1>8. ReadsJustified(read', pc', occurred', now, place2)
    <2>1. ASSUME NEW r \in Readers, pc'[r] \in {"lookup", "sum", "done"}
          PROVE  \E T, E : Justifies(read'[r], occurred', now, place2, T, E)
      <3>1. pc[r] \in {"lookup", "sum", "done"} /\ read'[r] = read[r]
        BY <1>7, <2>1
      <3>2. occurred' \in [Events -> Seq(Nat)]
        BY <1>5
      <3>3. now <= now
        BY <1>1
      <3>4. \E T, E : Justifies(read[r], occurred', now, place2, T, E)
        BY <1>1, <1>2, <1>6, <3>1, <3>2, <3>3, ReadLater
      <3> QED BY <3>1, <3>4
    <2> QED BY <2>1 DEF ReadsJustified
  <1> QED BY <1>3, <1>6, <1>8 DEF Justified

\* A read begins, or ends.
LEMMA JustifiedBegin ==
  ASSUME IInv, Justified, NEW r \in Readers, BeginRead(r) \/ EndRead(r)
  PROVE  Justified'
  <1>0. TypeOK /\ Reading
    BY DEF IInv
  <1>1. /\ now \in Nat /\ read \in [Readers -> Reads] /\ occurred \in [Events -> Seq(Nat)]
    BY <1>0 DEF TypeOK
  <1>2. PICK place : /\ CountersAccount(eventCounters, occurred, now, place)
                     /\ ReadsJustified(read, pc, occurred, now, place)
    BY DEF Justified
  <1>3. /\ UNCHANGED <<eventCounters, occurred, now>>
        /\ \A g \in Readers \ {r} : pc'[g] = pc[g] /\ read'[g] = read[g]
    BY <1>0 DEF BeginRead, EndRead, metrics, history, Goto, TypeOK
  <1>4. ASSUME NEW g \in Readers \ {r}, pc'[g] \in {"lookup", "sum", "done"}
        PROVE  \E T, E : Justifies(read'[g], occurred, now, place, T, E)
    BY <1>2, <1>3, <1>4 DEF ReadsJustified
  <1>5. pc'[r] \in {"lookup", "sum", "done"} =>
          \E T, E : Justifies(read'[r], occurred, now, place, T, E)
    <2>1. CASE BeginRead(r)
      <3> DEFINE before == [e \in Events |-> Len(occurred[e])]
                 new == [NoRead EXCEPT !.started = now, !.before = before]
      <3>1. before \in [Events -> Nat]
        BY <1>1
      <3>2. read[r] = NoRead
        BY <1>0, <2>1 DEF BeginRead, Reading, At
      <3>3. read' = [read EXCEPT ![r] = new]
        BY <1>1, <2>1, <3>2 DEF BeginRead
      <3>4. read'[r] = new /\ new.before = before
        BY <1>1, <3>3
      <3> HIDE DEF before
      <3>5. /\ new \in Reads /\ new.next = 1 /\ new.total = 0 /\ new.errors = 0
            /\ new.started = now /\ new.before = before
        BY <1>1, <3>1, BegunTyped
      <3> HIDE DEF new
      <3>6. Justifies(new, occurred, now, place, {}, {})
        BY <1>1, <3>5, JustifiedAtFirst DEF before
      <3> QED BY <3>4, <3>6
    <2>2. CASE EndRead(r)
      BY <1>0, <2>2 DEF EndRead, Goto, TypeOK
    <2> QED BY <2>1, <2>2
  <1>6. ReadsJustified(read', pc', occurred, now, place)
    BY <1>4, <1>5 DEF ReadsJustified
  <1> QED BY <1>2, <1>3, <1>6 DEF Justified

\* A sum joins the total or the errors: the read stays justified.
LEMMA SumJustified ==
  ASSUME TypeOK, Reading, NEW r \in Readers, At(r, "lookup") \/ At(r, "sum"),
         NEW place, NEW C, Counted(ReadEvents[read[r].next], occurred, now, place, C),
         SumRead(r, Cardinality(C)), NEW T, NEW E, Justifies(read[r], occurred, now, place, T, E)
  PROVE  \E T2, E2 : Justifies(read'[r], occurred, now, place, T2, E2)
  <1> DEFINE rd == read[r]
             rd2 == read'[r]
             value == Cardinality(C)
             e == ReadEvents[read[r].next]
  <1>1. /\ now \in Nat /\ read \in [Readers -> Reads] /\ occurred \in [Events -> Seq(Nat)]
        /\ rd \in Reads /\ rd.next \in Nat \ {0} /\ rd.next <= Len(ReadEvents)
    BY DEF TypeOK, Reading, Reads
  <1>2. value \in Nat
    BY FS_CardinalityType DEF Counted
  <1>3. rd2 \in Reads
    <2>1. read' \in [Readers -> Reads]
      BY <1>2, SumReadType
    <2> QED BY <2>1
  <1>4. rd2 = [rd EXCEPT !.next = rd.next + 1,
                         !.total = IF rd.next <= Len(TotalEvents) THEN rd.total + value ELSE rd.total,
                         !.errors = IF rd.next <= Len(TotalEvents) THEN rd.errors ELSE rd.errors + value]
    BY <1>1 DEF SumRead
  <1>5. /\ rd2.next = rd.next + 1 /\ rd2.started = rd.started /\ rd2.before = rd.before
        /\ rd2.total = IF rd.next <= Len(TotalEvents) THEN rd.total + value ELSE rd.total
        /\ rd2.errors = IF rd.next <= Len(TotalEvents) THEN rd.errors ELSE rd.errors + value
    BY <1>1, <1>4 DEF Reads
  <1>6. Counted(e, occurred, now, place, C) /\ Justifies(rd, occurred, now, place, T, E)
    OBVIOUS
  <1> HIDE DEF rd, rd2, e
  <1>7. CASE rd.next <= Len(TotalEvents)
    <2>1. e = TotalEvents[rd.next]
      BY <1>1, <1>7, ReadOrder DEF e, rd
    <2>2. rd2.total = rd.total + Cardinality(C) /\ rd2.errors = rd.errors
      BY <1>5, <1>7
    <2>3. Justifies(rd2, occurred, now, place, T \cup ({e} \X C), E)
      BY <1>1, <1>3, <1>5, <1>6, <1>7, <2>1, <2>2, JustifiedTotal
    <2> QED BY <2>3 DEF rd2
  <1>8. CASE rd.next > Len(TotalEvents)
    <2>1. e = ErrorEvents[rd.next - Len(TotalEvents)]
      <3>1. rd.next - Len(TotalEvents) \in 1 .. Len(ErrorEvents)
        BY <1>1, <1>8, ReadOrder
      <3>2. Len(TotalEvents) + (rd.next - Len(TotalEvents)) = rd.next
        BY <1>1, ReadOrder
      <3> QED BY <3>1, <3>2, ReadOrder DEF e, rd
    <2>2. rd2.errors = rd.errors + Cardinality(C) /\ rd2.total = rd.total
      BY <1>1, <1>5, <1>8, ReadOrder
    <2>3. Justifies(rd2, occurred, now, place, T, E \cup ({e} \X C))
      BY <1>1, <1>3, <1>5, <1>6, <1>8, <2>1, <2>2, JustifiedErrors
    <2> QED BY <2>3 DEF rd2
  <1> QED BY <1>1, <1>7, <1>8, ReadOrder

\* So does every read.
LEMMA SumStepJustified ==
  ASSUME TypeOK, Reading, NEW r \in Readers, At(r, "lookup") \/ At(r, "sum"),
         NEW place, ReadsJustified(read, pc, occurred, now, place),
         NEW place2, GoesOn(occurred, occurred, place, place2),
         CountersAccount(eventCounters', occurred, now, place2),
         NEW C, Counted(ReadEvents[read[r].next], occurred, now, place2, C),
         SumRead(r, Cardinality(C)), UNCHANGED <<occurred, now>>
  PROVE  Justified'
  <1>1. /\ now \in Nat /\ now <= now /\ read \in [Readers -> Reads]
        /\ occurred \in [Events -> Seq(Nat)] /\ pc[r] \in {"lookup", "sum", "done"}
    BY DEF TypeOK, At
  <1>2. \A g \in Readers : g # r => pc'[g] = pc[g] /\ read'[g] = read[g]
    BY DEF SumRead, Goto, TypeOK
  <1>3. ASSUME NEW g \in Readers, pc[g] \in {"lookup", "sum", "done"}
        PROVE  \E T, E : Justifies(read[g], occurred, now, place2, T, E)
    BY <1>1, <1>3, ReadLater
  <1>4. ASSUME NEW g \in Readers, pc'[g] \in {"lookup", "sum", "done"}
        PROVE  \E T, E : Justifies(read'[g], occurred, now, place2, T, E)
    <2>1. CASE g = r
      <3>1. PICK T, E : Justifies(read[r], occurred, now, place2, T, E)
        BY <1>1, <1>3
      <3> QED BY <2>1, <3>1, SumJustified
    <2>2. CASE g # r
      BY <1>2, <1>3, <1>4, <2>2
    <2> QED BY <2>1, <2>2
  <1>5. ReadsJustified(read', pc', occurred, now, place2)
    BY <1>4 DEF ReadsJustified
  <1> QED BY <1>5 DEF Justified

\* A counter is looked up, or summed.
LEMMA JustifiedSum ==
  ASSUME IInv, TypeOK', Justified, NEW r \in Readers, Lookup(r) \/ SumCounter(r)
  PROVE  Justified'
  <1> DEFINE e == ReadEvents[read[r].next]
  <1>0. TypeOK /\ Reading
    BY DEF IInv
  <1>1. /\ now \in Nat /\ occurred \in [Events -> Seq(Nat)] /\ read \in [Readers -> Reads]
        /\ e \in Events
    <2>1. At(r, "lookup") \/ At(r, "sum")
      BY DEF Lookup, SumCounter
    <2>2. read[r].next <= Len(ReadEvents)
      BY <1>0, <2>1 DEF Reading
    <2>3. read[r] \in Reads
      BY <1>0 DEF TypeOK
    <2>4. read[r].next \in 1 .. Len(ReadEvents)
      BY <2>2, <2>3, ReadOrder DEF Reads
    <2>5. ReadEvents \in Seq(Events)
      BY ReadOrder
    <2>6. e \in Events
      BY <2>4, <2>5
    <2> QED BY <1>0, <2>6 DEF TypeOK
  <1>2. PICK place : /\ CountersAccount(eventCounters, occurred, now, place)
                     /\ ReadsJustified(read, pc, occurred, now, place)
    BY DEF Justified
  <1>3. CASE Lookup(r) /\ e \in DOMAIN eventCounters
    <2>1. /\ pc[r] = "lookup" /\ pc' = [pc EXCEPT ![r] = "sum"]
          /\ UNCHANGED <<eventCounters, occurred, read, now>>
      BY <1>3 DEF Lookup, At, Goto, metrics, history
    <2>2. now <= now'
      BY <1>1, <2>1
    <2>3. \A g \in Readers : pc'[g] \in {"lookup", "sum", "done"} =>
            pc[g] \in {"lookup", "sum", "done"}
      BY <1>0, <2>1 DEF TypeOK
    <2> QED BY <1>0, <2>1, <2>2, <2>3, JustifiedElsewhere
  <1>4. CASE Lookup(r) /\ e \notin DOMAIN eventCounters
    <2>1. occurred[e] = << >>
      BY <1>1, <1>2, <1>4 DEF CountersAccount
    <2>2. Counted(e, occurred, now, place, {})
      <3>1. {i \in 1 .. Len(occurred[e]) : place[e][i] \in Buckets} = {}
        BY <2>1
      <3> QED BY <3>1, FS_EmptySet DEF Counted
    <2>3. SumRead(r, Cardinality({})) /\ At(r, "lookup") /\ UNCHANGED <<eventCounters, occurred, now>>
      BY <1>4, FS_EmptySet DEF Lookup, metrics, history
    <2>4. GoesOn(occurred, occurred, place, place)
      BY <1>1, GoesOnItself
    <2> HIDE DEF e
    <2>5. CountersAccount(eventCounters', occurred, now, place)
      BY <1>2, <2>3
    <2> QED BY <1>0, <1>2, <2>2, <2>3, <2>4, <2>5, SumStepJustified DEF e
  <1>5. CASE SumCounter(r)
    <2> DEFINE visited == FindCurrentBucket(eventCounters[e], now)
               place2 == [x \in Events |-> IF x = e THEN PlaceAfter(eventCounters[e], now, place[e])
                                           ELSE place[x]]
               C == {i \in 1 .. Len(occurred[e]) : place2[e][i] \in Buckets}
    <2>1. e \in DOMAIN eventCounters /\ At(r, "sum")
      BY <1>0, <1>5 DEF SumCounter, Reading
    <2>2. /\ eventCounters' = [eventCounters EXCEPT ![e] = visited]
          /\ SumRead(r, SumOf(visited)) /\ UNCHANGED <<occurred, now>>
      <3>1. /\ eventCounters' = [eventCounters EXCEPT ![e] = visited]
            /\ SumRead(r, SumOf(eventCounters'[e])) /\ UNCHANGED <<occurred, now>>
        BY <1>5 DEF SumCounter, history
      <3>2. eventCounters'[e] = visited
        BY <2>1, <3>1
      <3> QED BY <3>1, <3>2
    <2> HIDE DEF e
    <2>3. /\ CountersAccount([eventCounters EXCEPT ![e] = visited], occurred, now, place2)
          /\ GoesOn(occurred, occurred, place, place2)
          /\ IsFiniteSet(C) /\ SumOf(visited) = Cardinality(C)
          /\ \A i \in C : now - occurred[e][i] < ForgetAge
      BY <1>1, <1>2, <2>1, CountersVisit
    <2>4. Counted(e, occurred, now, place2, C)
      BY <2>3 DEF Counted
    <2>5. CountersAccount(eventCounters', occurred, now, place2) /\ SumRead(r, Cardinality(C))
      <3> HIDE DEF C, visited, place2
      <3> QED BY <2>2, <2>3
    <2> HIDE DEF place2, C, visited
    <2> QED BY <1>0, <1>2, <2>1, <2>2, <2>3, <2>4, <2>5, SumStepJustified DEF e
  <1> QED BY <1>3, <1>4, <1>5

\* That the reads are justified is inductive relative to IInv: whatever worker,
\* reader or clock takes the next step, there are again places, and sets of
\* occurrences that every read under way has counted.
THEOREM JustifiedStep == IInv /\ Justified /\ [Next]_vars => Justified'
  <1> SUFFICES ASSUME IInv, Justified, [Next]_vars PROVE Justified'
    OBVIOUS
  <1>0. TypeOK /\ TypeOK' /\ now \in Nat
    <2>1. IInv'
      BY StepPreserves
    <2> QED BY <2>1 DEF IInv, TypeOK
  <1>1. CASE \E w \in Workers : CountEvent(w)
    BY <1>1, JustifiedCount
  <1>2. CASE \E r \in Readers : BeginRead(r) \/ EndRead(r)
    BY <1>2, JustifiedBegin
  <1>3. CASE \E r \in Readers : Lookup(r) \/ SumCounter(r)
    BY <1>0, <1>3, JustifiedSum
  <1>4. CASE \/ \E w \in Workers : BeginUpdate(w) \/ FindBucket(w) \/ StoreValue(w)
             \/ \E r \in Readers : GetOrMean(r)
             \/ Tick \/ UNCHANGED vars
    <2>1. UNCHANGED <<eventCounters, occurred, read>>
      BY <1>4 DEF BeginUpdate, FindBucket, StoreValue, GetOrMean, Tick, vars, metrics, history
    <2>2. now <= now'
      <3>1. now' = now \/ now' = now + 1
        BY <1>4 DEF BeginUpdate, FindBucket, StoreValue, GetOrMean, Tick, vars
      <3> QED BY <1>0, <3>1
    <2>3. \A r \in Readers : pc'[r] \in {"lookup", "sum", "done"} =>
            pc[r] \in {"lookup", "sum", "done"}
      BY <1>0, <1>4 DEF BeginUpdate, FindBucket, StoreValue, GetOrMean, Tick, vars, Goto, TypeOK
    <2> QED BY <1>0, <2>1, <2>2, <2>3, JustifiedElsewhere
  <1> QED BY <1>1, <1>2, <1>3, <1>4 DEF Next

\* RollingSum's counters and reads (commandmetrics.go:60-83) are justified in
\* every state, though nothing in the code records what was counted where.
THEOREM ReadsAreJustified == Spec => []Justified
  BY Inductive, JustifiedInit, JustifiedStep, PTL DEF Spec
-----------------------------------------------------------------------------
(* What follows for the reader.                                            *)

\* A sequence names finitely many things, and they occurred finitely often.
LEMMA OccurrencesFinite ==
  ASSUME NEW s \in Seq(Events), NEW n \in [Events -> Nat]
  PROVE  IsFiniteSet(Occurrences(ToSet(s), n))
  <1> DEFINE D == 1 .. Len(s)
             part == [i \in D |-> {s[i]} \X (1 .. n[s[i]])]
             Parts == {part[i] : i \in D}
  <1>1. IsFiniteSet(D) /\ DOMAIN s = D
    <2>1. 1 \in Int /\ Len(s) \in Int
      OBVIOUS
    <2>2. IsFiniteSet(D)
      BY <2>1, FS_Interval
    <2> QED BY <2>2
  <1>2. IsFiniteSet(Parts)
    <2>1. part \in Surjection(D, Parts)
      BY DEF Surjection
    <2> QED BY <1>1, <2>1, FS_Surjection
  <1>3. ASSUME NEW P \in Parts PROVE IsFiniteSet(P)
    <2>1. PICK i \in D : P = {s[i]} \X (1 .. n[s[i]])
      OBVIOUS
    <2> DEFINE k == n[s[i]]
    <2>2. 1 \in Int /\ k \in Int /\ P = {s[i]} \X (1 .. k)
      BY <1>1, <2>1
    <2> HIDE DEF k
    <2>3. IsFiniteSet(1 .. k)
      BY <2>2, FS_Interval
    <2> QED BY <2>2, <2>3, PairedCardinality
  <1>4. Occurrences(ToSet(s), n) = UNION Parts
    BY <1>1 DEF Occurrences, ToSet
  <1> HIDE DEF Parts
  <1> QED BY <1>2, <1>3, <1>4, FS_UNION

\* An occurrence is one of its event's.
LEMMA OccurrencesAre ==
  ASSUME NEW events, NEW n, NEW o \in Occurrences(events, n)
  PROVE  \E e \in events : \E i \in 1 .. n[e] : o = <<e, i>> /\ o[1] = e /\ o[2] = i
  BY DEF Occurrences

\* A read that has ended is of all the counters of the total.
LEMMA EndedReads ==
  ASSUME IInv, NEW r \in Readers, pc[r] = "done"
  PROVE  /\ read[r] \in Reads /\ TotalRead(read[r].next) = ToSet(TotalEvents)
         /\ ErrorsRead(read[r].next) \subseteq ToSet(ErrorEvents)
  <1>1. read[r] \in Reads /\ read[r].next > Len(TotalEvents)
    BY DEF IInv, TypeOK, Reading, At
  <1>2. read[r].next \in Nat \ {0}
    BY <1>1 DEF Reads
  <1>3. TotalRead(read[r].next) = ToSet(TotalEvents)
    BY <1>1, <1>2, ReadNext
  <1>4. ErrorsRead(read[r].next) \subseteq ToSet(ErrorEvents)
    BY DEF ErrorsRead, ToSet
  <1> QED BY <1>1, <1>3, <1>4

\* TotalRequests (commandmetrics.go:60-67) counts every request that was
\* reported before the read began and is no older than KeepAge, and none that
\* was ForgetAge old by then: what a read has summed lies between the two sets.
THEOREM TotalCountsRecent == Spec => []TotalIsJustified
  <1>1. ASSUME IInv, Justified PROVE TotalIsJustified
    <2> SUFFICES ASSUME NEW r \in Readers, pc[r] = "done"
                 PROVE  LET events == ToSet(TotalEvents)
                            must == {o \in Occurrences(events, read[r].before) :
                                       now - When(o) <= KeepAge}
                            may  == {o \in Occurrences(events, SoFar) :
                                       read[r].started - When(o) < ForgetAge}
                        IN  /\ Cardinality(must) <= read[r].total
                            /\ read[r].total <= Cardinality(may)
      BY DEF TotalIsJustified
    <2> DEFINE events == ToSet(TotalEvents)
               must == {o \in Occurrences(events, read[r].before) : now - When(o) <= KeepAge}
               may  == {o \in Occurrences(events, SoFar) :
                          read[r].started - When(o) < ForgetAge}
    <2>1. PICK place : /\ CountersAccount(eventCounters, occurred, now, place)
                       /\ ReadsJustified(read, pc, occurred, now, place)
      BY <1>1 DEF Justified
    <2>2. PICK T, E : Justifies(read[r], occurred, now, place, T, E)
      BY <2>1 DEF ReadsJustified
    <2>3. /\ occurred \in [Events -> Seq(Nat)] /\ now \in Nat /\ SoFar \in [Events -> Nat]
          /\ read[r] \in Reads /\ TotalRead(read[r].next) = events /\ events \subseteq Events
      <3>1. read[r] \in Reads /\ TotalRead(read[r].next) = events
        BY <1>1, EndedReads
      <3>2. occurred \in [Events -> Seq(Nat)] /\ now \in Nat
        BY <1>1 DEF IInv, TypeOK
      <3>3. SoFar \in [Events -> Nat]
        BY <3>2 DEF SoFar
      <3>4. events \subseteq Events
        BY <3>1, ReadAreEvents
      <3> QED BY <3>1, <3>2, <3>3, <3>4
    <2>4. must \subseteq T
      <3> SUFFICES ASSUME NEW o \in Occurrences(events, read[r].before),
                          now - When(o) <= KeepAge
                   PROVE  o \in T
        OBVIOUS
      <3>1. PICK e \in events : \E i \in 1 .. read[r].before[e] :
                   o = <<e, i>> /\ o[1] = e /\ o[2] = i
        BY OccurrencesAre
      <3>2. PICK i \in 1 .. read[r].before[e] : o = <<e, i>> /\ o[1] = e /\ o[2] = i
        BY <3>1
      <3>3. e \in Events /\ occurred[e] \in Seq(Nat) /\ i \in 1 .. Len(occurred[e])
        <4>1. e \in Events /\ occurred[e] \in Seq(Nat) /\ read[r].before[e] \in Nat
          BY <2>3 DEF Reads
        <4>2. read[r].before[e] <= Len(occurred[e])
          BY <2>2, <4>1 DEF Justifies
        <4> QED BY <4>1, <4>2
      <3>4. /\ DOMAIN occurred[e] = 1 .. Len(occurred[e]) /\ occurred[e] # << >>
            /\ occurred[e][i] \in Nat
        BY <3>3
      <3>5. Accounts(eventCounters[e], now, DOMAIN occurred[e], occurred[e], place[e])
        BY <2>1, <3>3, <3>4 DEF CountersAccount
      <3>6. When(o) = occurred[e][i]
        BY <3>2 DEF When
      <3> DEFINE at == occurred[e][i]
      <3>7. ~ (now - at > KeepAge)
        <4>1. KeepAge \in Int /\ now - at <= KeepAge
          BY <3>6, BucketSizePositive, WindowAssumption DEF KeepAge
        <4>2. now \in Nat /\ at \in Nat
          BY <2>3, <3>4
        <4> HIDE DEF at
        <4> QED BY <4>1, <4>2
      <3>8. place[e][i] \in 0 .. NumBuckets /\ place[e][i] # NumBuckets
        BY <3>3, <3>4, <3>5, <3>7 DEF Accounts
      <3>9. place[e][i] \in Buckets
        BY <3>8, WindowAssumption DEF Buckets
      <3> QED BY <2>2, <2>3, <3>2, <3>9 DEF Justifies
    <2>5. T \subseteq may
      <3> SUFFICES ASSUME NEW o \in T PROVE o \in may
        OBVIOUS
      <3>1. PICK e \in events : \E i \in 1 .. Len(occurred[e]) :
                   o = <<e, i>> /\ read[r].started - occurred[e][i] < ForgetAge
        BY <2>2, <2>3 DEF Justifies
      <3>2. PICK i \in 1 .. Len(occurred[e]) :
                   o = <<e, i>> /\ read[r].started - occurred[e][i] < ForgetAge
        BY <3>1
      <3>3. When(o) = occurred[e][i] /\ i \in 1 .. SoFar[e]
        BY <2>3, <3>2 DEF When, SoFar
      <3>4. o \in Occurrences(events, SoFar)
        BY <3>2, <3>3 DEF Occurrences
      <3> QED BY <3>2, <3>3, <3>4
    <2>6. IsFiniteSet(may)
      <3>1. IsFiniteSet(Occurrences(events, SoFar))
        BY <2>3, EventsOnce, OccurrencesFinite
      <3> QED BY <3>1, FS_Subset
    <2>7. IsFiniteSet(T) /\ read[r].total = Cardinality(T)
      BY <2>2 DEF Justifies
    <2> HIDE DEF must, may
    <2>8. Cardinality(must) <= Cardinality(T) /\ Cardinality(T) <= Cardinality(may)
      BY <2>4, <2>5, <2>6, <2>7, FS_Subset
    <2> QED BY <2>7, <2>8 DEF must, may
  <1> QED BY <1>1, Inductive, ReadsAreJustified, PTL

\* ErrorPercentage (commandmetrics.go:77-83): the errors exceed the total by no
\* more than occurred while it was computed, for each error that occurred
\* before is in the total too.
THEOREM ErrorsWithinTotal == Spec => []ErrorsExceedOnlyByOverlap
  <1>1. ASSUME IInv, Justified PROVE ErrorsExceedOnlyByOverlap
    <2> DEFINE late(r) == {o \in Occurrences(ToSet(ErrorEvents), SoFar) :
                             o[2] > read[r].before[o[1]]}
    <2> SUFFICES ASSUME NEW r \in Readers, pc[r] = "done"
                 PROVE  read[r].errors <= read[r].total + Cardinality(late(r))
      BY DEF ErrorsExceedOnlyByOverlap
    <2> DEFINE L == late(r)
    <2>1. PICK place : ReadsJustified(read, pc, occurred, now, place)
      BY <1>1 DEF Justified
    <2>2. PICK T, E : Justifies(read[r], occurred, now, place, T, E)
      BY <2>1 DEF ReadsJustified
    <2>3. /\ occurred \in [Events -> Seq(Nat)] /\ SoFar \in [Events -> Nat]
          /\ read[r] \in Reads /\ ErrorsRead(read[r].next) \subseteq ToSet(ErrorEvents)
          /\ ErrorsRead(read[r].next) \subseteq Events
      <3>1. read[r] \in Reads /\ ErrorsRead(read[r].next) \subseteq ToSet(ErrorEvents)
        BY <1>1, EndedReads
      <3>2. occurred \in [Events -> Seq(Nat)]
        BY <1>1 DEF IInv, TypeOK
      <3>3. SoFar \in [Events -> Nat]
        BY <3>2 DEF SoFar
      <3> QED BY <3>1, <3>2, <3>3, ReadAreEvents
    <2>4. E \subseteq T \cup L
      <3> SUFFICES ASSUME NEW o \in E, o \notin T PROVE o \in L
        OBVIOUS
      <3>1. PICK e \in ErrorsRead(read[r].next) : \E i \in 1 .. Len(occurred[e]) :
                   o = <<e, i>> /\ (i <= read[r].before[e] => o \in T)
        BY <2>2 DEF Justifies
      <3>2. PICK i \in 1 .. Len(occurred[e]) :
                   o = <<e, i>> /\ (i <= read[r].before[e] => o \in T)
        BY <3>1
      <3>3. i \in 1 .. SoFar[e] /\ e \in ToSet(ErrorEvents) /\ o[1] = e /\ o[2] = i
        BY <2>3, <3>2 DEF SoFar
      <3>4. o \in Occurrences(ToSet(ErrorEvents), SoFar)
        BY <3>2, <3>3 DEF Occurrences
      <3>5. i > read[r].before[e]
        <4>1. read[r].before[e] \in Nat /\ i \in Nat
          BY <2>3, <3>2 DEF Reads
        <4> QED BY <3>2, <4>1
      <3> QED BY <3>3, <3>4, <3>5
    <2>5. IsFiniteSet(L)
      <3>1. IsFiniteSet(Occurrences(ToSet(ErrorEvents), SoFar))
        BY <2>3, EventsOnce, OccurrencesFinite
      <3> QED BY <3>1, FS_Subset
    <2>6. /\ IsFiniteSet(T) /\ read[r].total = Cardinality(T)
          /\ IsFiniteSet(E) /\ read[r].errors = Cardinality(E)
      BY <2>2 DEF Justifies
    <2> HIDE DEF L
    <2>7. /\ IsFiniteSet(T \cup L) /\ Cardinality(T \cap L) \in Nat
          /\ Cardinality(T \cup L) = Cardinality(T) + Cardinality(L) - Cardinality(T \cap L)
          /\ Cardinality(T) \in Nat /\ Cardinality(L) \in Nat
      <3>1. IsFiniteSet(T \cap L)
        BY <2>5, FS_Subset
      <3> QED BY <2>5, <2>6, <3>1, FS_Union, FS_CardinalityType
    <2>8. Cardinality(E) <= Cardinality(T \cup L) /\ Cardinality(E) \in Nat
      BY <2>4, <2>6, <2>7, FS_Subset, FS_CardinalityType
    <2> DEFINE a == Cardinality(T)
               b == Cardinality(L)
               c == Cardinality(T \cap L)
               d == Cardinality(T \cup L)
               f == Cardinality(E)
    <2>9. d = a + b - c /\ a \in Nat /\ b \in Nat /\ c \in Nat /\ f <= d /\ f \in Nat
      BY <2>7, <2>8
    <2> HIDE DEF a, b, c, d, f
    <2>10. f <= a + b
      BY <2>9
    <2> QED BY <2>6, <2>10 DEF L, a, b, f
  <1> QED BY <1>1, Inductive, ReadsAreJustified, PTL
-----------------------------------------------------------------------------
(* What Get computes.                                                      *)

\* Of the numbers less than any other there is no endless descent.
LEMMA LeastOf ==
  ASSUME NEW S, S \subseteq Nat, S # {}
  PROVE  \E v \in S : \A w \in S : v <= w
  <1> DEFINE R == {ss \in Nat \X Nat : ss[1] < ss[2]}
  <1>1. IsWellFoundedOn(R, Nat)
    BY NatLessThanWellFounded DEF OpToRel
  <1>2. PICK v \in S : \A w \in S : <<w, v>> \notin R
    <2> HIDE DEF R
    <2> QED BY <1>1, WFMin
  <1>3. \A w \in S : ~ (w < v)
    BY <1>2
  <1> QED BY <1>3

\* A set of numbers up to n that has 1 and what follows what it has, has all.
LEMMA UpTo ==
  ASSUME NEW n \in Nat, NEW P, n > 0 => 1 \in P,
         \A i \in 1 .. n - 1 : i \in P => i + 1 \in P
  PROVE  1 .. n \subseteq P
  <1> DEFINE Q == {i \in 1 .. n : i \notin P}
  <1> SUFFICES ASSUME Q # {} PROVE FALSE
    OBVIOUS
  <1>1. PICK i \in Q : \A j \in Q : i <= j
    <2>1. Q \subseteq Nat
      OBVIOUS
    <2> QED BY <2>1, LeastOf
  <1>2. i # 1
    OBVIOUS
  <1>3. i - 1 \in 1 .. n - 1 /\ i - 1 \notin Q
    BY <1>1, <1>2
  <1>4. (i - 1) + 1 \in P
    BY <1>3
  <1> QED BY <1>4

\* Of finitely many values one is the greatest.
LEMMA GreatestOf ==
  ASSUME NEW D, IsFiniteSet(D), D # {}, NEW f, \A d \in D : f[d] \in Nat
  PROVE  \E d \in D : \A e \in D : f[e] <= f[d]
  <1> DEFINE P == {s \in SUBSET D : s # {} => \E d \in s : \A e \in s : f[e] <= f[d]}
  <1>1. ASSUME NEW s \in SUBSET D, \A t \in SUBSET s : t # s => t \in P
        PROVE  s \in P
    <2> SUFFICES ASSUME s # {} PROVE \E d \in s : \A e \in s : f[e] <= f[d]
      OBVIOUS
    <2>1. PICK d \in s : TRUE
      OBVIOUS
    <2>2. CASE s \ {d} = {}
      <3>1. s = {d} /\ f[d] \in Nat
        BY <2>2
      <3> QED BY <3>1
    <2>3. CASE s \ {d} # {}
      <3>1. s \ {d} \in P
        BY <1>1, <2>1
      <3>2. PICK c \in s \ {d} : \A e \in s \ {d} : f[e] <= f[c]
        BY <2>3, <3>1
      <3>3. f[c] \in Nat /\ f[d] \in Nat /\ \A e \in s : f[e] \in Nat
        OBVIOUS
      <3>4. CASE f[d] <= f[c]
        BY <3>2, <3>4
      <3>5. CASE f[c] <= f[d]
        BY <2>1, <3>2, <3>3, <3>5
      <3> QED BY <3>3, <3>4, <3>5
    <2> QED BY <2>2, <2>3
  <1>2. SUBSET D \subseteq P
    <2> HIDE DEF P
    <2> QED BY <1>1, SubsetInduction
  <1> QED BY <1>2

\* Joined together, sequences of members of S are one.
LEMMA FlattenTyped ==
  ASSUME NEW S, NEW seqs, NEW n \in Nat \ {0}, Len(seqs) = n,
         \A i \in 1 .. n : seqs[i] \in Seq(S)
  PROVE  FlattenSeq(seqs) \in Seq(S)
  <1> DEFINE next(s, i) == s \o seqs[i]
             Joins(f) == f = [i \in 1 .. n |-> IF i = 1 THEN seqs[i] ELSE next(f[i - 1], i)]
             P == {m \in 1 .. n :
                     \E g \in [1 .. m -> Seq(S)] :
                       \A i \in 1 .. m : g[i] = IF i = 1 THEN seqs[i] ELSE next(g[i - 1], i)}
  <1>0. \A s \in Seq(S), i \in 1 .. n : next(s, i) \in Seq(S)
    <2> SUFFICES ASSUME NEW s \in Seq(S), NEW i \in 1 .. n PROVE s \o seqs[i] \in Seq(S)
      OBVIOUS
    <2> DEFINE z == seqs[i]
    <2>1. z \in Seq(S)
      OBVIOUS
    <2> HIDE DEF z
    <2>2. s \o z \in Seq(S)
      BY <2>1
    <2> QED BY <2>2 DEF z
  <1> HIDE DEF next
  <1>1. n > 0 => 1 \in P
    <2> DEFINE g == [i \in 1 .. 1 |-> seqs[1]]
    <2>1. g \in [1 .. 1 -> Seq(S)] /\ 1 \in 1 .. n
      OBVIOUS
    <2>2. \A i \in 1 .. 1 : g[i] = IF i = 1 THEN seqs[i] ELSE next(g[i - 1], i)
      OBVIOUS
    <2> HIDE DEF g
    <2> QED BY <2>1, <2>2
  <1>2. ASSUME NEW m \in 1 .. n - 1, m \in P PROVE m + 1 \in P
    <2>1. PICK g \in [1 .. m -> Seq(S)] :
            \A i \in 1 .. m : g[i] = IF i = 1 THEN seqs[i] ELSE next(g[i - 1], i)
      BY <1>2
    <2> DEFINE h == [i \in 1 .. m + 1 |-> IF i = m + 1 THEN next(g[m], m + 1) ELSE g[i]]
    <2>2. next(g[m], m + 1) \in Seq(S)
      BY <1>0
    <2>3. h \in [1 .. m + 1 -> Seq(S)]
      BY <2>2
    <2>4. ASSUME NEW i \in 1 .. m + 1
          PROVE  h[i] = IF i = 1 THEN seqs[i] ELSE next(h[i - 1], i)
      <3>1. CASE i = m + 1
        BY <3>1
      <3>2. CASE i # m + 1
        <4>1. i \in 1 .. m /\ (i # 1 => i - 1 \in 1 .. m) /\ i - 1 # m + 1
          BY <3>2
        <4> QED BY <2>1, <4>1
      <3> QED BY <3>1, <3>2
    <2>5. m + 1 \in 1 .. n
      OBVIOUS
    <2> HIDE DEF h
    <2> QED BY <2>3, <2>4, <2>5
  <1>3. 1 .. n \subseteq P
    <2> HIDE DEF P
    <2>1. n \in Nat
      OBVIOUS
    <2> QED BY <1>1, <1>2, <2>1, UpTo
  <1>4. PICK g \in [1 .. n -> Seq(S)] :
          \A i \in 1 .. n : g[i] = IF i = 1 THEN seqs[i] ELSE next(g[i - 1], i)
    <2>1. n \in P
      <3> HIDE DEF P
      <3> QED BY <1>3
    <2> QED BY <2>1
  <1>5. Joins(g)
    BY <1>4
  <1> DEFINE flat == CHOOSE f : Joins(f)
  <1>6. Joins(flat)
    <2> HIDE DEF Joins
    <2> QED BY <1>5
  <1>7. FlattenSeq(seqs) = flat[n]
    BY DEF FlattenSeq, next
  <1> HIDE DEF flat
  <1>8. \A i \in 1 .. n : flat[i] = IF i = 1 THEN seqs[i] ELSE next(flat[i - 1], i)
    BY <1>6
  <1> DEFINE T == {i \in 1 .. n : flat[i] \in Seq(S)}
  <1>9. n > 0 => 1 \in T
    BY <1>8
  <1>10. ASSUME NEW m \in 1 .. n - 1, m \in T PROVE m + 1 \in T
    <2>1. flat[m] \in Seq(S) /\ m + 1 \in 1 .. n /\ m + 1 # 1 /\ (m + 1) - 1 = m
      BY <1>10
    <2>2. flat[m + 1] = next(flat[m], m + 1)
      BY <1>8, <2>1
    <2> QED BY <1>0, <2>1, <2>2
  <1>11. 1 .. n \subseteq T
    <2> HIDE DEF T
    <2>1. n \in Nat
      OBVIOUS
    <2> QED BY <1>9, <1>10, <2>1, UpTo
  <1> QED BY <1>7, <1>11

\* The value sort.Sort puts in each place is one of those collected.
LEMMA SortedCounts ==
  ASSUME NEW n \in Nat, NEW values \in [1 .. n -> Nat], NEW k \in 1 .. n
  PROVE  /\ Sorted(values)[k] \in Nat
         /\ Cardinality(Below(values, Sorted(values)[k])) < k
         /\ k <= Cardinality(AtMost(values, Sorted(values)[k]))
  <1> DEFINE Covers(v) == k <= Cardinality(AtMost(values, v))
             S == {v \in ToSet(values) : Covers(v)}
             D == 1 .. n
  <1>1. IsFiniteSet(D) /\ Cardinality(D) = n /\ DOMAIN values = D
    <2>1. 1 \in Int /\ n \in Int
      OBVIOUS
    <2>2. IsFiniteSet(D) /\ Cardinality(D) = IF 1 > n THEN 0 ELSE n - 1 + 1
      BY <2>1, FS_Interval
    <2> QED BY <2>2
  <1>2. ASSUME NEW v
        PROVE  /\ IsFiniteSet(AtMost(values, v)) /\ Cardinality(AtMost(values, v)) \in Nat
               /\ IsFiniteSet(Below(values, v)) /\ Cardinality(Below(values, v)) \in Nat
    <2>1. AtMost(values, v) \in SUBSET D /\ Below(values, v) \in SUBSET D
      BY <1>1 DEF AtMost, Below
    <2> QED BY <1>1, <2>1, FS_Subset, FS_CardinalityType
  <1>3. S # {}
    <2>1. \A d \in D : values[d] \in Nat
      OBVIOUS
    <2>2. D # {}
      OBVIOUS
    <2>3. PICK d \in D : \A e \in D : values[e] <= values[d]
      <3> HIDE DEF D
      <3> QED BY <1>1, <2>1, <2>2, GreatestOf
    <2>4. AtMost(values, values[d]) = D
      BY <1>1, <2>3 DEF AtMost
    <2>5. Covers(values[d])
      BY <1>1, <2>4
    <2>6. values[d] \in ToSet(values)
      BY <1>1 DEF ToSet
    <2> HIDE DEF Covers
    <2> QED BY <2>5, <2>6
  <1>4. S \subseteq Nat /\ \A v \in S : v \in ToSet(values) /\ Covers(v)
    BY DEF ToSet
  <1>5. PICK v \in S : \A w \in S : v <= w
    <2> HIDE DEF S
    <2> QED BY <1>3, <1>4, LeastOf
  <1>6. v \in Nat /\ v \in ToSet(values) /\ Covers(v)
    <2> HIDE DEF S
    <2> QED BY <1>4
  <1>7. Cardinality(Below(values, v)) < k
    <2> SUFFICES ASSUME k <= Cardinality(Below(values, v)) PROVE FALSE
      BY <1>2
    <2> DEFINE B == Below(values, v)
    <2>1. B # {}
      <3> SUFFICES ASSUME B = {} PROVE FALSE
        OBVIOUS
      <3>1. Cardinality(B) = 0
        BY FS_EmptySet
      <3> QED BY <3>1
    <2>2. IsFiniteSet(B) /\ \A d \in B : d \in D /\ values[d] \in Nat /\ values[d] < v
      BY <1>1, <1>2 DEF Below
    <2>3. PICK d \in B : \A e \in B : values[e] <= values[d]
      <3> HIDE DEF B
      <3> QED BY <2>1, <2>2, GreatestOf
    <2>4. B \subseteq AtMost(values, values[d])
      BY <1>1, <2>2, <2>3 DEF AtMost
    <2>5. Cardinality(B) <= Cardinality(AtMost(values, values[d]))
      BY <1>2, <2>4, FS_Subset
    <2>6. Covers(values[d])
      <3> DEFINE b == Cardinality(B)
                 c == Cardinality(AtMost(values, values[d]))
      <3>1. b <= c /\ b \in Nat /\ c \in Nat /\ k <= b
        BY <1>2, <2>5
      <3> HIDE DEF b, c
      <3>2. k <= c
        BY <3>1
      <3> QED BY <3>2 DEF c
    <2>7. values[d] \in ToSet(values)
      BY <1>1, <2>2 DEF ToSet
    <2>8. values[d] \in S
      <3> HIDE DEF Covers
      <3> QED BY <2>6, <2>7
    <2> QED BY <1>5, <1>6, <2>2, <2>8
  <1> DEFINE Fits(w) == Cardinality(Below(values, w)) < k /\ k <= Cardinality(AtMost(values, w))
             chosen == CHOOSE w \in ToSet(values) : Fits(w)
  <1>8. chosen \in ToSet(values) /\ Fits(chosen)
    <2>1. Fits(v)
      BY <1>6, <1>7
    <2> HIDE DEF Fits
    <2> QED BY <1>6, <2>1
  <1>9. Sorted(values)[k] = chosen
    BY <1>1 DEF Sorted
  <1> HIDE DEF chosen
  <1>10. chosen \in Nat
    BY <1>8 DEF ToSet
  <1> QED BY <1>8, <1>9, <1>10

\* A value no less than the one sorted to place k has k values at most it, one
\* no greater has fewer below it.
LEMMA SortedPlaces ==
  ASSUME NEW n \in Nat, NEW values \in [1 .. n -> Nat], NEW k \in 1 .. n, NEW get \in Nat
  PROVE  /\ Cardinality(AtMost(values, get)) \in Nat /\ Cardinality(Below(values, get)) \in Nat
         /\ Sorted(values)[k] <= get => k <= Cardinality(AtMost(values, get))
         /\ get <= Sorted(values)[k] => Cardinality(Below(values, get)) < k
  <1> DEFINE v == Sorted(values)[k]
             D == 1 .. n
  <1>1. IsFiniteSet(D) /\ DOMAIN values = D
    <2>1. 1 \in Int /\ n \in Int
      OBVIOUS
    <2> QED BY <2>1, FS_Interval
  <1>2. ASSUME NEW w
        PROVE  /\ IsFiniteSet(AtMost(values, w)) /\ Cardinality(AtMost(values, w)) \in Nat
               /\ IsFiniteSet(Below(values, w)) /\ Cardinality(Below(values, w)) \in Nat
    <2>1. AtMost(values, w) \in SUBSET D /\ Below(values, w) \in SUBSET D
      BY <1>1 DEF AtMost, Below
    <2> QED BY <1>1, <2>1, FS_Subset, FS_CardinalityType
  <1>3. v \in Nat /\ Cardinality(Below(values, v)) < k /\ k <= Cardinality(AtMost(values, v))
    BY SortedCounts
  <1> HIDE DEF v
  <1>4. ASSUME v <= get PROVE k <= Cardinality(AtMost(values, get))
    <2>1. AtMost(values, v) \subseteq AtMost(values, get)
      BY <1>1, <1>3, <1>4 DEF AtMost
    <2>2. Cardinality(AtMost(values, v)) <= Cardinality(AtMost(values, get))
      BY <1>2, <2>1, FS_Subset
    <2> DEFINE a == Cardinality(AtMost(values, v))
               b == Cardinality(AtMost(values, get))
    <2>3. a \in Nat /\ b \in Nat /\ k <= a /\ a <= b
      BY <1>2, <1>3, <2>2
    <2> HIDE DEF a, b
    <2>4. k <= b
      BY <2>3
    <2> QED BY <2>4 DEF b
  <1>5. ASSUME get <= v PROVE Cardinality(Below(values, get)) < k
    <2>1. Below(values, get) \subseteq Below(values, v)
      BY <1>1, <1>3, <1>5 DEF Below
    <2>2. Cardinality(Below(values, get)) <= Cardinality(Below(values, v))
      BY <1>2, <2>1, FS_Subset
    <2> DEFINE a == Cardinality(Below(values, v))
               b == Cardinality(Below(values, get))
    <2>3. a \in Nat /\ b \in Nat /\ a < k /\ b <= a
      BY <1>2, <1>3, <2>2
    <2> HIDE DEF a, b
    <2>4. b < k
      BY <2>3
    <2> QED BY <2>4 DEF b
  <1> QED BY <1>2, <1>4, <1>5 DEF v

\* What is sorted ascends.
LEMMA SortedAscends ==
  ASSUME NEW n \in Nat, NEW values \in [1 .. n -> Nat],
         NEW j \in 1 .. n, NEW k \in 1 .. n, j <= k
  PROVE  /\ Sorted(values)[j] \in Nat /\ Sorted(values)[k] \in Nat
         /\ Sorted(values)[j] <= Sorted(values)[k]
  <1> DEFINE v == Sorted(values)[j]
             w == Sorted(values)[k]
             D == 1 .. n
  <1>1. IsFiniteSet(D) /\ DOMAIN values = D
    <2>1. 1 \in Int /\ n \in Int
      OBVIOUS
    <2> QED BY <2>1, FS_Interval
  <1>2. /\ v \in Nat /\ Cardinality(Below(values, v)) < j
        /\ w \in Nat /\ k <= Cardinality(AtMost(values, w))
    BY SortedCounts
  <1> HIDE DEF v, w
  <1>3. ASSUME w < v PROVE FALSE
    <2>1. AtMost(values, w) \subseteq Below(values, v) /\ Below(values, v) \in SUBSET D
      BY <1>1, <1>2, <1>3 DEF AtMost, Below
    <2>2. IsFiniteSet(Below(values, v))
      BY <1>1, <2>1, FS_Subset
    <2>3. IsFiniteSet(AtMost(values, w))
          /\ Cardinality(AtMost(values, w)) <= Cardinality(Below(values, v))
      BY <2>1, <2>2, FS_Subset
    <2> DEFINE a == Cardinality(AtMost(values, w))
               b == Cardinality(Below(values, v))
    <2>4. a \in Nat /\ b \in Nat /\ a <= b /\ b < j /\ k <= a
      BY <1>2, <2>2, <2>3, FS_CardinalityType
    <2> HIDE DEF a, b
    <2> QED BY <2>4
  <1>4. v <= w
    BY <1>2, <1>3
  <1> QED BY <1>2, <1>4 DEF v, w

\* Interpolation by less than one stays between its ends.
LEMMA Between ==
  ASSUME NEW rank \in Nat, NEW v \in Nat, NEW w \in Nat, v <= w
  PROVE  /\ Interpolated(rank, v, w) \in Nat
         /\ v <= Interpolated(rank, v, w) /\ Interpolated(rank, v, w) <= w
  <1> DEFINE r == rank % 1000
             d == w - v
             x == r * d
             y == Interpolated(rank, v, w)
  <1>1. d \in Nat /\ r \in 0 .. 999
    OBVIOUS
  <1>2. x \in Nat /\ x <= 1000 * d
    <2> HIDE DEF d, r
    <2>1. 0 * d <= r * d
      BY <1>1, ProductOrder
    <2>2. r * d <= 1000 * d
      BY <1>1, ProductOrder
    <2>3. 0 * d = 0 /\ r * d \in Int
      BY <1>1
    <2> QED BY <2>1, <2>2, <2>3
  <1>3. y = v + x \div 1000 /\ w = v + d
    BY DEF Interpolated
  <1> HIDE DEF x, d, y
  <1>4. x \div 1000 \in Nat /\ x \div 1000 <= d
    BY <1>1, <1>2
  <1>5. y \in Nat /\ v <= y /\ y <= w
    BY <1>1, <1>3, <1>4
  <1> QED BY <1>5 DEF y

\* The places next to a rank, and what lies at the last or before.
LEMMA RankPlaces ==
  ASSUME NEW n \in Nat, NEW rank \in Nat, rank > 0, rank <= 1000 * n
  PROVE  /\ High(rank) >= n => 1000 * (n - 2) < rank
         /\ ~ (High(rank) >= n) =>
              /\ Low(rank) + 1 \in 1 .. n /\ High(rank) + 1 \in 1 .. n
              /\ Low(rank) + 1 <= High(rank) + 1
              /\ 1000 * (Low(rank) + 1) >= rank /\ 1000 * ((High(rank) + 1) - 2) < rank
  BY DEF Low, High

\* What calculatePercentile returns, case by case.
LEMMA PercentileCases ==
  ASSUME NEW n \in Nat, n > 0, NEW s \in [1 .. n -> Nat], NEW p \in Nat
  PROVE  /\ p = 0 => Percentile(p, s) = s[1]
         /\ p > 0 /\ High(p * n) >= n => Percentile(p, s) = s[n]
         /\ p > 0 /\ ~ (High(p * n) >= n) =>
              Percentile(p, s) = Interpolated(p * n, s[Low(p * n) + 1], s[High(p * n) + 1])
  <1>1. Len(s) = n /\ n # 0
    OBVIOUS
  <1>2. CASE p = 0
    BY <1>1, <1>2 DEF Percentile
  <1>3. CASE p > 0 /\ High(p * n) >= n
    BY <1>1, <1>3 DEF Percentile
  <1>4. CASE p > 0 /\ ~ (High(p * n) >= n)
    <2>1. ~ (p <= 0) /\ p # 0
      BY <1>4
    <2> QED BY <1>1, <1>4, <2>1 DEF Percentile
  <1> QED BY <1>2, <1>3, <1>4

\* One of the values at its place, or what is between two neighbours, covers
\* the share that ends there.
LEMMA CoversBetween ==
  ASSUME NEW n \in Nat, NEW values \in [1 .. n -> Nat], NEW rank \in Nat,
         NEW j \in 1 .. n, NEW k \in 1 .. n, NEW get \in Nat,
         Sorted(values)[j] <= get, get <= Sorted(values)[k],
         1000 * j >= rank, 1000 * (k - 2) < rank
  PROVE  CoversRank(values, get, rank)
  <1> DEFINE a == Cardinality(AtMost(values, get))
             b == Cardinality(Below(values, get))
  <1>1. a \in Nat /\ j <= a
    BY ZenonT(40), SortedPlaces
  <1>2. b \in Nat /\ b < k
    BY SortedPlaces
  <1> HIDE DEF a, b
  <1>3. 1000 * a >= rank /\ 1000 * (b - 1) < rank
    BY <1>1, <1>2
  <1> QED BY <1>3 DEF CoversRank, a, b

\* calculatePercentile covers its share of any values.
LEMMA PercentileCovers ==
  ASSUME NEW values \in Seq(Nat)
  PROVE  Len(values) > 0 => \A p \in Percentiles :
           CoversRank(values, Percentile(p, Sorted(values)), p * Len(values))
  <1> SUFFICES ASSUME NEW n \in Nat, n > 0, values \in [1 .. n -> Nat], NEW p \in Percentiles
               PROVE  CoversRank(values, Percentile(p, Sorted(values)), p * n)
    <2>1. PICK n : n = Len(values)
      OBVIOUS
    <2>2. n \in Nat /\ values \in [1 .. n -> Nat]
      BY <2>1
    <2> QED BY <2>1, <2>2
  <1> DEFINE s == Sorted(values)
             rank == p * n
             result == Percentile(p, s)
  <1>0. p \in Nat /\ p <= 1000
    BY MetricsAssumption
  <1>1. s \in [1 .. n -> Nat]
    <2>1. DOMAIN s = 1 .. n /\ s = [k \in DOMAIN s |-> s[k]]
      BY DEF Sorted
    <2>2. \A k \in 1 .. n : s[k] \in Nat
      BY SortedCounts
    <2> HIDE DEF s
    <2> QED BY <2>1, <2>2
  <1>2. rank \in Nat /\ rank <= 1000 * n /\ (p = 0 => rank = 0)
    <2>1. 0 * n <= p * n /\ p * n <= 1000 * n
      BY <1>0, ProductOrder
    <2>2. 0 * n = 0 /\ p * n \in Int
      BY <1>0
    <2> QED BY <2>1, <2>2
  <1>3. p > 0 => rank > 0
    <2> SUFFICES ASSUME p > 0 PROVE rank > 0
      OBVIOUS
    <2>1. 1 <= p
      BY <1>0
    <2>2. 1 * n <= p * n
      BY <1>0, <2>1, ProductOrder
    <2> QED BY <1>2, <2>2
  <1>4. ASSUME NEW j \in 1 .. n, NEW k \in 1 .. n, NEW get \in Nat, s[j] <= get, get <= s[k],
               1000 * j >= rank, 1000 * (k - 2) < rank
        PROVE  CoversRank(values, get, rank)
    <2> HIDE DEF rank
    <2> QED BY SMTT(30), <1>2, <1>4, CoversBetween
  <1>5. ASSUME NEW j \in 1 .. n, NEW k \in 1 .. n, j <= k
        PROVE  s[j] \in Nat /\ s[k] \in Nat /\ s[j] <= s[k]
    BY <1>5, SortedAscends
  <1>6. /\ p = 0 => result = s[1]
        /\ p > 0 /\ High(rank) >= n => result = s[n]
        /\ p > 0 /\ ~ (High(rank) >= n) =>
             result = Interpolated(rank, s[Low(rank) + 1], s[High(rank) + 1])
    <2> HIDE DEF s
    <2> QED BY ZenonT(40), <1>0, <1>1, PercentileCases
  <1> HIDE DEF s, result
  <1> SUFFICES CoversRank(values, result, rank)
    BY DEF s, result
  <1> HIDE DEF rank
  <1>7. CASE p = 0
    <2>1. result = s[1] /\ rank = 0 /\ 1 \in 1 .. n /\ s[1] \in Nat
      BY <1>1, <1>2, <1>6, <1>7
    <2>2. s[1] <= s[1] /\ 1000 * 1 >= rank /\ 1000 * (1 - 2) < rank
      BY <2>1
    <2> QED BY <1>4, <2>1, <2>2
  <1>8. CASE p > 0 /\ High(rank) >= n
    <2>1. result = s[n] /\ n \in 1 .. n /\ s[n] \in Nat
      BY <1>1, <1>6, <1>8
    <2>2. s[n] <= s[n] /\ 1000 * n >= rank
      BY <1>2, <2>1
    <2>3. 1000 * (n - 2) < rank
      BY <1>2, <1>3, <1>8, RankPlaces
    <2> QED BY <1>4, <2>1, <2>2, <2>3
  <1>9. CASE p > 0 /\ ~ (High(rank) >= n)
    <2> DEFINE j == Low(rank) + 1
               k == High(rank) + 1
    <2>1. /\ j \in 1 .. n /\ k \in 1 .. n /\ j <= k
          /\ 1000 * j >= rank /\ 1000 * (k - 2) < rank
      BY <1>2, <1>3, <1>9, RankPlaces
    <2>2. result = Interpolated(rank, s[j], s[k])
      BY <1>6, <1>9
    <2> HIDE DEF j, k
    <2>3. s[j] \in Nat /\ s[k] \in Nat /\ s[j] <= s[k]
      BY <1>5, <2>1
    <2>4. result \in Nat /\ s[j] <= result /\ result <= s[k]
      BY <1>2, <2>2, <2>3, Between
    <2> QED BY <1>4, <2>1, <2>4
  <1> QED BY <1>0, <1>7, <1>8, <1>9

\* What is collected are the values of items.
LEMMA CollectedTyped ==
  ASSUME NEW p \in RollingPercentiles
  PROVE  Collected(p) \in Seq(Nat)
  <1> DEFINE seqs == [i \in 1 .. NumBuckets |-> p.buckets[i - 1].vals]
             items == FlattenSeq(seqs)
  <1>1. ASSUME NEW i \in 1 .. NumBuckets PROVE seqs[i] \in Seq(Items)
    <2>1. i - 1 \in Buckets
      BY WindowAssumption DEF Buckets
    <2>2. p.buckets[i - 1] \in PercentileBuckets
      BY <2>1 DEF RollingPercentiles
    <2> QED BY <2>2 DEF PercentileBuckets
  <1>2. Len(seqs) = NumBuckets /\ NumBuckets \in Nat \ {0}
    BY WindowAssumption
  <1>3. items \in Seq(Items)
    <2> HIDE DEF seqs
    <2> QED BY <1>1, <1>2, FlattenTyped
  <1>4. Collected(p) = [i \in DOMAIN items |-> items[i].value]
    BY DEF Collected
  <1> HIDE DEF items
  <1>5. /\ DOMAIN items = 1 .. Len(items) /\ Len(items) \in Nat
        /\ \A i \in 1 .. Len(items) : items[i].value \in Nat
    <2>1. \A i \in 1 .. Len(items) : items[i] \in Items
      BY <1>3
    <2>2. \A item \in Items : item.value \in Nat
      BY DEF Items
    <2>3. DOMAIN items = 1 .. Len(items) /\ Len(items) \in Nat
      BY <1>3
    <2> QED BY <2>1, <2>2, <2>3
  <1>6. Collected(p) \in [1 .. Len(items) -> Nat]
    BY <1>4, <1>5
  <1> QED BY <1>5, <1>6

\* What makes Get a percentile (rollingpercentile.go:105-125): whatever values
\* the buckets hold, at least the share asked for are no greater than what it
\* returns, and no more than one value above that share is smaller.
THEOREM PercentilesCover == Spec => []PercentilesCoverShare
  <1>1. ASSUME IInv PROVE PercentilesCoverShare
    <2>1. Collected(executionTime) \in Seq(Nat)
      BY <1>1, CollectedTyped DEF IInv, TypeOK
    <2>2. SUFFICES Len(Collected(executionTime)) > 0 => \A p \in Percentiles :
                     CoversRank(Collected(executionTime),
                                Percentile(p, Sorted(Collected(executionTime))),
                                p * Len(Collected(executionTime)))
      BY <2>2 DEF PercentilesCoverShare
    <2> QED BY <2>1, PercentileCovers
  <1> QED BY <1>1, Inductive, PTL
=============================================================================
