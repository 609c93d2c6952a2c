------------------------ MODULE RollingNumberProofs ------------------------
(***************************************************************************)
(* For every window, number of buckets and bucket size: what RollingNumber *)
(* counts is younger than ForgetAge, and what it drops is older than       *)
(* KeepAge.  The argument is AgeByDistance: when the ring has moved d      *)
(* times since an increment was made, the increment is between (d - 1) and *)
(* 2 * d bucket sizes old.  Then, that the ring implements                 *)
(* SlidingWindow.tla, whose log is what the buckets hold.                  *)
(***************************************************************************)
EXTENDS RollingNumber, RollingWindowProofs

-----------------------------------------------------------------------------
(* One visit of findCurrentBucket.                                         *)

\* A visit keeps the ring well typed and its clock in the past.
LEMMA VisitType ==
  ASSUME TypeOK, PastOnly
  PROVE  LET m == FindCurrentBucket(num, now)
         IN  /\ m \in RollingNumbers
             /\ m.currentBucketTime <= now
             /\ now - m.currentBucketTime < BucketSize
             /\ Kept \in [Buckets -> Seq(Nat)]
             /\ Dropped \in SUBSET Nat
  <1>1. num \in RollingNumbers /\ now \in Nat /\ num.currentBucketTime <= now
    BY DEF TypeOK, PastOnly
  <1>2. Kept \in [Buckets -> Seq(Nat)]
    BY DEF Kept, TypeOK
  <1>3. Dropped \in SUBSET Nat
    BY <1>1, RecycledBuckets DEF Dropped, TimesIn, TypeOK
  <1> QED BY <1>1, <1>2, <1>3, RingCatchesUp

\* After a visit the ages are again bracketed by the distances.
LEMMA VisitKeepsAges ==
  ASSUME TypeOK, PastOnly, AgeByDistance,
         NEW b \in Buckets, NEW i \in DOMAIN Kept[b]
  PROVE  Aged(FindCurrentBucket(num, now), b, Kept[b][i])
  <1>1. num \in RollingNumbers /\ now \in Nat /\ num.currentBucketTime <= now
    BY DEF TypeOK, PastOnly
  <1>2. b \notin Recycled(num, now) /\ Kept[b] = stamps[b] /\ i \in DOMAIN stamps[b]
    <2>1. b \notin Recycled(num, now)
      <3> SUFFICES ASSUME b \in Recycled(num, now) PROVE FALSE
        OBVIOUS
      <3>1. Kept[b] = <<>>
        BY DEF Kept
      <3> QED BY <3>1
    <2> QED BY <2>1 DEF Kept
  <1>3. stamps[b][i] \in Nat
    BY <1>2 DEF TypeOK
  <1>4. Aged(num, b, stamps[b][i])
    BY <1>2 DEF AgeByDistance, Distance, Aged
  <1> QED BY <1>1, <1>2, <1>3, <1>4, AgedAfterVisit

\* What a visit recycles is older than KeepAge.
LEMMA VisitDropsOld ==
  ASSUME TypeOK, PastOnly, AgeByDistance,
         NEW b \in Recycled(num, now), NEW t \in TimesIn(b)
  PROVE  now - t > KeepAge
  <1>1. num \in RollingNumbers /\ now \in Nat /\ num.currentBucketTime <= now
    BY DEF TypeOK, PastOnly
  <1>2. b \in Buckets
    BY <1>1, RecycledBuckets
  <1>3. t \in Nat /\ Aged(num, b, t)
    BY <1>2 DEF TimesIn, TypeOK, AgeByDistance, Distance, Aged
  <1> QED BY <1>1, <1>3, RecycledIsOld

\* A visit leaves every bucket counting what it still holds.
LEMMA VisitCounts ==
  ASSUME TypeOK, PastOnly, BucketsCountStamps, NEW b \in Buckets
  PROVE  FindCurrentBucket(num, now).buckets[b] = Len(Kept[b])
  <1>1. FindCurrentBucket(num, now).buckets[b]
          = IF b \in Recycled(num, now) THEN 0 ELSE num.buckets[b]
    BY VisitedBuckets DEF TypeOK, PastOnly
  <1> QED BY <1>1 DEF Kept, BucketsCountStamps

\* What a visit keeps was made before it.
LEMMA KeptPast ==
  ASSUME TypeOK, StampsPast, NEW b \in Buckets, NEW i \in DOMAIN Kept[b]
  PROVE  /\ b \notin Recycled(num, now)
         /\ Kept[b] = stamps[b]
         /\ Kept[b][i] <= now
  <1>1. b \notin Recycled(num, now)
    <2> SUFFICES ASSUME b \in Recycled(num, now) PROVE FALSE
      OBVIOUS
    <2>1. Kept[b] = <<>>
      BY DEF Kept
    <2> QED BY <2>1
  <1>2. Kept[b] = stamps[b]
    BY <1>1 DEF Kept
  <1> QED BY <1>1, <1>2 DEF StampsPast, TimesIn

\* What has been dropped, including by this visit, is older than KeepAge.
LEMMA VisitExpires ==
  ASSUME TypeOK, PastOnly, AgeByDistance
  PROVE  \A t \in expired \cup Dropped : now - t > KeepAge
  <1>1. \A t \in expired : now - t > KeepAge
    BY DEF PastOnly
  <1>2. \A t \in Dropped : now - t > KeepAge
    BY VisitDropsOld DEF Dropped
  <1> QED BY <1>1, <1>2
-----------------------------------------------------------------------------
(* The inductive invariant.                                                *)

\* NewRollingNumber establishes the invariant.
THEOREM InitEstablishes == Init => IInv
  <1> SUFFICES ASSUME Init PROVE IInv
    OBVIOUS
  <1> USE DEF Init
  <1>1. TypeOK
    <2>1. 0 \in Buckets
      BY WindowAssumption DEF Buckets
    <2>2. num \in RollingNumbers
      BY <2>1 DEF NewRollingNumber, RollingNumbers
    <2> QED BY <2>2, BoundAssumption DEF TypeOK
  <1>2. AgeByDistance
    BY DEF AgeByDistance
  <1>3. PastOnly
    BY DEF PastOnly, NewRollingNumber
  <1>4. BucketsCountStamps
    BY DEF BucketsCountStamps, NewRollingNumber
  <1>5. StampsPast
    BY DEF StampsPast, TimesIn
  <1> QED BY <1>1, <1>2, <1>3, <1>4, <1>5 DEF IInv

\* Increment keeps the invariant: what it adds is less than one bucket old.
LEMMA IncrementPreserves == IInv /\ Increment => IInv'
  <1> SUFFICES ASSUME IInv, Increment PROVE IInv'
    OBVIOUS
  <1> DEFINE m == FindCurrentBucket(num, now)
             S == BucketSize
  <1>0. TypeOK /\ AgeByDistance /\ PastOnly /\ StampsPast /\ BucketsCountStamps
    BY DEF IInv
  <1>1. /\ m \in RollingNumbers /\ m.currentBucketTime <= now
        /\ Kept \in [Buckets -> Seq(Nat)] /\ Dropped \in SUBSET Nat
    BY <1>0, VisitType
  <1>2. /\ S \in Nat \ {0} /\ now \in Nat
        /\ m.currentBucket \in Buckets /\ m.currentBucketTime \in Nat
    BY <1>0, <1>1, BucketSizePositive DEF TypeOK, RollingNumbers
  <1>3. /\ num' = [m EXCEPT !.buckets[m.currentBucket] = @ + 1]
        /\ stamps' = [Kept EXCEPT ![m.currentBucket] = Append(@, now)]
        /\ expired' = expired \cup Dropped
        /\ increments < MaxIncrements /\ increments' = increments + 1
        /\ now' = now
    BY DEF Increment, Incremented
  <1>m. now - m.currentBucketTime < S
    BY <1>0, VisitType
  <1>n. \A b \in Buckets : m.buckets[b] = Len(Kept[b])
    BY <1>0, VisitCounts
  <1>a. \A b \in Buckets : \A i \in DOMAIN Kept[b] : Aged(m, b, Kept[b][i])
    BY <1>0, VisitKeepsAges
  <1> HIDE DEF m, S
  <1>4. /\ num'.currentBucket = m.currentBucket
        /\ num'.currentBucketTime = m.currentBucketTime
        /\ num'.buckets = [m.buckets EXCEPT ![m.currentBucket] = @ + 1]
    BY <1>1, <1>3 DEF RollingNumbers
  <1>5. TypeOK'
    <2>1. num' \in RollingNumbers
      BY <1>0, IncrementTyped DEF Increment, TypeOK
    <2>2. stamps' \in [Buckets -> Seq(Nat)]
      BY <1>1, <1>2, <1>3
    <2>3. increments' \in 0 .. MaxIncrements
      BY <1>0, <1>3, BoundAssumption DEF TypeOK
    <2>4. reading' \in Nat
      BY <1>0 DEF Increment, TypeOK
    <2> QED BY <1>0, <1>1, <1>3, <2>1, <2>2, <2>3, <2>4 DEF TypeOK
  <1>6. AgeByDistance'
    <2> SUFFICES ASSUME NEW b \in Buckets, NEW i \in DOMAIN (stamps'[b])
                 PROVE  Aged(m, b, stamps'[b][i])
      BY <1>4 DEF AgeByDistance, Distance, Aged
    <2>1. CASE i \in DOMAIN Kept[b]
      <3>1. stamps'[b][i] = Kept[b][i]
        BY <1>1, <1>2, <1>3, <2>1
      <3> QED BY <1>a, <2>1, <3>1
    <2>2. CASE i \notin DOMAIN Kept[b]
      <3>1. b = m.currentBucket /\ stamps'[b][i] = now
        BY <1>1, <1>2, <1>3, <2>2
      <3> QED BY <1>1, <1>2, <1>m, <3>1, AgedWhenNew DEF S
    <2> QED BY <2>1, <2>2
  <1>7. PastOnly'
    <2>1. \A t \in expired \cup Dropped : now - t > KeepAge
      BY <1>0, VisitExpires
    <2> QED BY <1>1, <1>3, <1>4, <2>1 DEF PastOnly, KeepAge
  <1>8. BucketsCountStamps'
    BY <1>1, <1>2, <1>3, <1>4, <1>n DEF BucketsCountStamps, RollingNumbers
  <1>9. StampsPast'
    <2> SUFFICES ASSUME NEW b \in Buckets, NEW i \in DOMAIN (stamps'[b])
                 PROVE  stamps'[b][i] <= now
      BY <1>3 DEF StampsPast, TimesIn
    <2>1. CASE i \in DOMAIN Kept[b]
      <3>1. stamps'[b][i] = Kept[b][i]
        BY <1>1, <1>2, <1>3, <2>1
      <3>2. Kept[b][i] <= now
        BY <1>0, <2>1, KeptPast
      <3> QED BY <3>1, <3>2
    <2>2. CASE i \notin DOMAIN Kept[b]
      <3>1. stamps'[b][i] = now
        BY <1>1, <1>2, <1>3, <2>2
      <3> QED BY <1>2, <3>1
    <2> QED BY <2>1, <2>2
  <1> QED BY <1>5, <1>6, <1>7, <1>8, <1>9 DEF IInv

\* Sum, which also moves the ring, keeps the invariant.
LEMMA SumPreserves == IInv /\ Sum => IInv'
  <1> SUFFICES ASSUME IInv, Sum PROVE IInv'
    OBVIOUS
  <1>0. TypeOK /\ AgeByDistance /\ PastOnly /\ StampsPast /\ BucketsCountStamps
    BY DEF IInv
  <1>1. /\ num' = FindCurrentBucket(num, now) /\ stamps' = Kept
        /\ expired' = expired \cup Dropped
        /\ now' = now /\ increments' = increments
        /\ reading' = SumOf(num')
    BY DEF Sum
  <1>2. TypeOK' /\ num'.currentBucketTime <= now
    <2>1. /\ num' \in RollingNumbers /\ num'.currentBucketTime <= now
          /\ stamps' \in [Buckets -> Seq(Nat)] /\ Dropped \in SUBSET Nat
      BY <1>0, <1>1, VisitType
    <2>2. reading' \in Nat
      BY <1>1, <2>1, SumOfCounts
    <2> QED BY <1>0, <1>1, <2>1, <2>2 DEF TypeOK
  <1>3. AgeByDistance'
    <2> SUFFICES ASSUME NEW b \in Buckets, NEW i \in DOMAIN Kept[b]
                 PROVE  Aged(FindCurrentBucket(num, now), b, Kept[b][i])
      BY <1>1 DEF AgeByDistance, Distance, Aged
    <2> QED BY <1>0, VisitKeepsAges
  <1>4. PastOnly'
    BY <1>0, <1>1, <1>2, VisitExpires DEF PastOnly, KeepAge
  <1>5. BucketsCountStamps'
    BY <1>0, <1>1, VisitCounts DEF BucketsCountStamps
  <1>6. StampsPast'
    <2> SUFFICES ASSUME NEW b \in Buckets, NEW i \in DOMAIN Kept[b]
                 PROVE  Kept[b][i] <= now
      BY <1>1 DEF StampsPast, TimesIn
    <2> QED BY <1>0, KeptPast
  <1> QED BY <1>2, <1>3, <1>4, <1>5, <1>6 DEF IInv

\* Reset keeps the invariant.
LEMMA ResetPreserves == IInv /\ Reset => IInv'
  <1> SUFFICES ASSUME IInv, Reset PROVE IInv'
    OBVIOUS
  <1> USE DEF Reset, ResetNumber, NewRollingNumber
  <1>1. TypeOK'
    <2>1. 0 \in Buckets
      BY WindowAssumption DEF Buckets
    <2>2. num' \in RollingNumbers
      BY <2>1 DEF IInv, TypeOK, RollingNumbers
    <2> QED BY <2>2 DEF IInv, TypeOK
  <1>2. AgeByDistance'
    BY DEF AgeByDistance
  <1>3. PastOnly'
    BY DEF PastOnly, IInv, TypeOK
  <1>4. BucketsCountStamps'
    BY DEF BucketsCountStamps
  <1>5. StampsPast'
    BY DEF StampsPast, TimesIn
  <1> QED BY <1>1, <1>2, <1>3, <1>4, <1>5 DEF IInv

\* The passing of time keeps the invariant: ages are taken at the ring's clock.
LEMMA TickPreserves == IInv /\ Tick => IInv'
  <1> SUFFICES ASSUME IInv, Tick PROVE IInv'
    OBVIOUS
  <1> USE DEF Tick, IInv
  <1>1. TypeOK'
    BY BoundAssumption DEF TypeOK
  <1>2. AgeByDistance'
    BY DEF AgeByDistance, Distance
  <1>3. PastOnly'
    <2>1. KeepAge \in Int
      BY BucketSizePositive, WindowAssumption DEF KeepAge
    <2> QED BY <2>1 DEF PastOnly, TypeOK, RollingNumbers, KeepAge
  <1>4. BucketsCountStamps'
    BY DEF BucketsCountStamps
  <1>5. StampsPast'
    <2> SUFFICES ASSUME NEW b \in Buckets, NEW i \in DOMAIN stamps[b]
                 PROVE  stamps[b][i] <= now + 1
      BY DEF StampsPast, TimesIn
    <2>1. stamps[b][i] <= now /\ stamps[b][i] \in Nat
      BY DEF StampsPast, TimesIn, TypeOK
    <2> QED BY <2>1 DEF TypeOK
  <1> QED BY <1>1, <1>2, <1>3, <1>4, <1>5

\* A stuttering step keeps the invariant.
LEMMA StutterPreserves == IInv /\ UNCHANGED vars => IInv'
  BY DEF vars, IInv, TypeOK, AgeByDistance, Distance, PastOnly, StampsPast, TimesIn,
         BucketsCountStamps

\* Every step keeps the invariant.
THEOREM StepPreserves == IInv /\ [Next]_vars => IInv'
  BY IncrementPreserves, SumPreserves, ResetPreserves, TickPreserves,
     StutterPreserves DEF Next

\* The invariant holds in every reachable state.
THEOREM Inductive == Spec => []IInv
  BY InitEstablishes, StepPreserves, PTL DEF Spec
-----------------------------------------------------------------------------
(* What follows for the number.                                            *)

\* Every reachable state is well typed: no visit indexes outside the ring
\* and no count goes below zero.
THEOREM TypeCorrect == Spec => []TypeOK
  <1>1. IInv => TypeOK
    BY DEF IInv
  <1> QED BY <1>1, Inductive, PTL

\* A bucket counts exactly the increments that landed in it since it was
\* last recycled.
THEOREM CountsAreExact == Spec => []BucketsCountStamps
  <1>1. IInv => BucketsCountStamps
    BY DEF IInv
  <1> QED BY <1>1, Inductive, PTL

\* The age of an increment, at the ring's clock, is known from how far its
\* bucket lies behind the current one: this carries the two that follow.
THEOREM AgesAreBounded == Spec => []AgeByDistance
  <1>1. IInv => AgeByDistance
    BY DEF IInv
  <1> QED BY <1>1, Inductive, PTL

\* What a visit now would keep is younger than ForgetAge.
LEMMA RecentCounted ==
  ASSUME IInv
  PROVE  CountedIsRecent
  <1> SUFFICES ASSUME NEW b \in Buckets, b \notin Recycled(num, now), NEW t \in TimesIn(b)
               PROVE  now - t < ForgetAge
    BY DEF CountedIsRecent
  <1>1. num \in RollingNumbers /\ now \in Nat /\ num.currentBucketTime <= now
    BY DEF IInv, TypeOK, PastOnly
  <1>2. t \in Nat /\ Aged(num, b, t)
    BY DEF TimesIn, IInv, TypeOK, AgeByDistance, Distance, Aged
  <1> QED BY <1>1, <1>2, CountedIsYoung

\* Whatever the window, the buckets and the visits, nothing older than
\* ForgetAge is ever counted.
THEOREM NothingStaleIsCounted == Spec => []CountedIsRecent
  BY RecentCounted, Inductive, PTL

\* ... and nothing younger than KeepAge is ever dropped.
THEOREM NothingRecentIsDropped == Spec => []DroppedIsOld
  <1>1. ASSUME IInv PROVE DroppedIsOld
    <2>1. \A t \in expired \cup Dropped : now - t > KeepAge
      BY <1>1, VisitExpires DEF IInv
    <2> QED BY <2>1 DEF DroppedIsOld, Dropped
  <1> QED BY <1>1, Inductive, PTL
-----------------------------------------------------------------------------
(* The ring implements the sliding window of SlidingWindow.tla.            *)

\* The increments held are finitely many, each made by now.
HeldFacts ==
  /\ IsFiniteSet(Held)
  /\ \A h \in Held : stamps[h[1]][h[2]] \in 0 .. now
  /\ \A t : /\ HeldAt(t) \subseteq Held /\ IsFiniteSet(HeldAt(t))
            /\ Cardinality(HeldAt(t)) \in Nat

\* Each bucket holds a sequence of them, made no later than now.
LEMMA HeldFinite == TypeOK /\ StampsPast => HeldFacts
  <1> SUFFICES ASSUME TypeOK, StampsPast PROVE HeldFacts
    OBVIOUS
  <1> DEFINE f == [b \in Buckets |-> Len(stamps[b])]
  <1>1. f \in [Buckets -> Nat] /\ \A b \in Buckets : DOMAIN stamps[b] = 1 .. f[b]
    BY DEF TypeOK
  <1>2. Held = Units(f)
    BY <1>1 DEF Held, Units
  <1>3. IsFiniteSet(Held)
    <2> HIDE DEF f
    <2> QED BY <1>1, <1>2, BucketsFinite, UnitsFinite
  <1>4. ASSUME NEW h \in Held PROVE stamps[h[1]][h[2]] \in 0 .. now
    <2>1. h[1] \in Buckets /\ h[2] \in DOMAIN stamps[h[1]]
      BY DEF Held
    <2> QED BY <2>1 DEF TypeOK, StampsPast, TimesIn
  <1>5. ASSUME NEW t
        PROVE  /\ HeldAt(t) \subseteq Held /\ IsFiniteSet(HeldAt(t))
               /\ Cardinality(HeldAt(t)) \in Nat
    <2>1. HeldAt(t) \subseteq Held
      BY DEF HeldAt
    <2>2. IsFiniteSet(HeldAt(t))
      BY <1>3, <2>1, FS_Subset
    <2> QED BY <2>1, <2>2, FS_CardinalityType
  <1> QED BY <1>3, <1>4, <1>5 DEF HeldFacts

\* What is held of the increments made at t that the visit keeps.
KeptAt(t) == {h \in HeldAt(t) : h[1] \notin Recycled(num, now)}

\* A visit forgets what a sliding window may forget, and what it must.
LEMMA VisitForgets ==
  ASSUME IInv, NEW t \in 0 .. MaxTime
  PROVE  /\ IsFiniteSet(KeptAt(t)) /\ Cardinality(KeptAt(t)) \in Nat
         /\ Cardinality(KeptAt(t)) <= Cardinality(HeldAt(t))
         /\ Cardinality(KeptAt(t)) < Cardinality(HeldAt(t)) => now - t > KeepAge
         /\ now - t >= ForgetAge => KeptAt(t) = {}
  <1>0. TypeOK /\ AgeByDistance /\ PastOnly /\ StampsPast
    BY DEF IInv
  <1>1. IsFiniteSet(HeldAt(t)) /\ KeptAt(t) \subseteq HeldAt(t)
    BY <1>0, HeldFinite DEF KeptAt, HeldFacts
  <1>2. /\ IsFiniteSet(KeptAt(t)) /\ Cardinality(KeptAt(t)) \in Nat
        /\ Cardinality(KeptAt(t)) <= Cardinality(HeldAt(t))
    BY <1>1, FS_Subset, FS_CardinalityType
  <1>3. ASSUME Cardinality(KeptAt(t)) < Cardinality(HeldAt(t)) PROVE now - t > KeepAge
    <2>1. KeptAt(t) # HeldAt(t)
      BY <1>2, <1>3
    <2>2. PICK h \in HeldAt(t) : h[1] \in Recycled(num, now)
      BY <2>1 DEF KeptAt
    <2>3. h[1] \in Buckets /\ t \in TimesIn(h[1])
      BY <2>2 DEF HeldAt, Held, TimesIn
    <2> QED BY <1>0, <2>2, <2>3, VisitDropsOld
  <1>4. ASSUME now - t >= ForgetAge PROVE KeptAt(t) = {}
    <2> SUFFICES ASSUME NEW h \in KeptAt(t) PROVE FALSE
      OBVIOUS
    <2>1. h[1] \in Buckets /\ h[1] \notin Recycled(num, now) /\ t \in TimesIn(h[1])
      BY DEF KeptAt, HeldAt, Held, TimesIn
    <2>2. now - t < ForgetAge
      BY <2>1, RecentCounted DEF CountedIsRecent
    <2>3. now - t \in Int /\ ForgetAge \in Int
      BY <1>0, BucketSizePositive, WindowAssumption, BoundAssumption DEF ForgetAge, TypeOK
    <2> QED BY <1>4, <2>2, <2>3
  <1> QED BY <1>2, <1>3, <1>4

\* After a visit that adds nothing, what is held is what was kept.
LEMMA HeldAfterVisit ==
  ASSUME IInv, stamps' = Kept, NEW t
  PROVE  HeldAt(t)' = KeptAt(t)
  <1>1. \A b \in Buckets : Kept[b] = IF b \in Recycled(num, now) THEN <<>> ELSE stamps[b]
    BY DEF Kept
  <1> QED BY <1>1 DEF HeldAt, Held, KeptAt

\* An increment is a Record: the visit forgets, the new request is live.
LEMMA IncrementRecords == IInv /\ IInv' /\ Increment => Contract!Record
  <1> SUFFICES ASSUME IInv, IInv', Increment
               PROVE  /\ \A t \in 0 .. MaxTime :
                           LET was == [Live EXCEPT ![now] = @ + 1][t]
                           IN  /\ Live'[t] <= was
                               /\ Live'[t] < was => now - t > KeepAge
                               /\ now - t >= ForgetAge => Live'[t] = 0
                      /\ now' = now /\ reading' = reading
    BY DEF Contract!Record, Contract!Forgets, Contract!Times
  <1> DEFINE c == FindCurrentBucket(num, now).currentBucket
             new == <<c, Len(Kept[c]) + 1>>
  <1>0. TypeOK /\ PastOnly /\ StampsPast /\ TypeOK' /\ StampsPast'
    BY DEF IInv
  <1>1. c \in Buckets /\ Kept \in [Buckets -> Seq(Nat)] /\ now \in Nat /\ now <= MaxTime
    BY <1>0, VisitType DEF TypeOK, RollingNumbers
  <1>2. stamps' = [Kept EXCEPT ![c] = Append(@, now)] /\ now' = now /\ reading' = reading
    BY DEF Increment
  <1>3. \A b \in Buckets : Kept[b] = IF b \in Recycled(num, now) THEN <<>> ELSE stamps[b]
    BY DEF Kept
  <1> HIDE DEF c
  <1>4. ASSUME NEW t
        PROVE  /\ HeldAt(t)' = IF t = now THEN KeptAt(t) \cup {new} ELSE KeptAt(t)
               /\ new \notin KeptAt(t)
    <2>1. Held' = {h \in Held : h[1] \notin Recycled(num, now)} \cup {new}
      <3>1. \A b \in Buckets : DOMAIN Kept[b]
              = IF b \in Recycled(num, now) THEN {} ELSE DOMAIN stamps[b]
        BY <1>3
      <3>2. \A b \in Buckets \ {c} : DOMAIN (stamps'[b]) = DOMAIN Kept[b]
        BY <1>1, <1>2
      <3>3. DOMAIN (stamps'[c]) = DOMAIN Kept[c] \cup {Len(Kept[c]) + 1}
        <4>1. stamps'[c] = Append(Kept[c], now) /\ Kept[c] \in Seq(Nat)
          BY <1>1, <1>2
        <4> QED BY <4>1, <1>1
      <3>4. \A h : h \in Held' <=> \/ h \in Held /\ h[1] \notin Recycled(num, now)
                                 \/ h = new
        <4>1. \A h : h \in Held <=> \E b \in Buckets : \E i \in DOMAIN stamps[b] : h = <<b, i>>
          BY DEF Held
        <4>2. \A h : h \in Held'
                <=> \E b \in Buckets : \E i \in DOMAIN (stamps'[b]) : h = <<b, i>>
          BY DEF Held
        <4>3. ASSUME NEW h \in Held' PROVE (h \in Held /\ h[1] \notin Recycled(num, now)) \/ h = new
          <5>0. PICK b \in Buckets : \E i \in DOMAIN (stamps'[b]) : h = <<b, i>>
            BY <4>2
          <5>1. PICK i \in DOMAIN (stamps'[b]) : h = <<b, i>>
            BY <5>0
          <5>2. CASE i \in DOMAIN Kept[b]
            <6>1. b \notin Recycled(num, now) /\ i \in DOMAIN stamps[b]
              BY <3>1, <5>2
            <6>2. h \in Held
              BY <4>1, <5>1, <6>1
            <6> QED BY <5>1, <6>1, <6>2
          <5>3. CASE i \notin DOMAIN Kept[b]
            BY <3>2, <3>3, <5>1, <5>3
          <5> QED BY <5>2, <5>3
        <4>4. ASSUME NEW h \in Held, h[1] \notin Recycled(num, now) PROVE h \in Held'
          <5>0. PICK b \in Buckets : \E i \in DOMAIN stamps[b] : h = <<b, i>>
            BY <4>1
          <5>1. PICK i \in DOMAIN stamps[b] : h = <<b, i>>
            BY <5>0
          <5>2. i \in DOMAIN Kept[b]
            BY <3>1, <4>4, <5>1
          <5>3. i \in DOMAIN (stamps'[b])
            BY <3>2, <3>3, <5>2
          <5> QED BY <4>2, <5>1, <5>3
        <4>5. new \in Held'
          BY <1>1, <3>3, <4>2
        <4> QED BY <4>3, <4>4, <4>5
      <3> QED BY <3>4
    <2>2. \A h \in Held : h[1] \notin Recycled(num, now)
            => h # new /\ stamps'[h[1]][h[2]] = stamps[h[1]][h[2]]
      BY <1>1, <1>2, <1>3 DEF Held
    <2>3. stamps'[new[1]][new[2]] = now
      BY <1>1, <1>2
    <2> HIDE DEF new
    <2> QED BY <2>1, <2>2, <2>3 DEF HeldAt, KeptAt
  <1> HIDE DEF new
  <1>5. \A t \in 0 .. MaxTime :
          Live'[t] = IF t = now THEN Cardinality(KeptAt(t)) + 1 ELSE Cardinality(KeptAt(t))
    <2> SUFFICES ASSUME NEW t \in 0 .. MaxTime
                 PROVE  Cardinality(HeldAt(t)')
                          = IF t = now THEN Cardinality(KeptAt(t)) + 1
                            ELSE Cardinality(KeptAt(t))
      BY DEF Live
    <2> QED BY <1>4, VisitForgets, FS_AddElement
  <1>6. ForgetAge \in Int /\ ForgetAge > 0
    <2>1. BucketSize \in Nat \ {0} /\ 2 * NumBuckets - 1 \in Nat \ {0}
      BY BucketSizePositive, WindowAssumption
    <2>2. (2 * NumBuckets - 1) * BucketSize \in Nat \ {0}
      BY <2>1, ProductPositive
    <2> QED BY <2>2 DEF ForgetAge
  <1> SUFFICES ASSUME NEW t \in 0 .. MaxTime
               PROVE  LET was == IF t = now THEN Live[t] + 1 ELSE Live[t]
                      IN  /\ Live'[t] <= was
                          /\ Live'[t] < was => now - t > KeepAge
                          /\ now - t >= ForgetAge => Live'[t] = 0
    BY <1>2 DEF Live
  <1>7. Live[t] = Cardinality(HeldAt(t)) /\ Live[t] \in Nat
    BY <1>0, HeldFinite DEF Live, HeldFacts
  <1>8. now - t >= ForgetAge => t # now
    BY <1>1, <1>6
  <1> QED BY <1>5, <1>7, <1>8, VisitForgets, FS_EmptySet

\* What Sum returns is what the window's log adds up to.
LEMMA SumIsTotal ==
  ASSUME TypeOK', StampsPast', BucketsCountStamps'
  PROVE  SumOf(num') = Contract!Total(Live')
  <1> DEFINE D == 0 .. MaxTime
             H == Held'
             L == Live'
             c == [t \in D |-> HeldAt(t)']
  <1>0. HeldFacts'
    BY HeldFinite, PTL
  <1>1. SumOf(num') = Cardinality(H)
    <2>1. SumOf(num') = Cardinality(Units(num'.buckets))
      BY SumOfCounts DEF TypeOK
    <2>2. Units(num'.buckets) = H
      <3>1. \A b \in Buckets : DOMAIN (stamps'[b]) = 1 .. num'.buckets[b]
        BY DEF TypeOK, BucketsCountStamps
      <3>2. DOMAIN (num'.buckets) = Buckets /\ \A b \in Buckets : num'.buckets[b] \in Nat
        BY DEF TypeOK, RollingNumbers
      <3> QED BY <3>1, <3>2 DEF Units, Held
    <2> QED BY <2>1, <2>2
  <1>2. IsFiniteSet(D)
    BY BoundAssumption, FS_Interval
  <1>3. IsFiniteSet(H) /\ L \in [D -> Nat]
    BY <1>0 DEF Live, HeldFacts
  <1>4. Partition(D, H, c, L)
    <2>1. c \in [D -> SUBSET H]
      BY <1>0 DEF HeldFacts
    <2>2. ASSUME NEW h \in H PROVE \E t \in D : h \in c[t]
      <3>1. stamps'[h[1]][h[2]] \in D
        BY <1>0, BoundAssumption DEF TypeOK, HeldFacts
      <3>2. h \in c[stamps'[h[1]][h[2]]]
        BY <3>1 DEF HeldAt
      <3> QED BY <3>1, <3>2
    <2>3. \A s, t \in D : s # t => c[s] \cap c[t] = {}
      BY DEF HeldAt
    <2>4. \A t \in D : L[t] = Cardinality(c[t])
      BY DEF Live
    <2> QED BY <2>1, <2>2, <2>3, <2>4 DEF Partition
  <1> HIDE DEF c, D, H, L
  <1>5. FoldFunction(LAMBDA x, y : x + y, 0, L) = Cardinality(H)
    BY <1>2, <1>3, <1>4, SumOfParts
  <1>6. Contract!Total(L) = FoldFunction(LAMBDA x, y : x + y, 0, L)
    BY DEF Contract!Total, Contract!FoldFunction, Contract!FoldFunctionOnSet,
           Contract!MapThenFoldSet, FoldFunction, FoldFunctionOnSet, MapThenFoldSet
  <1> QED BY <1>1, <1>5, <1>6 DEF L

\* A Sum is a Read: the visit forgets, and what it returns is what is live.
LEMMA SumReads == IInv /\ IInv' /\ Sum => Contract!Read
  <1> SUFFICES ASSUME IInv, IInv', Sum PROVE Contract!Read
    OBVIOUS
  <1>1. stamps' = Kept /\ reading' = SumOf(num') /\ now' = now
    BY DEF Sum
  <1>2. reading' = Contract!Total(Live')
    BY <1>1, SumIsTotal DEF IInv
  <1>3. ASSUME NEW t \in 0 .. MaxTime
        PROVE  /\ Live'[t] <= Live[t]
               /\ Live'[t] < Live[t] => now - t > KeepAge
               /\ now - t >= ForgetAge => Live'[t] = 0
    <2>1. Live'[t] = Cardinality(KeptAt(t)) /\ Live[t] = Cardinality(HeldAt(t))
      BY <1>1, HeldAfterVisit DEF Live
    <2> QED BY <2>1, VisitForgets, FS_EmptySet
  <1>4. Contract!Forgets(Live, Live')
    BY <1>3 DEF Contract!Forgets, Contract!Times
  <1> QED BY <1>1, <1>2, <1>4 DEF Contract!Read

\* A Reset is a Clear.
LEMMA ResetClears == Reset => Contract!Clear
  <1> SUFFICES ASSUME Reset PROVE Live' = [t \in 0 .. MaxTime |-> 0]
    BY DEF Reset, Contract!Clear, Contract!Times
  <1>1. Held' = {}
    BY DEF Reset, Held
  <1>2. \A t : HeldAt(t)' = {}
    BY <1>1 DEF HeldAt
  <1> QED BY <1>2, FS_EmptySet DEF Live

\* Time passes for both.
LEMMA TickAdvances == Tick => Contract!Advance
  BY DEF Tick, Contract!Advance, Live, HeldAt, Held

\* For every window, number of buckets and bucket size, the ring is a sliding
\* window that keeps what is younger than KeepAge and forgets what is older
\* than ForgetAge, and Sum returns exactly what is left in it.
THEOREM ImplementsWindow == Spec => ImplementsSlidingWindow
  <1>1. Init => Contract!Init
    <2> SUFFICES ASSUME Init PROVE Live = [t \in 0 .. MaxTime |-> 0]
      BY DEF Init, Contract!Init, Contract!Times
    <2>1. Held = {}
      BY DEF Init, Held
    <2>2. \A t : HeldAt(t) = {}
      BY <2>1 DEF HeldAt
    <2> QED BY <2>2, FS_EmptySet DEF Live
  <1>2. IInv /\ IInv' /\ [Next]_vars => [Contract!Next]_<<now, Live, reading>>
    <2>1. UNCHANGED vars => UNCHANGED <<now, Live, reading>>
      BY DEF vars, Live, HeldAt, Held
    <2> QED BY <2>1, IncrementRecords, SumReads, ResetClears, TickAdvances
            DEF Next, Contract!Next
  <1> QED BY <1>1, <1>2, Inductive, PTL DEF Spec, ImplementsSlidingWindow, Contract!Spec
=============================================================================
