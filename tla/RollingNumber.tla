--------------------------- MODULE RollingNumber ---------------------------
(***************************************************************************)
(* num/rollingnumber.go: a RollingNumber used by any number of goroutines. *)
(* Increment and Sum run under the number's lock, so each is one action;   *)
(* Reset is one action here too (RollingNumber.Reset takes no lock; what   *)
(* that costs is a hazard of its own, see README).                         *)
(*                                                                         *)
(* stamps and expired are history variables: the clock readings at which   *)
(* the increments counted in each bucket were made, and those of the       *)
(* increments the ring has dropped since the last Reset.  The code has     *)
(* neither; they exist to say how old what Sum counts can be.              *)
(***************************************************************************)
EXTENDS RollingWindow, Sequences, FiniteSets

CONSTANTS MaxTime,        \* bound: the clock stops here
          MaxIncrements   \* bound: increments in one behaviour

ASSUME BoundAssumption == MaxTime \in Nat /\ MaxIncrements \in Nat

VARIABLES num,        \* the RollingNumber
          now,        \* what clock.Now() returns
          reading,    \* what the last Sum returned
          stamps,     \* history: increments held, by bucket
          expired,    \* history: increments dropped since the last Reset
          increments  \* bound: increments made so far

vars == <<num, now, reading, stamps, expired, increments>>

TypeOK ==
  /\ num \in RollingNumbers
  /\ now \in Nat /\ now <= MaxTime
  /\ reading \in Nat
  /\ stamps \in [Buckets -> Seq(Nat)]
  /\ expired \in SUBSET Nat
  /\ increments \in 0 .. MaxIncrements

\* The clock starts at an arbitrary instant; 0 stands for it.
Init ==
  /\ now = 0
  /\ num = NewRollingNumber(now)
  /\ reading = 0
  /\ stamps = [b \in Buckets |-> <<>>]
  /\ expired = {}
  /\ increments = 0
-----------------------------------------------------------------------------
TimesIn(b) == {stamps[b][i] : i \in DOMAIN stamps[b]}

\* History of one findCurrentBucket: what the recycled buckets held is gone.
Kept == [b \in Buckets |-> IF b \in Recycled(num, now) THEN <<>> ELSE stamps[b]]
Dropped == UNION {TimesIn(b) : b \in Recycled(num, now)}

Increment ==
  /\ increments < MaxIncrements
  /\ num' = Incremented(num, now)
  /\ stamps' = [Kept EXCEPT ![FindCurrentBucket(num, now).currentBucket] = Append(@, now)]
  /\ expired' = expired \cup Dropped
  /\ increments' = increments + 1
  /\ UNCHANGED <<now, reading>>

Sum ==
  /\ num' = FindCurrentBucket(num, now)
  /\ reading' = SumOf(num')
  /\ stamps' = Kept
  /\ expired' = expired \cup Dropped
  /\ UNCHANGED <<now, increments>>

Reset ==
  /\ num' = ResetNumber(num, now)
  /\ stamps' = [b \in Buckets |-> <<>>]
  /\ expired' = {}
  /\ UNCHANGED <<now, reading, increments>>

\* time.Now() is monotonic.
Tick ==
  /\ now < MaxTime
  /\ now' = now + 1
  /\ UNCHANGED <<num, reading, stamps, expired, increments>>

Next == Increment \/ Sum \/ Reset \/ Tick

Spec == Init /\ [][Next]_vars
-----------------------------------------------------------------------------
(* What the number promises.                                               *)

\* What a Sum taken now would count is younger than ForgetAge, however the
\* visits were spaced (findCurrentBucket, rollingnumber.go:93-110).
CountedIsRecent ==
  \A b \in Buckets \ Recycled(num, now) :
    \A t \in TimesIn(b) : now - t < ForgetAge

\* What was dropped, or would be by a visit now, is older than KeepAge: no
\* visit pattern makes the number forget a recent request.
DroppedIsOld ==
  /\ \A t \in expired : now - t > KeepAge
  /\ \A b \in Recycled(num, now) : \A t \in TimesIn(b) : now - t > KeepAge

\* A bucket counts exactly the increments it holds.  Reset and the recycling
\* leave no count behind and no increment lands in a bucket being recycled.
BucketsCountStamps ==
  \A b \in Buckets : num.buckets[b] = Len(stamps[b])

\* The increments the ring holds, by bucket and place, and those made at t.
Held == UNION {{b} \X DOMAIN stamps[b] : b \in Buckets}
HeldAt(t) == {h \in Held : stamps[h[1]][h[2]] = t}
Live == [t \in 0 .. MaxTime |-> Cardinality(HeldAt(t))]

\* The contract of SlidingWindow.tla: the increments held are its log.
Contract == INSTANCE SlidingWindow WITH
  clock <- now,
  live <- Live,
  reading <- reading

\* Every step of the ring is a step of a sliding window with the two ages
\* above; in particular a Sum returns the number of increments still live.
ImplementsSlidingWindow == Contract!Spec

-----------------------------------------------------------------------------
(* The inductive invariant.  Distance(b) is the number of moves of the     *)
(* ring since b was current.                                               *)

Distance(b) == (num.currentBucket - b) % NumBuckets

\* Each move accounts for at least one bucket size of time and for less than
\* two: that brackets the age of what a bucket holds.
AgeByDistance ==
  \A b \in Buckets : \A i \in DOMAIN stamps[b] :
    LET age == num.currentBucketTime - stamps[b][i]
    IN  /\ age > (Distance(b) - 1) * BucketSize
        /\ age <= 2 * Distance(b) * BucketSize

PastOnly ==
  /\ num.currentBucketTime <= now
  /\ \A t \in expired : now - t > KeepAge

\* No increment is counted before it was made.
StampsPast == \A b \in Buckets : \A t \in TimesIn(b) : t <= now

IInv == TypeOK /\ AgeByDistance /\ PastOnly /\ StampsPast /\ BucketsCountStamps
=============================================================================
