------------------------ MODULE RollingWindowProofs ------------------------
(***************************************************************************)
(* Facts about the operators of RollingWindow.tla, for every window,       *)
(* number of buckets and bucket size: the arithmetic of the ring, that     *)
(* each operation returns a RollingNumber, and what Sum returns.           *)
(***************************************************************************)
EXTENDS RollingWindow, FiniteSetTheorems, FunctionTheorems, WellFoundedInduction, TLAPS

\* calculateBucketSize never returns zero: the division by it is safe.
LEMMA BucketSizePositive == BucketSize \in Nat \ {0}
  <1>1. WindowSize \div NumBuckets \in Int
    BY WindowAssumption
  <1> QED
    BY <1>1, WindowAssumption DEF BucketSize

-----------------------------------------------------------------------------
(* The ring.                                                               *)

\* How far the ring has moved past a bucket is one of 0 .. NumBuckets - 1,
\* and 0 for the current bucket only.
LEMMA RingDistance ==
  ASSUME NEW c \in Buckets, NEW b \in Buckets
  PROVE  /\ (c - b) % NumBuckets \in Buckets
         /\ (c - b) % NumBuckets = IF b <= c THEN c - b ELSE c - b + NumBuckets
  <1> USE WindowAssumption DEF Buckets
  <1>1. CASE b <= c
    <2>1. c - b \in 0 .. NumBuckets - 1
      BY <1>1
    <2>2. (c - b) % NumBuckets = c - b
      BY <2>1
    <2> QED BY <1>1, <2>1, <2>2
  <1>2. CASE ~ (b <= c)
    <2>1. c - b \in -NumBuckets .. -1
      BY <1>2
    <2>2. (c - b) % NumBuckets = c - b + NumBuckets
      BY <2>1
    <2> QED BY <1>2, <2>1, <2>2
  <1> QED BY <1>1, <1>2

\* Every index findCurrentBucket computes is inside the ring.
LEMMA RingRange ==
  ASSUME NEW a \in Int
  PROVE  a % NumBuckets \in Buckets
  BY WindowAssumption DEF Buckets

\* i <= NumBuckets moves of the ring wrap around at most once.
LEMMA RingStep ==
  ASSUME NEW c \in Buckets, NEW i \in Nat, i <= NumBuckets
  PROVE  (c + i) % NumBuckets = IF c + i < NumBuckets THEN c + i ELSE c + i - NumBuckets
  <1> USE WindowAssumption DEF Buckets
  <1>1. CASE c + i < NumBuckets
    <2>1. c + i \in 0 .. NumBuckets - 1
      BY <1>1
    <2> QED BY <1>1, <2>1
  <1>2. CASE ~ (c + i < NumBuckets)
    <2>1. c + i \in NumBuckets .. 2 * NumBuckets - 1
      BY <1>2
    <2>2. (c + i) % NumBuckets = c + i - NumBuckets
      BY <2>1
    <2> QED BY <1>2, <2>2
  <1> QED BY <1>1, <1>2

\* A bucket that k moves of the ring do not recycle is k moves further away.
LEMMA RingKeeps ==
  ASSUME NEW c \in Buckets, NEW b \in Buckets, NEW k \in Nat \ {0},
         b \notin {(c + i) % NumBuckets : i \in 1 .. k}
  PROVE  (((c + k) % NumBuckets) - b) % NumBuckets = ((c - b) % NumBuckets) + k
  <1> DEFINE d == (c - b) % NumBuckets
  <1> USE WindowAssumption
  <1>1. /\ d \in 0 .. NumBuckets - 1
        /\ d = IF b <= c THEN c - b ELSE c - b + NumBuckets
    BY RingDistance DEF Buckets
  <1>2. (c + (NumBuckets - d)) % NumBuckets = b
    <2>1. NumBuckets - d \in Nat /\ NumBuckets - d <= NumBuckets
      BY <1>1
    <2> HIDE DEF d
    <2>2. (c + (NumBuckets - d)) % NumBuckets
            = IF c + (NumBuckets - d) < NumBuckets THEN c + (NumBuckets - d)
              ELSE c + (NumBuckets - d) - NumBuckets
      BY <2>1, RingStep
    <2> QED BY <1>1, <2>2 DEF Buckets
  <1> HIDE DEF d
  <1>3. k < NumBuckets - d
    <2> SUFFICES ASSUME NumBuckets - d <= k PROVE FALSE
      BY <1>1
    <2>1. NumBuckets - d \in 1 .. k
      BY <1>1
    <2> QED BY <1>2, <2>1
  <1>4. (c + k) % NumBuckets = IF c + k < NumBuckets THEN c + k ELSE c + k - NumBuckets
    BY <1>1, <1>3, RingStep
  <1>5. (c + k) % NumBuckets \in Buckets
    BY RingRange DEF Buckets
  <1>6. (((c + k) % NumBuckets) - b) % NumBuckets
          = IF b <= (c + k) % NumBuckets THEN ((c + k) % NumBuckets) - b
            ELSE ((c + k) % NumBuckets) - b + NumBuckets
    BY <1>5, RingDistance
  <1>7. (((c + k) % NumBuckets) - b) % NumBuckets = d + k
    BY <1>1, <1>3, <1>4, <1>6 DEF Buckets
  <1> QED BY <1>7 DEF d

\* A bucket that k moves of the ring recycle was at most k moves from its turn.
LEMMA RingRecycles ==
  ASSUME NEW c \in Buckets, NEW b \in Buckets, NEW k \in Nat \ {0},
         b \in {(c + i) % NumBuckets : i \in 1 .. k}
  PROVE  ((c - b) % NumBuckets) + k >= NumBuckets
  <1> DEFINE d == (c - b) % NumBuckets
  <1> USE WindowAssumption
  <1>1. /\ d \in 0 .. NumBuckets - 1
        /\ d = IF b <= c THEN c - b ELSE c - b + NumBuckets
    BY RingDistance DEF Buckets
  <1> HIDE DEF d
  <1>2. PICK i \in 1 .. k : b = (c + i) % NumBuckets
    OBVIOUS
  <1>3. CASE i >= NumBuckets
    BY <1>1, <1>3 DEF d
  <1>4. CASE i < NumBuckets
    <2>0. i \in Nat /\ i <= NumBuckets
      BY <1>4
    <2>1. b = IF c + i < NumBuckets THEN c + i ELSE c + i - NumBuckets
      BY <1>2, <2>0, RingStep
    <2>2. d + i >= NumBuckets
      BY <1>1, <1>4, <2>1 DEF Buckets
    <2> QED BY <1>1, <2>2 DEF d
  <1> QED BY <1>3, <1>4

\* Multiplying by a bucket size keeps the order.
LEMMA ProductOrder ==
  ASSUME NEW x \in Int, NEW y \in Int, NEW s \in Nat, x <= y
  PROVE  x * s <= y * s
  OBVIOUS

\* A positive number of bucket sizes is a positive time.
LEMMA ProductPositive ==
  ASSUME NEW x \in Nat \ {0}, NEW s \in Nat \ {0}
  PROVE  x * s \in Nat \ {0}
  <1>1. 1 * s <= x * s
    BY ProductOrder
  <1> QED BY <1>1

\* Times counted in bucket sizes add up.
LEMMA ProductSum ==
  ASSUME NEW x \in Int, NEW y \in Int, NEW s \in Int
  PROVE  x * s + y * s = (x + y) * s
  OBVIOUS

\* Integer division rounds down.
LEMMA DivBounds ==
  ASSUME NEW a \in Nat, NEW s \in Nat \ {0}
  PROVE  /\ a \div s \in Nat
         /\ (a \div s) * s <= a
         /\ a < (a \div s + 1) * s
  OBVIOUS

-----------------------------------------------------------------------------
(* Every operation returns a RollingNumber.                                *)

\* NewRollingNumber and Reset give an empty ring that starts at t.
LEMMA NewTyped ==
  ASSUME NEW t \in Nat
  PROVE  NewRollingNumber(t) \in RollingNumbers
  <1>1. 0 \in Buckets
    BY WindowAssumption DEF Buckets
  <1> QED BY <1>1 DEF NewRollingNumber, RollingNumbers

\* findCurrentBucket stays inside the ring, whatever the clock did.
LEMMA VisitTyped ==
  ASSUME NEW n \in RollingNumbers, NEW t \in Nat
  PROVE  FindCurrentBucket(n, t) \in RollingNumbers
  <1> DEFINE k == BucketsBehind(n, t)
  <1>1. n.currentBucketTime \in Nat /\ n.currentBucket \in Int
    BY DEF RollingNumbers, Buckets
  <1>2. k \in Int
    BY <1>1, BucketSizePositive DEF BucketsBehind
  <1>3. (n.currentBucket + k) % NumBuckets \in Buckets
    BY <1>1, <1>2, RingRange
  <1> QED BY <1>3 DEF FindCurrentBucket, RollingNumbers

\* Increment counts in a bucket of the ring.
LEMMA IncrementTyped ==
  ASSUME NEW n \in RollingNumbers, NEW t \in Nat
  PROVE  Incremented(n, t) \in RollingNumbers
  <1> DEFINE m == FindCurrentBucket(n, t)
  <1>1. m \in RollingNumbers
    BY VisitTyped
  <1>2. Incremented(n, t) = [m EXCEPT !.buckets[m.currentBucket] = @ + 1]
    BY DEF Incremented
  <1> HIDE DEF m
  <1>3. m = [currentBucket |-> m.currentBucket,
             currentBucketTime |-> m.currentBucketTime, buckets |-> m.buckets]
    BY <1>1 DEF RollingNumbers
  <1>4. Incremented(n, t)
          = [currentBucket |-> m.currentBucket,
             currentBucketTime |-> m.currentBucketTime,
             buckets |-> [m.buckets EXCEPT ![m.currentBucket] = @ + 1]]
    BY <1>2, <1>3
  <1>5. [m.buckets EXCEPT ![m.currentBucket] = @ + 1] \in [Buckets -> Nat]
    BY <1>1 DEF RollingNumbers
  <1> QED BY <1>1, <1>4, <1>5 DEF RollingNumbers
-----------------------------------------------------------------------------
(* What Sum adds up: FoldFunction over the counters, without induction     *)
(* over data.  It is the CHOOSE of a function on the subsets of the domain *)
(* that satisfies one equation; a cardinality satisfies it too, and two    *)
(* that do agree on every subset, the least one where they differ.         *)

\* A set of subsets that has every set whose strict subsets it has, has all.
LEMMA SubsetInduction ==
  ASSUME NEW D, IsFiniteSet(D), NEW P,
         \A s \in SUBSET D : (\A t \in SUBSET s : t # s => t \in P) => s \in P
  PROVE  SUBSET D \subseteq P
  <1> DEFINE R == StrictSubsetOrdering(D)
             Q == (SUBSET D) \ P
  <1>1. IsWellFoundedOn(R, SUBSET D)
    BY FS_StrictSubsetOrderingWellFounded, FS_FiniteSubsetsOfFinite
  <1>2. Q \subseteq SUBSET D
    OBVIOUS
  <1> SUFFICES ASSUME Q # {} PROVE FALSE
    OBVIOUS
  <1>3. PICK s \in Q : \A t \in Q : <<t, s>> \notin R
    <2> HIDE DEF R, Q
    <2> QED BY <1>1, <1>2, WFMin
  <1>4. ASSUME NEW t \in SUBSET s, t # s PROVE t \in P
    <2>1. t \in SUBSET D
      BY <1>3
    <2>2. <<t, s>> \in R
      BY <1>3, <1>4, <2>1 DEF StrictSubsetOrdering
    <2> QED BY <1>3, <2>1, <2>2
  <1>5. s \in P
    BY <1>3, <1>4
  <1> QED BY <1>3, <1>5

\* The equations of the sum over the subsets of the domain of f.
SumStep(f, h) ==
  [s \in SUBSET DOMAIN f |->
     IF s = {} THEN 0 ELSE f[CHOOSE x \in s : TRUE] + h[s \ {CHOOSE x \in s : TRUE}]]

\* FoldFunction(+, 0, f) is any G that adds f[x] with each x.
LEMMA SumIs ==
  ASSUME NEW D, IsFiniteSet(D), NEW f \in [D -> Nat],
         NEW G \in [SUBSET D -> Nat], G[{}] = 0,
         \A s \in SUBSET D : \A x \in s : G[s] = f[x] + G[s \ {x}]
  PROVE  FoldFunction(LAMBDA x, y : x + y, 0, f) = G[D]
  <1> DEFINE H == CHOOSE h : h = SumStep(f, h)
  <1>1. FoldFunction(LAMBDA x, y : x + y, 0, f) = H[DOMAIN f]
    BY DEF FoldFunction, FoldFunctionOnSet, MapThenFoldSet, SumStep
  <1>2. G = SumStep(f, G)
    <2>1. \A s \in SUBSET D :
            G[s] = IF s = {} THEN 0
                   ELSE f[CHOOSE x \in s : TRUE] + G[s \ {CHOOSE x \in s : TRUE}]
      OBVIOUS
    <2> QED BY <2>1 DEF SumStep
  <1>3. H = SumStep(f, H)
    BY <1>2
  <1> HIDE DEF H
  <1>4. \A s \in SUBSET D :
          H[s] = IF s = {} THEN 0
                 ELSE f[CHOOSE x \in s : TRUE] + H[s \ {CHOOSE x \in s : TRUE}]
    BY <1>3 DEF SumStep
  <1> DEFINE P == {s \in SUBSET D : H[s] = G[s]}
  <1>5. ASSUME NEW s \in SUBSET D, \A t \in SUBSET s : t # s => t \in P
        PROVE  s \in P
    <2>1. CASE s = {}
      BY <1>4, <2>1
    <2>2. CASE s # {}
      <3> DEFINE x == CHOOSE x \in s : TRUE
      <3>1. x \in s
        BY <2>2
      <3> HIDE DEF x
      <3>2. s \ {x} \in P
        BY <1>5, <3>1
      <3>3. H[s] = f[x] + H[s \ {x}]
        BY <1>4, <2>2 DEF x
      <3> QED BY <3>1, <3>2, <3>3
    <2> QED BY <2>1, <2>2
  <1>6. SUBSET D \subseteq P
    <2> HIDE DEF P
    <2> QED BY <1>5, SubsetInduction
  <1> QED BY <1>1, <1>6

\* c divides S into parts named by D; f counts the members of each.
Partition(D, S, c, f) ==
  /\ c \in [D -> SUBSET S]
  /\ \A x \in S : \E d \in D : x \in c[d]
  /\ \A d, e \in D : d # e => c[d] \cap c[e] = {}
  /\ \A d \in D : f[d] = Cardinality(c[d])

\* Counting the members of a finite set part by part counts each once.
LEMMA SumOfParts ==
  ASSUME NEW D, IsFiniteSet(D), NEW S, IsFiniteSet(S), NEW c, NEW f \in [D -> Nat],
         Partition(D, S, c, f)
  PROVE  FoldFunction(LAMBDA x, y : x + y, 0, f) = Cardinality(S)
  <1> DEFINE Part(s) == {x \in S : \E d \in s : x \in c[d]}
             G == [s \in SUBSET D |-> Cardinality(Part(s))]
  <1> USE DEF Partition
  <1>1. \A s \in SUBSET D : IsFiniteSet(Part(s)) /\ Cardinality(Part(s)) \in Nat
    <2> SUFFICES ASSUME NEW s \in SUBSET D
                 PROVE  IsFiniteSet(Part(s)) /\ Cardinality(Part(s)) \in Nat
      OBVIOUS
    <2>1. IsFiniteSet(Part(s))
      BY FS_Subset
    <2> QED BY <2>1, FS_CardinalityType
  <1>2. G \in [SUBSET D -> Nat]
    BY <1>1
  <1>3. G[{}] = 0
    <2>1. Part({}) = {}
      OBVIOUS
    <2> QED BY <2>1, FS_EmptySet
  <1>4. ASSUME NEW s \in SUBSET D, NEW x \in s PROVE G[s] = f[x] + G[s \ {x}]
    <2>1. /\ Part(s) = Part({x}) \cup Part(s \ {x})
          /\ Part({x}) \cap Part(s \ {x}) = {}
          /\ Part({x}) = c[x]
      OBVIOUS
    <2>2. s \ {x} \in SUBSET D /\ {x} \in SUBSET D
      OBVIOUS
    <2>3. IsFiniteSet(Part({x})) /\ IsFiniteSet(Part(s \ {x}))
      BY <1>1, <2>2
    <2>4. Cardinality(Part({x}) \cap Part(s \ {x})) = 0
      BY <2>1, FS_EmptySet
    <2> HIDE DEF Part
    <2>5. Cardinality(Part({x}) \cup Part(s \ {x}))
            = Cardinality(Part({x})) + Cardinality(Part(s \ {x}))
                - Cardinality(Part({x}) \cap Part(s \ {x}))
      BY <2>3, FS_Union
    <2>6. Cardinality(Part(s)) = Cardinality(Part({x})) + Cardinality(Part(s \ {x})) - 0
      BY <2>1, <2>4, <2>5
    <2>7. Cardinality(Part({x})) = f[x]
      BY <2>1
    <2> QED BY <1>1, <2>2, <2>6, <2>7
  <1>5. Part(D) = S
    OBVIOUS
  <1> HIDE DEF G, Partition
  <1>6. FoldFunction(LAMBDA x, y : x + y, 0, f) = G[D]
    BY <1>2, <1>3, <1>4, SumIs
  <1> QED BY <1>5, <1>6 DEF G

\* {x} times 1 .. n has n members.
LEMMA CountOne ==
  ASSUME NEW x, NEW n \in Nat
  PROVE  LET T == {x} \X (1 .. n)
         IN  IsFiniteSet(T) /\ Cardinality(T) = n
  <1> DEFINE T == {x} \X (1 .. n)
             b == [i \in 1 .. n |-> <<x, i>>]
  <1>1. b \in Bijection(1 .. n, T)
    <2>1. b \in [1 .. n -> T]
      OBVIOUS
    <2>2. \A i, j \in 1 .. n : b[i] = b[j] => i = j
      OBVIOUS
    <2>3. \A u \in T : \E i \in 1 .. n : b[i] = u
      OBVIOUS
    <2> QED BY <2>1, <2>2, <2>3, Fun_IsBij
  <1>2. IsFiniteSet(1 .. n) /\ Cardinality(1 .. n) = n
    BY FS_Interval
  <1> HIDE DEF b, T
  <1>3. ExistsBijection(1 .. n, T)
    BY <1>1 DEF ExistsBijection
  <1> QED BY <1>2, <1>3, FS_Bijection DEF T

\* The pairs <<d, i>>, i counted at d: one for each unit of the function f.
Units(f) == {u \in (DOMAIN f) \X Nat : u[2] \in 1 .. f[u[1]]}

\* A finite function of naturals has finitely many units, f[d] of them at d.
LEMMA UnitsFinite ==
  ASSUME NEW D, IsFiniteSet(D), NEW f \in [D -> Nat]
  PROVE  /\ IsFiniteSet(Units(f))
         /\ \A d \in D : Cardinality({u \in Units(f) : u[1] = d}) = f[d]
  <1> DEFINE W == [d \in D |-> {d} \X (1 .. f[d])]
             T == {W[d] : d \in D}
  <1>1. IsFiniteSet(T)
    <2>1. W \in Surjection(D, T)
      <3>1. W \in [D -> T] /\ \A t \in T : \E d \in D : W[d] = t
        OBVIOUS
      <3> HIDE DEF W, T
      <3> QED BY <3>1, Fun_IsSurj
    <2> HIDE DEF W, T
    <2> QED BY <2>1, FS_Surjection
  <1>2. \A d \in D : IsFiniteSet(W[d]) /\ Cardinality(W[d]) = f[d]
    BY CountOne
  <1>3. Units(f) = UNION T
    BY DEF Units
  <1>4. \A d \in D : {u \in Units(f) : u[1] = d} = W[d]
    BY DEF Units
  <1>5. IsFiniteSet(UNION T)
    <2>1. \A t \in T : IsFiniteSet(t)
      BY <1>2
    <2> HIDE DEF T
    <2> QED BY <1>1, <2>1, FS_UNION
  <1> QED BY <1>2, <1>3, <1>4, <1>5

\* What FoldFunction adds up is how many units there are.
LEMMA SumIsCount ==
  ASSUME NEW D, IsFiniteSet(D), NEW f \in [D -> Nat]
  PROVE  FoldFunction(LAMBDA x, y : x + y, 0, f) = Cardinality(Units(f))
  <1> DEFINE U == Units(f)
             c == [d \in D |-> {u \in U : u[1] = d}]
  <1>1. IsFiniteSet(U) /\ Partition(D, U, c, f)
    <2>1. \A d \in D : f[d] = Cardinality(c[d])
      BY UnitsFinite
    <2> QED BY <2>1, UnitsFinite DEF Units, Partition
  <1> HIDE DEF c, U
  <1>2. FoldFunction(LAMBDA x, y : x + y, 0, f) = Cardinality(U)
    BY <1>1, SumOfParts
  <1> QED BY <1>2 DEF U

\* Buckets is finite.
LEMMA BucketsFinite == IsFiniteSet(Buckets) /\ IsFiniteSet(0 .. NumBuckets - 1)
  BY WindowAssumption, FS_Interval DEF Buckets

\* Sum returns how many units its buckets hold; in particular a natural.
LEMMA SumOfCounts ==
  ASSUME NEW n \in RollingNumbers
  PROVE  /\ SumOf(n) = Cardinality(Units(n.buckets))
         /\ SumOf(n) \in Nat
  <1>1. n.buckets \in [Buckets -> Nat]
    BY DEF RollingNumbers
  <1>2. IsFiniteSet(Units(n.buckets))
    BY <1>1, BucketsFinite, UnitsFinite
  <1>3. SumOf(n) = Cardinality(Units(n.buckets))
    BY <1>1, BucketsFinite, SumIsCount DEF SumOf
  <1> QED BY <1>2, <1>3, FS_CardinalityType

\* An empty ring sums to nothing.
LEMMA EmptySum ==
  ASSUME NEW t \in Nat
  PROVE  SumOf(NewRollingNumber(t)) = 0
  <1>1. Units(NewRollingNumber(t).buckets) = {}
    BY DEF NewRollingNumber, Units
  <1> QED BY <1>1, NewTyped, SumOfCounts, FS_EmptySet

\* Buckets that count no more sum to no more.
LEMMA SumShrinks ==
  ASSUME NEW n \in RollingNumbers, NEW m \in RollingNumbers,
         \A b \in Buckets : m.buckets[b] <= n.buckets[b]
  PROVE  SumOf(m) <= SumOf(n)
  <1>1. n.buckets \in [Buckets -> Nat] /\ m.buckets \in [Buckets -> Nat]
    BY DEF RollingNumbers
  <1>2. Units(m.buckets) \subseteq Units(n.buckets)
    BY <1>1 DEF Units
  <1>3. IsFiniteSet(Units(n.buckets))
    BY <1>1, BucketsFinite, UnitsFinite
  <1> QED BY <1>2, <1>3, SumOfCounts, FS_Subset

\* findCurrentBucket loses counts and makes none up, whatever the clock did.
LEMMA VisitSum ==
  ASSUME NEW n \in RollingNumbers, NEW t \in Nat
  PROVE  SumOf(FindCurrentBucket(n, t)) <= SumOf(n)
  <1>1. FindCurrentBucket(n, t) \in RollingNumbers
    BY VisitTyped
  <1>2. \A b \in Buckets : FindCurrentBucket(n, t).buckets[b] <= n.buckets[b]
    BY DEF FindCurrentBucket, RollingNumbers
  <1> QED BY <1>1, <1>2, SumShrinks

\* An Increment adds one at most.
LEMMA IncrementSum ==
  ASSUME NEW n \in RollingNumbers, NEW t \in Nat
  PROVE  SumOf(Incremented(n, t)) <= SumOf(n) + 1
  <1> DEFINE m == FindCurrentBucket(n, t)
             c == m.currentBucket
             f == m.buckets
             g == Incremented(n, t).buckets
  <1>1. m \in RollingNumbers /\ Incremented(n, t) \in RollingNumbers /\ SumOf(m) <= SumOf(n)
    BY VisitTyped, IncrementTyped, VisitSum
  <1>2. f \in [Buckets -> Nat] /\ c \in Buckets
    BY <1>1 DEF RollingNumbers
  <1>3. g = [f EXCEPT ![c] = @ + 1]
    BY <1>1 DEF Incremented, RollingNumbers
  <1>4. SumOf(m) = Cardinality(Units(f)) /\ SumOf(Incremented(n, t)) = Cardinality(Units(g))
    BY <1>1, SumOfCounts
  <1>5. IsFiniteSet(Units(f)) /\ Cardinality(Units(f)) \in Nat
    BY <1>2, BucketsFinite, UnitsFinite, FS_CardinalityType
  <1> HIDE DEF f, g, c
  <1>6. Units(g) \subseteq Units(f) \cup {<<c, f[c] + 1>>}
    BY <1>2, <1>3 DEF Units
  <1>7. /\ IsFiniteSet(Units(f) \cup {<<c, f[c] + 1>>})
        /\ Cardinality(Units(f) \cup {<<c, f[c] + 1>>}) <= Cardinality(Units(f)) + 1
    <2>1. PICK S, x : S = Units(f) /\ x = <<c, f[c] + 1>>
      OBVIOUS
    <2>2. /\ IsFiniteSet(S \cup {x})
          /\ Cardinality(S \cup {x}) = IF x \in S THEN Cardinality(S) ELSE Cardinality(S) + 1
      BY <1>5, <2>1, FS_AddElement
    <2> QED BY <1>5, <2>1, <2>2
  <1>8. Cardinality(Units(g)) <= Cardinality(Units(f) \cup {<<c, f[c] + 1>>})
    BY <1>6, <1>7, FS_Subset
  <1>9. SumOf(n) \in Nat /\ SumOf(m) \in Nat /\ SumOf(Incremented(n, t)) \in Nat
    BY <1>1, SumOfCounts
  <1>10. Cardinality(Units(f) \cup {<<c, f[c] + 1>>}) \in Nat
    BY <1>7, FS_CardinalityType
  <1> QED BY <1>1, <1>4, <1>5, <1>7, <1>8, <1>9, <1>10
-----------------------------------------------------------------------------
(* One visit at time t, and the age of a request counted in bucket b at    *)
(* time s: d moves of the ring later it is between d - 1 and 2 * d bucket  *)
(* sizes old, by the ring's clock.                                         *)

Aged(n, b, s) ==
  LET d == (n.currentBucket - b) % NumBuckets
      age == n.currentBucketTime - s
  IN  age > (d - 1) * BucketSize /\ age <= 2 * d * BucketSize

\* How far behind the ring is, and how much time that accounts for.
LEMMA RingBehind ==
  ASSUME NEW n \in RollingNumbers, NEW t \in Nat, n.currentBucketTime <= t
  PROVE  LET k == BucketsBehind(n, t)
             elapsed == t - n.currentBucketTime
         IN  k \in Nat /\ k * BucketSize <= elapsed /\ elapsed < (k + 1) * BucketSize
  <1>1. t - n.currentBucketTime \in Nat
    BY DEF RollingNumbers
  <1> QED
    BY <1>1, BucketSizePositive, DivBounds DEF BucketsBehind

\* A visit leaves the ring less than one bucket size behind the clock.
LEMMA RingCatchesUp ==
  ASSUME NEW n \in RollingNumbers, NEW t \in Nat, n.currentBucketTime <= t
  PROVE  /\ FindCurrentBucket(n, t) \in RollingNumbers
         /\ FindCurrentBucket(n, t).currentBucketTime <= t
         /\ t - FindCurrentBucket(n, t).currentBucketTime < BucketSize
  <1> DEFINE k == BucketsBehind(n, t)
  <1>1. /\ k \in Nat /\ t - n.currentBucketTime < (k + 1) * BucketSize
        /\ BucketSize \in Nat \ {0}
    BY RingBehind, BucketSizePositive
  <1>2. CASE k = 0
    BY <1>1, <1>2 DEF FindCurrentBucket
  <1>3. CASE k > 0
    <2>1. FindCurrentBucket(n, t) \in RollingNumbers
      BY VisitTyped
    <2> QED BY <1>1, <1>3, <2>1 DEF FindCurrentBucket
  <1> QED BY <1>1, <1>2, <1>3

\* Every bucket a visit zeroes is one of the ring's.
LEMMA RecycledBuckets ==
  ASSUME NEW n \in RollingNumbers, NEW t \in Nat, n.currentBucketTime <= t
  PROVE  Recycled(n, t) \subseteq Buckets
  <1> SUFFICES ASSUME NEW i \in 1 .. BucketsBehind(n, t)
               PROVE  (n.currentBucket + i) % NumBuckets \in Buckets
    BY DEF Recycled
  <1>1. n.currentBucket + i \in Int
    BY RingBehind DEF RollingNumbers, Buckets
  <1> QED BY <1>1, RingRange

\* What a visit zeroes, and what it leaves.
LEMMA VisitedBuckets ==
  ASSUME NEW n \in RollingNumbers, NEW t \in Nat, n.currentBucketTime <= t,
         NEW b \in Buckets
  PROVE  FindCurrentBucket(n, t).buckets[b]
           = IF b \in Recycled(n, t) THEN 0 ELSE n.buckets[b]
  <1> DEFINE k == BucketsBehind(n, t)
  <1>1. k \in Nat
    BY RingBehind
  <1>2. CASE k = 0
    <2>1. Recycled(n, t) = {}
      BY <1>2 DEF Recycled
    <2> QED BY <1>2, <2>1 DEF FindCurrentBucket
  <1>3. CASE k > 0
    BY <1>3 DEF FindCurrentBucket
  <1> QED BY <1>1, <1>2, <1>3

\* A bucket that is kept moves away by as many bucket sizes as have passed.
LEMMA AgedAfterVisit ==
  ASSUME NEW n \in RollingNumbers, NEW t \in Nat, n.currentBucketTime <= t,
         NEW b \in Buckets, b \notin Recycled(n, t), NEW s \in Nat, Aged(n, b, s)
  PROVE  Aged(FindCurrentBucket(n, t), b, s)
  <1> DEFINE m == FindCurrentBucket(n, t)
             k == BucketsBehind(n, t)
             c == n.currentBucket
             d == (c - b) % NumBuckets
             S == BucketSize
             elapsed == t - n.currentBucketTime
  <1>1. /\ k \in Nat /\ k * S <= elapsed /\ elapsed < (k + 1) * S
        /\ S \in Nat \ {0}
    BY RingBehind, BucketSizePositive
  <1>2. c \in Buckets /\ d \in 0 .. NumBuckets - 1 /\ n.currentBucketTime \in Nat
    BY RingDistance DEF RollingNumbers, Buckets
  <1>3. n.currentBucketTime - s > (d - 1) * S /\ n.currentBucketTime - s <= 2 * d * S
    BY DEF Aged
  <1>4. CASE k = 0
    BY <1>4 DEF FindCurrentBucket
  <1>5. CASE k > 0
    <2>1. m.currentBucket = (c + k) % NumBuckets /\ m.currentBucketTime = t
      BY <1>5 DEF FindCurrentBucket
    <2> DEFINE e == (m.currentBucket - b) % NumBuckets
    <2>2. e = d + k
      BY <1>1, <1>2, <1>5, <2>1, RingKeeps DEF Recycled
    <2> HIDE DEF k, d, e, S, m
    <2>3. t - s > (e - 1) * S
      <3>1. t - s > (d - 1) * S + k * S
        BY <1>1, <1>2, <1>3
      <3>2. (d - 1) * S + k * S = (d - 1 + k) * S
        BY <1>1, <1>2, ProductSum
      <3>3. d - 1 + k = e - 1
        BY <1>1, <1>2, <2>2
      <3> QED BY <3>1, <3>2, <3>3
    <2>4. t - s <= (2 * e) * S
      <3>1. t - s <= (2 * d) * S + (k + 1) * S
        BY <1>1, <1>2, <1>3
      <3>2. (2 * d) * S + (k + 1) * S = (2 * d + (k + 1)) * S
        BY <1>1, <1>2, ProductSum
      <3>3. (2 * d + (k + 1)) * S <= (2 * e) * S
        BY <1>1, <1>2, <1>5, <2>2, ProductOrder
      <3> QED BY <3>1, <3>2, <3>3, <1>1, <1>2, <2>2
    <2>5. Aged(m, b, s)
      BY <2>1, <2>3, <2>4 DEF S, Aged, e
    <2> QED BY <2>5 DEF m
  <1> QED BY <1>1, <1>4, <1>5

\* What is counted in the bucket a visit has just found is of no age.
LEMMA AgedWhenNew ==
  ASSUME NEW m \in RollingNumbers, NEW t \in Nat, m.currentBucketTime <= t,
         t - m.currentBucketTime < BucketSize
  PROVE  Aged(m, m.currentBucket, t)
  <1>1. m.currentBucket \in Buckets /\ m.currentBucketTime \in Nat
    BY DEF RollingNumbers
  <1>2. (m.currentBucket - m.currentBucket) % NumBuckets = 0
    BY <1>1, RingDistance DEF Buckets
  <1> QED BY <1>1, <1>2, BucketSizePositive DEF Aged

\* What a visit recycles is older than KeepAge.
LEMMA RecycledIsOld ==
  ASSUME NEW n \in RollingNumbers, NEW t \in Nat, n.currentBucketTime <= t,
         NEW b \in Recycled(n, t), NEW s \in Nat, Aged(n, b, s)
  PROVE  t - s > KeepAge
  <1> DEFINE k == BucketsBehind(n, t)
             c == n.currentBucket
             d == (c - b) % NumBuckets
             S == BucketSize
             elapsed == t - n.currentBucketTime
  <1>0. b \in Buckets
    BY RecycledBuckets
  <1>1. k \in Nat /\ k * S <= elapsed /\ S \in Nat \ {0}
    BY RingBehind, BucketSizePositive
  <1>2. c \in Buckets /\ d \in 0 .. NumBuckets - 1 /\ n.currentBucketTime \in Nat
    BY <1>0, RingDistance DEF RollingNumbers, Buckets
  <1>3. n.currentBucketTime - s > (d - 1) * S
    BY DEF Aged
  <1>4. k > 0
    BY <1>1 DEF Recycled
  <1>5. d + k >= NumBuckets
    BY <1>0, <1>1, <1>2, <1>4, RingRecycles DEF Recycled
  <1> HIDE DEF k, d, S
  <1>6. t - s > (d - 1) * S + k * S
    BY <1>1, <1>2, <1>3
  <1>7. (d - 1) * S + k * S = (d - 1 + k) * S
    BY <1>1, <1>2, ProductSum
  <1>8. (NumBuckets - 1) * S <= (d - 1 + k) * S
    BY <1>1, <1>2, <1>5, WindowAssumption, ProductOrder
  <1>9. (NumBuckets - 1) * S \in Int /\ (d - 1 + k) * S \in Int
    BY <1>1, <1>2, WindowAssumption
  <1> QED BY <1>2, <1>6, <1>7, <1>8, <1>9 DEF S, KeepAge

\* What a visit leaves counted is younger than ForgetAge.
LEMMA CountedIsYoung ==
  ASSUME NEW n \in RollingNumbers, NEW t \in Nat, n.currentBucketTime <= t,
         NEW b \in Buckets, b \notin Recycled(n, t), NEW s \in Nat, Aged(n, b, s)
  PROVE  t - s < ForgetAge
  <1> DEFINE m == FindCurrentBucket(n, t)
             d == (m.currentBucket - b) % NumBuckets
             S == BucketSize
  <1>1. /\ m \in RollingNumbers /\ m.currentBucketTime <= t
        /\ t - m.currentBucketTime < S /\ S \in Nat \ {0}
    BY RingCatchesUp, BucketSizePositive
  <1>2. d \in 0 .. NumBuckets - 1 /\ m.currentBucketTime \in Nat
    BY <1>1, RingDistance DEF RollingNumbers, Buckets
  <1>3. m.currentBucketTime - s <= (2 * d) * S
    BY AgedAfterVisit DEF Aged
  <1> HIDE DEF m, d, S
  <1>4. t - s < (2 * d) * S + 1 * S
    BY <1>1, <1>2, <1>3
  <1>5. (2 * d) * S + 1 * S = (2 * d + 1) * S
    BY <1>1, <1>2, ProductSum
  <1>6. (2 * d + 1) * S <= (2 * NumBuckets - 1) * S
    BY <1>1, <1>2, WindowAssumption, ProductOrder
  <1>7. (2 * NumBuckets - 1) * S \in Int /\ (2 * d + 1) * S \in Int
    BY <1>1, <1>2, WindowAssumption
  <1> QED BY <1>4, <1>5, <1>6, <1>7 DEF S, ForgetAge
-----------------------------------------------------------------------------
(* A number accounts, at time t, for a finite set O of requests: request o *)
(* was counted at time at[o], and is counted in bucket place[o] now, or no *)
(* longer, when place[o] is NumBuckets.                                    *)

Accounts(n, t, O, at, place) ==
  /\ n \in RollingNumbers /\ n.currentBucketTime <= t
  /\ IsFiniteSet(O) /\ at \in [O -> Nat] /\ place \in [O -> 0 .. NumBuckets]
  /\ \A b \in Buckets : n.buckets[b] = Cardinality({o \in O : place[o] = b})
  /\ \A o \in O : /\ at[o] <= t
                  /\ place[o] \in Buckets => Aged(n, place[o], at[o])
                  /\ place[o] = NumBuckets => t - at[o] > KeepAge

\* Where the requests are after a visit at time t.
PlaceAfter(n, t, place) ==
  [o \in DOMAIN place |-> IF place[o] \in Recycled(n, t) THEN NumBuckets ELSE place[o]]

\* A new number accounts for no request.
LEMMA AccountsNew ==
  ASSUME NEW t \in Nat, NEW at, NEW place,
         at \in [{} -> Nat], place \in [{} -> 0 .. NumBuckets]
  PROVE  Accounts(NewRollingNumber(t), t, {}, at, place)
  <1>1. NewRollingNumber(t) \in RollingNumbers /\ IsFiniteSet({})
    BY NewTyped, FS_EmptySet
  <1>2. \A b \in Buckets : NewRollingNumber(t).buckets[b] = Cardinality({o \in {} : place[o] = b})
    <2>1. \A b : {o \in {} : place[o] = b} = {}
      OBVIOUS
    <2> QED BY <2>1, FS_EmptySet DEF NewRollingNumber
  <1> QED BY <1>1, <1>2 DEF Accounts, NewRollingNumber

\* A number still accounts for them later.
LEMMA AccountsLater ==
  ASSUME NEW n, NEW O, NEW at, NEW place, NEW t \in Nat, NEW u \in Nat, t <= u,
         Accounts(n, t, O, at, place)
  PROVE  Accounts(n, u, O, at, place)
  <1>1. KeepAge \in Int
    BY BucketSizePositive, WindowAssumption DEF KeepAge
  <1>2. n \in RollingNumbers /\ n.currentBucketTime <= t /\ n.currentBucketTime \in Nat
    BY DEF Accounts, RollingNumbers
  <1>3. ASSUME NEW o \in O
        PROVE  at[o] <= u /\ (place[o] = NumBuckets => u - at[o] > KeepAge)
    <2>1. at[o] \in Nat /\ at[o] <= t /\ (place[o] = NumBuckets => t - at[o] > KeepAge)
      BY DEF Accounts
    <2> QED BY <1>1, <2>1
  <1> QED BY <1>2, <1>3 DEF Accounts

\* A visit accounts for the same requests, those of the recycled buckets among
\* the ones no longer counted.
LEMMA AccountsVisit ==
  ASSUME NEW n, NEW O, NEW at, NEW place, NEW t \in Nat, Accounts(n, t, O, at, place)
  PROVE  Accounts(FindCurrentBucket(n, t), t, O, at, PlaceAfter(n, t, place))
  <1> DEFINE m == FindCurrentBucket(n, t)
             after == PlaceAfter(n, t, place)
             Gone == Recycled(n, t)
  <1>1. /\ n \in RollingNumbers /\ n.currentBucketTime <= t /\ IsFiniteSet(O)
        /\ at \in [O -> Nat] /\ place \in [O -> 0 .. NumBuckets]
    BY DEF Accounts
  <1>2. /\ m \in RollingNumbers /\ m.currentBucketTime <= t
        /\ Gone \subseteq Buckets
    BY <1>1, RingCatchesUp, RecycledBuckets
  <1>3. /\ after \in [O -> 0 .. NumBuckets]
        /\ \A o \in O : after[o] = IF place[o] \in Gone THEN NumBuckets ELSE place[o]
    BY <1>1, WindowAssumption DEF PlaceAfter
  <1>4. \A b \in Buckets : m.buckets[b] = IF b \in Gone THEN 0 ELSE n.buckets[b]
    BY <1>1, VisitedBuckets
  <1>5. \A b \in Buckets : b # NumBuckets
    BY WindowAssumption DEF Buckets
  <1>6. \A b \in Buckets : n.buckets[b] = Cardinality({o \in O : place[o] = b})
    BY DEF Accounts
  <1> HIDE DEF m, after, Gone
  <1>7. \A b \in Buckets : m.buckets[b] = Cardinality({o \in O : after[o] = b})
    <2> SUFFICES ASSUME NEW b \in Buckets
                 PROVE  m.buckets[b] = Cardinality({o \in O : after[o] = b})
      OBVIOUS
    <2>1. CASE b \in Gone
      <3>1. {o \in O : after[o] = b} = {}
        BY <1>3, <1>5, <2>1
      <3> QED BY <1>4, <2>1, <3>1, FS_EmptySet
    <2>2. CASE b \notin Gone
      <3>1. {o \in O : after[o] = b} = {o \in O : place[o] = b}
        BY <1>3, <1>5, <2>2
      <3> QED BY <1>4, <1>6, <2>2, <3>1
    <2> QED BY <2>1, <2>2
  <1>8. ASSUME NEW o \in O
        PROVE  /\ at[o] <= t
               /\ after[o] \in Buckets => Aged(m, after[o], at[o])
               /\ after[o] = NumBuckets => t - at[o] > KeepAge
    <2>1. /\ at[o] <= t /\ at[o] \in Nat
          /\ place[o] \in Buckets => Aged(n, place[o], at[o])
          /\ place[o] = NumBuckets => t - at[o] > KeepAge
      BY DEF Accounts
    <2>2. CASE place[o] \in Gone
      <3>1. t - at[o] > KeepAge
        BY <1>1, <1>2, <2>1, <2>2, RecycledIsOld DEF Gone
      <3> QED BY <1>3, <1>5, <2>1, <2>2, <3>1
    <2>3. CASE place[o] \notin Gone
      <3>1. place[o] \in Buckets => Aged(m, place[o], at[o])
        BY <1>1, <2>1, <2>3, AgedAfterVisit DEF Gone, m
      <3> QED BY <1>3, <2>1, <2>3, <3>1
    <2> QED BY <2>2, <2>3
  <1> QED BY <1>1, <1>2, <1>3, <1>7, <1>8 DEF Accounts, m, after

\* Increment accounts for one more request, in the bucket then current.
LEMMA AccountsIncrement ==
  ASSUME NEW n, NEW O, NEW at, NEW place, NEW t \in Nat, Accounts(n, t, O, at, place),
         NEW x, x \notin O, NEW P, P = O \cup {x},
         NEW at2 \in [P -> Nat], at2[x] = t, \A o \in O : at2[o] = at[o],
         NEW place2 \in [P -> 0 .. NumBuckets],
         place2[x] = FindCurrentBucket(n, t).currentBucket,
         \A o \in O : place2[o] = PlaceAfter(n, t, place)[o]
  PROVE  Accounts(Incremented(n, t), t, P, at2, place2)
  <1> DEFINE m == FindCurrentBucket(n, t)
             c == m.currentBucket
             i == Incremented(n, t)
             after == PlaceAfter(n, t, place)
  <1>1. Accounts(m, t, O, at, after)
    BY AccountsVisit
  <1>2. m \in RollingNumbers /\ m.currentBucketTime <= t /\ t - m.currentBucketTime < BucketSize
    BY RingCatchesUp DEF Accounts
  <1>3. i \in RollingNumbers
    BY IncrementTyped DEF Accounts
  <1>4. i = [m EXCEPT !.buckets[c] = @ + 1]
    BY DEF Incremented
  <1> HIDE DEF m, i, after
  <1>5. /\ i.currentBucket = c /\ i.currentBucketTime = m.currentBucketTime
        /\ i.buckets = [m.buckets EXCEPT ![c] = @ + 1]
        /\ c \in Buckets /\ c \in 0 .. NumBuckets /\ c # NumBuckets
    BY <1>2, <1>4, WindowAssumption DEF RollingNumbers, Buckets
  <1>6. /\ IsFiniteSet(O) /\ at \in [O -> Nat] /\ after \in [O -> 0 .. NumBuckets]
        /\ \A b \in Buckets : m.buckets[b] = Cardinality({o \in O : after[o] = b})
    BY <1>1 DEF Accounts
  <1>7. IsFiniteSet(P)
    BY <1>6, FS_AddElement
  <1>12. place2[x] = c /\ \A o \in O : place2[o] = after[o] /\ o # x
    BY DEF after, m
  <1>8. \A b \in Buckets : i.buckets[b] = Cardinality({o \in P : place2[o] = b})
    <2> SUFFICES ASSUME NEW b \in Buckets
                 PROVE  i.buckets[b] = Cardinality({o \in P : place2[o] = b})
      OBVIOUS
    <2> DEFINE Was == {o \in O : after[o] = b}
    <2>1. IsFiniteSet(Was) /\ x \notin Was
      BY <1>6, FS_Subset
    <2>2. m.buckets[b] = Cardinality(Was)
      BY <1>6
    <2>3. CASE b = c
      <3>1. {o \in P : place2[o] = b} = Was \cup {x}
        BY <1>12, <2>3
      <3> HIDE DEF Was
      <3>2. Cardinality(Was \cup {x}) = Cardinality(Was) + 1
        BY <2>1, FS_AddElement
      <3>3. i.buckets[b] = m.buckets[b] + 1
        BY <1>2, <1>5, <2>3 DEF RollingNumbers
      <3> QED BY <2>2, <3>1, <3>2, <3>3
    <2>4. CASE b # c
      <3>1. {o \in P : place2[o] = b} = Was
        BY <1>12, <2>4
      <3> HIDE DEF Was
      <3>2. i.buckets[b] = m.buckets[b]
        BY <1>2, <1>5, <2>4 DEF RollingNumbers
      <3> QED BY <2>2, <3>1, <3>2
    <2> QED BY <2>3, <2>4
  <1>9. ASSUME NEW o \in P
        PROVE  /\ at2[o] <= t
               /\ place2[o] \in Buckets => Aged(i, place2[o], at2[o])
               /\ place2[o] = NumBuckets => t - at2[o] > KeepAge
    <2>1. CASE o = x
      <3>1. Aged(m, c, t)
        BY <1>2, AgedWhenNew
      <3> QED BY <1>5, <1>12, <2>1, <3>1 DEF Aged
    <2>2. CASE o # x
      <3>1. o \in O /\ at2[o] = at[o] /\ place2[o] = after[o]
        BY <1>12, <2>2
      <3>2. /\ at[o] <= t
            /\ after[o] \in Buckets => Aged(m, after[o], at[o])
            /\ after[o] = NumBuckets => t - at[o] > KeepAge
        BY <1>1, <3>1 DEF Accounts
      <3> QED BY <1>5, <3>1, <3>2 DEF Aged
    <2> QED BY <2>1, <2>2
  <1>10. i.currentBucketTime <= t
    BY <1>2, <1>5
  <1>11. Accounts(i, t, P, at2, place2)
    BY <1>3, <1>7, <1>8, <1>9, <1>10 DEF Accounts
  <1> QED BY <1>11 DEF i

\* Sum returns how many of them are counted, each younger than ForgetAge.
LEMMA AccountsSum ==
  ASSUME NEW n, NEW O, NEW at, NEW place, NEW t \in Nat, Accounts(n, t, O, at, place)
  PROVE  LET after == PlaceAfter(n, t, place)
             counted == {o \in O : after[o] \in Buckets}
         IN  /\ IsFiniteSet(counted) /\ SumOf(FindCurrentBucket(n, t)) = Cardinality(counted)
             /\ \A o \in counted : place[o] \in Buckets /\ t - at[o] < ForgetAge
  <1> DEFINE m == FindCurrentBucket(n, t)
             after == PlaceAfter(n, t, place)
             counted == {o \in O : after[o] \in Buckets}
             part == [b \in Buckets |-> {o \in O : after[o] = b}]
  <1>1. Accounts(m, t, O, at, after)
    BY AccountsVisit
  <1>2. m \in RollingNumbers /\ m.buckets \in [Buckets -> Nat] /\ IsFiniteSet(O)
    BY <1>1 DEF Accounts, RollingNumbers
  <1>3. IsFiniteSet(counted)
    BY <1>2, FS_Subset
  <1>4. Partition(Buckets, counted, part, m.buckets)
    <2>1. \A b \in Buckets : m.buckets[b] = Cardinality(part[b])
      BY <1>1 DEF Accounts
    <2>2. part \in [Buckets -> SUBSET counted]
      OBVIOUS
    <2>3. \A o \in counted : \E b \in Buckets : o \in part[b]
      OBVIOUS
    <2>4. \A b, c \in Buckets : b # c => part[b] \cap part[c] = {}
      OBVIOUS
    <2> QED BY <2>1, <2>2, <2>3, <2>4 DEF Partition
  <1>5. SumOf(m) = Cardinality(counted)
    <2> HIDE DEF counted, part, m
    <2> QED BY <1>2, <1>3, <1>4, BucketsFinite, SumOfParts DEF SumOf
  <1>6. ASSUME NEW o \in counted
        PROVE  place[o] \in Buckets /\ t - at[o] < ForgetAge
    <2>1. /\ n \in RollingNumbers /\ n.currentBucketTime <= t
          /\ at \in [O -> Nat] /\ place \in [O -> 0 .. NumBuckets]
      BY DEF Accounts
    <2>2. place[o] \in Buckets /\ place[o] \notin Recycled(n, t)
      BY <2>1, WindowAssumption DEF PlaceAfter, Buckets
    <2>3. Aged(n, place[o], at[o]) /\ at[o] \in Nat
      BY <2>1, <2>2 DEF Accounts
    <2> QED BY <2>1, <2>2, <2>3, CountedIsYoung
  <1> QED BY <1>3, <1>5, <1>6
=============================================================================
