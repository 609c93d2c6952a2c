-------------------------- MODULE SemaphoresProofs --------------------------
(***************************************************************************)
(* For any number of workers, groups and limits: no slot is lost or        *)
(* released twice, and the capacities hold.                                *)
(***************************************************************************)
EXTENDS Semaphores, FiniteSetTheorems, TLAPS

\* The holders of a semaphore are finitely many; one more makes one more, one
\* less makes one less.
LEMMA HoldersCount ==
  ASSUME NEW s
  PROVE  /\ IsFiniteSet(Holders(s)) /\ Cardinality(Holders(s)) \in Nat
         /\ \A w : w \notin Holders(s) =>
              Cardinality(Holders(s) \cup {w}) = Cardinality(Holders(s)) + 1
         /\ \A w \in Holders(s) :
              Cardinality(Holders(s) \ {w}) = Cardinality(Holders(s)) - 1
  <1>1. IsFiniteSet(Holders(s))
    BY SemaphoreAssumption, FS_Subset DEF Holders
  <1>2. ASSUME NEW w, w \notin Holders(s)
        PROVE  Cardinality(Holders(s) \cup {w}) = Cardinality(Holders(s)) + 1
    BY <1>1, <1>2, FS_AddElement
  <1>3. ASSUME NEW w \in Holders(s)
        PROVE  Cardinality(Holders(s) \ {w}) = Cardinality(Holders(s)) - 1
    BY <1>1, FS_RemoveElement
  <1> QED BY <1>1, <1>2, <1>3, FS_CardinalityType

\* A worker past the factory has a semaphore the factory made.
LEMMA UsedIsMade ==
  ASSUME IInv, NEW w \in Workers, pc[w] \in {"acquire", "run"}
  PROVE  sem[w] \in 1 .. created /\ sem[w] \in Ids
  <1>1. /\ created \in 0 .. MaxSemaphores /\ MaxSemaphores \in Nat
        /\ sem[w] \in 0 .. created /\ sem[w] # 0
    BY SemaphoreAssumption DEF IInv, TypeOK, OneGroup
  <1> QED BY <1>1 DEF Ids

\* A semaphore the factory has not made yet has no holders.
LEMMA NewIsFree ==
  ASSUME IInv, NEW s \in Ids, s > created
  PROVE  taken[s] = 0
  <1>1. Holders(s) = {}
    BY DEF IInv, TypeOK, Holders, OneGroup
  <1> QED BY <1>1, FS_EmptySet DEF IInv, SlotsAreHeld

\* Who holds what is left alone by a step that moves nobody to or from "run".
LEMMA HoldersUnmoved ==
  ASSUME TypeOK, NEW w \in Workers, NEW l, pc' = [pc EXCEPT ![w] = l],
         pc[w] # "run", l # "run",
         \A v \in Workers : v # w => sem'[v] = sem[v]
  PROVE  \A s : Holders(s)' = Holders(s)
  <1>1. \A v \in Workers : (pc'[v] = "run" <=> pc[v] = "run") /\ (pc[v] = "run" => v # w)
    BY DEF TypeOK
  <1> QED BY <1>1 DEF Holders

\* An empty factory has no slot taken.
LEMMA InitEstablishes == Init => IInv
  <1> SUFFICES ASSUME Init PROVE IInv
    OBVIOUS
  <1>1. TypeOK
    BY SemaphoreAssumption DEF Init, TypeOK, Ids
  <1>2. \A s \in Ids : Holders(s) = {}
    BY DEF Init, Holders
  <1>3. SlotsAreHeld
    BY <1>2, FS_EmptySet DEF Init, SlotsAreHeld
  <1>4. OneGroup
    BY DEF Init, OneGroup, Uses
  <1>5. Unchanged
    BY DEF Init, Unchanged
  <1> QED BY <1>1, <1>3, <1>4, <1>5 DEF IInv
-----------------------------------------------------------------------------
\* Reading the limit touches no semaphore.
LEMMA ReadLimitPreserves ==
  ASSUME IInv, NEW w \in Workers, ReadLimit(w)
  PROVE  IInv'
  <1> USE DEF IInv, ReadLimit, Moves
  <1>1. PICK g \in Groups : /\ group' = [group EXCEPT ![w] = g]
                            /\ wanted' = [wanted EXCEPT ![w] = limit[g]]
    OBVIOUS
  <1>2. TypeOK'
    BY <1>1 DEF TypeOK
  <1>3. \A s : Holders(s)' = Holders(s)
    BY HoldersUnmoved
  <1>4. SlotsAreHeld'
    BY <1>3 DEF SlotsAreHeld
  <1>5. \A v \in Workers : pc'[v] \in {"acquire", "run"} <=> pc[v] \in {"acquire", "run"}
    BY DEF TypeOK
  <1>6. \A v \in Workers : pc[v] \in {"acquire", "run"} => group'[v] = group[v]
    BY <1>1 DEF TypeOK
  <1>7. OneGroup'
    BY <1>5, <1>6 DEF OneGroup, Uses
  <1>8. Unchanged'
    BY <1>1, <1>5, <1>6 DEF Unchanged, TypeOK
  <1> QED BY <1>2, <1>4, <1>7, <1>8

\* Get finds the group's semaphore, or makes one nobody uses.
LEMMA GetPreserves ==
  ASSUME IInv, NEW w \in Workers, Get(w)
  PROVE  IInv'
  <1> DEFINE g == group[w]
             new == created + 1
  <1> USE DEF IInv
  <1>1. /\ pc[w] = "get" /\ pc' = [pc EXCEPT ![w] = "acquire"] /\ g \in Groups
        /\ UNCHANGED <<limit, taken, group, wanted, changes>>
    BY DEF Get, Moves, TypeOK
  <1>2. \A v \in Workers : v # w => pc'[v] = pc[v] /\ sem'[v] = sem[v]
    BY <1>1 DEF Get, TypeOK
  <1>3. \A s : Holders(s)' = Holders(s)
    BY <1>1, <1>2, HoldersUnmoved
  <1>4. SlotsAreHeld'
    BY <1>1, <1>3 DEF SlotsAreHeld
  <1>5. CASE Fits(semaphores[g], wanted[w])
    <2>1. /\ sem' = [sem EXCEPT ![w] = semaphores[g]] /\ semaphores[g] # 0
          /\ UNCHANGED <<semaphores, created, capacity>>
      BY <1>5 DEF Get, Fits
    <2>2. TypeOK'
      BY <1>1, <2>1 DEF TypeOK
    <2>3. OneGroup'
      BY <1>1, <1>2, <2>1 DEF OneGroup, Uses, TypeOK
    <2>4. Unchanged'
      BY <1>1, <1>2, <2>1 DEF Unchanged, TypeOK
    <2> QED BY <1>4, <2>2, <2>3, <2>4
  <1>6. CASE ~ Fits(semaphores[g], wanted[w])
    <2>1. /\ new \in Ids /\ created' = new
          /\ capacity' = [capacity EXCEPT ![new] = wanted[w]]
          /\ semaphores' = [semaphores EXCEPT ![g] = new]
          /\ sem' = [sem EXCEPT ![w] = new]
      BY <1>6 DEF Get
    <2>2. taken[new] = 0
      BY <2>1, NewIsFree DEF TypeOK
    <2>3. wanted[w] \in Nat
      BY SemaphoreAssumption DEF TypeOK
    <2>4. TypeOK'
      BY <1>1, <2>1, <2>2, <2>3 DEF TypeOK, Ids
    <2>5. /\ \A v \in Workers : sem[v] # new
          /\ \A h \in Groups : semaphores[h] # new
      BY DEF TypeOK
    <2>6. OneGroup'
      BY <1>1, <1>2, <2>1, <2>5 DEF OneGroup, Uses, TypeOK
    <2>7. ASSUME changes = 0 PROVE semaphores[g] = 0
      BY <1>6, <2>7 DEF Unchanged, Fits, TypeOK
    <2>8. ASSUME changes = 0, NEW v \in Workers, v # w, pc[v] \in {"acquire", "run"}
          PROVE  group[v] # g
      BY <2>7, <2>8 DEF Unchanged, OneGroup
    <2>9. Unchanged'
      BY <1>1, <1>2, <2>1, <2>8 DEF Unchanged, TypeOK
    <2> QED BY <1>4, <2>4, <2>6, <2>9
  <1> QED BY <1>5, <1>6

\* An acquired slot is one more holder.
LEMMA TryAcquirePreserves ==
  ASSUME IInv, NEW w \in Workers, TryAcquire(w)
  PROVE  IInv'
  <1> USE DEF IInv
  <1>1. CASE pc' = [pc EXCEPT ![w] = "run"]
    <2>1. /\ pc[w] = "acquire" /\ HasRoom(sem[w])
          /\ taken' = [taken EXCEPT ![sem[w]] = @ + 1]
          /\ UNCHANGED <<limit, semaphores, created, capacity, group, wanted, sem, changes>>
      BY <1>1 DEF TryAcquire, Moves, TypeOK
    <2>2. sem[w] \in Ids
      BY <2>1, UsedIsMade
    <2>3. TypeOK'
      BY <1>1, <2>1, <2>2 DEF TypeOK, HasRoom
    <2>4. /\ w \notin Holders(sem[w])
          /\ Holders(sem[w])' = Holders(sem[w]) \cup {w}
          /\ \A s \in Ids \ {sem[w]} : Holders(s)' = Holders(s)
      BY <1>1, <2>1 DEF Holders, TypeOK
    <2>5. SlotsAreHeld'
      BY <2>1, <2>2, <2>4, HoldersCount DEF SlotsAreHeld, TypeOK
    <2>6. \A v \in Workers : pc'[v] \in {"acquire", "run"} <=> pc[v] \in {"acquire", "run"}
      BY <1>1, <2>1 DEF TypeOK
    <2>7. OneGroup'
      BY <2>1, <2>6 DEF OneGroup, Uses
    <2>8. Unchanged'
      BY <2>1, <2>6 DEF Unchanged
    <2> QED BY <2>3, <2>5, <2>7, <2>8
  <1>2. CASE pc' = [pc EXCEPT ![w] = "idle"]
    <2>1. /\ pc[w] = "acquire"
          /\ UNCHANGED <<limit, semaphores, created, capacity, taken, group, wanted, sem, changes>>
      BY <1>2 DEF TryAcquire, Moves, TypeOK
    <2>2. TypeOK'
      BY <1>2, <2>1 DEF TypeOK
    <2>3. SlotsAreHeld'
      BY <1>2, <2>1, HoldersUnmoved DEF SlotsAreHeld
    <2>4. \A v \in Workers : pc'[v] \in {"acquire", "run"} => pc[v] \in {"acquire", "run"}
      BY <1>2, <2>1 DEF TypeOK
    <2>5. OneGroup'
      BY <2>1, <2>4 DEF OneGroup, Uses
    <2>6. Unchanged'
      BY <2>1, <2>4 DEF Unchanged
    <2> QED BY <2>2, <2>3, <2>5, <2>6
  <1> QED BY <1>1, <1>2 DEF TryAcquire, Moves

\* A released slot is one holder less.
LEMMA ReleasePreserves ==
  ASSUME IInv, NEW w \in Workers, Release(w)
  PROVE  IInv'
  <1> USE DEF IInv
  <1>1. /\ pc[w] = "run" /\ pc' = [pc EXCEPT ![w] = "idle"] /\ taken[sem[w]] > 0
        /\ taken' = [taken EXCEPT ![sem[w]] = @ - 1]
        /\ UNCHANGED <<limit, semaphores, created, capacity, group, wanted, sem, changes>>
    BY DEF Release, Moves, Held
  <1>2. sem[w] \in Ids
    BY <1>1, UsedIsMade
  <1>3. TypeOK'
    BY <1>1, <1>2 DEF TypeOK
  <1>4. /\ w \in Holders(sem[w])
        /\ Holders(sem[w])' = Holders(sem[w]) \ {w}
        /\ \A s \in Ids \ {sem[w]} : Holders(s)' = Holders(s)
    BY <1>1 DEF Holders, TypeOK
  <1>5. SlotsAreHeld'
    BY <1>1, <1>2, <1>4, HoldersCount DEF SlotsAreHeld, TypeOK
  <1>6. \A v \in Workers : pc'[v] \in {"acquire", "run"} => pc[v] \in {"acquire", "run"}
    BY <1>1 DEF TypeOK
  <1>7. OneGroup'
    BY <1>1, <1>6 DEF OneGroup, Uses
  <1>8. Unchanged'
    BY <1>1, <1>6 DEF Unchanged
  <1> QED BY <1>3, <1>5, <1>7, <1>8

\* A change of a limit ends the claims about an unchanged one.
LEMMA ChangeLimitPreserves == IInv /\ ChangeLimit => IInv'
  <1> SUFFICES ASSUME IInv, ChangeLimit PROVE IInv'
    OBVIOUS
  <1> USE DEF IInv, ChangeLimit
  <1>1. TypeOK'
    BY SemaphoreAssumption DEF TypeOK
  <1>2. SlotsAreHeld'
    BY DEF SlotsAreHeld, Holders
  <1>3. OneGroup'
    BY DEF OneGroup, Uses
  <1>4. Unchanged'
    BY <1>1 DEF Unchanged, TypeOK
  <1> QED BY <1>1, <1>2, <1>3, <1>4
-----------------------------------------------------------------------------
\* Every step keeps the invariant.
LEMMA NextPreserves == IInv /\ [Next]_vars => IInv'
  <1> SUFFICES ASSUME IInv, [Next]_vars PROVE IInv'
    OBVIOUS
  <1>1. ASSUME NEW w \in Workers, ReadLimit(w) PROVE IInv'
    BY <1>1, ReadLimitPreserves
  <1>2. ASSUME NEW w \in Workers, Get(w) PROVE IInv'
    BY <1>2, GetPreserves
  <1>3. ASSUME NEW w \in Workers, TryAcquire(w) PROVE IInv'
    BY <1>3, TryAcquirePreserves
  <1>4. ASSUME NEW w \in Workers, Release(w) PROVE IInv'
    BY <1>4, ReleasePreserves
  <1>5. CASE ChangeLimit
    BY <1>5, ChangeLimitPreserves
  <1>6. CASE UNCHANGED vars
    BY <1>6 DEF vars, IInv, TypeOK, SlotsAreHeld, Holders, OneGroup, Uses, Unchanged
  <1> QED BY <1>1, <1>2, <1>3, <1>4, <1>5, <1>6 DEF Next

\* The invariant holds in every reachable state.
THEOREM Inductive == Spec => []IInv
  BY InitEstablishes, NextPreserves, PTL DEF Spec

\* A channel never holds more messages than its capacity, and ids and limits
\* stay what they are.
THEOREM TypeCorrect == Spec => []TypeOK
  <1>1. IInv => TypeOK
    BY DEF IInv
  <1> QED BY <1>1, Inductive, PTL

\* No slot leaks and none is released twice, however often limits change.
THEOREM SlotsAreAlwaysHeld == Spec => []SlotsAreHeld
  <1>1. IInv => SlotsAreHeld
    BY DEF IInv
  <1> QED BY <1>1, Inductive, PTL

\* util/semaphore.go:27: the panic of Release is out of reach.
THEOREM ReleaseNeverPanics == Spec => []ReleaseIsMatched
  <1>1. IInv => ReleaseIsMatched
    <2> SUFFICES ASSUME IInv, NEW w \in Workers, pc[w] = "run" PROVE taken[sem[w]] > 0
      BY DEF ReleaseIsMatched, Held
    <2>1. sem[w] \in Ids /\ w \in Holders(sem[w])
      BY UsedIsMade DEF Holders
    <2>2. Cardinality(Holders(sem[w])) # 0
      BY <2>1, HoldersCount, FS_EmptySet
    <2> QED BY <2>1, <2>2, HoldersCount DEF IInv, SlotsAreHeld
  <1> QED BY <1>1, Inductive, PTL

\* No semaphore is held by more workers than it was made for, or by workers of
\* two groups.
THEOREM CapacitiesHold == Spec => []CapacityHolds
  <1>1. IInv => CapacityHolds
    <2> SUFFICES ASSUME IInv, NEW s \in Ids
                 PROVE  /\ Cardinality(Holders(s)) <= capacity[s]
                        /\ \A v, w \in Holders(s) : group[v] = group[w]
      BY DEF CapacityHolds
    <2>1. Cardinality(Holders(s)) <= capacity[s]
      BY DEF IInv, SlotsAreHeld, TypeOK
    <2>2. \A v, w \in Holders(s) : group[v] = group[w]
      BY DEF IInv, OneGroup, Uses, Holders
    <2> QED BY <2>1, <2>2
  <1> QED BY <1>1, Inductive, PTL

\* command.go:78-79: a group whose limit has not changed stays within it.
THEOREM GroupsAreLimited == Spec => []GroupIsLimited
  <1>1. IInv => GroupIsLimited
    <2> SUFFICES ASSUME IInv, changes = 0, NEW g \in Groups
                 PROVE  Cardinality(Running(g)) <= limit[g]
      BY DEF GroupIsLimited
    <2> DEFINE s == semaphores[g]
    <2>1. CASE Running(g) = {}
      <3>1. Cardinality(Running(g)) = 0
        BY <2>1, FS_EmptySet
      <3>2. limit[g] \in Nat
        BY SemaphoreAssumption DEF IInv, TypeOK
      <3> QED BY <3>1, <3>2
    <2>2. CASE Running(g) # {}
      <3>1. PICK w \in Running(g) : TRUE
        BY <2>2
      <3>2. s \in 1 .. created /\ s \in Ids
        BY <3>1, UsedIsMade DEF IInv, Unchanged, Running
      <3>3. Running(g) \subseteq Holders(s)
        BY DEF IInv, Unchanged, Running, Holders
      <3>4. Cardinality(Running(g)) <= Cardinality(Holders(s))
        BY <3>3, HoldersCount, FS_Subset
      <3>5. Cardinality(Holders(s)) <= Default
        BY <3>2 DEF IInv, SlotsAreHeld, TypeOK, Unchanged
      <3>6. /\ Cardinality(Running(g)) \in Nat /\ Cardinality(Holders(s)) \in Nat
            /\ Default \in Nat /\ limit[g] = Default
        BY <3>3, HoldersCount, FS_Subset, FS_CardinalityType, SemaphoreAssumption
        DEF IInv, Unchanged
      <3> QED BY <3>4, <3>5, <3>6
    <2> QED BY <2>1, <2>2
  <1> QED BY <1>1, Inductive, PTL
=============================================================================
