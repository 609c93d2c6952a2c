----------------------------- MODULE Semaphores -----------------------------
(***************************************************************************)
(* semaphorefactory.go and util/semaphore.go, as the function Exec passes  *)
(* to the breaker uses them (executor.go:109-116): read the group's limit, *)
(* Get the group's semaphore for that limit, TryAcquire it without         *)
(* waiting, run the command, Release it.  The factory never changes a      *)
(* semaphore's capacity: asked for another limit, it replaces the one in   *)
(* the map, and holders of the old one release the old one.  A semaphore   *)
(* is known by the number of its creation.                                 *)
(***************************************************************************)
EXTENDS Naturals, FiniteSets

CONSTANTS Workers,         \* goroutines that execute commands
          Groups,          \* command groups
          Limits,          \* values maxConcurrentRequests takes
          Default,         \* the value it starts with
          MaxSemaphores,   \* bound: semaphores created
          MaxChanges       \* bound: changes of a limit

ASSUME SemaphoreAssumption ==
  /\ IsFiniteSet(Workers)
  /\ Limits \subseteq Nat /\ Default \in Limits
  /\ MaxSemaphores \in Nat /\ MaxChanges \in Nat

VARIABLES limit,      \* limit[g]: the property maxConcurrentRequests of group g
          semaphores, \* semaphores[g]: the one in the factory's map, 0 for none
          created,    \* the number of semaphores created
          capacity,   \* capacity[s]: of semaphore s
          taken,      \* taken[s]: messages in the channel of s
          pc, group, wanted, sem,  \* of each worker: its group, limit and semaphore
          changes     \* bound

vars == <<limit, semaphores, created, capacity, taken, pc, group, wanted, sem, changes>>

Ids == 1 .. MaxSemaphores

TypeOK ==
  /\ limit \in [Groups -> Limits]
  /\ semaphores \in [Groups -> 0 .. created]
  /\ created \in 0 .. MaxSemaphores
  /\ capacity \in [Ids -> Nat]
  /\ taken \in [Ids -> Nat] /\ \A s \in Ids : taken[s] <= capacity[s]
  /\ pc \in [Workers -> {"idle", "get", "acquire", "run"}]
  /\ group \in [Workers -> Groups]
  /\ wanted \in [Workers -> Limits]
  /\ sem \in [Workers -> 0 .. created]
  /\ changes \in 0 .. MaxChanges

Init ==
  /\ limit = [g \in Groups |-> Default]
  /\ semaphores = [g \in Groups |-> 0]
  /\ created = 0
  /\ capacity = [s \in Ids |-> 0]
  /\ taken = [s \in Ids |-> 0]
  /\ pc = [w \in Workers |-> "idle"]
  /\ group \in [Workers -> Groups]
  /\ wanted = [w \in Workers |-> Default]
  /\ sem = [w \in Workers |-> 0]
  /\ changes = 0
-----------------------------------------------------------------------------
Moves(w, from, to) == pc[w] = from /\ pc' = [pc EXCEPT ![w] = to]

\* The limit is read before the factory's lock is taken.
ReadLimit(w) ==
  /\ Moves(w, "idle", "get")
  /\ \E g \in Groups : /\ group' = [group EXCEPT ![w] = g]
                       /\ wanted' = [wanted EXCEPT ![w] = limit[g]]
  /\ UNCHANGED <<limit, semaphores, created, capacity, taken, sem, changes>>

\* Mutant of Fits: the map is never consulted.
FitsNever(s, n) == FALSE
\* Whether the semaphore in the map, if any, has the limit asked for.
Fits(s, n) == s # 0 /\ capacity[s] = n

\* SemaphoreFactory.Get, under its lock.
Get(w) ==
  LET current == semaphores[group[w]]
      new == created + 1
  IN  /\ Moves(w, "get", "acquire")
      /\ IF Fits(current, wanted[w])
         THEN /\ sem' = [sem EXCEPT ![w] = current]
              /\ UNCHANGED <<semaphores, created, capacity>>
         ELSE /\ new \in Ids
              /\ created' = new
              /\ capacity' = [capacity EXCEPT ![new] = wanted[w]]
              /\ semaphores' = [semaphores EXCEPT ![group[w]] = new]
              /\ sem' = [sem EXCEPT ![w] = new]
      /\ UNCHANGED <<limit, taken, group, wanted, changes>>

\* Mutant of HasRoom: one too many.
HasRoomForOneMore(s) == taken[s] <= capacity[s]
\* Whether a send on the buffered channel would not block.
HasRoom(s) == taken[s] < capacity[s]

\* The only way on that keeps no slot: SemaphoreRejected.
TryAcquire(w) ==
  \/ /\ Moves(w, "acquire", "run")
     /\ HasRoom(sem[w])
     /\ taken' = [taken EXCEPT ![sem[w]] = @ + 1]
     /\ UNCHANGED <<limit, semaphores, created, capacity, group, wanted, sem, changes>>
  \/ /\ Moves(w, "acquire", "idle")
     /\ ~ HasRoom(sem[w])
     /\ UNCHANGED <<limit, semaphores, created, capacity, taken, group, wanted, sem, changes>>

\* Mutant of Held: the semaphore to release is looked up again.
HeldLookedUp(w) == semaphores[group[w]]
\* The semaphore w acquired, which the deferred Release was bound to.
Held(w) == sem[w]

\* The deferred call, whether Run returned or panicked.  Release panics on an
\* empty semaphore: ReleaseIsMatched says it never is.
Release(w) ==
  /\ Moves(w, "run", "idle")
  /\ taken[Held(w)] > 0
  /\ taken' = [taken EXCEPT ![Held(w)] = @ - 1]
  /\ UNCHANGED <<limit, semaphores, created, capacity, group, wanted, sem, changes>>

\* vaquita properties are dynamic.
ChangeLimit ==
  /\ changes < MaxChanges
  /\ changes' = changes + 1
  /\ \E g \in Groups, n \in Limits : n # limit[g] /\ limit' = [limit EXCEPT ![g] = n]
  /\ UNCHANGED <<semaphores, created, capacity, taken, pc, group, wanted, sem>>

Next ==
  \/ \E w \in Workers : ReadLimit(w) \/ Get(w) \/ TryAcquire(w) \/ Release(w)
  \/ ChangeLimit

Spec == Init /\ [][Next]_vars
-----------------------------------------------------------------------------
Holders(s) == {w \in Workers : pc[w] = "run" /\ sem[w] = s}
Running(g) == {w \in Workers : pc[w] = "run" /\ group[w] = g}

\* The slots taken in a semaphore are exactly its holders', however often the
\* factory replaced it meanwhile: no slot leaks and none is released twice.
SlotsAreHeld == \A s \in Ids : taken[s] = Cardinality(Holders(s))

\* util/semaphore.go:27, panic("releasing on empty semaphore"): a worker that
\* releases finds its slot.
ReleaseIsMatched == \A w \in Workers : pc[w] = "run" => taken[Held(w)] > 0

\* command.go:78-79, "limiting the concurrent execution of the command for
\* the entire group": while no limit has changed, a group's commands share
\* one semaphore, whoever comes first.
GroupIsLimited ==
  changes = 0 => \A g \in Groups : Cardinality(Running(g)) <= limit[g]

\* The commands running in a semaphore never exceed the capacity it was
\* created with, and belong to one group.
CapacityHolds ==
  \A s \in Ids : /\ Cardinality(Holders(s)) <= capacity[s]
                 /\ \A v, w \in Holders(s) : group[v] = group[w]
-----------------------------------------------------------------------------
(* The inductive invariant.                                                *)

\* The workers that use a semaphore: those that have got it from the factory.
Uses(w, s) == pc[w] \in {"acquire", "run"} /\ sem[w] = s

\* A semaphore is one the factory made, and belongs to one group: the workers
\* that use it and the entry of the map that holds it agree on which.
OneGroup ==
  /\ \A w \in Workers : pc[w] \in {"acquire", "run"} => sem[w] # 0
  /\ \A g, h \in Groups : semaphores[g] # 0 /\ semaphores[g] = semaphores[h] => g = h
  /\ \A w \in Workers, g \in Groups :
       semaphores[g] # 0 /\ Uses(w, semaphores[g]) => group[w] = g
  /\ \A v, w \in Workers : Uses(v, sem[w]) /\ Uses(w, sem[w]) => group[v] = group[w]

\* While no limit has changed there is one limit, one capacity and, for each
\* group, one semaphore.
Unchanged ==
  changes = 0 =>
    /\ \A g \in Groups : limit[g] = Default
    /\ \A w \in Workers : wanted[w] = Default
    /\ \A s \in 1 .. created : capacity[s] = Default
    /\ \A w \in Workers : pc[w] \in {"acquire", "run"} => sem[w] = semaphores[group[w]]

IInv == TypeOK /\ SlotsAreHeld /\ OneGroup /\ Unchanged
=============================================================================
