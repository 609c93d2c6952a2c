------------------------ MODULE CircuitBreakerProofs ------------------------
(***************************************************************************)
(* For any number of goroutines, any thresholds and intervals and any      *)
(* changes of the switches: the breaker's state is well typed, every       *)
(* verdict it gives was right at some moment of the call, and successive   *)
(* trials are a sleep window apart.  The argument is Justified(p): what p  *)
(* has read so far was true when it read it, and seen[p] remembers that.   *)
(* A single goroutine, moreover, opens the circuit on evidence only, and   *)
(* then lets a sleep window pass.  The other parts show that the breaker   *)
(* implements BreakerContract.tla and, while its                           *)
(* switches are at their defaults, Recovery.tla: step by step, under the   *)
(* mappings of CircuitBreaker.tla.                                         *)
(***************************************************************************)
EXTENDS CircuitBreaker, RollingWindowProofs

\* The clock starts at a natural number.
LEMMA EpochNat == Epoch \in Nat
  BY BreakerAssumption DEF Epoch

-----------------------------------------------------------------------------
(* Types.                                                                  *)

LocalVars == pc \in [Goroutines -> Labels] /\ loc \in [Goroutines -> Locals]

\* The cleared locals are locals.
LEMMA NoLocalsTyped == NoLocals \in Locals
  BY DEF NoLocals, Locals

\* IsOpen returns to a label of its caller.
LEMMA AfterAnswerTyped ==
  ASSUME NEW l, NEW open
  PROVE  AfterAnswer(l, open) \in {"swapTrialTime", "allow", "run", "incRejection", "idle"}
  BY DEF AfterAnswer

\* Returning from IsOpen keeps the types.
LEMMA AnswerTyped ==
  ASSUME LocalVars, NEW p \in Goroutines, NEW open, Answer(p, open)
  PROVE  LocalVars'
  <1> DEFINE next == AfterAnswer(loc[p], open)
  <1>1. next \in Labels
    BY AfterAnswerTyped DEF Labels, IsOpenLabels
  <1>2. loc[p] \in Locals
    BY DEF LocalVars
  <1>3. [loc[p] EXCEPT !.caller = "none", !.stamp = 0, !.clock = 0] \in Locals
    BY <1>2 DEF Locals
  <1> QED
    BY <1>1, <1>3, NoLocalsTyped DEF Answer, Goto, LocalVars

\* Calling IsOpen keeps the types.
LEMMA AskTyped ==
  ASSUME LocalVars, NEW p \in Goroutines,
         NEW caller \in {"none", "trial", "update", "admit", "poll"}, Ask(p, caller)
  PROVE  LocalVars'
  <1>1. [loc[p] EXCEPT !.caller = caller] \in Locals
    BY DEF LocalVars, Locals
  <1> QED BY <1>1 DEF Ask, Goto, LocalVars, Labels, IsOpenLabels

\* Leaving Do or IsOpen keeps the types.
LEMMA LeaveTyped ==
  ASSUME LocalVars, NEW p \in Goroutines, Leave(p)
  PROVE  LocalVars'
  BY NoLocalsTyped DEF Leave, Goto, LocalVars, Labels, IsOpenLabels

\* The history variable seen holds verdicts.
LEMMA ObserveTyped ==
  ASSUME seen \in [Goroutines -> SUBSET {"open", "closed"}], Observe
  PROVE  seen' \in [Goroutines -> SUBSET {"open", "closed"}]
  BY DEF Observe, Verdicts

\* Everything but the control state and the locals.
SharedVars ==
  /\ circuitOpen \in BOOLEAN
  /\ lastTrialTime \in Nat /\ snapshotTime \in Nat
  /\ errors \in RollingNumbers /\ requests \in RollingNumbers
  /\ props \in [Switches -> BOOLEAN] /\ now \in Nat
  /\ volume \in [Goroutines -> Nat]
  /\ calls \in 0 .. MaxCalls /\ changes \in 0 .. MaxChanges
  /\ seen \in [Goroutines -> SUBSET {"open", "closed"}]
  /\ tripTime \in Nat /\ trialTime \in Nat /\ rearmed \in BOOLEAN /\ evidence \in Nat

\* TypeOK in two halves, before and after a step.
LEMMA TypeHalves == /\ TypeOK <=> LocalVars /\ SharedVars
                    /\ TypeOK' <=> LocalVars' /\ SharedVars'
  BY DEF TypeOK, LocalVars, SharedVars

\* A step that only touches locals keeps the shared half.
LEMMA OnlyLocalShared ==
  ASSUME SharedVars, OnlyLocal
  PROVE  SharedVars'
  <1>1. seen' \in [Goroutines -> SUBSET {"open", "closed"}]
    BY ObserveTyped DEF SharedVars, OnlyLocal, InCall
  <1> QED
    BY <1>1 DEF SharedVars, OnlyLocal, InCall, breaker, health, outside, history

\* New establishes the types.
LEMMA InitTyped == Init => TypeOK
  <1> SUFFICES ASSUME Init PROVE TypeOK
    OBVIOUS
  <1>1. props \in [Switches -> BOOLEAN]
    <2>1. \A s \in Switches : (s = "Enabled") \in BOOLEAN
      OBVIOUS
    <2> QED BY <2>1, Zenon DEF Init
  <1>2. errors \in RollingNumbers /\ requests \in RollingNumbers
    BY EpochNat, NewTyped DEF Init
  <1>3. now \in Nat /\ calls \in 0 .. MaxCalls /\ changes \in 0 .. MaxChanges
    BY EpochNat, BreakerAssumption DEF Init
  <1>4. LocalVars
    BY NoLocalsTyped DEF Init, LocalVars, Labels, IsOpenLabels
  <1>5. circuitOpen \in BOOLEAN /\ rearmed \in BOOLEAN
    BY DEF Init
  <1>6. /\ lastTrialTime \in Nat /\ snapshotTime \in Nat
        /\ tripTime \in Nat /\ trialTime \in Nat /\ evidence \in Nat
        /\ seen \in [Goroutines -> SUBSET {"open", "closed"}]
        /\ volume \in [Goroutines -> Nat]
    BY DEF Init
  <1> QED
    BY <1>1, <1>2, <1>3, <1>4, <1>5, <1>6 DEF LocalVars, TypeOK

\* Every step of a goroutine keeps the types.
LEMMA StepTyped ==
  ASSUME TypeOK, NEW p \in Goroutines, Step(p)
  PROVE  TypeOK'
  <1>0. LocalVars /\ SharedVars /\ loc[p] \in Locals
    BY TypeHalves DEF LocalVars
  <1>o. ASSUME Observe PROVE seen' \in [Goroutines -> SUBSET {"open", "closed"}]
    BY <1>0, <1>o, ObserveTyped DEF SharedVars
  <1>1. CASE Begin(p)
    <2>1. LocalVars'
      BY <1>0, <1>1 DEF Begin, Goto, LocalVars, Labels, IsOpenLabels
    <2>2. SharedVars'
      BY <1>0, <1>1, <1>o, BreakerAssumption
         DEF Begin, SharedVars, breaker, health, outside, history
    <2> QED BY <2>1, <2>2, TypeHalves
  <1>2. CASE CheckForceOpen(p)
    <2>1. LocalVars'
      BY <1>0, <1>2 DEF CheckForceOpen, Goto, LocalVars, Labels, IsOpenLabels
    <2> QED BY <1>0, <1>2, <2>1, OnlyLocalShared, TypeHalves DEF CheckForceOpen
  <1>3. CASE IncRequest(p)
    <2>1. LocalVars'
      BY <1>0, <1>3 DEF IncRequest, Goto, LocalVars, Labels, IsOpenLabels
    <2>2. requests' \in RollingNumbers
      BY <1>0, <1>3, IncrementTyped DEF IncRequest, SharedVars
    <2>3. SharedVars'
      BY <1>0, <1>3, <1>o, <2>2
         DEF IncRequest, SharedVars, InCall, breaker, outside
    <2> QED BY <2>1, <2>3, TypeHalves
  <1>4. CASE LoadTrialTime(p)
    <2>1. [loc[p] EXCEPT !.trialSeen = lastTrialTime] \in Locals
      BY <1>0 DEF Locals, SharedVars
    <2>2. LocalVars'
      BY <1>0, <1>4, <2>1 DEF LoadTrialTime, Goto, LocalVars, Labels, IsOpenLabels
    <2> QED BY <1>0, <1>4, <2>2, OnlyLocalShared, TypeHalves DEF LoadTrialTime
  <1>5. CASE ReadTrialClock(p)
    <2>1. [loc[p] EXCEPT !.caller = "trial", !.trialClock = now] \in Locals
      BY <1>0 DEF Locals, SharedVars
    <2>2. loc' = [loc EXCEPT ![p] = [loc[p] EXCEPT !.caller = "trial", !.trialClock = now]]
      BY <1>0, <1>5 DEF ReadTrialClock, LocalVars, Locals
    <2>3. LocalVars'
      BY <1>0, <1>5, <2>1, <2>2 DEF ReadTrialClock, Goto, LocalVars, Labels, IsOpenLabels
    <2> QED BY <1>0, <1>5, <2>3, OnlyLocalShared, TypeHalves DEF ReadTrialClock
  <1>6. CASE SwapTrialTime(p)
    <2>1. [loc[p] EXCEPT !.trial = TRUE] \in Locals
      BY <1>0 DEF Locals
    <2>2. LocalVars'
      BY <1>0, <1>6, <2>1 DEF SwapTrialTime, Goto, LocalVars, Labels, IsOpenLabels
    <2>3. SharedVars'
      BY <1>0, <1>6, <1>o
         DEF SwapTrialTime, SharedVars, InCall, health, outside, Locals
    <2> QED BY <2>2, <2>3, TypeHalves
  <1>7. CASE Allow(p)
    BY <1>0, <1>7, AskTyped, OnlyLocalShared, TypeHalves DEF Allow
  <1>8. CASE Finish(p)
    <2>1. LocalVars'
      BY <1>0, <1>8, NoLocalsTyped
         DEF Finish, AfterSuccess, Goto, LocalVars, Labels, IsOpenLabels
    <2> QED BY <1>0, <1>8, <2>1, OnlyLocalShared, TypeHalves DEF Finish
  <1>9. CASE FinishUntracked(p)
    BY <1>0, <1>9, LeaveTyped, OnlyLocalShared, TypeHalves DEF FinishUntracked
  <1>10. CASE IncError(p)
    <2>1. errors' \in RollingNumbers
      BY <1>0, <1>10, IncrementTyped DEF IncError, SharedVars
    <2>2. SharedVars'
      BY <1>0, <1>10, <1>o, <2>1
         DEF IncError, SharedVars, InCall, breaker, outside, history
    <2> QED BY <1>0, <1>10, <2>2, LeaveTyped, TypeHalves DEF IncError
  <1>11. CASE ResetErrors(p)
    <2>1. LocalVars'
      BY <1>0, <1>11 DEF ResetErrors, Goto, LocalVars, Labels, IsOpenLabels
    <2>2. errors' \in RollingNumbers
      BY <1>0, <1>11, NewTyped DEF ResetErrors, ResetNumber, SharedVars
    <2>3. SharedVars'
      BY <1>0, <1>11, <1>o, <2>2
         DEF ResetErrors, SharedVars, InCall, breaker, outside, history
    <2> QED BY <2>1, <2>3, TypeHalves
  <1>12. CASE ResetRequests(p)
    <2>1. LocalVars'
      BY <1>0, <1>12 DEF ResetRequests, Goto, LocalVars, Labels, IsOpenLabels
    <2>2. requests' \in RollingNumbers
      BY <1>0, <1>12, NewTyped DEF ResetRequests, ResetNumber, SharedVars
    <2>3. SharedVars'
      BY <1>0, <1>12, <1>o, <2>2
         DEF ResetRequests, SharedVars, InCall, breaker, outside
    <2> QED BY <2>1, <2>3, TypeHalves
  <1>13. CASE Close(p)
    <2>1. SharedVars'
      BY <1>0, <1>13, <1>o DEF Close, SharedVars, InCall, health, outside, history
    <2> QED BY <1>0, <1>13, <2>1, LeaveTyped, TypeHalves DEF Close
  <1>14. CASE Poll(p)
    <2>1. SharedVars'
      BY <1>0, <1>14, <1>o, BreakerAssumption
         DEF Poll, SharedVars, breaker, health, outside, history
    <2> QED BY <1>0, <1>14, <2>1, AskTyped, TypeHalves DEF Poll
  <1>15. CASE ReadForceClosed(p)
    <2>1. LocalVars'
      BY <1>0, <1>15, AnswerTyped DEF ReadForceClosed, Goto, LocalVars, Labels, IsOpenLabels
    <2> QED BY <1>0, <1>15, <2>1, OnlyLocalShared, TypeHalves DEF ReadForceClosed
  <1>16. CASE ReadForceOpen(p)
    <2>1. LocalVars'
      BY <1>0, <1>16, AnswerTyped DEF ReadForceOpen, Goto, LocalVars, Labels, IsOpenLabels
    <2> QED BY <1>0, <1>16, <2>1, OnlyLocalShared, TypeHalves DEF ReadForceOpen
  <1>17. CASE LoadOpen(p)
    <2>1. LocalVars'
      BY <1>0, <1>17, AnswerTyped DEF LoadOpen, Goto, LocalVars, Labels, IsOpenLabels
    <2> QED BY <1>0, <1>17, <2>1, OnlyLocalShared, TypeHalves DEF LoadOpen
  <1>18. CASE LoadSnapshotTime(p)
    <2>1. [loc[p] EXCEPT !.stamp = snapshotTime] \in Locals
      BY <1>0 DEF Locals, SharedVars
    <2>2. LocalVars'
      BY <1>0, <1>18, <2>1 DEF LoadSnapshotTime, Goto, LocalVars, Labels, IsOpenLabels
    <2> QED BY <1>0, <1>18, <2>2, OnlyLocalShared, TypeHalves DEF LoadSnapshotTime
  <1>19. CASE ReadSnapshotClock(p)
    <2>1. [loc[p] EXCEPT !.clock = now] \in Locals
      BY <1>0 DEF Locals, SharedVars
    <2>2. LocalVars'
      BY <1>0, <1>19, <2>1, AnswerTyped DEF ReadSnapshotClock, Goto, LocalVars, Labels, IsOpenLabels
    <2> QED BY <1>0, <1>19, <2>2, OnlyLocalShared, TypeHalves DEF ReadSnapshotClock
  <1>20. CASE SwapSnapshotTime(p)
    <2>1. LocalVars'
      BY <1>0, <1>20, AnswerTyped DEF SwapSnapshotTime, Goto, LocalVars, Labels, IsOpenLabels
    <2>2. snapshotTime' \in Nat
      BY <1>0, <1>20 DEF SwapSnapshotTime, SharedVars, Locals
    <2>3. SharedVars'
      BY <1>0, <1>20, <1>o, <2>2
         DEF SwapSnapshotTime, SharedVars, InCall, breaker, outside, history
    <2> QED BY <2>1, <2>3, TypeHalves
  <1>21. CASE SumRequests(p)
    <2>1. LocalVars'
      BY <1>0, <1>21 DEF SumRequests, Goto, LocalVars, Labels, IsOpenLabels
    <2>2. requests' \in RollingNumbers
      BY <1>0, <1>21, VisitTyped DEF SumRequests, SharedVars
    <2>3. volume' \in [Goroutines -> Nat]
      BY <1>0, <1>21, <2>2, SumOfCounts DEF SumRequests, SharedVars
    <2>4. SharedVars'
      BY <1>0, <1>21, <1>o, <2>2, <2>3
         DEF SumRequests, SharedVars, InCall, breaker, outside, history
    <2> QED BY <2>1, <2>4, TypeHalves
  <1>22. CASE SumErrors(p)
    <2>1. LocalVars'
      BY <1>0, <1>22, AnswerTyped DEF SumErrors, Goto, LocalVars, Labels, IsOpenLabels
    <2>2. errors' \in RollingNumbers
      BY <1>0, <1>22, VisitTyped DEF SumErrors, SharedVars
    <2>3. SharedVars'
      BY <1>0, <1>22, <1>o, <2>2
         DEF SumErrors, SharedVars, InCall, breaker, outside, history
    <2> QED BY <2>1, <2>3, TypeHalves
  <1>23. CASE SwapOpen(p)
    <2>1. LocalVars'
      BY <1>0, <1>23, AnswerTyped DEF SwapOpen, Goto, LocalVars, Labels, IsOpenLabels
    <2>2. SharedVars'
      BY <1>0, <1>23, <1>o DEF SwapOpen, SharedVars, InCall, health, outside
    <2> QED BY <2>1, <2>2, TypeHalves
  <1>24. CASE ReadTripClock(p)
    <2>1. [loc[p] EXCEPT !.clock = now] \in Locals
      BY <1>0 DEF Locals, SharedVars
    <2>2. LocalVars'
      BY <1>0, <1>24, <2>1 DEF ReadTripClock, Goto, LocalVars, Labels, IsOpenLabels
    <2> QED BY <1>0, <1>24, <2>2, OnlyLocalShared, TypeHalves DEF ReadTripClock
  <1>25. CASE StoreTrialTime(p)
    <2>1. SharedVars'
      BY <1>0, <1>25, <1>o DEF StoreTrialTime, SharedVars, InCall, health, outside, Locals
    <2> QED BY <1>0, <1>25, <2>1, AnswerTyped, TypeHalves DEF StoreTrialTime
  <1> QED
    BY <1>1, <1>2, <1>3, <1>4, <1>5, <1>6, <1>7, <1>8, <1>9, <1>10, <1>11, <1>12,
       <1>13, <1>14, <1>15, <1>16, <1>17, <1>18, <1>19, <1>20, <1>21, <1>22, <1>23,
       <1>24, <1>25 DEF Step

\* The clock and the operators keep the types.
LEMMA OutsideTyped ==
  ASSUME TypeOK, Tick \/ ChangeProperty
  PROVE  TypeOK'
  <1>1. seen' \in [Goroutines -> SUBSET {"open", "closed"}]
    BY ObserveTyped DEF TypeOK, Tick, ChangeProperty
  <1>2. CASE Tick
    BY <1>1, <1>2 DEF Tick, TypeOK, breaker, health, history
  <1>3. CASE ChangeProperty
    BY <1>1, <1>3, BreakerAssumption DEF ChangeProperty, TypeOK, breaker, health, history
  <1> QED BY <1>2, <1>3

\* Every step keeps the types.
LEMMA NextTyped == TypeOK /\ [Next]_vars => TypeOK'
  <1> SUFFICES ASSUME TypeOK, [Next]_vars PROVE TypeOK'
    OBVIOUS
  <1>1. CASE UNCHANGED vars
    BY <1>1 DEF vars, TypeOK, breaker, health, outside, history
  <1> QED BY <1>1, StepTyped, OutsideTyped DEF Next

\* Every reachable state is well typed: in particular the statistics are
\* rings of counters whatever the goroutines interleave.
THEOREM TypeCorrect == Spec => []TypeOK
  BY InitTyped, NextTyped, PTL DEF Spec
-----------------------------------------------------------------------------
(* Verdicts.                                                               *)

\* During a call seen[q] only grows, and it holds the present verdicts.
LEMMA SeenGrows ==
  ASSUME Observe, NEW q \in Goroutines, pc'[q] # "idle"
  PROVE  /\ Verdicts' \subseteq seen'[q]
         /\ pc[q] # "idle" => seen[q] \subseteq seen'[q]
  BY DEF Observe

\* The present verdicts are among those seen, after every step.
LEMMA CurrentSeenAfter == Observe => CurrentSeen'
  BY SeenGrows DEF CurrentSeen, At

\* What the state of the circuit and its switches allows, it has shown to
\* every goroutine in a call.
LEMMA Witnessed ==
  ASSUME CurrentSeen, NEW p \in Goroutines, pc[p] # "idle"
  PROVE  /\ circuitOpen \/ props["ForceOpen"] => "open" \in seen[p]
         /\ ~ circuitOpen \/ props["ForceClosed"] => "closed" \in seen[p]
  BY DEF CurrentSeen, Verdicts, At

\* A goroutine another one's step does not move stays justified.
LEMMA UnmovedJustified ==
  ASSUME Observe, NEW q \in Goroutines, Justified(q),
         pc'[q] = pc[q], loc'[q] = loc[q]
  PROVE  Justified(q)'
  <1>1. CASE pc[q] = "idle"
    BY <1>1 DEF Justified, NoLocals, At
  <1>2. CASE pc[q] # "idle"
    BY <1>2, SeenGrows DEF Justified, SleptEnough, At
  <1> QED BY <1>1, <1>2

\* IsOpen may answer what p has seen.
LEMMA AnswerJustified ==
  ASSUME TypeOK, Observe, NEW p \in Goroutines, Justified(p), pc[p] # "idle",
         NEW open \in BOOLEAN, Answer(p, open),
         open => "open" \in seen[p], ~ open => "closed" \in seen[p]
  PROVE  Justified(p)'
  <1> DEFINE next == AfterAnswer(loc[p], open)
             l == loc[p]
  <1>1. /\ l \in Locals /\ pc'[p] = next
        /\ loc'[p] = IF next = "idle" THEN NoLocals
                     ELSE [l EXCEPT !.caller = "none", !.stamp = 0, !.clock = 0]
    BY DEF TypeOK, Answer, Goto
  <1>2. CASE next = "idle"
    BY <1>1, <1>2 DEF Justified, NoLocals, At
  <1>3. CASE next # "idle"
    <2>1. seen[p] \subseteq seen'[p]
      BY <1>1, <1>3, SeenGrows
    <2>2. /\ loc'[p].caller = "none" /\ loc'[p].trial = l.trial
          /\ loc'[p].trialSeen = l.trialSeen /\ loc'[p].trialClock = l.trialClock
      BY <1>1, <1>3 DEF Locals
    <2>3. next \in {"swapTrialTime", "allow", "run", "incRejection"}
      BY <1>3, AfterAnswerTyped
    <2>4. next = "swapTrialTime" => open /\ SleptEnough(l)
      BY DEF AfterAnswer
    <2>11. next = "swapTrialTime" => l.caller = "trial"
      BY DEF AfterAnswer
    <2>5. next = "incRejection" => open
      BY DEF AfterAnswer
    <2>6. next = "run" /\ ~ l.trial => l.caller = "update" \/ ~ open
      BY DEF AfterAnswer
    <2>7. /\ l.trial => "open" \in seen[p]
          /\ l.caller = "update" => "closed" \in seen[p]
          /\ l.caller = "trial" => ~ l.trial
      BY DEF Justified
    <2> HIDE DEF next, l
    <2>8. loc'[p].trial \/ next \in {"swapTrialTime", "incRejection"}
            => "open" \in seen'[p]
      BY <2>1, <2>2, <2>4, <2>5, <2>7
    <2>9. next = "run" /\ ~ loc'[p].trial => "closed" \in seen'[p]
      BY <2>1, <2>2, <2>6, <2>7
    <2>10. next = "swapTrialTime" => SleptEnough(loc'[p])
      BY <2>2, <2>4 DEF SleptEnough
    <2> QED
      BY <1>1, <2>2, <2>3, <2>7, <2>8, <2>9, <2>10, <2>11
         DEF Justified, At, SleptEnough
  <1> QED BY <1>2, <1>3

\* Every step of a goroutine leaves it justified.
LEMMA StepJustified ==
  ASSUME TypeOK, CurrentSeen, NEW p \in Goroutines, Justified(p), Step(p)
  PROVE  Justified(p)'
  <1>0. loc[p] \in Locals /\ props["ForceClosed"] \in BOOLEAN
    BY DEF TypeOK, Switches
  <1>1. Observe
    BY DEF Step, Begin, CheckForceOpen, IncRequest, LoadTrialTime, ReadTrialClock,
           SwapTrialTime, Allow, Finish, FinishUntracked, IncError, ResetErrors,
           ResetRequests, Close, Poll, ReadForceClosed, ReadForceOpen, LoadOpen,
           LoadSnapshotTime, ReadSnapshotClock, SwapSnapshotTime, SumRequests,
           SumErrors, SwapOpen, ReadTripClock, StoreTrialTime, OnlyLocal, InCall
  <1>s. ASSUME pc[p] # "idle", pc'[p] # "idle" PROVE seen[p] \subseteq seen'[p]
    BY <1>1, <1>s, SeenGrows
  <1> USE DEF At, Goto
  <1>2. CASE Begin(p)
    BY <1>2 DEF Begin, TypeOK, Justified, NoLocals
  <1>3. CASE CheckForceOpen(p)
    BY <1>3 DEF CheckForceOpen, TypeOK, Justified, NoLocals
  <1>4. CASE IncRequest(p)
    BY <1>4, <1>s DEF IncRequest, TypeOK, Justified
  <1>5. CASE LoadTrialTime(p)
    BY <1>0, <1>5, <1>s DEF LoadTrialTime, TypeOK, Justified, Locals
  <1>6. CASE ReadTrialClock(p)
    <2>1. /\ loc'[p].trial = loc[p].trial /\ loc'[p].caller = "trial"
          /\ pc[p] = "readTrialClock" /\ pc'[p] = "readForceClosed"
      BY <1>0, <1>6 DEF ReadTrialClock, TypeOK, Locals
    <2> QED BY <2>1, <1>s DEF Justified
  <1>7. CASE SwapTrialTime(p)
    <2>1. /\ pc[p] = "swapTrialTime" /\ pc'[p] = "allow"
          /\ loc'[p].caller = loc[p].caller
      BY <1>0, <1>7 DEF SwapTrialTime, TypeOK, Locals
    <2> QED BY <2>1, <1>s DEF Justified
  <1>8. CASE Allow(p)
    <2>1. /\ pc[p] = "allow" /\ pc'[p] = "readForceClosed"
          /\ loc'[p].trial = loc[p].trial
          /\ loc'[p].caller = IF props["ForceClosed"] THEN "update" ELSE "admit"
      BY <1>0, <1>8 DEF Allow, Ask, TypeOK, Locals
    <2> QED BY <2>1, <1>s, Witnessed DEF Justified
  <1>9. CASE Finish(p)
    <2>1. /\ pc[p] = "run" /\ pc'[p] \in {"incFailure", "resetErrors", "idle"}
          /\ loc'[p] = IF pc'[p] = "idle" THEN NoLocals ELSE loc[p]
      BY <1>9 DEF Finish, AfterSuccess, TypeOK
    <2> QED BY <2>1, <1>s DEF Justified, NoLocals
  <1>10. CASE FinishUntracked(p) \/ IncError(p) \/ Close(p)
    <2>1. pc'[p] = "idle" /\ loc'[p] = NoLocals
      BY <1>10 DEF FinishUntracked, IncError, Close, Leave, TypeOK
    <2> QED BY <2>1 DEF Justified, NoLocals
  <1>11. CASE ResetErrors(p)
    BY <1>11, <1>s DEF ResetErrors, TypeOK, Justified
  <1>12. CASE ResetRequests(p)
    BY <1>12, <1>s DEF ResetRequests, TypeOK, Justified
  <1>13. CASE Poll(p)
    <2>1. /\ pc[p] = "idle" /\ pc'[p] = "readForceClosed"
          /\ loc'[p].trial = loc[p].trial /\ loc'[p].caller = "poll"
      BY <1>0, <1>13 DEF Poll, Ask, TypeOK, Locals
    <2> QED BY <2>1 DEF Justified, NoLocals
  <1>14. CASE ReadForceClosed(p)
    <2>1. CASE props["ForceClosed"] /\ Answer(p, FALSE)
      BY <1>1, <1>14, <2>1, AnswerJustified, Witnessed DEF ReadForceClosed
    <2>2. CASE Goto(p, "readForceOpen") /\ UNCHANGED loc
      BY <1>14, <2>2, <1>s DEF ReadForceClosed, TypeOK, Justified
    <2> QED BY <1>14, <2>1, <2>2 DEF ReadForceClosed
  <1>15. CASE ReadForceOpen(p)
    <2>1. CASE props["ForceOpen"] /\ Answer(p, TRUE)
      BY <1>1, <1>15, <2>1, AnswerJustified, Witnessed DEF ReadForceOpen
    <2>2. CASE Goto(p, "loadOpen") /\ UNCHANGED loc
      BY <1>15, <2>2, <1>s DEF ReadForceOpen, TypeOK, Justified
    <2> QED BY <1>15, <2>1, <2>2 DEF ReadForceOpen
  <1>16. CASE LoadOpen(p)
    <2>1. CASE circuitOpen /\ Answer(p, TRUE)
      BY <1>1, <1>16, <2>1, AnswerJustified, Witnessed DEF LoadOpen
    <2>2. CASE ~ circuitOpen /\ Goto(p, "loadSnapshotTime") /\ UNCHANGED loc
      BY <1>16, <2>2, <1>s, Witnessed DEF LoadOpen, TypeOK, Justified
    <2> QED BY <1>16, <2>1, <2>2 DEF LoadOpen
  <1>17. CASE LoadSnapshotTime(p)
    BY <1>0, <1>17, <1>s DEF LoadSnapshotTime, TypeOK, Justified, Locals
  <1>18. CASE ReadSnapshotClock(p)
    <2>0. pc[p] = "readSnapshotClock" /\ "closed" \in seen[p]
      BY <1>18 DEF ReadSnapshotClock, Justified
    <2>1. CASE Answer(p, FALSE)
      BY <1>1, <2>0, <2>1, AnswerJustified
    <2>2. CASE loc' = [loc EXCEPT ![p].clock = now] /\ Goto(p, "swapSnapshotTime")
      BY <1>0, <2>0, <2>2, <1>s DEF TypeOK, Justified, Locals
    <2> QED BY <1>18, <2>1, <2>2 DEF ReadSnapshotClock
  <1>19. CASE SwapSnapshotTime(p)
    <2>0. pc[p] = "swapSnapshotTime" /\ "closed" \in seen[p]
      BY <1>19 DEF SwapSnapshotTime, Justified
    <2>1. CASE Answer(p, FALSE)
      BY <1>1, <2>0, <2>1, AnswerJustified
    <2>2. CASE Goto(p, "sumRequests") /\ UNCHANGED loc
      BY <2>0, <2>2, <1>s DEF TypeOK, Justified
    <2> QED BY <1>19, <2>1, <2>2 DEF SwapSnapshotTime
  <1>20. CASE SumRequests(p)
    BY <1>20, <1>s DEF SumRequests, TypeOK, Justified
  <1>21. CASE SumErrors(p)
    <2>0. pc[p] = "sumErrors" /\ "closed" \in seen[p]
      BY <1>21 DEF SumErrors, Justified
    <2>1. CASE Answer(p, FALSE)
      BY <1>1, <2>0, <2>1, AnswerJustified
    <2>2. CASE Goto(p, "swapOpen") /\ UNCHANGED loc
      BY <2>0, <2>2, <1>s DEF TypeOK, Justified
    <2> QED BY <1>21, <2>1, <2>2 DEF SumErrors
  <1>22. CASE SwapOpen(p)
    <2>0. pc[p] = "swapOpen" /\ circuitOpen \in BOOLEAN
      BY <1>22 DEF SwapOpen, TypeOK
    <2>1. CASE ~ circuitOpen
      <3>1. circuitOpen' /\ Goto(p, "readTripClock") /\ UNCHANGED loc
        BY <1>22, <2>1 DEF SwapOpen, Swaps
      <3>2. pc'[p] = "readTripClock"
        BY <3>1 DEF TypeOK
      <3>3. "open" \in seen'[p]
        BY <1>1, <3>1, <3>2, SeenGrows DEF Verdicts
      <3> QED BY <2>0, <3>1, <3>2, <3>3, <1>s DEF Justified
    <2>2. CASE circuitOpen
      <3>1. Answer(p, TRUE)
        BY <1>22, <2>2 DEF SwapOpen, Swaps
      <3>2. "open" \in seen[p]
        BY <2>0, <2>2, Witnessed
      <3> QED BY <1>1, <2>0, <3>1, <3>2, AnswerJustified
    <2> QED BY <2>0, <2>1, <2>2
  <1>23. CASE ReadTripClock(p)
    BY <1>0, <1>23, <1>s DEF ReadTripClock, TypeOK, Justified, Locals
  <1>24. CASE StoreTrialTime(p)
    <2>0. pc[p] = "storeTrialTime" /\ "open" \in seen[p]
      BY <1>24 DEF StoreTrialTime, Justified
    <2> QED BY <1>1, <1>24, <2>0, AnswerJustified DEF StoreTrialTime
  <1> QED
    BY <1>2, <1>3, <1>4, <1>5, <1>6, <1>7, <1>8, <1>9, <1>10, <1>11, <1>12, <1>13,
       <1>14, <1>15, <1>16, <1>17, <1>18, <1>19, <1>20, <1>21, <1>22, <1>23, <1>24
       DEF Step

\* The clock and the operators leave everyone justified.
LEMMA OutsideJustified ==
  ASSUME Tick \/ ChangeProperty, NEW q \in Goroutines, Justified(q)
  PROVE  Justified(q)'
  BY UnmovedJustified DEF Tick, ChangeProperty

\* lastTrialTime has the last writer LastWriter names, after every step.
LEMMA LastWriterAfter ==
  ASSUME TypeOK, LastWriter, [Next]_vars
  PROVE  LastWriter'
  <1>1. CASE UNCHANGED <<lastTrialTime, trialTime, rearmed>>
    BY <1>1 DEF LastWriter
  <1>2. ASSUME NEW p \in Goroutines, SwapTrialTime(p) PROVE LastWriter'
    BY <1>2 DEF SwapTrialTime, LastWriter
  <1>3. ASSUME NEW p \in Goroutines, StoreTrialTime(p) PROVE LastWriter'
    BY <1>3 DEF StoreTrialTime, LastWriter
  <1> QED
    BY <1>1, <1>2, <1>3
       DEF Next, Step, Begin, CheckForceOpen, IncRequest, LoadTrialTime,
           ReadTrialClock, Allow, Finish, FinishUntracked, IncError, ResetErrors,
           ResetRequests, Close, Poll, ReadForceClosed, ReadForceOpen, LoadOpen,
           LoadSnapshotTime, ReadSnapshotClock, SwapSnapshotTime, SumRequests,
           SumErrors, SwapOpen, ReadTripClock, OnlyLocal, InCall, breaker, history,
           Tick, ChangeProperty, vars
-----------------------------------------------------------------------------
(* Where IsOpen returns to, and the switches before their first change.    *)

\* A step moves one goroutine at most.
LEMMA OthersUnmoved ==
  ASSUME TypeOK, NEW p \in Goroutines, Step(p), NEW q \in Goroutines, q # p
  PROVE  pc'[q] = pc[q] /\ loc'[q] = loc[q] /\ Observe
  BY DEF TypeOK, Step, Begin, CheckForceOpen, IncRequest, LoadTrialTime, ReadTrialClock,
         SwapTrialTime, Allow, Finish, FinishUntracked, IncError, ResetErrors,
         ResetRequests, Close, Poll, ReadForceClosed, ReadForceOpen, LoadOpen,
         LoadSnapshotTime, ReadSnapshotClock, SwapSnapshotTime, SumRequests,
         SumErrors, SwapOpen, ReadTripClock, StoreTrialTime, OnlyLocal, InCall,
         Goto, Leave, Ask, Answer

\* An answer of IsOpen takes its caller out of it.
LEMMA AnswerReturns ==
  ASSUME TypeOK, NEW p \in Goroutines, NEW open, Answer(p, open)
  PROVE  Returning(p)'
  <1>1. loc[p] \in Locals
    BY DEF TypeOK
  <1>2. pc'[p] = AfterAnswer(loc[p], open) /\ pc'[p] \notin IsOpenLabels
    BY AfterAnswerTyped DEF TypeOK, Answer, Goto, IsOpenLabels
  <1>3. loc'[p].caller = "none"
    BY <1>1 DEF TypeOK, Answer, Locals, NoLocals
  <1> QED BY <1>2, <1>3 DEF Returning

\* A goroutine is in IsOpen exactly while IsOpen has a caller to return to.
LEMMA StepReturning ==
  ASSUME TypeOK, NEW p \in Goroutines, Justified(p), Returning(p), Step(p)
  PROVE  Returning(p)'
  <1>0. loc[p] \in Locals /\ NoLocals.caller = "none"
    BY DEF TypeOK, NoLocals
  <1> USE DEF At, Goto
  <1>1. CASE /\ loc'[p].caller = loc[p].caller /\ loc'[p].trial = loc[p].trial
             /\ pc'[p] \in IsOpenLabels <=> pc[p] \in IsOpenLabels
    BY <1>1 DEF Returning
  <1>2. CASE loc'[p].caller = "none" /\ pc'[p] \notin IsOpenLabels
    BY <1>2 DEF Returning
  <1>3. CASE \E open \in BOOLEAN : Answer(p, open)
    BY <1>3, AnswerReturns
  <1>4. CASE Poll(p)
    <2>1. pc'[p] \in IsOpenLabels /\ loc'[p].caller = "poll" /\ ~ loc'[p].trial
      BY <1>0, <1>4 DEF Poll, Ask, TypeOK, Locals, IsOpenLabels, Justified, NoLocals
    <2> QED BY <2>1 DEF Returning
  <1>5. CASE ReadTrialClock(p) \/ Allow(p)
    <2>1. pc'[p] \in IsOpenLabels /\ loc'[p].caller \in {"trial", "update", "admit"}
      BY <1>0, <1>5 DEF ReadTrialClock, Allow, Ask, TypeOK, Locals, IsOpenLabels
    <2> QED BY <2>1 DEF Returning
  <1>6. CASE Begin(p) \/ CheckForceOpen(p) \/ IncRequest(p) \/ ResetErrors(p) \/ ResetRequests(p)
    BY <1>1, <1>6 DEF Begin, CheckForceOpen, IncRequest, ResetErrors, ResetRequests,
                      TypeOK, IsOpenLabels
  <1>7. CASE LoadTrialTime(p)
    BY <1>0, <1>1, <1>7 DEF LoadTrialTime, TypeOK, Locals, IsOpenLabels
  <1>8. CASE SwapTrialTime(p)
    <2>1. /\ loc'[p].caller = loc[p].caller
          /\ pc[p] = "swapTrialTime" /\ pc'[p] = "allow"
      BY <1>0, <1>8 DEF SwapTrialTime, TypeOK, Locals
    <2> QED BY <1>2, <2>1 DEF Returning, IsOpenLabels
  <1>9. CASE Finish(p)
    <2>1. /\ loc'[p] = IF pc'[p] = "idle" THEN NoLocals ELSE loc[p]
          /\ pc[p] = "run" /\ pc'[p] \in {"incFailure", "resetErrors", "idle"}
      BY <1>9 DEF Finish, AfterSuccess, TypeOK
    <2> QED BY <1>0, <1>2, <2>1 DEF Returning, IsOpenLabels
  <1>10. CASE FinishUntracked(p) \/ IncError(p) \/ Close(p)
    BY <1>0, <1>2, <1>10 DEF FinishUntracked, IncError, Close, Leave, TypeOK, IsOpenLabels
  <1>11. CASE LoadSnapshotTime(p) \/ ReadTripClock(p)
    BY <1>0, <1>1, <1>11 DEF LoadSnapshotTime, ReadTripClock, TypeOK, Locals, IsOpenLabels
  <1>12. CASE StoreTrialTime(p)
    BY <1>3, <1>12 DEF StoreTrialTime
  <1>13. CASE ReadForceClosed(p) \/ ReadForceOpen(p) \/ LoadOpen(p) \/ SumRequests(p)
    BY <1>1, <1>3, <1>13
       DEF ReadForceClosed, ReadForceOpen, LoadOpen, SumRequests, TypeOK, IsOpenLabels
  <1>14. CASE SwapSnapshotTime(p) \/ SumErrors(p) \/ SwapOpen(p)
    BY <1>1, <1>3, <1>14
       DEF SwapSnapshotTime, SumErrors, SwapOpen, TypeOK, IsOpenLabels
  <1>15. CASE ReadSnapshotClock(p)
    <2>1. CASE loc' = [loc EXCEPT ![p].clock = now] /\ pc' = [pc EXCEPT ![p] = "swapSnapshotTime"]
      BY <1>0, <1>1, <1>15, <2>1 DEF ReadSnapshotClock, TypeOK, Locals, IsOpenLabels
    <2> QED BY <1>3, <1>15, <2>1 DEF ReadSnapshotClock
  <1> QED
    BY <1>4, <1>5, <1>6, <1>7, <1>8, <1>9, <1>10, <1>11, <1>12, <1>13, <1>14, <1>15
       DEF Step

\* The breaker stays unforced until a switch changes.
LEMMA UnforcedAfter ==
  ASSUME TypeOK, Unforced, [Next]_vars
  PROVE  Unforced'
  <1> SUFFICES ASSUME changes' = 0 PROVE Unforced'
    BY DEF Unforced
  <1>1. ~ ChangeProperty
    BY DEF ChangeProperty, TypeOK
  <1>2. ASSUME NEW p \in Goroutines, Step(p) PROVE UNCHANGED outside
    BY <1>2
       DEF Step, Begin, CheckForceOpen, IncRequest, LoadTrialTime, ReadTrialClock,
           SwapTrialTime, Allow, Finish, FinishUntracked, IncError, ResetErrors,
           ResetRequests, Close, Poll, ReadForceClosed, ReadForceOpen, LoadOpen,
           LoadSnapshotTime, ReadSnapshotClock, SwapSnapshotTime, SumRequests,
           SumErrors, SwapOpen, ReadTripClock, StoreTrialTime, OnlyLocal, InCall
  <1>3. changes = 0 /\ props' = props
    BY <1>1, <1>2 DEF Next, Tick, vars, outside
  <1>4. /\ props = [s \in Switches |-> s = "Enabled"]
        /\ \A q \in Goroutines : pc[q] # "runUntracked" /\ loc[q].caller # "update"
    BY <1>3 DEF Unforced, At
  <1>5. props["Enabled"] /\ ~ props["ForceClosed"]
    BY <1>4 DEF Switches
  <1>6. ASSUME NEW p \in Goroutines, Step(p)
        PROVE  pc'[p] # "runUntracked" /\ loc'[p].caller # "update"
    <2>0. loc[p] \in Locals /\ NoLocals.caller = "none"
      BY DEF TypeOK, NoLocals
    <2>1. ASSUME NEW open, Answer(p, open)
          PROVE  pc'[p] # "runUntracked" /\ loc'[p].caller # "update"
      <3>1. pc'[p] = AfterAnswer(loc[p], open)
        BY <2>1 DEF Answer, Goto, TypeOK
      <3>2. loc'[p].caller = "none"
        BY <2>0, <2>1 DEF TypeOK, Answer, Locals
      <3> QED BY <3>1, <3>2, AfterAnswerTyped
    <2> USE DEF Goto, At
    <2>2. CASE Begin(p) \/ CheckForceOpen(p) \/ IncRequest(p) \/ ResetErrors(p) \/ ResetRequests(p)
      BY <1>4, <1>5, <2>2
         DEF Begin, CheckForceOpen, IncRequest, ResetErrors, ResetRequests, TypeOK
    <2>3. CASE LoadTrialTime(p) \/ ReadTrialClock(p)
      BY <1>4, <2>0, <2>3 DEF LoadTrialTime, ReadTrialClock, TypeOK, Locals
    <2>4. CASE SwapTrialTime(p)
      BY <1>4, <2>0, <2>4 DEF SwapTrialTime, TypeOK, Locals
    <2>5. CASE Allow(p) \/ Poll(p)
      BY <1>5, <2>0, <2>5 DEF Allow, Poll, Ask, TypeOK, Locals
    <2>6. CASE Finish(p)
      BY <1>4, <2>0, <2>6 DEF Finish, AfterSuccess, TypeOK
    <2>7. CASE FinishUntracked(p) \/ IncError(p) \/ Close(p)
      BY <2>0, <2>7 DEF FinishUntracked, IncError, Close, Leave, TypeOK
    <2>8. CASE ReadForceClosed(p) \/ ReadForceOpen(p) \/ LoadOpen(p) \/ SumRequests(p)
      BY <1>4, <2>1, <2>8 DEF ReadForceClosed, ReadForceOpen, LoadOpen, SumRequests, TypeOK
    <2>9. CASE SwapSnapshotTime(p) \/ SumErrors(p) \/ SwapOpen(p) \/ StoreTrialTime(p)
      BY <1>4, <2>1, <2>9 DEF SwapSnapshotTime, SumErrors, SwapOpen, StoreTrialTime, TypeOK
    <2>10. CASE LoadSnapshotTime(p) \/ ReadTripClock(p)
      BY <1>4, <2>0, <2>10 DEF LoadSnapshotTime, ReadTripClock, TypeOK, Locals
    <2>11. CASE ReadSnapshotClock(p)
      <3>1. CASE Answer(p, FALSE)
        BY <2>1, <3>1
      <3>2. CASE loc' = [loc EXCEPT ![p].clock = now] /\ Goto(p, "swapSnapshotTime")
        BY <1>4, <2>0, <3>2 DEF TypeOK, Locals
      <3> QED BY <2>11, <3>1, <3>2 DEF ReadSnapshotClock
    <2> QED
      BY <1>6, <2>2, <2>3, <2>4, <2>5, <2>6, <2>7, <2>8, <2>9, <2>10, <2>11 DEF Step
  <1>7. ASSUME NEW q \in Goroutines
        PROVE  pc'[q] # "runUntracked" /\ loc'[q].caller # "update"
    <2>1. CASE pc'[q] = pc[q] /\ loc'[q] = loc[q]
      BY <1>4, <2>1
    <2>2. ASSUME NEW p \in Goroutines, Step(p)
          PROVE  pc'[q] # "runUntracked" /\ loc'[q].caller # "update"
      BY <1>6, <2>1, <2>2, OthersUnmoved
    <2> QED BY <1>1, <2>1, <2>2 DEF Next, Tick, vars
  <1> QED BY <1>3, <1>4, <1>7 DEF Unforced, At
-----------------------------------------------------------------------------
(* The inductive invariant and what follows.                               *)

\* New establishes the invariant.
LEMMA InitEstablishes == Init => IInv
  <1> SUFFICES ASSUME Init PROVE IInv
    OBVIOUS
  <1>1. ASSUME NEW p \in Goroutines
        PROVE  Justified(p) /\ Returning(p) /\ pc[p] = "idle" /\ loc[p].caller = "none"
    BY DEF Init, Justified, Returning, NoLocals, IsOpenLabels, At
  <1>2. Unforced
    BY <1>1 DEF Unforced, At, Init
  <1> QED
    BY <1>1, <1>2, InitTyped DEF IInv, CurrentSeen, LastWriter, At, Init

\* Every step observes the verdicts.
LEMMA NextObserves == Next => Observe
  BY DEF Next, Step, Begin, CheckForceOpen, IncRequest, LoadTrialTime, ReadTrialClock,
         SwapTrialTime, Allow, Finish, FinishUntracked, IncError, ResetErrors,
         ResetRequests, Close, Poll, ReadForceClosed, ReadForceOpen, LoadOpen,
         LoadSnapshotTime, ReadSnapshotClock, SwapSnapshotTime, SumRequests,
         SumErrors, SwapOpen, ReadTripClock, StoreTrialTime, OnlyLocal, InCall,
         Tick, ChangeProperty

\* Every step keeps the invariant.
LEMMA NextPreserves == IInv /\ [Next]_vars => IInv'
  <1> SUFFICES ASSUME IInv, [Next]_vars PROVE IInv'
    OBVIOUS
  <1>0. /\ TypeOK /\ CurrentSeen /\ LastWriter /\ Unforced
        /\ \A q \in Goroutines : Justified(q) /\ Returning(q)
    BY DEF IInv
  <1>1. TypeOK' /\ LastWriter' /\ Unforced'
    BY <1>0, NextTyped, LastWriterAfter, UnforcedAfter
  <1>2. CASE UNCHANGED vars
    <2>1. CurrentSeen'
      BY <1>0, <1>2 DEF CurrentSeen, Verdicts, At, vars, breaker, outside
    <2>2. \A q \in Goroutines : Justified(q)' /\ Returning(q)'
      BY <1>0, <1>2 DEF Justified, Returning, At, SleptEnough, vars
    <2> QED BY <1>1, <2>1, <2>2 DEF IInv
  <1>3. CASE Next
    <2>1. CurrentSeen'
      BY <1>3, NextObserves, CurrentSeenAfter
    <2>2. ASSUME NEW q \in Goroutines PROVE Justified(q)' /\ Returning(q)'
      <3>1. CASE Tick \/ ChangeProperty
        <4>1. Returning(q)'
          BY <1>0, <3>1 DEF Tick, ChangeProperty, Returning
        <4> QED BY <1>0, <3>1, <4>1, OutsideJustified
      <3>2. ASSUME NEW p \in Goroutines, Step(p) PROVE Justified(q)' /\ Returning(q)'
        <4>1. CASE q = p
          BY <1>0, <3>2, <4>1, StepJustified, StepReturning
        <4>2. CASE q # p
          <5>1. Returning(q)'
            BY <1>0, <3>2, <4>2, OthersUnmoved DEF Returning
          <5> QED BY <1>0, <3>2, <4>2, <5>1, OthersUnmoved, UnmovedJustified
        <4> QED BY <4>1, <4>2
      <3> QED BY <1>3, <3>1, <3>2 DEF Next
    <2> QED BY <1>1, <2>1, <2>2 DEF IInv
  <1> QED BY <1>2, <1>3

\* The invariant holds in every reachable state.
THEOREM Inductive == Spec => []IInv
  BY InitEstablishes, NextPreserves, PTL DEF Spec

\* Whatever the interleaving, a call runs only if the circuit was closed, and
\* is refused or made a trial only if it was open, at some moment of the call.
THEOREM VerdictsAreJustified == Spec => []VerdictJustified
  <1>1. IInv => VerdictJustified
    BY DEF IInv, Justified, VerdictJustified, At
  <1> QED BY <1>1, Inductive, PTL

\* A goroutine takes the trial only by a swap that finds the time it has read.
LEMMA TrialIsTaken ==
  ASSUME IInv, [Next]_vars, NEW p \in Goroutines, TrialTaken(p)
  PROVE  /\ SwapTrialTime(p) /\ SleptEnough(loc[p])
         /\ lastTrialTime = loc[p].trialSeen /\ trialTime' = loc[p].trialClock
  <1>1. /\ pc[p] = "swapTrialTime" /\ loc'[p].trial
        /\ ~ loc[p].trial /\ SleptEnough(loc[p])
    BY DEF TrialTaken, IInv, Justified, At
  <1>2. SwapTrialTime(p)
    <2>1. loc'[p] # loc[p]
      BY <1>1
    <2>2. ASSUME NEW q \in Goroutines, Step(q) PROVE q = p
      BY <2>1, <2>2, OthersUnmoved DEF IInv
    <2>3. Step(p)
      BY <2>1, <2>2 DEF Next, Tick, ChangeProperty, vars
    <2> QED
      BY <1>1, <2>3
         DEF Step, Begin, CheckForceOpen, IncRequest, LoadTrialTime, ReadTrialClock,
             Allow, Finish, FinishUntracked, IncError, ResetErrors, ResetRequests,
             Close, Poll, ReadForceClosed, ReadForceOpen, LoadOpen,
             LoadSnapshotTime, ReadSnapshotClock, SwapSnapshotTime, SumRequests,
             SumErrors, SwapOpen, ReadTripClock, StoreTrialTime, At
  <1> QED BY <1>1, <1>2 DEF SwapTrialTime, Swaps

\* Of the goroutines racing for a trial one gets it, and the next trial comes
\* more than SleepWindow later unless the circuit was opened anew.
THEOREM TrialsAreSpaced == Spec => TrialSpacing
  <1>1. ASSUME IInv, [Next]_vars, NEW p \in Goroutines, TrialTaken(p)
        PROVE  rearmed \/ trialTime' > trialTime + SleepWindow
    BY <1>1, TrialIsTaken DEF IInv, LastWriter, SleptEnough
  <1>2. IInv /\ [Next]_vars
          => [\A p \in Goroutines :
                TrialTaken(p) => rearmed \/ trialTime' > trialTime + SleepWindow]_vars
    BY <1>1
  <1> QED BY <1>2, Inductive, PTL DEF Spec, TrialSpacing
-----------------------------------------------------------------------------
(* One goroutine.                                                          *)

\* New establishes what a single goroutine has beside.
LEMMA InitAlone == Init => Alone
  <1> SUFFICES ASSUME Init PROVE Alone
    OBVIOUS
  <1>1. SumOf(requests) = 0
    BY EpochNat, EmptySum DEF Init
  <1>2. \A p \in Goroutines : Evidenced(p) /\ Rearmed(p)
    BY DEF Init, Evidenced, Rearmed, At
  <1> QED BY <1>1, <1>2, EpochNat DEF Init, Alone

\* The requests in the ring were counted since the last Reset: nobody else
\* counts one, or resets, between two steps of p.
LEMMA EvidenceKept ==
  ASSUME TypeOK, NEW p \in Goroutines, Step(p), SumOf(requests) <= evidence, Evidenced(p)
  PROVE  (SumOf(requests) <= evidence)' /\ Evidenced(p)'
  <1>0. /\ requests \in RollingNumbers /\ SumOf(requests) \in Nat /\ now \in Nat
        /\ evidence \in Nat /\ volume[p] \in Nat /\ pc \in [Goroutines -> Labels]
        /\ RequestVolumeThreshold \in Nat
    BY SumOfCounts, BreakerAssumption DEF TypeOK
  <1>1. CASE UNCHANGED <<requests, evidence>> /\ pc'[p] \notin {"sumErrors", "swapOpen"}
    BY <1>1 DEF Evidenced, At
  <1>2. ASSUME NEW open, Answer(p, open) PROVE pc'[p] \notin {"sumErrors", "swapOpen"}
    BY <1>0, <1>2, AfterAnswerTyped DEF Answer, Goto
  <1> USE DEF Goto
  <1>3. CASE \/ Begin(p) \/ CheckForceOpen(p) \/ LoadTrialTime(p) \/ ReadTrialClock(p)
             \/ SwapTrialTime(p) \/ Allow(p) \/ Finish(p) \/ FinishUntracked(p)
             \/ IncError(p) \/ ResetErrors(p) \/ Close(p) \/ Poll(p)
    <2>1. UNCHANGED <<requests, evidence>>
      BY <1>3 DEF Begin, CheckForceOpen, LoadTrialTime, ReadTrialClock, SwapTrialTime,
                  Allow, Finish, FinishUntracked, IncError, ResetErrors, Close, Poll,
                  OnlyLocal, health, history
    <2>2. pc'[p] \notin {"sumErrors", "swapOpen"}
      BY <1>0, <1>3
         DEF Begin, CheckForceOpen, LoadTrialTime, ReadTrialClock, SwapTrialTime,
             Allow, Finish, AfterSuccess, FinishUntracked, IncError, ResetErrors,
             Close, Poll, Leave, Ask
    <2> QED BY <1>1, <2>1, <2>2
  <1>4. CASE \/ ReadForceClosed(p) \/ ReadForceOpen(p) \/ LoadOpen(p)
             \/ LoadSnapshotTime(p) \/ ReadSnapshotClock(p) \/ SwapSnapshotTime(p)
             \/ SwapOpen(p) \/ ReadTripClock(p) \/ StoreTrialTime(p)
    <2>1. UNCHANGED <<requests, evidence>>
      BY <1>4 DEF ReadForceClosed, ReadForceOpen, LoadOpen, LoadSnapshotTime,
                  ReadSnapshotClock, SwapSnapshotTime, SwapOpen, ReadTripClock,
                  StoreTrialTime, OnlyLocal, health, history
    <2>2. pc'[p] \notin {"sumErrors", "swapOpen"}
      BY <1>0, <1>2, <1>4
         DEF ReadForceClosed, ReadForceOpen, LoadOpen, LoadSnapshotTime,
             ReadSnapshotClock, SwapSnapshotTime, SwapOpen, ReadTripClock, StoreTrialTime
    <2> QED BY <1>1, <2>1, <2>2
  <1>5. CASE IncRequest(p)
    <2>1. requests' = Incremented(requests, now) /\ evidence' = evidence + 1
      BY <1>5 DEF IncRequest
    <2>2. SumOf(requests') <= SumOf(requests) + 1 /\ SumOf(requests') \in Nat
      BY <1>0, <2>1, IncrementSum, IncrementTyped, SumOfCounts
    <2>3. (SumOf(requests) <= evidence)'
      BY <1>0, <2>1, <2>2
    <2>4. pc'[p] = "loadTrialTime"
      BY <1>0, <1>5 DEF IncRequest
    <2> QED BY <2>3, <2>4 DEF Evidenced, At
  <1>6. CASE ResetRequests(p)
    <2>1. requests' = NewRollingNumber(now) /\ evidence' = 0
      BY <1>6 DEF ResetRequests, ResetNumber
    <2>2. (SumOf(requests) <= evidence)'
      BY <1>0, <2>1, EmptySum
    <2>3. pc'[p] = "close"
      BY <1>0, <1>6 DEF ResetRequests
    <2> QED BY <2>2, <2>3 DEF Evidenced, At
  <1>7. CASE SumRequests(p)
    <2>1. requests' = FindCurrentBucket(requests, now) /\ UNCHANGED evidence
      BY <1>7 DEF SumRequests, history
    <2>2. SumOf(requests') <= SumOf(requests) /\ SumOf(requests') \in Nat
      BY <1>0, <2>1, VisitSum, VisitTyped, SumOfCounts
    <2>3. (SumOf(requests) <= evidence)'
      BY <1>0, <2>1, <2>2
    <2>4. volume'[p] = SumOf(requests')
      BY <1>7 DEF SumRequests, TypeOK
    <2>5. pc'[p] = "sumErrors"
      BY <1>0, <1>7 DEF SumRequests
    <2> QED BY <2>3, <2>4, <2>5 DEF Evidenced, At
  <1>8. CASE SumErrors(p)
    <2>1. UNCHANGED <<requests, evidence>> /\ volume[p] <= evidence
      BY <1>8 DEF SumErrors, history, Evidenced
    <2>2. CASE Answer(p, FALSE)
      BY <1>1, <1>2, <2>1, <2>2
    <2>3. CASE Unhealthy(SumOf(errors'), volume[p]) /\ Goto(p, "swapOpen")
      <3>1. RequestVolumeThreshold <= evidence'
        BY <1>0, <2>1, <2>3 DEF Unhealthy
      <3>2. pc'[p] = "swapOpen"
        BY <1>0, <2>3
      <3> QED BY <2>1, <3>1, <3>2 DEF Evidenced, At
    <2> QED BY <1>8, <2>2, <2>3 DEF SumErrors
  <1> QED BY <1>3, <1>4, <1>5, <1>6, <1>7, <1>8 DEF Step

\* When p opens the circuit it stores a time that is no earlier; its trials
\* only move that on.
LEMMA RearmedKept ==
  ASSUME TypeOK, NEW p \in Goroutines, Justified(p), Step(p), tripTime <= now, Rearmed(p)
  PROVE  (tripTime <= now)' /\ Rearmed(p)'
  <1>0. /\ now \in Nat /\ tripTime \in Nat /\ lastTrialTime \in Nat /\ loc[p] \in Locals
        /\ pc \in [Goroutines -> Labels] /\ SleepWindow \in Nat /\ circuitOpen \in BOOLEAN
    BY BreakerAssumption DEF TypeOK
  <1>1. UNCHANGED now
    BY DEF Step, Begin, CheckForceOpen, IncRequest, LoadTrialTime, ReadTrialClock,
           SwapTrialTime, Allow, Finish, FinishUntracked, IncError, ResetErrors,
           ResetRequests, Close, Poll, ReadForceClosed, ReadForceOpen, LoadOpen,
           LoadSnapshotTime, ReadSnapshotClock, SwapSnapshotTime, SumRequests, SumErrors,
           SwapOpen, ReadTripClock, StoreTrialTime, OnlyLocal, InCall, outside
  <1>2. ASSUME NEW open, Answer(p, open) PROVE pc'[p] # "storeTrialTime"
    BY <1>0, <1>2, AfterAnswerTyped DEF Answer, Goto
  <1>3. CASE /\ UNCHANGED <<circuitOpen, lastTrialTime, tripTime>>
             /\ pc[p] \notin {"readTripClock", "storeTrialTime"} /\ pc'[p] # "storeTrialTime"
    BY <1>1, <1>3 DEF Rearmed, At
  <1> USE DEF Goto, At
  <1>4. CASE \/ Begin(p) \/ CheckForceOpen(p) \/ IncRequest(p) \/ LoadTrialTime(p)
             \/ ReadTrialClock(p) \/ Allow(p) \/ Finish(p) \/ FinishUntracked(p)
             \/ IncError(p) \/ ResetErrors(p) \/ ResetRequests(p) \/ Poll(p)
    <2>1. UNCHANGED <<circuitOpen, lastTrialTime, tripTime>>
      BY <1>4 DEF Begin, CheckForceOpen, IncRequest, LoadTrialTime, ReadTrialClock,
                  Allow, Finish, FinishUntracked, IncError, ResetErrors, ResetRequests,
                  Poll, OnlyLocal, breaker, history
    <2>2. /\ pc[p] \notin {"readTripClock", "storeTrialTime"}
          /\ pc'[p] # "storeTrialTime"
      BY <1>0, <1>4
         DEF Begin, CheckForceOpen, IncRequest, LoadTrialTime, ReadTrialClock,
             Allow, Finish, AfterSuccess, FinishUntracked, IncError, ResetErrors,
             ResetRequests, Poll, Leave, Ask
    <2> QED BY <1>3, <2>1, <2>2
  <1>5. CASE \/ ReadForceClosed(p) \/ ReadForceOpen(p) \/ LoadOpen(p)
             \/ LoadSnapshotTime(p) \/ ReadSnapshotClock(p) \/ SwapSnapshotTime(p)
             \/ SumRequests(p) \/ SumErrors(p)
    <2>1. UNCHANGED <<circuitOpen, lastTrialTime, tripTime>>
      BY <1>5 DEF ReadForceClosed, ReadForceOpen, LoadOpen, LoadSnapshotTime,
                  ReadSnapshotClock, SwapSnapshotTime, SumRequests, SumErrors,
                  OnlyLocal, breaker, history
    <2>2. /\ pc[p] \notin {"readTripClock", "storeTrialTime"}
          /\ pc'[p] # "storeTrialTime"
      BY <1>0, <1>2, <1>5
         DEF ReadForceClosed, ReadForceOpen, LoadOpen, LoadSnapshotTime,
             ReadSnapshotClock, SwapSnapshotTime, SumRequests, SumErrors
    <2> QED BY <1>3, <2>1, <2>2
  <1>6. CASE SwapTrialTime(p)
    <2>1. /\ UNCHANGED <<circuitOpen, tripTime>> /\ pc[p] = "swapTrialTime"
          /\ pc'[p] = "allow" /\ SleptEnough(loc[p])
      BY <1>0, <1>6 DEF SwapTrialTime, Justified
    <2>2. lastTrialTime <= lastTrialTime' /\ lastTrialTime' \in Nat
      BY <1>0, <1>6, <2>1 DEF SwapTrialTime, Swaps, SleptEnough, Locals
    <2> QED BY <1>0, <1>1, <2>1, <2>2 DEF Rearmed
  <1>7. CASE Close(p)
    <2>1. circuitOpen' = FALSE /\ UNCHANGED tripTime /\ pc'[p] = "idle"
      BY <1>0, <1>7 DEF Close, Leave, history
    <2> QED BY <1>1, <2>1 DEF Rearmed
  <1>8. CASE SwapOpen(p)
    <2>0. pc[p] = "swapOpen"
      BY <1>8 DEF SwapOpen
    <2>1. CASE circuitOpen
      <3>1. UNCHANGED <<circuitOpen, lastTrialTime, tripTime>> /\ Answer(p, TRUE)
        BY <1>8, <2>1 DEF SwapOpen, Swaps
      <3> QED BY <1>2, <1>3, <2>0, <3>1
    <2>2. CASE ~ circuitOpen
      <3>1. tripTime' = now /\ pc'[p] = "readTripClock"
        BY <1>0, <1>8, <2>2 DEF SwapOpen, Swaps
      <3> QED BY <1>0, <1>1, <3>1 DEF Rearmed
    <2> QED BY <2>1, <2>2
  <1>9. CASE ReadTripClock(p)
    <2>1. /\ pc'[p] = "storeTrialTime" /\ loc'[p].clock = now /\ UNCHANGED tripTime
      BY <1>0, <1>9 DEF ReadTripClock, OnlyLocal, history, TypeOK, Locals
    <2> QED BY <1>1, <2>1 DEF Rearmed
  <1>10. CASE StoreTrialTime(p)
    <2>1. /\ pc[p] = "storeTrialTime" /\ lastTrialTime' = loc[p].clock
          /\ UNCHANGED tripTime /\ pc'[p] # "storeTrialTime"
      BY <1>2, <1>10 DEF StoreTrialTime
    <2> QED BY <1>1, <2>1 DEF Rearmed
  <1> QED BY <1>4, <1>5, <1>6, <1>7, <1>8, <1>9, <1>10 DEF Step

\* One goroutine keeps it, with the clock and the operators around it.
LEMMA NextAlone ==
  ASSUME \A p, q \in Goroutines : p = q
  PROVE  IInv /\ Alone /\ [Next]_vars => Alone'
  <1> SUFFICES ASSUME IInv, Alone, [Next]_vars PROVE Alone'
    OBVIOUS
  <1>0. /\ TypeOK /\ SumOf(requests) <= evidence /\ tripTime <= now
        /\ \A p \in Goroutines : Justified(p) /\ Evidenced(p) /\ Rearmed(p)
    BY DEF IInv, Alone
  <1>1. ASSUME NEW p \in Goroutines, Step(p) PROVE Alone'
    <2>1. (SumOf(requests) <= evidence)' /\ Evidenced(p)'
      BY <1>0, <1>1, EvidenceKept
    <2>2. (tripTime <= now)' /\ Rearmed(p)'
      BY <1>0, <1>1, RearmedKept
    <2> QED BY <2>1, <2>2 DEF Alone
  <1>2. CASE Tick \/ ChangeProperty \/ UNCHANGED vars
    <2>1. /\ UNCHANGED <<circuitOpen, lastTrialTime, requests, pc, loc, volume,
                          tripTime, evidence>>
          /\ now' = now \/ now' = now + 1
      BY <1>2 DEF Tick, ChangeProperty, vars, breaker, health, outside, history
    <2>2. (SumOf(requests) <= evidence)' /\ (tripTime <= now)'
      BY <1>0, <2>1 DEF TypeOK
    <2>3. \A p \in Goroutines : Evidenced(p)' /\ Rearmed(p)'
      BY <1>0, <2>1 DEF Evidenced, Rearmed, At
    <2> QED BY <2>2, <2>3 DEF Alone
  <1> QED BY <1>1, <1>2 DEF Next

\* One goroutine opens the circuit only on enough requests counted since the
\* last recovery (circuitbreaker.go:131).  For one only: another's increments
\* and verdict may straddle the reset, which the run breaker_stale_reopen
\* shows.
THEOREM AloneOpensOnEvidence ==
  ASSUME \A p, q \in Goroutines : p = q
  PROVE  Spec => OpensOnEvidence
  <1>1. ASSUME IInv, Alone, [Next]_vars, ~ circuitOpen, circuitOpen'
        PROVE  evidence >= RequestVolumeThreshold
    <2>1. ASSUME NEW p \in Goroutines, Step(p) PROVE SwapOpen(p)
      BY <1>1, <2>1
         DEF Step, Begin, CheckForceOpen, IncRequest, LoadTrialTime, ReadTrialClock,
             SwapTrialTime, Allow, Finish, FinishUntracked, IncError, ResetErrors,
             ResetRequests, Close, Poll, ReadForceClosed, ReadForceOpen, LoadOpen,
             LoadSnapshotTime, ReadSnapshotClock, SwapSnapshotTime, SumRequests,
             SumErrors, ReadTripClock, StoreTrialTime, OnlyLocal, breaker
    <2>2. PICK p \in Goroutines : SwapOpen(p)
      BY <1>1, <2>1 DEF Next, Tick, ChangeProperty, vars, breaker
    <2> QED
      BY <1>1, <2>2, BreakerAssumption DEF Alone, Evidenced, SwapOpen, IInv, TypeOK
  <1>2. IInv /\ Alone /\ [Next]_vars =>
          [~ circuitOpen /\ circuitOpen' => evidence >= RequestVolumeThreshold]_vars
    BY <1>1
  <1>3. IInv /\ Alone /\ [Next]_vars => Alone'
    BY NextAlone
  <1> QED BY <1>2, <1>3, InitAlone, Inductive, PTL DEF Spec, OpensOnEvidence

\* One goroutine makes no trial within a sleep window of the opening
\* (circuitbreaker_test.go:99).  For one only: between an opening and its
\* store another finds the old time, which the run breaker_early_trial shows.
THEOREM AloneTrialAfterSleep ==
  ASSUME \A p, q \in Goroutines : p = q
  PROVE  Spec => TrialAfterSleep
  <1>1. ASSUME IInv, Alone, [Next]_vars, NEW p \in Goroutines, TrialTaken(p), circuitOpen
        PROVE  trialTime' > tripTime + SleepWindow
    <2>1. /\ pc[p] = "swapTrialTime" /\ SleptEnough(loc[p])
          /\ lastTrialTime = loc[p].trialSeen /\ trialTime' = loc[p].trialClock
      BY <1>1, TrialIsTaken DEF SwapTrialTime, At
    <2>2. tripTime <= lastTrialTime
      BY <1>1, <2>1 DEF Alone, Rearmed
    <2>3. /\ tripTime \in Nat /\ lastTrialTime \in Nat /\ SleepWindow \in Nat
          /\ loc[p].trialClock \in Nat
      BY <1>1, BreakerAssumption DEF IInv, TypeOK, Locals
    <2> QED BY <2>1, <2>2, <2>3 DEF SleptEnough
  <1>2. IInv /\ Alone /\ [Next]_vars =>
          [\A p \in Goroutines :
             TrialTaken(p) /\ circuitOpen => trialTime' > tripTime + SleepWindow]_vars
    BY <1>1
  <1>3. IInv /\ Alone /\ [Next]_vars => Alone'
    BY NextAlone
  <1> QED BY <1>2, <1>3, InitAlone, Inductive, PTL DEF Spec, TrialAfterSleep
-----------------------------------------------------------------------------
(* The contract.                                                           *)

\* What phase a label, IsOpen's caller and the trial amount to.
PhaseKnown(p) ==
  /\ pc[p] = "idle" <=> PhaseOf(p) = "out"
  /\ pc[p] \in IsOpenLabels =>
       PhaseOf(p) = IF loc[p].caller = "poll" THEN "asking" ELSE "deciding"
  /\ pc[p] \in {"checkForceOpen", "incRequest", "loadTrialTime", "readTrialClock",
                "swapTrialTime", "allow"} => PhaseOf(p) = "deciding"
  /\ pc[p] \in {"run", "runUntracked", "incFailure"} =>
       PhaseOf(p) = IF loc[p].trial THEN "trying" ELSE "admitted"
  /\ pc[p] \in {"resetErrors", "resetRequests", "close"} => PhaseOf(p) = "trying"
  /\ pc[p] = "incRejection" => PhaseOf(p) = "refused"

\* The phase of a goroutine is known, before and after a step.
LEMMA PhaseByLabel ==
  ASSUME NEW p \in Goroutines
  PROVE  /\ TypeOK /\ Returning(p) => PhaseKnown(p)
         /\ (TypeOK /\ Returning(p) => PhaseKnown(p))'
  <1>1. TypeOK /\ Returning(p) => PhaseKnown(p)
    BY DEF TypeOK, Returning, PhaseKnown, PhaseOf, At, Labels, IsOpenLabels
  <1>2. (TypeOK /\ Returning(p) => PhaseKnown(p))'
    BY DEF TypeOK, Returning, PhaseKnown, PhaseOf, At, Labels, IsOpenLabels
  <1> QED BY <1>1, <1>2

\* The phases as a function.
Phases == [q \in Goroutines |-> PhaseOf(q)]

\* Verdicts are kept as the contract has it.
LEMMA WitnessKept ==
  ASSUME \A q \in Goroutines : PhaseKnown(q) /\ PhaseKnown(q)', TypeOK, Observe
  PROVE  Contract!Witness
  <1> SUFFICES ASSUME NEW q \in Goroutines
               PROVE  IF PhaseOf(q)' = "out" THEN seen'[q] = {}
                      ELSE PhaseOf(q) # "out" => seen[q] \subseteq seen'[q]
    BY DEF Contract!Witness
  <1>1. /\ pc[q] = "idle" <=> PhaseOf(q) = "out"
        /\ pc'[q] = "idle" <=> PhaseOf(q)' = "out"
    BY DEF PhaseKnown
  <1> QED
    BY <1>1 DEF Observe

\* A step that takes p from one phase to another moves p in the contract.
LEMMA MovesOne ==
  ASSUME NEW p \in Goroutines, NEW to, PhaseOf(p)' = to,
         \A q \in Goroutines : q # p => PhaseOf(q)' = PhaseOf(q)
  PROVE  /\ Phases' = [Phases EXCEPT ![p] = to]
         /\ Contract!Moves(p, PhaseOf(p), to)
         /\ PhaseOf(p) = to => Phases' = Phases
  <1>1. Phases' = [Phases EXCEPT ![p] = to]
    BY DEF Phases
  <1>2. PhaseOf(p) = to => Phases' = Phases
    BY DEF Phases
  <1>3. Contract!Moves(p, PhaseOf(p), to)
    BY <1>1 DEF Contract!Moves, Phases
  <1> QED BY <1>1, <1>2, <1>3

\* What the contract's part of a step of p may be: p stays in its phase, or
\* moves as one of the contract's actions moves it.
PhaseStep(p) ==
  LET from == PhaseOf(p)
      to   == PhaseOf(p)'
  IN  \/ from = to /\ UNCHANGED circuitOpen
      \/ from = to /\ from \in {"deciding", "asking"} /\ ~ circuitOpen /\ circuitOpen'
      \/ from = "out" /\ to \in {"deciding", "admitted", "asking"} /\ UNCHANGED circuitOpen
      \/ /\ from = "deciding" /\ to = "admitted" /\ "closed" \in seen[p]
         /\ UNCHANGED circuitOpen
      \/ /\ from = "deciding" /\ to \in {"trying", "refused", "out"} /\ "open" \in seen[p]
         /\ UNCHANGED circuitOpen
      \/ /\ from \in {"admitted", "trying", "refused", "asking"} /\ to = "out"
         /\ UNCHANGED circuitOpen
      \/ from = "trying" /\ to = "out" /\ circuitOpen' = FALSE

\* Such a step is one of the contract.
LEMMA PhaseStepAllowed ==
  ASSUME circuitOpen \in BOOLEAN, circuitOpen' \in BOOLEAN,
         NEW p \in Goroutines, PhaseStep(p), Contract!Witness,
         \A q \in Goroutines : q # p => PhaseOf(q)' = PhaseOf(q)
  PROVE  Contract!Next
  <1>0. /\ Contract!Moves(p, PhaseOf(p), PhaseOf(p)')
        /\ PhaseOf(p) = PhaseOf(p)' => Phases' = Phases
    BY MovesOne
  <1>1. CASE PhaseOf(p) = PhaseOf(p)' /\ UNCHANGED circuitOpen
    BY <1>0, <1>1 DEF Contract!Next, Phases
  <1>2. CASE /\ PhaseOf(p) = PhaseOf(p)' /\ PhaseOf(p) \in {"deciding", "asking"}
             /\ ~ circuitOpen /\ circuitOpen'
    <2>1. Contract!Trip(p)
      BY <1>0, <1>2 DEF Contract!Trip, Phases
    <2> QED BY <2>1 DEF Contract!Next
  <1>3. CASE /\ PhaseOf(p) = "out" /\ PhaseOf(p)' \in {"deciding", "admitted", "asking"}
             /\ UNCHANGED circuitOpen
    BY <1>0, <1>3 DEF Contract!Next, Contract!Enter, Contract!Bypass, Contract!Query
  <1>4. CASE /\ PhaseOf(p) = "deciding" /\ PhaseOf(p)' = "admitted" /\ "closed" \in seen[p]
             /\ UNCHANGED circuitOpen
    BY <1>0, <1>4 DEF Contract!Next, Contract!Admit
  <1>5. CASE /\ PhaseOf(p) = "deciding" /\ PhaseOf(p)' \in {"trying", "refused", "out"}
             /\ "open" \in seen[p] /\ UNCHANGED circuitOpen
    BY <1>0, <1>5 DEF Contract!Next, Contract!Try, Contract!Refuse
  <1>6. CASE /\ PhaseOf(p) \in {"admitted", "trying", "refused", "asking"}
             /\ PhaseOf(p)' = "out" /\ UNCHANGED circuitOpen
    <2>1. Contract!Leave(p)
      BY <1>0, <1>6 DEF Contract!Leave
    <2> QED BY <2>1 DEF Contract!Next
  <1>7. CASE PhaseOf(p) = "trying" /\ PhaseOf(p)' = "out" /\ circuitOpen' = FALSE
    BY <1>0, <1>7 DEF Contract!Next, Contract!Recover
  <1> QED
    BY <1>1, <1>2, <1>3, <1>4, <1>5, <1>6, <1>7 DEF PhaseStep

\* IsOpen's answer moves its caller as the contract allows.
LEMMA AnswerPhase ==
  ASSUME TypeOK, NEW p \in Goroutines, Justified(p), Returning(p),
         PhaseKnown(p), PhaseKnown(p)', pc[p] \in IsOpenLabels,
         NEW open \in BOOLEAN, Answer(p, open), UNCHANGED circuitOpen,
         open => "open" \in seen[p], ~ open => "closed" \in seen[p]
  PROVE  PhaseStep(p)
  <1>0. loc[p] \in Locals /\ loc[p].caller # "none"
    BY DEF TypeOK, Returning
  <1>1. pc'[p] = AfterAnswer(loc[p], open)
    BY DEF TypeOK, Answer, Goto
  <1>2. CASE loc[p].caller = "poll"
    <2>1. pc'[p] = "idle"
      BY <1>1, <1>2 DEF AfterAnswer
    <2> QED BY <1>2, <2>1 DEF PhaseKnown, PhaseStep
  <1>3. CASE loc[p].caller = "trial"
    <2>1. pc'[p] \in {"swapTrialTime", "allow"}
      BY <1>1, <1>3 DEF AfterAnswer
    <2> QED BY <1>3, <2>1 DEF PhaseKnown, PhaseStep
  <1>4. CASE loc[p].caller \in {"update", "admit"}
    <2>1. /\ pc'[p] = "run" \/ (pc'[p] = "incRejection" /\ open)
          /\ pc'[p] = "run" /\ ~ loc[p].trial => loc[p].caller = "update" \/ ~ open
      BY <1>1, <1>4 DEF AfterAnswer
    <2>2. pc'[p] # "idle" /\ loc'[p].trial = loc[p].trial
      BY <1>0, <1>1, <2>1 DEF TypeOK, Answer, Locals
    <2>3. PhaseOf(p) = "deciding"
      BY <1>4 DEF PhaseKnown
    <2>4. CASE pc'[p] = "incRejection"
      <3>1. PhaseOf(p)' = "refused"
        BY <2>4 DEF PhaseKnown
      <3> QED BY <2>1, <2>3, <2>4, <3>1 DEF PhaseStep
    <2>5. CASE pc'[p] = "run"
      <3>1. PhaseOf(p)' = IF loc[p].trial THEN "trying" ELSE "admitted"
        BY <2>2, <2>5 DEF PhaseKnown
      <3>2. /\ loc[p].trial => "open" \in seen[p]
            /\ ~ loc[p].trial => "closed" \in seen[p]
        BY <2>1, <2>5 DEF Justified
      <3> QED BY <2>3, <3>1, <3>2 DEF PhaseStep
    <2> QED BY <2>1, <2>4, <2>5
  <1> QED BY <1>0, <1>2, <1>3, <1>4 DEF Locals

\* So does every step of a goroutine.
LEMMA StepPhase ==
  ASSUME TypeOK, CurrentSeen, NEW p \in Goroutines, Justified(p), Returning(p),
         PhaseKnown(p), PhaseKnown(p)', Step(p)
  PROVE  PhaseStep(p)
  <1>0. loc[p] \in Locals /\ props["ForceClosed"] \in BOOLEAN /\ circuitOpen \in BOOLEAN
    BY DEF TypeOK, Switches
  <1>a. ASSUME NEW open \in BOOLEAN, Answer(p, open), UNCHANGED circuitOpen,
               pc[p] \in IsOpenLabels,
               open => "open" \in seen[p], ~ open => "closed" \in seen[p]
        PROVE  PhaseStep(p)
    BY <1>a, AnswerPhase
  <1>s. ASSUME pc[p] \in IsOpenLabels, pc'[p] \in IsOpenLabels, loc'[p].caller = loc[p].caller,
               \/ UNCHANGED circuitOpen
               \/ ~ circuitOpen /\ circuitOpen'
        PROVE  PhaseStep(p)
    BY <1>s DEF PhaseKnown, PhaseStep
  <1> USE DEF At, Goto
  <1>2. CASE Begin(p)
    <2>1. /\ pc[p] = "idle" /\ pc'[p] \in {"checkForceOpen", "runUntracked"}
          /\ UNCHANGED circuitOpen
      BY <1>2 DEF Begin, TypeOK, breaker
    <2>2. ~ loc'[p].trial
      BY <1>2, <2>1 DEF Begin, Justified, NoLocals
    <2> QED BY <2>1, <2>2 DEF PhaseKnown, PhaseStep
  <1>3. CASE CheckForceOpen(p)
    <2>1. /\ pc[p] = "checkForceOpen" /\ UNCHANGED circuitOpen
          /\ pc'[p] = IF props["ForceOpen"] THEN "idle" ELSE "incRequest"
      BY <1>3 DEF CheckForceOpen, TypeOK, OnlyLocal, breaker
    <2> QED BY <2>1, Witnessed DEF PhaseKnown, PhaseStep
  <1>4. CASE IncRequest(p) \/ LoadTrialTime(p) \/ SwapTrialTime(p)
    <2>1. /\ pc[p] \in {"incRequest", "loadTrialTime", "swapTrialTime"}
          /\ pc'[p] \in {"loadTrialTime", "readTrialClock", "allow"} /\ UNCHANGED circuitOpen
      BY <1>4 DEF IncRequest, LoadTrialTime, SwapTrialTime, OnlyLocal, TypeOK, breaker
    <2> QED BY <2>1 DEF PhaseKnown, PhaseStep
  <1>5. CASE ReadTrialClock(p) \/ Allow(p)
    <2>1. /\ pc[p] \in {"readTrialClock", "allow"} /\ pc'[p] \in IsOpenLabels
          /\ UNCHANGED circuitOpen /\ loc'[p].caller # "poll"
      BY <1>0, <1>5
         DEF ReadTrialClock, Allow, Ask, OnlyLocal, TypeOK, Locals, breaker, IsOpenLabels
    <2> QED BY <2>1 DEF PhaseKnown, PhaseStep
  <1>6. CASE Finish(p)
    <2>1. /\ pc[p] = "run" /\ UNCHANGED circuitOpen
          /\ pc'[p] \in {"incFailure", "resetErrors", "idle"}
          /\ loc'[p] = IF pc'[p] = "idle" THEN NoLocals ELSE loc[p]
          /\ pc'[p] = "resetErrors" => loc[p].trial
      BY <1>6 DEF Finish, AfterSuccess, TypeOK, OnlyLocal, breaker
    <2> QED BY <2>1 DEF PhaseKnown, PhaseStep
  <1>7. CASE FinishUntracked(p) \/ IncError(p)
    <2>1. /\ pc[p] \in {"runUntracked", "incFailure", "incRejection"} /\ pc'[p] = "idle"
          /\ UNCHANGED circuitOpen
      BY <1>7 DEF FinishUntracked, IncError, Leave, TypeOK, OnlyLocal, breaker
    <2> QED BY <2>1 DEF PhaseKnown, PhaseStep
  <1>8. CASE ResetErrors(p) \/ ResetRequests(p)
    <2>1. /\ pc[p] \in {"resetErrors", "resetRequests"}
          /\ pc'[p] \in {"resetRequests", "close"} /\ UNCHANGED circuitOpen
      BY <1>8 DEF ResetErrors, ResetRequests, TypeOK, breaker
    <2> QED BY <2>1 DEF PhaseKnown, PhaseStep
  <1>9. CASE Close(p)
    <2>1. pc[p] = "close" /\ pc'[p] = "idle" /\ circuitOpen' = FALSE
      BY <1>9 DEF Close, Leave, TypeOK
    <2> QED BY <2>1 DEF PhaseKnown, PhaseStep
  <1>10. CASE Poll(p)
    <2>1. /\ pc[p] = "idle" /\ pc'[p] \in IsOpenLabels /\ loc'[p].caller = "poll"
          /\ UNCHANGED circuitOpen
      BY <1>0, <1>10 DEF Poll, Ask, TypeOK, Locals, breaker, IsOpenLabels
    <2> QED BY <2>1 DEF PhaseKnown, PhaseStep
  <1>11. CASE ReadForceClosed(p) \/ ReadForceOpen(p) \/ LoadOpen(p)
    <2>0. /\ pc[p] \in IsOpenLabels /\ pc[p] # "idle" /\ UNCHANGED circuitOpen
      BY <1>11 DEF ReadForceClosed, ReadForceOpen, LoadOpen, OnlyLocal, breaker, IsOpenLabels
    <2>1. CASE \/ props["ForceClosed"] /\ Answer(p, FALSE)
               \/ (props["ForceOpen"] \/ circuitOpen) /\ Answer(p, TRUE)
      BY <1>a, <2>0, <2>1, Witnessed
    <2>2. CASE loc' = loc /\ pc'[p] \in {"readForceOpen", "loadOpen", "loadSnapshotTime"}
      BY <1>s, <2>0, <2>2 DEF IsOpenLabels
    <2> QED
      BY <1>11, <2>1, <2>2 DEF ReadForceClosed, ReadForceOpen, LoadOpen, TypeOK
  <1>12. CASE LoadSnapshotTime(p) \/ ReadTripClock(p)
    <2>1. /\ pc[p] \in IsOpenLabels /\ pc'[p] \in IsOpenLabels
          /\ loc'[p].caller = loc[p].caller /\ UNCHANGED circuitOpen
      BY <1>0, <1>12 DEF LoadSnapshotTime, ReadTripClock, OnlyLocal, TypeOK, Locals,
                         breaker, IsOpenLabels
    <2> QED BY <1>s, <2>1
  <1>13. CASE \/ ReadSnapshotClock(p) \/ SwapSnapshotTime(p)
              \/ SumRequests(p) \/ SumErrors(p)
    <2>0. /\ pc[p] \in {"readSnapshotClock", "swapSnapshotTime", "sumRequests", "sumErrors"}
          /\ "closed" \in seen[p] /\ UNCHANGED circuitOpen
      BY <1>13 DEF ReadSnapshotClock, SwapSnapshotTime, SumRequests, SumErrors, Justified,
                   OnlyLocal, breaker
    <2>1. CASE Answer(p, FALSE)
      BY <1>a, <2>0, <2>1 DEF IsOpenLabels
    <2>2. CASE /\ loc' = loc \/ loc' = [loc EXCEPT ![p].clock = now]
               /\ pc'[p] \in {"swapSnapshotTime", "sumRequests", "sumErrors", "swapOpen"}
      <3>1. loc'[p].caller = loc[p].caller
        BY <1>0, <2>2 DEF TypeOK, Locals
      <3> QED BY <1>s, <2>0, <2>2, <3>1 DEF IsOpenLabels
    <2> QED
      BY <1>13, <2>1, <2>2
         DEF ReadSnapshotClock, SwapSnapshotTime, SumRequests, SumErrors, TypeOK
  <1>14. CASE SwapOpen(p)
    <2>0. pc[p] = "swapOpen" /\ pc[p] # "idle"
      BY <1>14 DEF SwapOpen
    <2>1. CASE circuitOpen
      <3>1. Answer(p, TRUE) /\ UNCHANGED circuitOpen
        BY <1>14, <2>1 DEF SwapOpen, Swaps
      <3> QED BY <1>a, <2>0, <2>1, <3>1, Witnessed DEF IsOpenLabels
    <2>2. CASE ~ circuitOpen
      <3>1. circuitOpen' /\ pc'[p] = "readTripClock" /\ UNCHANGED loc
        BY <1>0, <1>14, <2>2 DEF SwapOpen, Swaps, TypeOK
      <3> QED BY <1>s, <2>0, <2>2, <3>1 DEF IsOpenLabels
    <2> QED BY <2>1, <2>2
  <1>15. CASE StoreTrialTime(p)
    <2>1. /\ pc[p] = "storeTrialTime" /\ "open" \in seen[p]
          /\ Answer(p, TRUE) /\ UNCHANGED circuitOpen
      BY <1>15 DEF StoreTrialTime, Justified
    <2> QED BY <1>a, <2>1 DEF IsOpenLabels
  <1> QED
    BY <1>2, <1>3, <1>4, <1>5, <1>6, <1>7, <1>8, <1>9, <1>10, <1>11, <1>12, <1>13,
       <1>14, <1>15 DEF Step

\* Every step of the breaker is one of the contract, or none.
LEMMA NextImplements == IInv /\ IInv' /\ [Next]_vars => [Contract!Next]_(Contract!vars)
  <1> SUFFICES ASSUME IInv, IInv', [Next]_vars PROVE [Contract!Next]_(Contract!vars)
    OBVIOUS
  <1>0. /\ TypeOK /\ CurrentSeen /\ TypeOK'
        /\ circuitOpen \in BOOLEAN /\ circuitOpen' \in BOOLEAN
        /\ \A q \in Goroutines : Justified(q) /\ Returning(q) /\ Returning(q)'
    BY DEF IInv, TypeOK
  <1>1. \A q \in Goroutines : PhaseKnown(q) /\ PhaseKnown(q)'
    BY <1>0, PhaseByLabel
  <1>u. ASSUME NEW q \in Goroutines, pc'[q] = pc[q], loc'[q] = loc[q]
        PROVE  PhaseOf(q)' = PhaseOf(q)
    BY <1>u DEF PhaseOf, At
  <1>2. CASE UNCHANGED vars
    <2>1. Phases' = Phases
      BY <1>2, <1>u DEF Phases, vars
    <2> QED BY <1>2, <2>1 DEF Contract!vars, Phases, vars, breaker
  <1>3. CASE Tick \/ ChangeProperty
    <2>1. UNCHANGED <<circuitOpen, pc, loc>>
      BY <1>3 DEF Tick, ChangeProperty, breaker
    <2>2. Phases' = Phases
      BY <1>u, <2>1 DEF Phases
    <2>3. Contract!Witness
      BY <1>0, <1>1, <1>3, NextObserves, WitnessKept DEF Next
    <2> QED BY <2>1, <2>2, <2>3 DEF Contract!Next, Phases
  <1>4. ASSUME NEW p \in Goroutines, Step(p) PROVE Contract!Next
    <2>1. PhaseStep(p)
      BY <1>0, <1>1, <1>4, StepPhase
    <2>2. Contract!Witness
      BY <1>0, <1>1, <1>4, NextObserves, WitnessKept DEF Next
    <2>3. \A q \in Goroutines : q # p => PhaseOf(q)' = PhaseOf(q)
      BY <1>0, <1>4, <1>u, OthersUnmoved
    <2> QED BY <1>0, <2>1, <2>2, <2>3, PhaseStepAllowed
  <1> QED BY <1>2, <1>3, <1>4 DEF Next

\* The lock-free breaker implements BreakerContract, for any goroutines,
\* thresholds, intervals and changes of the switches: the circuit is opened
\* only by a caller asking for its state and closed only by a caller whose
\* trial succeeded, and each call is admitted, tried or refused on what the
\* circuit allowed during it.
THEOREM ContractImplemented == Spec => ImplementsContract
  <1>1. Init => Contract!Init
    <2> SUFFICES ASSUME Init PROVE Contract!Init
      OBVIOUS
    <2>1. \A q \in Goroutines : PhaseOf(q) = "out"
      BY InitEstablishes, PhaseByLabel DEF IInv, PhaseKnown, Init
    <2> QED BY <2>1 DEF Init, Contract!Init
  <1>2. IInv /\ IInv' /\ [Next]_vars => [Contract!Next]_(Contract!vars)
    BY NextImplements
  <1> QED
    BY <1>1, <1>2, Inductive, PTL DEF Spec, ImplementsContract, Contract!Spec
-----------------------------------------------------------------------------
(* Recovery.tla.                                                           *)

\* What Recovery.tla sees of all goroutines.
RecoveryPcs  == [q \in Goroutines |-> RecoveryPc(q)]
RecoveryLocs == [q \in Goroutines |-> RecoveryLoc(q)]

\* A goroutine's local variables there.
RecoveryLocal(caller, trial, s, trialClock, tripClock, loaded, slept) ==
  [caller |-> caller, trial |-> trial, seen |-> s, trialClock |-> trialClock,
   tripClock |-> tripClock, loaded |-> loaded, slept |-> slept]

Loaded(p) == IF loc[p].trialSeen = lastTrialTime THEN "same" ELSE "other"
TripAge(p) == IF At(p, "storeTrialTime") THEN AgeOf(loc[p].clock) ELSE 0

\* What the invariant says of p while the switches are at their defaults.
Plain(p) ==
  /\ pc[p] \in Labels /\ loc[p] \in Locals
  /\ Justified(p) /\ Returning(p)
  /\ pc[p] # "runUntracked" /\ loc[p].caller # "update"

\* What Recovery.tla sees of p, by p's label and IsOpen's caller.
Looks(p) ==
  /\ pc[p] \in {"idle", "checkForceOpen", "incRequest", "loadTrialTime", "incFailure",
                "incRejection", "resetErrors", "resetRequests", "close"} =>
       RecoveryLoc(p) = RecoveryLocal("none", FALSE, 0, 0, 0, "none", FALSE)
  /\ pc[p] = "readTrialClock" =>
       RecoveryLoc(p) =
         RecoveryLocal("none", FALSE, AgeOf(loc[p].trialSeen), 0, 0, Loaded(p), FALSE)
  /\ pc[p] = "swapTrialTime" =>
       RecoveryLoc(p) =
         RecoveryLocal("none", FALSE, 0, AgeOf(loc[p].trialClock), 0, Loaded(p), FALSE)
  /\ pc[p] = "allow" =>
       RecoveryLoc(p) = RecoveryLocal("admit", loc[p].trial, 0, 0, 0, "none", FALSE)
  /\ pc[p] = "run" =>
       RecoveryLoc(p) = RecoveryLocal("none", loc[p].trial, 0, 0, 0, "none", FALSE)
  /\ pc[p] \in IsOpenLabels /\ loc[p].caller = "trial" =>
       RecoveryLoc(p) = RecoveryLocal("trial", FALSE, 0, AgeOf(loc[p].trialClock), TripAge(p),
                                      Loaded(p), SleptEnough(loc[p]))
  /\ pc[p] \in IsOpenLabels /\ loc[p].caller # "trial" =>
       RecoveryLoc(p) = RecoveryLocal(loc[p].caller, loc[p].trial, 0, 0, TripAge(p),
                                      "none", FALSE)

\* Plain goroutines look as described, before and after a step.
LEMMA PlainLooks ==
  ASSUME NEW p \in Goroutines
  PROVE  /\ Plain(p) => Looks(p)
         /\ (Plain(p) => Looks(p))'
  <1>1. Plain(p) => Looks(p)
    <2> SUFFICES ASSUME Plain(p) PROVE Looks(p)
      OBVIOUS
    <2> USE DEF At
    <2>1. /\ loc[p].trial \in BOOLEAN /\ loc[p].caller \in {"none", "trial", "admit", "poll"}
          /\ loc[p].caller # "none" <=> pc[p] \in IsOpenLabels
          /\ loc[p].caller = "trial" => ~ loc[p].trial
          /\ pc[p] \in {"incRequest", "loadTrialTime", "readTrialClock", "swapTrialTime"}
               => ~ loc[p].trial
          /\ pc[p] \in {"idle", "checkForceOpen"} => ~ loc[p].trial
      BY DEF Plain, Justified, Returning, Locals, NoLocals
    <2>2. RecoveryPc(p) \in {"idle", "close"} <=>
            pc[p] \in {"idle", "incFailure", "incRejection", "resetErrors",
                       "resetRequests", "close"}
      BY DEF Plain, RecoveryPc, Labels, IsOpenLabels
    <2>3. ASSUME pc[p] \in {"idle", "checkForceOpen", "incRequest", "loadTrialTime", "incFailure",
                      "incRejection", "resetErrors", "resetRequests", "close"}
         PROVE  (RecoveryLoc(p) = RecoveryLocal("none", FALSE, 0, 0, 0, "none", FALSE))
      BY <2>1, <2>2, <2>3 DEF RecoveryLoc, RecoveryLocal, Loaded, TripAge, IsOpenLabels
    <2>4. ASSUME pc[p] = "readTrialClock"
         PROVE  (RecoveryLoc(p) = RecoveryLocal("none", FALSE, AgeOf(loc[p].trialSeen), 0, 0, Loaded(p), FALSE))
      BY <2>1, <2>2, <2>4 DEF RecoveryLoc, RecoveryLocal, Loaded, TripAge, IsOpenLabels
    <2>5. ASSUME pc[p] = "swapTrialTime"
         PROVE  (RecoveryLoc(p) = RecoveryLocal("none", FALSE, 0, AgeOf(loc[p].trialClock), 0, Loaded(p), FALSE))
      BY <2>1, <2>2, <2>5 DEF RecoveryLoc, RecoveryLocal, Loaded, TripAge, IsOpenLabels
    <2>6. ASSUME pc[p] = "allow"
         PROVE  (RecoveryLoc(p) = RecoveryLocal("admit", loc[p].trial, 0, 0, 0, "none", FALSE))
      BY <2>1, <2>2, <2>6 DEF RecoveryLoc, RecoveryLocal, Loaded, TripAge, IsOpenLabels
    <2>7. ASSUME pc[p] = "run"
         PROVE  (RecoveryLoc(p) = RecoveryLocal("none", loc[p].trial, 0, 0, 0, "none", FALSE))
      BY <2>1, <2>2, <2>7 DEF RecoveryLoc, RecoveryLocal, Loaded, TripAge, IsOpenLabels
    <2>8. ASSUME pc[p] \in IsOpenLabels /\ loc[p].caller = "trial"
         PROVE  (RecoveryLoc(p) = RecoveryLocal("trial", FALSE, 0, AgeOf(loc[p].trialClock), TripAge(p),
                                  Loaded(p), SleptEnough(loc[p])))
      <3>1. CASE (SleptEnough(loc[p]) = TRUE)
        BY <2>1, <2>2, <2>8, <3>1
           DEF RecoveryLoc, RecoveryLocal, Loaded, TripAge, IsOpenLabels
      <3>2. CASE (SleptEnough(loc[p]) = FALSE)
        BY <2>1, <2>2, <2>8, <3>2
           DEF RecoveryLoc, RecoveryLocal, Loaded, TripAge, IsOpenLabels
      <3>3. (SleptEnough(loc[p]) \in BOOLEAN)
        BY BreakerAssumption DEF Plain, Locals, SleptEnough
      <3> QED BY <3>1, <3>2, <3>3
    <2>9. ASSUME pc[p] \in IsOpenLabels /\ loc[p].caller # "trial"
         PROVE  (RecoveryLoc(p) = RecoveryLocal(loc[p].caller, loc[p].trial, 0, 0, TripAge(p), "none", FALSE))
      BY <2>1, <2>2, <2>9 DEF RecoveryLoc, RecoveryLocal, Loaded, TripAge, IsOpenLabels
    <2> QED BY <2>3, <2>4, <2>5, <2>6, <2>7, <2>8, <2>9 DEF Looks
  <1>2. (Plain(p) => Looks(p))'
    <2> SUFFICES ASSUME Plain(p)' PROVE Looks(p)'
      OBVIOUS
    <2> USE DEF At
    <2>1. /\ loc'[p].trial \in BOOLEAN /\ loc'[p].caller \in {"none", "trial", "admit", "poll"}
          /\ loc'[p].caller # "none" <=> pc'[p] \in IsOpenLabels
          /\ loc'[p].caller = "trial" => ~ loc'[p].trial
          /\ pc'[p] \in {"incRequest", "loadTrialTime", "readTrialClock", "swapTrialTime"}
               => ~ loc'[p].trial
          /\ pc'[p] \in {"idle", "checkForceOpen"} => ~ loc'[p].trial
      BY DEF Plain, Justified, Returning, Locals, NoLocals
    <2>2. RecoveryPc(p)' \in {"idle", "close"} <=>
            pc'[p] \in {"idle", "incFailure", "incRejection", "resetErrors",
                        "resetRequests", "close"}
      BY DEF Plain, RecoveryPc, Labels, IsOpenLabels
    <2>3. ASSUME pc'[p] \in {"idle", "checkForceOpen", "incRequest", "loadTrialTime", "incFailure",
                      "incRejection", "resetErrors", "resetRequests", "close"}
         PROVE  (RecoveryLoc(p) = RecoveryLocal("none", FALSE, 0, 0, 0, "none", FALSE))'
      BY <2>1, <2>2, <2>3 DEF RecoveryLoc, RecoveryLocal, Loaded, TripAge, IsOpenLabels
    <2>4. ASSUME pc'[p] = "readTrialClock"
         PROVE  (RecoveryLoc(p) = RecoveryLocal("none", FALSE, AgeOf(loc[p].trialSeen), 0, 0, Loaded(p), FALSE))'
      BY <2>1, <2>2, <2>4 DEF RecoveryLoc, RecoveryLocal, Loaded, TripAge, IsOpenLabels
    <2>5. ASSUME pc'[p] = "swapTrialTime"
         PROVE  (RecoveryLoc(p) = RecoveryLocal("none", FALSE, 0, AgeOf(loc[p].trialClock), 0, Loaded(p), FALSE))'
      BY <2>1, <2>2, <2>5 DEF RecoveryLoc, RecoveryLocal, Loaded, TripAge, IsOpenLabels
    <2>6. ASSUME pc'[p] = "allow"
         PROVE  (RecoveryLoc(p) = RecoveryLocal("admit", loc[p].trial, 0, 0, 0, "none", FALSE))'
      BY <2>1, <2>2, <2>6 DEF RecoveryLoc, RecoveryLocal, Loaded, TripAge, IsOpenLabels
    <2>7. ASSUME pc'[p] = "run"
         PROVE  (RecoveryLoc(p) = RecoveryLocal("none", loc[p].trial, 0, 0, 0, "none", FALSE))'
      BY <2>1, <2>2, <2>7 DEF RecoveryLoc, RecoveryLocal, Loaded, TripAge, IsOpenLabels
    <2>8. ASSUME pc'[p] \in IsOpenLabels /\ loc'[p].caller = "trial"
         PROVE  (RecoveryLoc(p) = RecoveryLocal("trial", FALSE, 0, AgeOf(loc[p].trialClock), TripAge(p),
                                  Loaded(p), SleptEnough(loc[p])))'
      <3>1. CASE (SleptEnough(loc[p]) = TRUE)'
        BY <2>1, <2>2, <2>8, <3>1
           DEF RecoveryLoc, RecoveryLocal, Loaded, TripAge, IsOpenLabels
      <3>2. CASE (SleptEnough(loc[p]) = FALSE)'
        BY <2>1, <2>2, <2>8, <3>2
           DEF RecoveryLoc, RecoveryLocal, Loaded, TripAge, IsOpenLabels
      <3>3. (SleptEnough(loc[p]) \in BOOLEAN)'
        BY BreakerAssumption DEF Plain, Locals, SleptEnough
      <3> QED BY <3>1, <3>2, <3>3
    <2>9. ASSUME pc'[p] \in IsOpenLabels /\ loc'[p].caller # "trial"
         PROVE  (RecoveryLoc(p) = RecoveryLocal(loc[p].caller, loc[p].trial, 0, 0, TripAge(p), "none", FALSE))'
      BY <2>1, <2>2, <2>9 DEF RecoveryLoc, RecoveryLocal, Loaded, TripAge, IsOpenLabels
    <2> QED BY <2>3, <2>4, <2>5, <2>6, <2>7, <2>8, <2>9 DEF Looks
  <1> QED BY <1>1, <1>2

\* Where Recovery.tla sees p.
LEMMA PcLooks ==
  ASSUME NEW p \in Goroutines
  PROVE  /\ Plain(p) =>
              /\ pc[p] \in {"idle", "incFailure", "incRejection"} <=> RecoveryPc(p) = "idle"
              /\ pc[p] \in {"checkForceOpen", "incRequest", "loadTrialTime"}
                   <=> RecoveryPc(p) = "loadTrialTime"
              /\ pc[p] \in {"readForceClosed", "readForceOpen", "loadOpen", "allow"}
                   <=> RecoveryPc(p) = "loadOpen"
              /\ pc[p] \in {"loadSnapshotTime", "readSnapshotClock", "swapSnapshotTime",
                            "sumRequests", "sumErrors"} <=> RecoveryPc(p) = "health"
              /\ pc[p] \in {"resetErrors", "resetRequests", "close"}
                   <=> RecoveryPc(p) = "close"
              /\ pc[p] \in {"readTrialClock", "swapTrialTime", "run", "swapOpen",
                            "readTripClock", "storeTrialTime"} => RecoveryPc(p) = pc[p]
         /\ Plain(p)' =>
              /\ pc'[p] \in {"idle", "incFailure", "incRejection"}
                   <=> RecoveryPc(p)' = "idle"
              /\ pc'[p] \in {"checkForceOpen", "incRequest", "loadTrialTime"}
                   <=> RecoveryPc(p)' = "loadTrialTime"
              /\ pc'[p] \in {"readForceClosed", "readForceOpen", "loadOpen", "allow"}
                   <=> RecoveryPc(p)' = "loadOpen"
              /\ pc'[p] \in {"loadSnapshotTime", "readSnapshotClock", "swapSnapshotTime",
                             "sumRequests", "sumErrors"} <=> RecoveryPc(p)' = "health"
              /\ pc'[p] \in {"resetErrors", "resetRequests", "close"}
                   <=> RecoveryPc(p)' = "close"
              /\ pc'[p] \in {"readTrialClock", "swapTrialTime", "run", "swapOpen",
                             "readTripClock", "storeTrialTime"} => RecoveryPc(p)' = pc'[p]
  BY DEF Plain, RecoveryPc, Labels, IsOpenLabels

\* What the step of p leaves as it is, of the other goroutines and the clock.
Others(p) ==
  /\ \A q \in Goroutines : q # p => pc'[q] = pc[q] /\ loc'[q] = loc[q]
  /\ UNCHANGED now

\* Unless lastTrialTime is written only p is seen to move.
LEMMA OnlyOneMoves ==
  ASSUME NEW p \in Goroutines, Others(p), UNCHANGED lastTrialTime
  PROVE  /\ RecoveryPcs'  = [RecoveryPcs EXCEPT ![p] = RecoveryPc(p)']
         /\ RecoveryLocs' = [RecoveryLocs EXCEPT ![p] = RecoveryLoc(p)']
  <1>1. ASSUME NEW q \in Goroutines, q # p
        PROVE  RecoveryPc(q)' = RecoveryPc(q) /\ RecoveryLoc(q)' = RecoveryLoc(q)
    BY <1>1 DEF Others, RecoveryPc, RecoveryLoc, AgeOf, At, SleptEnough
  <1> QED BY <1>1 DEF RecoveryPcs, RecoveryLocs

\* If p does not move either, Recovery.tla stutters.
LEMMA Stutters ==
  ASSUME NEW p \in Goroutines, Others(p), UNCHANGED <<lastTrialTime, circuitOpen>>,
         RecoveryPc(p)' = RecoveryPc(p), RecoveryLoc(p)' = RecoveryLoc(p)
  PROVE  UNCHANGED Reopening!vars
  <1>1. RecoveryPcs' = RecoveryPcs /\ RecoveryLocs' = RecoveryLocs
    BY OnlyOneMoves DEF RecoveryPcs, RecoveryLocs
  <1>2. UNCHANGED AgeOf(lastTrialTime)
    BY DEF AgeOf, Others
  <1> QED BY <1>1, <1>2 DEF Reopening!vars, RecoveryPcs, RecoveryLocs

\* Inside IsOpen p looks the same as long as IsOpen's caller and what
\* isTrialCallAllowed has read stay the same.
LEMMA LooksTheSame ==
  ASSUME NEW p \in Goroutines, Looks(p), Looks(p)', UNCHANGED <<now, lastTrialTime>>,
         pc[p] \in IsOpenLabels, pc'[p] \in IsOpenLabels, TripAge(p)' = TripAge(p),
         loc'[p].caller = loc[p].caller, loc'[p].trial = loc[p].trial,
         loc'[p].trialSeen = loc[p].trialSeen, loc'[p].trialClock = loc[p].trialClock
  PROVE  RecoveryLoc(p)' = RecoveryLoc(p)
  <1>1. /\ Loaded(p)' = Loaded(p) /\ SleptEnough(loc[p])' = SleptEnough(loc[p])
        /\ AgeOf(loc[p].trialClock)' = AgeOf(loc[p].trialClock)
    BY DEF Loaded, SleptEnough, AgeOf
  <1> QED BY <1>1 DEF Looks, RecoveryLocal

\* What was loaded is a field of its own.
LEMMA LoadedField ==
  ASSUME NEW c, NEW ld, NEW x
  PROVE  /\ RecoveryLocal("none", FALSE, 0, c, 0, ld, FALSE).loaded = ld
         /\ [RecoveryLocal("none", FALSE, 0, c, 0, ld, FALSE) EXCEPT !.loaded = x] =
              RecoveryLocal("none", FALSE, 0, c, 0, x, FALSE)
  <1>1. PICK f, z, none : f = FALSE /\ z = 0 /\ none = "none"
    OBVIOUS
  <1>2. /\ RecoveryLocal(none, f, z, c, z, ld, f).loaded = ld
        /\ [RecoveryLocal(none, f, z, c, z, ld, f) EXCEPT !.loaded = x] =
              RecoveryLocal(none, f, z, c, z, x, f)
    BY DEF RecoveryLocal
  <1> QED BY <1>1, <1>2

\* Where isTrialCallAllowed goes on in Recovery.tla when IsOpen answers.
LEMMA AnswerTrial ==
  ASSUME NEW c, NEW t, NEW ld, NEW slept \in BOOLEAN, NEW open \in BOOLEAN
  PROVE  /\ Reopening!AnswerPc(RecoveryLocal("trial", FALSE, 0, c, t, ld, slept), open) =
              IF open /\ slept THEN "swapTrialTime" ELSE "loadOpen"
         /\ Reopening!AnswerLoc(RecoveryLocal("trial", FALSE, 0, c, t, ld, slept), open) =
              IF open /\ slept THEN RecoveryLocal("none", FALSE, 0, c, 0, ld, FALSE)
              ELSE RecoveryLocal("admit", FALSE, 0, 0, 0, "none", FALSE)
  <1> DEFINE l == RecoveryLocal("trial", FALSE, 0, c, t, ld, slept)
  <1>1. Reopening!AnswerPc(l, open) = IF open /\ slept THEN "swapTrialTime" ELSE "loadOpen"
    BY DEF Reopening!AnswerPc, RecoveryLocal
  <1>2. ASSUME Reopening!AnswerPc(l, open) = "swapTrialTime"
        PROVE  Reopening!AnswerLoc(l, open) = RecoveryLocal("none", FALSE, 0, c, 0, ld, FALSE)
    BY <1>2 DEF Reopening!AnswerLoc, RecoveryLocal
  <1>3. ASSUME Reopening!AnswerPc(l, open) = "loadOpen"
        PROVE  Reopening!AnswerLoc(l, open) =
                 RecoveryLocal("admit", FALSE, 0, 0, 0, "none", FALSE)
    BY <1>3 DEF Reopening!AnswerLoc, Reopening!NoLocals, RecoveryLocal
  <1> HIDE DEF l
  <1>4. /\ Reopening!AnswerPc(l, open) = IF open /\ slept THEN "swapTrialTime" ELSE "loadOpen"
        /\ Reopening!AnswerLoc(l, open) =
              IF open /\ slept THEN RecoveryLocal("none", FALSE, 0, c, 0, ld, FALSE)
              ELSE RecoveryLocal("admit", FALSE, 0, 0, 0, "none", FALSE)
    BY <1>1, <1>2, <1>3
  <1> QED BY <1>4 DEF l

\* Where isRequestAllowed and the metrics stream go on.
LEMMA AnswerOther ==
  ASSUME NEW caller \in {"admit", "poll"}, NEW trial \in BOOLEAN, NEW t, NEW open \in BOOLEAN
  PROVE  /\ Reopening!AnswerPc(RecoveryLocal(caller, trial, 0, 0, t, "none", FALSE), open) =
              IF caller = "admit" /\ (trial \/ ~ open) THEN "run" ELSE "idle"
         /\ Reopening!AnswerLoc(RecoveryLocal(caller, trial, 0, 0, t, "none", FALSE), open) =
              RecoveryLocal("none", trial, 0, 0, 0, "none", FALSE)
  <1> DEFINE l == RecoveryLocal(caller, trial, 0, 0, t, "none", FALSE)
  <1>1. Reopening!AnswerPc(l, open) =
          IF caller = "admit" /\ (trial \/ ~ open) THEN "run" ELSE "idle"
    BY DEF Reopening!AnswerPc, RecoveryLocal
  <1>2. Reopening!AnswerLoc(l, open) = RecoveryLocal("none", trial, 0, 0, 0, "none", FALSE)
    BY <1>1 DEF Reopening!AnswerLoc, Reopening!NoLocals, RecoveryLocal
  <1> QED BY <1>1, <1>2

\* When IsOpen answers p goes on in Recovery.tla as it does here; only what
\* p loaded may be found written.
LEMMA AnswerLooks ==
  ASSUME NEW p \in Goroutines, TypeOK, Plain(p), Plain(p)', Looks(p), Looks(p)', UNCHANGED now,
         pc[p] \in IsOpenLabels, NEW open \in BOOLEAN, Answer(p, open)
  PROVE  /\ RecoveryPc(p)' = Reopening!AnswerPc(RecoveryLoc(p), open)
         /\ LET l == Reopening!AnswerLoc(RecoveryLoc(p), open)
            IN  /\ l.loaded = "none" => RecoveryLoc(p)' = l
                /\ l.loaded # "none" => RecoveryLoc(p)' = [l EXCEPT !.loaded = Loaded(p)']
                /\ UNCHANGED lastTrialTime => RecoveryLoc(p)' = l
  <1>0. /\ loc[p] \in Locals /\ loc[p].caller \in {"trial", "admit", "poll"}
        /\ SleptEnough(loc[p]) \in BOOLEAN /\ loc[p].trial \in BOOLEAN
    BY BreakerAssumption DEF Plain, Returning, Locals, SleptEnough
  <1>1. pc'[p] = AfterAnswer(loc[p], open)
    BY DEF TypeOK, Answer, Goto
  <1>2. /\ loc'[p].trialSeen = loc[p].trialSeen \/ pc'[p] = "idle"
        /\ loc'[p].trialClock = loc[p].trialClock \/ pc'[p] = "idle"
        /\ loc'[p].trial = loc[p].trial \/ pc'[p] = "idle"
    BY <1>0, <1>1 DEF TypeOK, Answer, Locals
  <1>3. CASE loc[p].caller = "trial"
    <2>1. PICK slept \in BOOLEAN : slept = SleptEnough(loc[p])
      BY <1>0
    <2>2. PICK ld, ldAfter : ld = Loaded(p) /\ ldAfter = Loaded(p)'
      OBVIOUS
    <2>3. PICK c, t : c = AgeOf(loc[p].trialClock) /\ t = TripAge(p)
      OBVIOUS
    <2>4. RecoveryLoc(p) = RecoveryLocal("trial", FALSE, 0, c, t, ld, slept)
      BY <1>3, <2>1, <2>2, <2>3 DEF Looks
    <2>a. /\ Reopening!AnswerPc(RecoveryLocal("trial", FALSE, 0, c, t, ld, slept), open) =
               IF open /\ slept THEN "swapTrialTime" ELSE "loadOpen"
          /\ Reopening!AnswerLoc(RecoveryLocal("trial", FALSE, 0, c, t, ld, slept), open) =
               IF open /\ slept THEN RecoveryLocal("none", FALSE, 0, c, 0, ld, FALSE)
               ELSE RecoveryLocal("admit", FALSE, 0, 0, 0, "none", FALSE)
      BY AnswerTrial
    <2>5. loc[p].trial = FALSE
      BY <1>0, <1>3 DEF Plain, Justified
    <2>6. CASE open /\ slept
      <3>1. pc'[p] = "swapTrialTime"
        BY <1>1, <1>3, <2>1, <2>6 DEF AfterAnswer
      <3>2. RecoveryLoc(p)' = RecoveryLocal("none", FALSE, 0, c, 0, ldAfter, FALSE)
        BY <1>2, <2>2, <2>3, <3>1 DEF Looks, AgeOf
      <3>3. RecoveryPc(p)' = "swapTrialTime"
        BY <3>1, PcLooks
      <3>4. /\ Reopening!AnswerPc(RecoveryLoc(p), open) = "swapTrialTime"
            /\ Reopening!AnswerLoc(RecoveryLoc(p), open) =
                 RecoveryLocal("none", FALSE, 0, c, 0, ld, FALSE)
        BY <2>4, <2>6, <2>a
      <3>5. UNCHANGED lastTrialTime => ldAfter = ld
        BY <1>2, <2>2, <3>1 DEF Loaded
      <3>6. /\ ld # "none"
            /\ RecoveryLocal("none", FALSE, 0, c, 0, ld, FALSE).loaded = ld
            /\ RecoveryLocal("none", FALSE, 0, c, 0, ldAfter, FALSE) =
                 [RecoveryLocal("none", FALSE, 0, c, 0, ld, FALSE) EXCEPT !.loaded = ldAfter]
        <4>1. ld # "none"
          BY <2>2 DEF Loaded
        <4> QED BY <4>1, LoadedField
      <3> QED BY <2>2, <3>2, <3>3, <3>4, <3>5, <3>6
    <2>7. CASE ~ (open /\ slept)
      <3>1. pc'[p] = "allow" /\ loc'[p].trial = FALSE
        BY <1>1, <1>2, <1>3, <2>1, <2>5, <2>7 DEF AfterAnswer
      <3>2. RecoveryLoc(p)' = RecoveryLocal("admit", FALSE, 0, 0, 0, "none", FALSE)
        BY <3>1 DEF Looks
      <3>3. RecoveryPc(p)' = "loadOpen"
        BY <3>1, PcLooks
      <3>4. /\ Reopening!AnswerPc(RecoveryLoc(p), open) = "loadOpen"
            /\ Reopening!AnswerLoc(RecoveryLoc(p), open) =
                 RecoveryLocal("admit", FALSE, 0, 0, 0, "none", FALSE)
        BY <2>4, <2>7, <2>a
      <3>5. RecoveryLocal("admit", FALSE, 0, 0, 0, "none", FALSE).loaded = "none"
        BY DEF RecoveryLocal
      <3> QED BY <3>2, <3>3, <3>4, <3>5
    <2> QED BY <2>6, <2>7
  <1>4. CASE loc[p].caller \in {"admit", "poll"}
    <2>1. PICK caller \in {"admit", "poll"}, trial \in BOOLEAN :
            caller = loc[p].caller /\ trial = loc[p].trial
      BY <1>0, <1>4
    <2>2. PICK t : t = TripAge(p)
      OBVIOUS
    <2>3. RecoveryLoc(p) = RecoveryLocal(caller, trial, 0, 0, t, "none", FALSE)
      BY <2>1, <2>2 DEF Looks
    <2>4. /\ Reopening!AnswerPc(RecoveryLoc(p), open) =
               IF caller = "admit" /\ (trial \/ ~ open) THEN "run" ELSE "idle"
          /\ Reopening!AnswerLoc(RecoveryLoc(p), open) =
               RecoveryLocal("none", trial, 0, 0, 0, "none", FALSE)
      <3>1. /\ Reopening!AnswerPc(RecoveryLocal(caller, trial, 0, 0, t, "none", FALSE), open) =
                 IF caller = "admit" /\ (trial \/ ~ open) THEN "run" ELSE "idle"
            /\ Reopening!AnswerLoc(RecoveryLocal(caller, trial, 0, 0, t, "none", FALSE), open) =
                 RecoveryLocal("none", trial, 0, 0, 0, "none", FALSE)
        BY AnswerOther
      <3> QED BY <2>3, <3>1
    <2>5. RecoveryLocal("none", trial, 0, 0, 0, "none", FALSE).loaded = "none"
      BY DEF RecoveryLocal
    <2>6. CASE caller = "admit" /\ (trial \/ ~ open)
      <3>1. pc'[p] = "run" /\ loc'[p].trial = trial
        BY <1>1, <1>2, <2>1, <2>6 DEF AfterAnswer
      <3>2. RecoveryLoc(p)' = RecoveryLocal("none", trial, 0, 0, 0, "none", FALSE)
        BY <3>1 DEF Looks
      <3>3. RecoveryPc(p)' = "run"
        BY <3>1, PcLooks
      <3> QED BY <2>4, <2>5, <2>6, <3>2, <3>3
    <2>7. CASE ~ (caller = "admit" /\ (trial \/ ~ open))
      <3>1. pc'[p] \in {"idle", "incRejection"} /\ trial = FALSE
        BY <1>1, <2>1, <2>7 DEF AfterAnswer, Plain, Returning
      <3>2. RecoveryLoc(p)' = RecoveryLocal("none", FALSE, 0, 0, 0, "none", FALSE)
        BY <3>1 DEF Looks
      <3>3. RecoveryPc(p)' = "idle"
        BY <3>1, PcLooks
      <3> QED BY <2>4, <2>5, <2>7, <3>1, <3>2, <3>3
    <2> QED BY <2>6, <2>7
  <1> QED BY <1>0, <1>3, <1>4

\* The local variables Recovery.tla's actions assign: cleared,
LEMMA ClearedLocal == Reopening!NoLocals = RecoveryLocal("none", FALSE, 0, 0, 0, "none", FALSE)
  BY DEF Reopening!NoLocals, RecoveryLocal

\* with what LoadTrialTime loads,
LEMMA LoadedLocal ==
  ASSUME NEW a, NEW ld
  PROVE  [Reopening!NoLocals EXCEPT !.seen = a, !.loaded = ld] =
           RecoveryLocal("none", FALSE, a, 0, 0, ld, FALSE)
  <1>1. PICK f, z, none : f = FALSE /\ z = 0 /\ none = "none"
    OBVIOUS
  <1>2. Reopening!NoLocals = RecoveryLocal(none, f, z, z, z, none, f)
    BY <1>1, ClearedLocal
  <1>3. [RecoveryLocal(none, f, z, z, z, none, f) EXCEPT !.seen = a] =
          RecoveryLocal(none, f, a, z, z, none, f)
    BY DEF RecoveryLocal
  <1>4. [RecoveryLocal(none, f, a, z, z, none, f) EXCEPT !.loaded = ld] =
          RecoveryLocal(none, f, a, z, z, ld, f)
    BY DEF RecoveryLocal
  <1> QED BY <1>1, <1>2, <1>3, <1>4

\* with what ReadTrialClock finds,
LEMMA ComparedLocal ==
  ASSUME NEW ld, NEW slept
  PROVE  [Reopening!NoLocals EXCEPT !.caller = "trial", !.loaded = ld, !.slept = slept] =
           RecoveryLocal("trial", FALSE, 0, 0, 0, ld, slept)
  <1>1. PICK f, z, none : f = FALSE /\ z = 0 /\ none = "none"
    OBVIOUS
  <1>2. Reopening!NoLocals = RecoveryLocal(none, f, z, z, z, none, f)
    BY <1>1, ClearedLocal
  <1>3. [RecoveryLocal(none, f, z, z, z, none, f) EXCEPT !.caller = "trial"] =
          RecoveryLocal("trial", f, z, z, z, none, f)
    BY DEF RecoveryLocal
  <1>4. [RecoveryLocal("trial", f, z, z, z, none, f) EXCEPT !.loaded = ld] =
          RecoveryLocal("trial", f, z, z, z, ld, f)
    BY DEF RecoveryLocal
  <1>5. [RecoveryLocal("trial", f, z, z, z, ld, f) EXCEPT !.slept = slept] =
          RecoveryLocal("trial", f, z, z, z, ld, slept)
    BY DEF RecoveryLocal
  <1> QED BY <1>1, <1>2, <1>3, <1>4, <1>5

\* with the trial SwapTrialTime takes or not,
LEMMA TakenLocal ==
  ASSUME NEW trial
  PROVE  [Reopening!NoLocals EXCEPT !.caller = "admit", !.trial = trial] =
           RecoveryLocal("admit", trial, 0, 0, 0, "none", FALSE)
  <1>1. PICK f, z, none : f = FALSE /\ z = 0 /\ none = "none"
    OBVIOUS
  <1>2. Reopening!NoLocals = RecoveryLocal(none, f, z, z, z, none, f)
    BY <1>1, ClearedLocal
  <1>3. [RecoveryLocal(none, f, z, z, z, none, f) EXCEPT !.caller = "admit"] =
          RecoveryLocal("admit", f, z, z, z, none, f)
    BY DEF RecoveryLocal
  <1>4. [RecoveryLocal("admit", f, z, z, z, none, f) EXCEPT !.trial = trial] =
          RecoveryLocal("admit", trial, z, z, z, none, f)
    BY DEF RecoveryLocal
  <1> QED BY <1>1, <1>2, <1>3, <1>4

\* and for a poll.
LEMMA PollingLocal ==
  ASSUME NEW caller
  PROVE  [Reopening!NoLocals EXCEPT !.caller = caller] =
           RecoveryLocal(caller, FALSE, 0, 0, 0, "none", FALSE)
  <1>1. PICK f, z, none : f = FALSE /\ z = 0 /\ none = "none"
    OBVIOUS
  <1>2. Reopening!NoLocals = RecoveryLocal(none, f, z, z, z, none, f)
    BY <1>1, ClearedLocal
  <1>3. [RecoveryLocal(none, f, z, z, z, none, f) EXCEPT !.caller = caller] =
          RecoveryLocal(caller, f, z, z, z, none, f)
    BY DEF RecoveryLocal
  <1> QED BY <1>1, <1>2, <1>3

\* A step of p that does not write lastTrialTime, in Recovery.tla's terms.
LEMMA Moved ==
  ASSUME NEW p \in Goroutines, Others(p), UNCHANGED lastTrialTime
  PROVE  /\ Reopening!At(p, RecoveryPc(p)) /\ Reopening!Goto(p, RecoveryPc(p)')
         /\ Reopening!Becomes(p, RecoveryLoc(p)')
         /\ RecoveryLocs[p] = RecoveryLoc(p)
         /\ UNCHANGED AgeOf(lastTrialTime)
         /\ RecoveryLoc(p)' = RecoveryLoc(p) => UNCHANGED RecoveryLocs
  <1>1. /\ RecoveryPcs'  = [RecoveryPcs EXCEPT ![p] = RecoveryPc(p)']
        /\ RecoveryLocs' = [RecoveryLocs EXCEPT ![p] = RecoveryLoc(p)']
    BY OnlyOneMoves
  <1>2. UNCHANGED AgeOf(lastTrialTime)
    BY DEF AgeOf, Others
  <1>3. RecoveryLocs[p] = RecoveryLoc(p) /\ Reopening!At(p, RecoveryPc(p))
    BY DEF RecoveryLocs, Reopening!At
  <1>4. RecoveryLoc(p)' = RecoveryLoc(p) => UNCHANGED RecoveryLocs
    BY <1>1 DEF RecoveryLocs
  <1>5. Reopening!Goto(p, RecoveryPc(p)') /\ Reopening!Becomes(p, RecoveryLoc(p)')
    BY <1>1 DEF Reopening!Goto, Reopening!Becomes, RecoveryPcs, RecoveryLocs
  <1> QED BY <1>2, <1>3, <1>4, <1>5

\* IsOpen answers, in Recovery.tla's terms.
LEMMA Answered ==
  ASSUME NEW p \in Goroutines, TypeOK, Plain(p), Plain(p)', Others(p), UNCHANGED lastTrialTime,
         pc[p] \in IsOpenLabels, NEW open \in BOOLEAN, Answer(p, open)
  PROVE  Reopening!Answer(p, open)
  <1>1. /\ RecoveryPc(p)' = Reopening!AnswerPc(RecoveryLoc(p), open)
        /\ RecoveryLoc(p)' = Reopening!AnswerLoc(RecoveryLoc(p), open)
    BY PlainLooks, AnswerLooks DEF Others
  <1>2. /\ Reopening!Goto(p, RecoveryPc(p)') /\ Reopening!Becomes(p, RecoveryLoc(p)')
        /\ RecoveryLocs[p] = RecoveryLoc(p)
    BY Moved
  <1> QED BY <1>1, <1>2 DEF Reopening!Answer, RecoveryLocs

\* Do, isRequestAllowed and isTrialCallAllowed up to their writes.
LEMMA DoImplements ==
  ASSUME TypeOK, NEW p \in Goroutines, Plain(p), Plain(p)', Others(p),
         props["Enabled"], ~ props["ForceOpen"], ~ props["ForceClosed"],
         \/ Begin(p) \/ CheckForceOpen(p) \/ IncRequest(p) \/ LoadTrialTime(p)
         \/ ReadTrialClock(p) \/ Allow(p) \/ Finish(p) \/ IncError(p) \/ ResetErrors(p)
         \/ ResetRequests(p) \/ Close(p) \/ Poll(p)
  PROVE  Reopening!Next \/ UNCHANGED Reopening!vars
  <1>0. /\ Looks(p) /\ Looks(p)' /\ loc[p] \in Locals /\ UNCHANGED <<lastTrialTime, now>>
        /\ lastTrialTime \in Nat /\ now \in Nat
    BY PlainLooks
       DEF Plain, Begin, CheckForceOpen, IncRequest, LoadTrialTime, ReadTrialClock, Allow,
           Finish, IncError, ResetErrors, ResetRequests, Close, Poll, OnlyLocal, InCall,
           breaker, outside, TypeOK
  <1>m. /\ Reopening!At(p, RecoveryPc(p)) /\ Reopening!Goto(p, RecoveryPc(p)')
        /\ Reopening!Becomes(p, RecoveryLoc(p)')
        /\ RecoveryLocs[p] = RecoveryLoc(p)
        /\ UNCHANGED AgeOf(lastTrialTime)
        /\ RecoveryLoc(p)' = RecoveryLoc(p) => UNCHANGED RecoveryLocs
    BY <1>0, Moved
  <1> USE DEF At, Goto
  <1>2. CASE Begin(p)
    <2>1. pc[p] = "idle" /\ pc'[p] = "checkForceOpen" /\ UNCHANGED circuitOpen
      BY <1>2 DEF Begin, TypeOK, breaker
    <2>2. RecoveryPc(p) = "idle" /\ RecoveryPc(p)' = "loadTrialTime"
      BY <2>1, PcLooks
    <2>3. RecoveryLoc(p)' = RecoveryLoc(p)
      BY <1>0, <2>1 DEF Looks
    <2>4. Reopening!Begin(p)
      BY <1>m, <2>1, <2>2, <2>3 DEF Reopening!Begin, Reopening!OnlyLocal, RecoveryLocs
    <2> QED BY <2>4 DEF Reopening!Next, Reopening!Step
  <1>3. CASE CheckForceOpen(p) \/ IncRequest(p) \/ ResetErrors(p) \/ ResetRequests(p) \/ IncError(p)
    <2>1. /\ \/ /\ pc[p] \in {"checkForceOpen", "incRequest"}
                /\ pc'[p] \in {"incRequest", "loadTrialTime"}
             \/ /\ pc[p] \in {"resetErrors", "resetRequests"}
                /\ pc'[p] \in {"resetRequests", "close"}
             \/ pc[p] \in {"incFailure", "incRejection"} /\ pc'[p] = "idle"
          /\ UNCHANGED circuitOpen
      BY <1>3 DEF CheckForceOpen, IncRequest, ResetErrors, ResetRequests, IncError, Leave,
                  OnlyLocal, TypeOK, breaker
    <2>2. RecoveryPc(p)' = RecoveryPc(p)
      BY <2>1, PcLooks
    <2>3. RecoveryLoc(p)' = RecoveryLoc(p)
      BY <1>0, <2>1 DEF Looks
    <2> QED BY <1>0, <2>1, <2>2, <2>3, Stutters
  <1>4. CASE LoadTrialTime(p)
    <2>1. /\ pc[p] = "loadTrialTime" /\ pc'[p] = "readTrialClock" /\ UNCHANGED circuitOpen
          /\ loc'[p].trialSeen = lastTrialTime
      BY <1>0, <1>4 DEF LoadTrialTime, OnlyLocal, TypeOK, breaker, Locals
    <2>2. RecoveryPc(p) = "loadTrialTime" /\ RecoveryPc(p)' = "readTrialClock"
      BY <2>1, PcLooks
    <2>3. PICK a, ld : a = AgeOf(lastTrialTime) /\ ld = "same"
      OBVIOUS
    <2>4. AgeOf(loc[p].trialSeen)' = a /\ Loaded(p)' = ld
      BY <1>0, <2>1, <2>3 DEF AgeOf, Loaded
    <2>5. RecoveryLoc(p)' = [Reopening!NoLocals EXCEPT !.seen = a, !.loaded = ld]
      BY <1>0, <2>1, <2>4, LoadedLocal DEF Looks
    <2>6. Reopening!LoadTrialTime(p)
      BY <1>m, <2>1, <2>2, <2>3, <2>5 DEF Reopening!LoadTrialTime, Reopening!OnlyLocal
    <2> QED BY <2>6 DEF Reopening!Next, Reopening!Step, Reopening!Advance
  <1>5. CASE ReadTrialClock(p)
    <2>1. /\ pc[p] = "readTrialClock" /\ pc'[p] = "readForceClosed" /\ UNCHANGED circuitOpen
          /\ loc'[p].caller = "trial" /\ loc'[p].trialSeen = loc[p].trialSeen
          /\ loc'[p].trialClock = now
      BY <1>0, <1>5 DEF ReadTrialClock, OnlyLocal, TypeOK, breaker, Locals
    <2>2. RecoveryPc(p) = "readTrialClock" /\ RecoveryPc(p)' = "loadOpen"
      BY <2>1, PcLooks
    <2>3. PICK ld, a : ld = Loaded(p) /\ a = AgeOf(loc[p].trialSeen)
      OBVIOUS
    <2>4. Loaded(p)' = ld /\ AgeOf(loc[p].trialClock)' = 0 /\ TripAge(p)' = 0
      BY <1>0, <2>1, <2>3, BreakerAssumption DEF AgeOf, Loaded, TripAge
    <2>5. PICK slept : slept = SleptEnough(loc[p])'
      OBVIOUS
    <2>6. slept = (a > SleepWindow)
      <3>1. loc[p].trialSeen \in Nat /\ SleepWindow \in Nat
        BY <1>0, BreakerAssumption DEF Locals
      <3>2. slept = (now > loc[p].trialSeen + SleepWindow)
        BY <1>0, <2>1, <2>5 DEF SleptEnough
      <3> QED BY <1>0, <2>3, <3>1, <3>2 DEF AgeOf
    <2>7. RecoveryLoc(p)' = RecoveryLocal("trial", FALSE, 0, 0, 0, ld, slept)
      BY <1>0, <2>1, <2>4, <2>5 DEF Looks, IsOpenLabels
    <2>8. RecoveryLoc(p) = RecoveryLocal("none", FALSE, a, 0, 0, ld, FALSE)
      BY <1>0, <2>1, <2>3 DEF Looks
    <2>9. RecoveryLoc(p).loaded = ld /\ RecoveryLoc(p).seen = a
      BY <2>8 DEF RecoveryLocal
    <2>10. RecoveryLoc(p)' = [Reopening!NoLocals EXCEPT !.caller = "trial", !.loaded = ld,
                                                        !.slept = slept]
      BY <2>7, ComparedLocal
    <2>11. Reopening!ReadTrialClock(p)
      BY <1>m, <2>1, <2>2, <2>6, <2>9, <2>10
         DEF Reopening!ReadTrialClock, Reopening!OnlyLocal, Reopening!SleptEnough, RecoveryLocs
    <2> QED BY <2>11 DEF Reopening!Next, Reopening!Step, Reopening!Advance
  <1>6. CASE Allow(p)
    <2>1. /\ pc[p] = "allow" /\ pc'[p] = "readForceClosed" /\ UNCHANGED circuitOpen
          /\ loc'[p].caller = "admit" /\ loc'[p].trial = loc[p].trial
      BY <1>0, <1>6 DEF Allow, Ask, OnlyLocal, TypeOK, breaker, Locals
    <2>2. RecoveryPc(p)' = RecoveryPc(p)
      BY <2>1, PcLooks
    <2>3. TripAge(p)' = 0
      BY <2>1 DEF TripAge
    <2>4. RecoveryLoc(p)' = RecoveryLoc(p)
      BY <1>0, <2>1, <2>3 DEF Looks, IsOpenLabels
    <2> QED BY <1>0, <2>1, <2>2, <2>4, Stutters
  <1>7. CASE Finish(p)
    <2>1. /\ pc[p] = "run" /\ UNCHANGED circuitOpen
          /\ pc'[p] \in {"incFailure", "idle", AfterSuccess(loc[p].trial)}
      BY <1>7 DEF Finish, OnlyLocal, TypeOK, breaker
    <2>2. PICK trial \in BOOLEAN : trial = loc[p].trial
      BY <1>0 DEF Locals
    <2>3. /\ RecoveryPc(p) = "run"
          /\ RecoveryPc(p)' \in {"idle", Reopening!AfterSuccess(trial)}
      BY <2>1, <2>2, PcLooks DEF AfterSuccess, Reopening!AfterSuccess
    <2>4. RecoveryLoc(p)' = Reopening!NoLocals
      BY <1>0, <2>1, ClearedLocal DEF Looks, AfterSuccess
    <2>5. RecoveryLoc(p).trial = trial
      BY <1>0, <2>1, <2>2 DEF Looks, RecoveryLocal
    <2>6. Reopening!Finish(p)
      BY <1>m, <2>1, <2>3, <2>4, <2>5 DEF Reopening!Finish, RecoveryLocs
    <2> QED BY <2>6 DEF Reopening!Next, Reopening!Step
  <1>8. CASE Close(p)
    <2>1. pc[p] = "close" /\ pc'[p] = "idle" /\ circuitOpen' = FALSE
      BY <1>8 DEF Close, Leave, TypeOK
    <2>2. RecoveryPc(p) = "close" /\ RecoveryPc(p)' = "idle"
      BY <2>1, PcLooks
    <2>3. RecoveryLoc(p)' = RecoveryLoc(p)
      BY <1>0, <2>1 DEF Looks
    <2>4. Reopening!Close(p)
      BY <1>m, <2>1, <2>2, <2>3 DEF Reopening!Close, RecoveryLocs
    <2> QED BY <2>4 DEF Reopening!Next, Reopening!Step, Reopening!Advance
  <1>9. CASE Poll(p)
    <2>1. /\ pc[p] = "idle" /\ pc'[p] = "readForceClosed" /\ UNCHANGED circuitOpen
          /\ loc'[p].caller = "poll" /\ loc'[p].trial = FALSE
      BY <1>0, <1>9 DEF Poll, Ask, TypeOK, breaker, Locals, Plain, Justified, NoLocals
    <2>2. RecoveryPc(p) = "idle" /\ RecoveryPc(p)' = "loadOpen"
      BY <2>1, PcLooks
    <2>3. TripAge(p)' = 0
      BY <2>1 DEF TripAge
    <2>4. RecoveryLoc(p)' = RecoveryLocal("poll", FALSE, 0, 0, 0, "none", FALSE)
      BY <1>0, <2>1, <2>3 DEF Looks, IsOpenLabels
    <2>5. Reopening!Poll(p)
      BY <1>m, <2>1, <2>2, <2>4, PollingLocal DEF Reopening!Poll, Reopening!OnlyLocal
    <2> QED BY <2>5 DEF Reopening!Next, Reopening!Step
  <1> QED BY <1>2, <1>3, <1>4, <1>5, <1>6, <1>7, <1>8, <1>9

\* IsOpen and Health up to their writes of lastTrialTime.
LEMMA IsOpenImplements ==
  ASSUME TypeOK, NEW p \in Goroutines, Plain(p), Plain(p)', Others(p),
         ~ props["ForceOpen"], ~ props["ForceClosed"],
         \/ ReadForceClosed(p) \/ ReadForceOpen(p) \/ LoadOpen(p) \/ LoadSnapshotTime(p)
         \/ ReadSnapshotClock(p) \/ SwapSnapshotTime(p) \/ SumRequests(p) \/ SumErrors(p)
         \/ SwapOpen(p) \/ ReadTripClock(p)
  PROVE  Reopening!Next \/ UNCHANGED Reopening!vars
  <1>0. /\ Looks(p) /\ Looks(p)' /\ loc[p] \in Locals /\ UNCHANGED <<lastTrialTime, now>>
        /\ now \in Nat /\ circuitOpen \in BOOLEAN /\ pc[p] \in IsOpenLabels
    BY PlainLooks
       DEF Plain, ReadForceClosed, ReadForceOpen, LoadOpen, LoadSnapshotTime, ReadSnapshotClock,
           SwapSnapshotTime, SumRequests, SumErrors, SwapOpen, ReadTripClock, OnlyLocal, InCall,
           breaker, outside, TypeOK, IsOpenLabels, At
  <1>m. /\ Reopening!At(p, RecoveryPc(p)) /\ Reopening!Goto(p, RecoveryPc(p)')
        /\ UNCHANGED AgeOf(lastTrialTime)
        /\ RecoveryLoc(p)' = RecoveryLoc(p) => UNCHANGED RecoveryLocs
    BY <1>0, Moved
  <1>a. ASSUME NEW open \in BOOLEAN, Answer(p, open) PROVE Reopening!Answer(p, open)
    BY <1>0, <1>a, Answered
  <1>s. ASSUME pc'[p] \in IsOpenLabels, loc'[p].caller = loc[p].caller,
               loc'[p].trial = loc[p].trial, loc'[p].trialSeen = loc[p].trialSeen,
               loc'[p].trialClock = loc[p].trialClock, TripAge(p)' = TripAge(p)
        PROVE  RecoveryLoc(p)' = RecoveryLoc(p)
    BY <1>0, <1>s, LooksTheSame
  <1>t. ASSUME pc[p] # "storeTrialTime", pc'[p] # "storeTrialTime"
        PROVE  TripAge(p)' = TripAge(p)
    BY <1>t DEF TripAge, At
  <1> USE DEF At, Goto
  <1>1. CASE ReadForceClosed(p) \/ ReadForceOpen(p)
    <2>1. /\ pc[p] \in {"readForceClosed", "readForceOpen"} /\ loc' = loc
          /\ pc'[p] \in {"readForceOpen", "loadOpen"} /\ UNCHANGED circuitOpen
      BY <1>1 DEF ReadForceClosed, ReadForceOpen, OnlyLocal, TypeOK, breaker
    <2>2. RecoveryPc(p)' = RecoveryPc(p)
      BY <2>1, PcLooks
    <2>3. RecoveryLoc(p)' = RecoveryLoc(p)
      BY <1>s, <1>t, <2>1 DEF IsOpenLabels
    <2> QED BY <1>0, <2>1, <2>2, <2>3, Stutters
  <1>2. CASE LoadOpen(p)
    <2>1. pc[p] = "loadOpen" /\ UNCHANGED circuitOpen
      BY <1>2 DEF LoadOpen, OnlyLocal, breaker
    <2>2. RecoveryPc(p) = "loadOpen"
      BY <2>1, PcLooks
    <2>3. CASE circuitOpen
      <3>1. Reopening!Answer(p, TRUE)
        BY <1>2, <1>a, <2>3 DEF LoadOpen
      <3> QED
        BY <1>m, <2>1, <2>2, <2>3, <3>1
           DEF Reopening!Next, Reopening!Step, Reopening!Advance, Reopening!LoadOpen,
               Reopening!OnlyLocal
    <2>4. CASE ~ circuitOpen
      <3>1. pc'[p] = "loadSnapshotTime" /\ loc' = loc
        BY <1>2, <2>4 DEF LoadOpen, TypeOK
      <3>2. RecoveryPc(p)' = "health"
        BY <3>1, PcLooks
      <3>3. RecoveryLoc(p)' = RecoveryLoc(p)
        BY <1>s, <1>t, <2>1, <3>1 DEF IsOpenLabels
      <3>4. Reopening!LoadOpen(p)
        BY <1>m, <2>1, <2>2, <2>4, <3>2, <3>3
           DEF Reopening!LoadOpen, Reopening!OnlyLocal, RecoveryLocs
      <3> QED BY <3>4 DEF Reopening!Next, Reopening!Step, Reopening!Advance
    <2> QED BY <1>0, <2>3, <2>4
  <1>3. CASE \/ LoadSnapshotTime(p) \/ ReadSnapshotClock(p) \/ SwapSnapshotTime(p)
             \/ SumRequests(p) \/ SumErrors(p)
    <2>1. /\ pc[p] \in {"loadSnapshotTime", "readSnapshotClock", "swapSnapshotTime",
                        "sumRequests", "sumErrors"}
          /\ UNCHANGED circuitOpen
      BY <1>3 DEF LoadSnapshotTime, ReadSnapshotClock, SwapSnapshotTime, SumRequests,
                  SumErrors, OnlyLocal, breaker
    <2>2. RecoveryPc(p) = "health"
      BY <2>1, PcLooks
    <2>3. CASE Answer(p, FALSE)
      <3>1. Reopening!Health(p)
        BY <1>a, <1>m, <2>1, <2>2, <2>3 DEF Reopening!Health, Reopening!OnlyLocal
      <3> QED BY <3>1 DEF Reopening!Next, Reopening!Step, Reopening!Advance
    <2>4. CASE /\ \/ loc' = loc
                  \/ loc' = [loc EXCEPT ![p].stamp = snapshotTime]
                  \/ loc' = [loc EXCEPT ![p].clock = now]
               /\ pc'[p] \in {"readSnapshotClock", "swapSnapshotTime", "sumRequests",
                              "sumErrors", "swapOpen"}
      <3>1. /\ loc'[p].caller = loc[p].caller /\ loc'[p].trial = loc[p].trial
            /\ loc'[p].trialSeen = loc[p].trialSeen /\ loc'[p].trialClock = loc[p].trialClock
        BY <1>0, <2>4 DEF TypeOK, Locals
      <3>2. RecoveryLoc(p)' = RecoveryLoc(p)
        BY <1>s, <1>t, <2>1, <2>4, <3>1 DEF IsOpenLabels
      <3>3. CASE pc'[p] = "swapOpen"
        <4>1. RecoveryPc(p)' = "swapOpen"
          BY <3>3, PcLooks
        <4>2. Reopening!Health(p)
          BY <1>m, <2>1, <2>2, <3>2, <4>1
             DEF Reopening!Health, Reopening!OnlyLocal, RecoveryLocs
        <4> QED BY <4>2 DEF Reopening!Next, Reopening!Step, Reopening!Advance
      <3>4. CASE pc'[p] # "swapOpen"
        <4>1. RecoveryPc(p)' = "health"
          BY <2>4, <3>4, PcLooks
        <4> QED BY <1>0, <2>1, <2>2, <3>2, <4>1, Stutters
      <3> QED BY <3>3, <3>4
    <2>5. CASE LoadSnapshotTime(p)
      BY <2>4, <2>5 DEF LoadSnapshotTime, TypeOK
    <2>6. CASE ReadSnapshotClock(p)
      BY <2>3, <2>4, <2>6 DEF ReadSnapshotClock, TypeOK
    <2>7. CASE SwapSnapshotTime(p)
      BY <2>3, <2>4, <2>7 DEF SwapSnapshotTime, TypeOK
    <2>8. CASE SumRequests(p) \/ SumErrors(p)
      BY <2>3, <2>4, <2>8 DEF SumRequests, SumErrors, TypeOK
    <2> QED BY <1>3, <2>5, <2>6, <2>7, <2>8
  <1>4. CASE SwapOpen(p)
    <2>1. pc[p] = "swapOpen"
      BY <1>4 DEF SwapOpen
    <2>2. RecoveryPc(p) = "swapOpen"
      BY <2>1, PcLooks
    <2>3. CASE circuitOpen
      <3>1. Answer(p, TRUE) /\ UNCHANGED circuitOpen
        BY <1>4, <2>3 DEF SwapOpen, Swaps
      <3>2. Reopening!Answer(p, TRUE) /\ circuitOpen' = TRUE
        BY <1>0, <1>a, <2>3, <3>1
      <3>3. Reopening!SwapOpen(p)
        BY <1>m, <2>2, <2>3, <3>2 DEF Reopening!SwapOpen
      <3> QED BY <3>3 DEF Reopening!Next, Reopening!Step, Reopening!Advance
    <2>4. CASE ~ circuitOpen
      <3>1. circuitOpen' = TRUE /\ pc'[p] = "readTripClock" /\ loc' = loc
        BY <1>0, <1>4, <2>4 DEF SwapOpen, Swaps, TypeOK
      <3>2. RecoveryPc(p)' = "readTripClock"
        BY <3>1, PcLooks
      <3>3. RecoveryLoc(p)' = RecoveryLoc(p)
        BY <1>s, <1>t, <2>1, <3>1 DEF IsOpenLabels
      <3>4. Reopening!SwapOpen(p)
        BY <1>m, <2>2, <2>4, <3>1, <3>2, <3>3 DEF Reopening!SwapOpen, RecoveryLocs
      <3> QED BY <3>4 DEF Reopening!Next, Reopening!Step, Reopening!Advance
    <2> QED BY <1>0, <2>3, <2>4
  <1>5. CASE ReadTripClock(p)
    <2>1. /\ pc[p] = "readTripClock" /\ pc'[p] = "storeTrialTime" /\ UNCHANGED circuitOpen
          /\ loc'[p].caller = loc[p].caller /\ loc'[p].trial = loc[p].trial
          /\ loc'[p].trialSeen = loc[p].trialSeen /\ loc'[p].trialClock = loc[p].trialClock
          /\ loc'[p].clock = now
      BY <1>0, <1>5 DEF ReadTripClock, OnlyLocal, TypeOK, breaker, Locals
    <2>2. RecoveryPc(p) = "readTripClock" /\ RecoveryPc(p)' = "storeTrialTime"
      BY <2>1, PcLooks
    <2>3. TripAge(p) = 0 /\ TripAge(p)' = 0
      BY <1>0, <2>1, BreakerAssumption DEF TripAge, AgeOf
    <2>4. RecoveryLoc(p)' = RecoveryLoc(p)
      BY <1>s, <2>1, <2>3 DEF IsOpenLabels
    <2>5. Reopening!ReadTripClock(p)
      BY <1>m, <2>1, <2>2, <2>4
         DEF Reopening!ReadTripClock, Reopening!OnlyLocal, RecoveryLocs
    <2> QED BY <2>5 DEF Reopening!Next, Reopening!Step, Reopening!Advance
  <1> QED BY <1>1, <1>2, <1>3, <1>4, <1>5

\* When lastTrialTime is written, what the others loaded is found the same or
\* another value, and nothing else changes.
LEMMA WrittenLooks ==
  ASSUME NEW p \in Goroutines, Others(p), NEW l,
         l.loaded = "none" => RecoveryLoc(p)' = l,
         l.loaded # "none" => RecoveryLoc(p)' = [l EXCEPT !.loaded = Loaded(p)']
  PROVE  /\ Reopening!Rewritten([RecoveryLocs EXCEPT ![p] = l])
         /\ Reopening!At(p, RecoveryPc(p)) /\ Reopening!Goto(p, RecoveryPc(p)')
         /\ RecoveryLocs[p] = RecoveryLoc(p)
  <1>1. PICK same : same = {q \in Goroutines : Loaded(q)' = "same"}
    OBVIOUS
  <1>2. \A q \in Goroutines : Loaded(q)' = IF q \in same THEN "same" ELSE "other"
    BY <1>1 DEF Loaded
  <1>3. ASSUME NEW q \in Goroutines, q # p
        PROVE  RecoveryLoc(q)' = IF RecoveryLoc(q).loaded = "none" THEN RecoveryLoc(q)
                                 ELSE [RecoveryLoc(q) EXCEPT !.loaded = Loaded(q)']
    <2>1. pc'[q] = pc[q] /\ loc'[q] = loc[q] /\ now' = now
      BY <1>3 DEF Others
    <2>3. /\ RecoveryLoc(q)'.caller = RecoveryLoc(q).caller
          /\ RecoveryLoc(q)'.trial = RecoveryLoc(q).trial
          /\ RecoveryLoc(q)'.seen = RecoveryLoc(q).seen
          /\ RecoveryLoc(q)'.trialClock = RecoveryLoc(q).trialClock
          /\ RecoveryLoc(q)'.tripClock = RecoveryLoc(q).tripClock
          /\ RecoveryLoc(q)'.slept = RecoveryLoc(q).slept
      BY <2>1 DEF RecoveryLoc, RecoveryPc, AgeOf, SleptEnough, At
    <2>4. RecoveryLoc(q)'.loaded =
            IF RecoveryLoc(q).loaded = "none" THEN "none" ELSE Loaded(q)'
      BY <2>1 DEF RecoveryLoc, RecoveryPc, AgeOf, SleptEnough, Loaded, At
    <2>5. /\ RecoveryLoc(q) = [caller |-> RecoveryLoc(q).caller, trial |-> RecoveryLoc(q).trial,
               seen |-> RecoveryLoc(q).seen, trialClock |-> RecoveryLoc(q).trialClock,
               tripClock |-> RecoveryLoc(q).tripClock, loaded |-> RecoveryLoc(q).loaded,
               slept |-> RecoveryLoc(q).slept]
          /\ RecoveryLoc(q)' = [caller |-> RecoveryLoc(q)'.caller,
               trial |-> RecoveryLoc(q)'.trial, seen |-> RecoveryLoc(q)'.seen,
               trialClock |-> RecoveryLoc(q)'.trialClock,
               tripClock |-> RecoveryLoc(q)'.tripClock, loaded |-> RecoveryLoc(q)'.loaded,
               slept |-> RecoveryLoc(q)'.slept]
      BY DEF RecoveryLoc, RecoveryPc, AgeOf, SleptEnough, At
    <2> QED BY <2>3, <2>4, <2>5
  <1>4. RecoveryLocs' =
          [q \in Goroutines |->
             IF [RecoveryLocs EXCEPT ![p] = l][q].loaded = "none"
             THEN [RecoveryLocs EXCEPT ![p] = l][q]
             ELSE [[RecoveryLocs EXCEPT ![p] = l][q]
                     EXCEPT !.loaded = IF q \in same THEN "same" ELSE "other"]]
    BY <1>2, <1>3 DEF RecoveryLocs
  <1>5. Reopening!Rewritten([RecoveryLocs EXCEPT ![p] = l])
    BY <1>1, <1>4 DEF Reopening!Rewritten, RecoveryLocs
  <1>6. RecoveryPcs' = [RecoveryPcs EXCEPT ![p] = RecoveryPc(p)']
    <2>1. ASSUME NEW q \in Goroutines, q # p PROVE RecoveryPc(q)' = RecoveryPc(q)
      <3>1. pc'[q] = pc[q]
        BY <2>1 DEF Others
      <3> QED BY <3>1 DEF RecoveryPc, At
    <2> QED BY <2>1 DEF RecoveryPcs
  <1> QED
    BY <1>5, <1>6 DEF RecoveryLocs, RecoveryPcs, Reopening!At, Reopening!Goto

\* The two writes of lastTrialTime.
LEMMA WriteImplements ==
  ASSUME TypeOK, NEW p \in Goroutines, Plain(p), Plain(p)', Others(p),
         SwapTrialTime(p) \/ StoreTrialTime(p)
  PROVE  Reopening!Next
  <1>0. /\ Looks(p) /\ Looks(p)' /\ loc[p] \in Locals /\ UNCHANGED <<circuitOpen, now>>
        /\ now \in Nat
    BY PlainLooks DEF Plain, SwapTrialTime, StoreTrialTime, InCall, outside, TypeOK
  <1> USE DEF At, Goto
  <1>1. CASE SwapTrialTime(p)
    <2>1. /\ pc[p] = "swapTrialTime" /\ pc'[p] = "allow" /\ loc[p].trial = FALSE
          /\ loc[p].caller = "none"
      BY <1>0, <1>1 DEF SwapTrialTime, TypeOK, Plain, Justified, Locals
    <2>2. RecoveryPc(p) = "swapTrialTime" /\ RecoveryPc(p)' = "loadOpen"
      BY <2>1, PcLooks
    <2>3. PICK c : c = AgeOf(loc[p].trialClock)
      OBVIOUS
    <2>4. /\ RecoveryLoc(p) = RecoveryLocal("none", FALSE, 0, c, 0, Loaded(p), FALSE)
          /\ RecoveryLoc(p)' = RecoveryLocal("admit", loc'[p].trial, 0, 0, 0, "none", FALSE)
      BY <1>0, <2>1, <2>3 DEF Looks
    <2>5. RecoveryLoc(p).loaded = Loaded(p) /\ RecoveryLoc(p).trialClock = c
      BY <2>4 DEF RecoveryLocal
    <2>6. CASE loc[p].trialSeen = lastTrialTime
      <3>1. loc'[p].trial = TRUE /\ lastTrialTime' = loc[p].trialClock
        BY <1>0, <1>1, <2>6 DEF SwapTrialTime, Swaps, TypeOK, Locals
      <3>2. AgeOf(lastTrialTime)' = c
        BY <1>0, <2>3, <3>1 DEF AgeOf
      <3>3. PICK l : l = RecoveryLocal("admit", TRUE, 0, 0, 0, "none", FALSE)
        OBVIOUS
      <3>4. l.loaded = "none" /\ RecoveryLoc(p)' = l
        BY <2>4, <3>1, <3>3 DEF RecoveryLocal
      <3>5. /\ Reopening!Rewritten([RecoveryLocs EXCEPT ![p] = l])
            /\ Reopening!At(p, RecoveryPc(p)) /\ Reopening!Goto(p, RecoveryPc(p)')
            /\ RecoveryLocs[p] = RecoveryLoc(p)
        BY <3>4, WrittenLooks
      <3>6. l = [Reopening!NoLocals EXCEPT !.caller = "admit", !.trial = TRUE]
        BY <3>3, TakenLocal
      <3>7. RecoveryLocs[p].loaded = "same" /\ RecoveryLocs[p].trialClock = c
        BY <2>5, <2>6, <3>5 DEF Loaded
      <3>8. Reopening!SwapTrialTime(p)
        BY <1>0, <2>2, <3>2, <3>5, <3>6, <3>7 DEF Reopening!SwapTrialTime, RecoveryLocs
      <3> QED BY <3>8 DEF Reopening!Next, Reopening!Step, Reopening!Advance
    <2>7. CASE loc[p].trialSeen # lastTrialTime
      <3>1. loc'[p].trial = FALSE /\ UNCHANGED lastTrialTime
        BY <1>0, <1>1, <2>1, <2>7 DEF SwapTrialTime, Swaps
      <3>2. RecoveryLoc(p)' =
              [Reopening!NoLocals EXCEPT !.caller = "admit", !.trial = FALSE]
        BY <2>4, <3>1, TakenLocal
      <3>3. /\ Reopening!At(p, RecoveryPc(p)) /\ Reopening!Goto(p, RecoveryPc(p)')
            /\ Reopening!Becomes(p, RecoveryLoc(p)')
            /\ RecoveryLocs[p] = RecoveryLoc(p) /\ UNCHANGED AgeOf(lastTrialTime)
        BY <3>1, Moved
      <3>4. (RecoveryLocs[p].loaded = "same") = FALSE
        BY <2>5, <2>7, <3>3 DEF Loaded
      <3>5. Reopening!SwapTrialTime(p)
        BY <1>0, <2>2, <3>2, <3>3, <3>4 DEF Reopening!SwapTrialTime, RecoveryLocs
      <3> QED BY <3>5 DEF Reopening!Next, Reopening!Step, Reopening!Advance
    <2> QED BY <2>6, <2>7
  <1>2. CASE StoreTrialTime(p)
    <2>1. /\ pc[p] = "storeTrialTime" /\ Answer(p, TRUE) /\ pc[p] \in IsOpenLabels
          /\ lastTrialTime' = loc[p].clock
      BY <1>2 DEF StoreTrialTime, IsOpenLabels
    <2>2. RecoveryPc(p) = "storeTrialTime"
      BY <2>1, PcLooks
    <2>3. AgeOf(lastTrialTime)' = TripAge(p)
      BY <1>0, <2>1 DEF AgeOf, TripAge
    <2>4. RecoveryLoc(p).tripClock = TripAge(p)
      BY <1>0, <2>1 DEF Looks, RecoveryLocal
    <2>5. PICK l : l = Reopening!AnswerLoc(RecoveryLoc(p), TRUE)
      OBVIOUS
    <2>6. /\ RecoveryPc(p)' = Reopening!AnswerPc(RecoveryLoc(p), TRUE)
          /\ l.loaded = "none" => RecoveryLoc(p)' = l
          /\ l.loaded # "none" => RecoveryLoc(p)' = [l EXCEPT !.loaded = Loaded(p)']
      BY <1>0, <2>1, <2>5, AnswerLooks
    <2>7. /\ Reopening!Rewritten([RecoveryLocs EXCEPT ![p] = l])
          /\ Reopening!At(p, RecoveryPc(p)) /\ Reopening!Goto(p, RecoveryPc(p)')
          /\ RecoveryLocs[p] = RecoveryLoc(p)
      BY <2>6, WrittenLooks
    <2>8. Reopening!StoreTrialTime(p)
      BY <1>0, <2>2, <2>3, <2>4, <2>5, <2>6, <2>7 DEF Reopening!StoreTrialTime, RecoveryLocs
    <2> QED BY <2>8 DEF Reopening!Next, Reopening!Step, Reopening!Advance
  <1> QED BY <1>1, <1>2

\* The clock ticks in Recovery.tla, too.
LEMMA TickImplements ==
  ASSUME TypeOK, \A q \in Goroutines : Plain(q), Tick
  PROVE  Reopening!Tick
  <1>0. /\ UNCHANGED <<circuitOpen, lastTrialTime, pc, loc>> /\ now' = now + 1
        /\ now \in Nat /\ lastTrialTime \in Nat
    BY DEF Tick, TypeOK, breaker
  <1>1. AgeOf(lastTrialTime)' = Reopening!Older(AgeOf(lastTrialTime))
    BY <1>0, BreakerAssumption DEF AgeOf, Reopening!Older
  <1>2. ASSUME NEW q \in Goroutines
        PROVE  RecoveryLoc(q)' =
                 [RecoveryLoc(q) EXCEPT
                    !.seen = IF RecoveryPc(q) = "readTrialClock"
                             THEN Reopening!Older(RecoveryLoc(q).seen) ELSE 0,
                    !.trialClock =
                       IF RecoveryLoc(q).loaded # "none" /\ RecoveryPc(q) # "readTrialClock"
                       THEN Reopening!Older(RecoveryLoc(q).trialClock) ELSE 0,
                    !.tripClock = IF RecoveryPc(q) = "storeTrialTime"
                                  THEN Reopening!Older(RecoveryLoc(q).tripClock) ELSE 0]
    <2>1. /\ loc[q].trialSeen \in Nat /\ loc[q].trialClock \in Nat /\ loc[q].clock \in Nat
          /\ pc[q] = "readTrialClock" => loc[q].caller # "trial"
          /\ pc[q] = "readTrialClock" <=> RecoveryPc(q) = "readTrialClock"
          /\ pc[q] = "storeTrialTime" <=> RecoveryPc(q) = "storeTrialTime"
      BY DEF Plain, Returning, IsOpenLabels, Locals, RecoveryPc
    <2>2. /\ AgeOf(loc[q].trialSeen)' = Reopening!Older(AgeOf(loc[q].trialSeen))
          /\ AgeOf(loc[q].trialClock)' = Reopening!Older(AgeOf(loc[q].trialClock))
          /\ AgeOf(loc[q].clock)' = Reopening!Older(AgeOf(loc[q].clock))
      BY <1>0, <2>1, BreakerAssumption DEF AgeOf, Reopening!Older
    <2>3. /\ RecoveryLoc(q)'.caller = RecoveryLoc(q).caller
          /\ RecoveryLoc(q)'.trial = RecoveryLoc(q).trial
          /\ RecoveryLoc(q)'.loaded = RecoveryLoc(q).loaded
          /\ RecoveryLoc(q)'.slept = RecoveryLoc(q).slept
      BY <1>0 DEF RecoveryLoc, RecoveryPc, AgeOf, SleptEnough, At
    <2>4. RecoveryLoc(q)'.seen = IF RecoveryPc(q) = "readTrialClock"
                                 THEN Reopening!Older(RecoveryLoc(q).seen) ELSE 0
      BY <1>0, <2>1, <2>2 DEF RecoveryLoc, RecoveryPc, AgeOf, SleptEnough, At
    <2>5. RecoveryLoc(q)'.trialClock =
            IF RecoveryLoc(q).loaded # "none" /\ RecoveryPc(q) # "readTrialClock"
            THEN Reopening!Older(RecoveryLoc(q).trialClock) ELSE 0
      BY <1>0, <2>1, <2>2 DEF RecoveryLoc, RecoveryPc, AgeOf, SleptEnough, At
    <2>6. RecoveryLoc(q)'.tripClock = IF RecoveryPc(q) = "storeTrialTime"
                                      THEN Reopening!Older(RecoveryLoc(q).tripClock) ELSE 0
      BY <1>0, <2>1, <2>2 DEF RecoveryLoc, RecoveryPc, AgeOf, SleptEnough, At
    <2>7. PICK c, tr, s, k, t, ld, sl :
            /\ c = RecoveryLoc(q).caller /\ tr = RecoveryLoc(q).trial
            /\ s = RecoveryLoc(q).seen /\ k = RecoveryLoc(q).trialClock
            /\ t = RecoveryLoc(q).tripClock /\ ld = RecoveryLoc(q).loaded
            /\ sl = RecoveryLoc(q).slept
      OBVIOUS
    <2>8. PICK s2, k2, t2 :
            /\ s2 = RecoveryLoc(q)'.seen /\ k2 = RecoveryLoc(q)'.trialClock
            /\ t2 = RecoveryLoc(q)'.tripClock
      OBVIOUS
    <2>9. /\ RecoveryLoc(q) = RecoveryLocal(c, tr, s, k, t, ld, sl)
          /\ RecoveryLoc(q)' = RecoveryLocal(c, tr, s2, k2, t2, ld, sl)
      <3>1. RecoveryLoc(q) = RecoveryLocal(RecoveryLoc(q).caller, RecoveryLoc(q).trial,
              RecoveryLoc(q).seen, RecoveryLoc(q).trialClock, RecoveryLoc(q).tripClock,
              RecoveryLoc(q).loaded, RecoveryLoc(q).slept)
        BY DEF RecoveryLoc, RecoveryLocal, RecoveryPc, AgeOf, SleptEnough, At
      <3>2. RecoveryLoc(q)' = RecoveryLocal(RecoveryLoc(q)'.caller, RecoveryLoc(q)'.trial,
              RecoveryLoc(q)'.seen, RecoveryLoc(q)'.trialClock, RecoveryLoc(q)'.tripClock,
              RecoveryLoc(q)'.loaded, RecoveryLoc(q)'.slept)
        BY DEF RecoveryLoc, RecoveryLocal, RecoveryPc, AgeOf, SleptEnough, At
      <3> QED BY <2>3, <2>7, <2>8, <3>1, <3>2
    <2>10. RecoveryLoc(q)' = [RecoveryLoc(q) EXCEPT
             !.seen = s2, !.trialClock = k2, !.tripClock = t2]
      <3>1. [RecoveryLocal(c, tr, s, k, t, ld, sl) EXCEPT !.seen = s2] =
              RecoveryLocal(c, tr, s2, k, t, ld, sl)
        BY DEF RecoveryLocal
      <3>2. [RecoveryLocal(c, tr, s2, k, t, ld, sl) EXCEPT !.trialClock = k2] =
              RecoveryLocal(c, tr, s2, k2, t, ld, sl)
        BY DEF RecoveryLocal
      <3>3. [RecoveryLocal(c, tr, s2, k2, t, ld, sl) EXCEPT !.tripClock = t2] =
              RecoveryLocal(c, tr, s2, k2, t2, ld, sl)
        BY DEF RecoveryLocal
      <3> QED BY <2>9, <3>1, <3>2, <3>3
    <2> QED BY <2>4, <2>5, <2>6, <2>8, <2>10
  <1>3. UNCHANGED RecoveryPcs
    BY <1>0 DEF RecoveryPcs, RecoveryPc, At
  <1> QED
    BY <1>0, <1>1, <1>2, <1>3
       DEF Reopening!Tick, Reopening!At, RecoveryPcs, RecoveryLocs
-----------------------------------------------------------------------------
\* Until a switch changes the goroutines and the switches are plain.
LEMMA PlainUntilChanged ==
  /\ IInv /\ changes = 0 =>
       /\ props["Enabled"] /\ ~ props["ForceOpen"] /\ ~ props["ForceClosed"]
       /\ \A q \in Goroutines : Plain(q)
  /\ (IInv /\ changes = 0 => \A q \in Goroutines : Plain(q))'
  <1>1. IInv /\ changes = 0 =>
          props["Enabled"] /\ ~ props["ForceOpen"] /\ ~ props["ForceClosed"]
    BY DEF IInv, Unforced, Switches
  <1>2. IInv /\ changes = 0 => \A q \in Goroutines : Plain(q)
    BY DEF IInv, Unforced, Plain, TypeOK, At
  <1>3. (IInv /\ changes = 0 => \A q \in Goroutines : Plain(q))'
    BY DEF IInv, Unforced, Plain, TypeOK, At
  <1> QED BY <1>1, <1>2, <1>3

\* The refinement's initial states.
LEMMA InitImplements == Init => Reopening!Init
  <1> SUFFICES ASSUME Init PROVE Reopening!Init
    OBVIOUS
  <1>1. AgeOf(lastTrialTime) = SleepWindow + 1
    BY BreakerAssumption DEF Init, AgeOf, Epoch
  <1>2. ASSUME NEW q \in Goroutines
        PROVE  RecoveryPc(q) = "idle" /\ RecoveryLoc(q) = Reopening!NoLocals
    <2>1. pc[q] = "idle" /\ loc[q] = NoLocals
      BY DEF Init
    <2>2. RecoveryPc(q) = "idle"
      BY <2>1 DEF RecoveryPc, At
    <2>3. Plain(q)
      BY <2>1 DEF Plain, Labels, IsOpenLabels, Locals, NoLocals, Justified, Returning, At
    <2>4. Looks(q)
      BY <2>3, PlainLooks
    <2> QED BY <2>1, <2>2, <2>4, ClearedLocal DEF Looks
  <1> QED BY <1>1, <1>2 DEF Reopening!Init, Init

\* Its steps.
LEMMA NextImplementsRecovery ==
  IInv /\ IInv' /\ [Next]_vars =>
    [changes' = 0 => Reopening!Next \/ UNCHANGED Reopening!vars]_vars
  <1> SUFFICES ASSUME IInv, IInv', Next, changes' = 0
               PROVE  Reopening!Next \/ UNCHANGED Reopening!vars
    OBVIOUS
  <1>0. TypeOK
    BY DEF IInv
  <1>1. ASSUME NEW p \in Goroutines, Step(p)
        PROVE  Reopening!Next \/ UNCHANGED Reopening!vars
    <2>1. UNCHANGED outside
      BY <1>1 DEF Step, Begin, CheckForceOpen, IncRequest, LoadTrialTime, ReadTrialClock,
           SwapTrialTime, Allow, Finish, FinishUntracked, IncError, ResetErrors,
           ResetRequests, Close, Poll, ReadForceClosed, ReadForceOpen, LoadOpen,
           LoadSnapshotTime, ReadSnapshotClock, SwapSnapshotTime, SumRequests, SumErrors,
           SwapOpen, ReadTripClock, StoreTrialTime, OnlyLocal, InCall
    <2>2. /\ props["Enabled"] /\ ~ props["ForceOpen"] /\ ~ props["ForceClosed"]
          /\ Plain(p) /\ Plain(p)'
      BY <2>1, PlainUntilChanged DEF outside
    <2>3. Others(p)
      BY <1>0, <1>1, <2>1, OthersUnmoved DEF Others, outside
    <2>4. ~ FinishUntracked(p)
      BY <2>2 DEF FinishUntracked, Plain, At
    <2> QED
      BY <1>0, <1>1, <2>2, <2>3, <2>4, DoImplements, IsOpenImplements, WriteImplements
         DEF Step
  <1>2. CASE Tick
    <2>1. UNCHANGED changes
      BY <1>2 DEF Tick
    <2> QED BY <1>0, <1>2, <2>1, PlainUntilChanged, TickImplements DEF Reopening!Next
  <1>3. CASE ChangeProperty
    BY <1>0, <1>3 DEF ChangeProperty, TypeOK
  <1> QED BY <1>1, <1>2, <1>3 DEF Next

\* Until a switch changes the breaker with its statistics and its clock
\* (circuitbreaker.go:93-197) takes only steps that Recovery.tla allows.
THEOREM RecoveryImplemented == Spec => ImplementsRecovery
  <1>1. Init => Reopening!Init
    BY InitImplements
  <1>2. IInv /\ IInv' /\ [Next]_vars =>
          [changes' = 0 => Reopening!Next \/ UNCHANGED Reopening!vars]_vars
    BY NextImplementsRecovery
  <1> QED BY <1>1, <1>2, Inductive, PTL DEF Spec, ImplementsRecovery
=============================================================================
