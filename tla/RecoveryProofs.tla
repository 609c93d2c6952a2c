--------------------------- MODULE RecoveryProofs ---------------------------
(***************************************************************************)
(* For any number of goroutines and any sleep window: no run of the        *)
(* circuit, however long, leaves the finite states of Recovery.tla.        *)
(***************************************************************************)
EXTENDS Recovery, TLAPS

-----------------------------------------------------------------------------
(* The parts of a step.                                                    *)

\* No age grows past the first that is over the sleep window.
LEMMA OlderTyped ==
  ASSUME NEW a \in Ages
  PROVE  Older(a) \in Ages
  BY RecoveryAssumption DEF Ages, Older

\* A goroutine that makes no call knows nothing.
LEMMA NoLocalsTyped == NoLocals \in Locals /\ 0 \in Ages
  BY RecoveryAssumption DEF NoLocals, Locals, Ages

\* IsOpen returns to a place of its caller, with what that one needs.
LEMMA AnswerTyped ==
  ASSUME NEW l \in Locals, NEW open \in BOOLEAN
  PROVE  AnswerPc(l, open) \in Labels /\ AnswerLoc(l, open) \in Locals
  <1>1. AnswerPc(l, open) \in Labels
    BY DEF AnswerPc, Labels
  <1>2. 0 \in Ages
    BY NoLocalsTyped
  <1>3. [l EXCEPT !.caller = "none", !.slept = FALSE, !.tripClock = 0] \in Locals
    <2>1. [l EXCEPT !.caller = "none"] \in Locals
      BY DEF Locals
    <2> DEFINE l1 == [l EXCEPT !.caller = "none"]
    <2> HIDE DEF l1
    <2>2. l1 \in Locals => [l1 EXCEPT !.slept = FALSE] \in Locals
      BY DEF Locals
    <2> DEFINE l2 == [l1 EXCEPT !.slept = FALSE]
    <2> HIDE DEF l2
    <2>3. l2 \in Locals => [l2 EXCEPT !.tripClock = 0] \in Locals
      BY <1>2 DEF Locals
    <2> QED BY <2>1, <2>2, <2>3 DEF l1, l2
  <1>4. [NoLocals EXCEPT !.caller = "admit"] \in Locals
    BY NoLocalsTyped DEF Locals
  <1>5. [NoLocals EXCEPT !.trial = l.trial] \in Locals
    BY NoLocalsTyped DEF Locals
  <1> QED BY <1>1, <1>3, <1>4, <1>5 DEF AnswerLoc

\* A write of lastTrialTime changes only whether it is what was loaded.
LEMMA RewrittenTyped ==
  ASSUME NEW ls \in [Goroutines -> Locals], Rewritten(ls)
  PROVE  loc' \in [Goroutines -> Locals]
  BY DEF Rewritten, Locals

\* ReadTrialClock and SwapTrialTime hand on what they have found.
LEMMA HandedOnTyped ==
  ASSUME NEW loaded \in {"none", "same", "other"}, NEW b \in BOOLEAN, NEW a \in Ages
  PROVE  /\ [NoLocals EXCEPT !.seen = a, !.loaded = "same"] \in Locals
         /\ [NoLocals EXCEPT !.caller = "trial", !.loaded = loaded, !.slept = b] \in Locals
         /\ [NoLocals EXCEPT !.caller = "admit", !.trial = b] \in Locals
         /\ [NoLocals EXCEPT !.caller = "poll"] \in Locals
  BY NoLocalsTyped DEF NoLocals, Locals
-----------------------------------------------------------------------------
(* Every step keeps the types.                                             *)

\* Calls of Do and of IsOpen, up to and after IsOpen.
LEMMA CallTyped ==
  ASSUME TypeOK, NEW p \in Goroutines,
         \/ Begin(p) \/ LoadTrialTime(p) \/ ReadTrialClock(p) \/ SwapTrialTime(p)
         \/ Finish(p) \/ Close(p) \/ Poll(p)
  PROVE  TypeOK'
  <1>1. loc[p] \in Locals /\ loc \in [Goroutines -> Locals] /\ age \in Ages
    BY DEF TypeOK
  <1>2. loc[p].loaded \in {"none", "same", "other"} /\ loc[p].seen \in Ages
          /\ loc[p].trialClock \in Ages
    BY <1>1 DEF Locals
  <1> USE DEF At, Goto, Becomes, OnlyLocal
  <1>3. CASE Begin(p)
    BY <1>3 DEF Begin, TypeOK, Labels
  <1>4. CASE LoadTrialTime(p)
    <2> DEFINE l == [NoLocals EXCEPT !.seen = age, !.loaded = "same"]
    <2>1. l \in Locals
      BY <1>1, HandedOnTyped
    <2>2. loc' = [loc EXCEPT ![p] = l]
      BY <1>4 DEF LoadTrialTime
    <2> HIDE DEF l
    <2>3. loc' \in [Goroutines -> Locals]
      BY <1>1, <2>1, <2>2
    <2> QED BY <1>4, <2>3 DEF LoadTrialTime, TypeOK, Labels
  <1>5. CASE ReadTrialClock(p)
    <2> DEFINE slept == SleptEnough(loc[p].seen)
               l == [NoLocals EXCEPT !.caller = "trial", !.loaded = loc[p].loaded,
                                     !.slept = slept]
    <2>1. slept \in BOOLEAN
      BY DEF SleptEnough
    <2> HIDE DEF slept
    <2>2. l \in Locals
      BY <1>2, <2>1, HandedOnTyped, NoLocalsTyped
    <2>3. loc' = [loc EXCEPT ![p] = l]
      BY <1>5 DEF ReadTrialClock, slept
    <2> HIDE DEF l
    <2>4. loc' \in [Goroutines -> Locals]
      BY <1>1, <2>2, <2>3
    <2> QED BY <1>5, <2>4 DEF ReadTrialClock, TypeOK, Labels
  <1>6. CASE SwapTrialTime(p)
    <2> DEFINE trial == loc[p].loaded = "same"
               l == [NoLocals EXCEPT !.caller = "admit", !.trial = trial]
    <2>1. l \in Locals
      BY HandedOnTyped, NoLocalsTyped
    <2>2. IF trial THEN age' = loc[p].trialClock /\ Rewritten([loc EXCEPT ![p] = l])
          ELSE loc' = [loc EXCEPT ![p] = l] /\ UNCHANGED age
      BY <1>6 DEF SwapTrialTime
    <2> HIDE DEF l, trial
    <2>3. [loc EXCEPT ![p] = l] \in [Goroutines -> Locals]
      BY <1>1, <2>1
    <2>4. loc' \in [Goroutines -> Locals] /\ age' \in Ages
      BY <1>1, <1>2, <2>2, <2>3, RewrittenTyped
    <2> QED BY <1>6, <2>4 DEF SwapTrialTime, TypeOK, Labels
  <1>7. CASE Finish(p)
    <2>1. loc' \in [Goroutines -> Locals]
      BY <1>1, <1>7, NoLocalsTyped DEF Finish
    <2>2. pc' \in [Goroutines -> Labels]
      BY <1>7 DEF Finish, AfterSuccess, TypeOK, Labels
    <2> QED BY <1>7, <2>1, <2>2 DEF Finish, TypeOK
  <1>8. CASE Close(p)
    BY <1>8 DEF Close, TypeOK, Labels
  <1>9. CASE Poll(p)
    <2> DEFINE l == [NoLocals EXCEPT !.caller = "poll"]
    <2>1. l \in Locals
      BY NoLocalsTyped DEF NoLocals, Locals
    <2>2. loc' = [loc EXCEPT ![p] = l]
      BY <1>9 DEF Poll
    <2> HIDE DEF l
    <2>3. loc' \in [Goroutines -> Locals]
      BY <1>1, <2>1, <2>2
    <2> QED BY <1>9, <2>3 DEF Poll, TypeOK, Labels
  <1> QED BY <1>3, <1>4, <1>5, <1>6, <1>7, <1>8, <1>9

\* IsOpen.
LEMMA IsOpenTyped ==
  ASSUME TypeOK, NEW p \in Goroutines,
         \/ LoadOpen(p) \/ Health(p) \/ SwapOpen(p) \/ ReadTripClock(p)
         \/ StoreTrialTime(p)
  PROVE  TypeOK'
  <1>1. /\ loc[p] \in Locals /\ loc \in [Goroutines -> Locals]
        /\ pc \in [Goroutines -> Labels] /\ loc[p].tripClock \in Ages
    BY DEF TypeOK, Locals
  <1>2. \A open \in BOOLEAN : /\ AnswerPc(loc[p], open) \in Labels
                              /\ AnswerLoc(loc[p], open) \in Locals
    BY <1>1, AnswerTyped
  <1>3. ASSUME NEW open \in BOOLEAN, Answer(p, open)
        PROVE  pc' \in [Goroutines -> Labels] /\ loc' \in [Goroutines -> Locals]
    <2> DEFINE next == AnswerPc(loc[p], open)
               l    == AnswerLoc(loc[p], open)
    <2>1. next \in Labels /\ l \in Locals
      BY <1>2
    <2>2. pc' = [pc EXCEPT ![p] = next] /\ loc' = [loc EXCEPT ![p] = l]
      BY <1>3 DEF Answer, Goto, Becomes
    <2> HIDE DEF next, l
    <2> QED BY <1>1, <2>1, <2>2
  <1> USE DEF At, Goto, OnlyLocal
  <1>4. CASE LoadOpen(p)
    <2>1. pc' \in [Goroutines -> Labels] /\ loc' \in [Goroutines -> Locals]
      BY <1>1, <1>3, <1>4 DEF LoadOpen, Labels
    <2> QED BY <1>4, <2>1 DEF LoadOpen, TypeOK
  <1>5. CASE Health(p)
    <2>1. pc' \in [Goroutines -> Labels] /\ loc' \in [Goroutines -> Locals]
      BY <1>1, <1>3, <1>5 DEF Health, Labels
    <2> QED BY <1>5, <2>1 DEF Health, TypeOK
  <1>6. CASE SwapOpen(p)
    <2>1. pc' \in [Goroutines -> Labels] /\ loc' \in [Goroutines -> Locals]
      BY <1>1, <1>3, <1>6 DEF SwapOpen, Labels
    <2> QED BY <1>6, <2>1 DEF SwapOpen, TypeOK
  <1>7. CASE ReadTripClock(p)
    BY <1>7 DEF ReadTripClock, TypeOK, Labels
  <1>8. CASE StoreTrialTime(p)
    <2> DEFINE next == AnswerPc(loc[p], TRUE)
               l    == AnswerLoc(loc[p], TRUE)
    <2>1. next \in Labels /\ l \in Locals
      BY <1>2
    <2>2. /\ pc' = [pc EXCEPT ![p] = next] /\ Rewritten([loc EXCEPT ![p] = l])
          /\ age' = loc[p].tripClock
      BY <1>8 DEF StoreTrialTime
    <2> HIDE DEF next, l
    <2>3. [loc EXCEPT ![p] = l] \in [Goroutines -> Locals]
      BY <1>1, <2>1
    <2>4. pc' \in [Goroutines -> Labels] /\ loc' \in [Goroutines -> Locals] /\ age' \in Ages
      BY <1>1, <2>1, <2>2, <2>3, RewrittenTyped
    <2> QED BY <1>8, <2>4 DEF StoreTrialTime, TypeOK
  <1> QED BY <1>4, <1>5, <1>6, <1>7, <1>8

\* The passing of time makes what was read older, and no older than Ages has.
LEMMA TickTyped ==
  ASSUME TypeOK, Tick
  PROVE  TypeOK'
  <1>1. age' \in Ages
    BY OlderTyped DEF TypeOK, Tick
  <1>2. ASSUME NEW p \in Goroutines
        PROVE  loc'[p] \in Locals
    <2> DEFINE l  == loc[p]
               s  == IF At(p, "readTrialClock") THEN Older(l.seen) ELSE 0
               tr == IF loc[p].loaded # "none" /\ ~ At(p, "readTrialClock")
                     THEN Older(l.trialClock) ELSE 0
               tp == IF At(p, "storeTrialTime") THEN Older(l.tripClock) ELSE 0
    <2>1. l \in Locals /\ l.seen \in Ages /\ l.trialClock \in Ages /\ l.tripClock \in Ages
      BY DEF TypeOK, Locals
    <2>2. s \in Ages /\ tr \in Ages /\ tp \in Ages
      BY <2>1, OlderTyped, NoLocalsTyped
    <2>3. loc'[p] = [l EXCEPT !.seen = s, !.trialClock = tr, !.tripClock = tp]
      BY DEF Tick
    <2> HIDE DEF l, s, tr, tp
    <2>4. loc'[p] = [caller |-> l.caller, trial |-> l.trial, seen |-> s, trialClock |-> tr,
                     tripClock |-> tp, loaded |-> l.loaded, slept |-> l.slept]
      BY <2>1, <2>3 DEF Locals
    <2> QED BY <2>1, <2>2, <2>4 DEF Locals
  <1>3. loc' \in [Goroutines -> Locals]
    BY <1>2 DEF Tick
  <1> QED BY <1>1, <1>3 DEF Tick, TypeOK

\* The types hold from the start and through every step.
LEMMA StepTyped == TypeOK /\ [Next]_vars => TypeOK'
  <1> SUFFICES ASSUME TypeOK, [Next]_vars PROVE TypeOK'
    OBVIOUS
  <1>1. ASSUME NEW p \in Goroutines, Step(p)
        PROVE  TypeOK'
    BY <1>1, CallTyped, IsOpenTyped DEF Step, Advance
  <1>2. CASE Tick
    BY <1>2, TickTyped
  <1>3. CASE Recover
    BY <1>3 DEF Recover, TypeOK
  <1>4. CASE UNCHANGED vars
    BY <1>4 DEF vars, TypeOK
  <1> QED BY <1>1, <1>2, <1>3, <1>4 DEF Next

\* However long calls and time go on, every state is one of the finitely many
\* of TypeOK: no age kept by the circuit or by a goroutine outgrows Ages.
THEOREM TypeCorrect == Spec => []TypeOK
  <1>1. Init => TypeOK
    <2>1. SleepWindow + 1 \in Ages
      BY RecoveryAssumption DEF Ages
    <2>2. "idle" \in Labels
      BY DEF Labels
    <2> QED BY <2>1, <2>2, NoLocalsTyped DEF Init, TypeOK
  <1> QED BY <1>1, StepTyped, PTL DEF Spec, Safety
=============================================================================
