--------------------------- MODULE CircuitBreaker ---------------------------
(***************************************************************************)
(* circuitbreaker/circuitbreaker.go: one CircuitBreaker shared by          *)
(* goroutines.  The breaker has no lock: an action is one atomic access    *)
(* (a load, a store, a compare-and-swap, a clock reading, one call of a    *)
(* RollingNumber, one read of a dynamic property), and pc[p] names the     *)
(* access goroutine p makes next.  A goroutine is inside Do or, when the   *)
(* metrics stream asks (CommandExecutor.IsCircuitBreakerOpen), inside      *)
(* IsOpen.  loc[p] holds the local variables that outlive an access.       *)
(***************************************************************************)
EXTENDS RollingWindow

CONSTANTS Goroutines,
          RequestVolumeThreshold,    \* requests needed before errors count
          ErrorThresholdPercentage,  \* above this share the circuit opens
          SleepWindow,               \* from an opening, or a trial, to a trial
          HealthInterval,            \* healthSnapshotInterval
          Dynamic,                   \* the switches that change at run time
          MaxTime,                   \* bound: ticks of the clock
          MaxCalls,                  \* bound: calls of Do and of IsOpen
          MaxChanges                 \* bound: property changes

Switches == {"Enabled", "ForceOpen", "ForceClosed"}

ASSUME BreakerAssumption ==
  /\ {RequestVolumeThreshold, ErrorThresholdPercentage} \subseteq Nat
  /\ {SleepWindow, HealthInterval} \subseteq Nat
  /\ Dynamic \subseteq Switches
  /\ {MaxTime, MaxCalls, MaxChanges} \subseteq Nat

VARIABLES circuitOpen,    \* the uint32, as a Boolean
          lastTrialTime,
          snapshotTime,   \* health: when a snapshot was last computed
          errors,         \* health: errorCounter
          requests,       \* health: requestCounter
          props,          \* the switches
          now,            \* what clock.Now() returns
          pc, loc,
          volume,         \* volume[p]: reqCount of p's Health
          calls, changes, \* bounds
          seen,           \* history: verdicts the state allowed during p's call
          tripTime,       \* history: when the circuit last opened
          trialTime,      \* history: the time read by the last trial taken
          rearmed,        \* history: an opening set lastTrialTime since then
          evidence        \* history: requests counted since the last Reset

breaker == <<circuitOpen, lastTrialTime>>
health  == <<snapshotTime, errors, requests>>
outside == <<props, now, changes>>
history == <<tripTime, trialTime, rearmed, evidence>>
vars == <<breaker, health, outside, pc, loc, volume, calls, seen, history>>

\* Where a goroutine can be: in IsOpen, and elsewhere.
IsOpenLabels ==
  {"readForceClosed", "readForceOpen", "loadOpen", "loadSnapshotTime",
   "readSnapshotClock", "swapSnapshotTime", "sumRequests", "sumErrors",
   "swapOpen", "readTripClock", "storeTrialTime"}
Labels == IsOpenLabels \cup
  {"idle", "checkForceOpen", "incRequest", "loadTrialTime", "readTrialClock",
   "swapTrialTime", "allow", "run", "runUntracked", "resetErrors",
   "resetRequests", "close", "incFailure", "incRejection"}

\* caller: where IsOpen returns to.  trialSeen, trialClock and trial belong
\* to isTrialCallAllowed, stamp and clock to IsOpen and Health.
Locals == [caller : {"none", "trial", "update", "admit", "poll"},
           trialSeen : Nat, trialClock : Nat, trial : BOOLEAN,
           stamp : Nat, clock : Nat]
NoLocals == [caller |-> "none", trialSeen |-> 0, trialClock |-> 0, trial |-> FALSE,
             stamp |-> 0, clock |-> 0]

TypeOK ==
  /\ circuitOpen \in BOOLEAN
  /\ lastTrialTime \in Nat /\ snapshotTime \in Nat
  /\ errors \in RollingNumbers /\ requests \in RollingNumbers
  /\ props \in [Switches -> BOOLEAN] /\ now \in Nat
  /\ pc \in [Goroutines -> Labels]
  /\ loc \in [Goroutines -> Locals]
  /\ volume \in [Goroutines -> Nat]
  /\ calls \in 0 .. MaxCalls /\ changes \in 0 .. MaxChanges
  /\ seen \in [Goroutines -> SUBSET {"open", "closed"}]
  /\ tripTime \in Nat /\ trialTime \in Nat /\ rearmed \in BOOLEAN /\ evidence \in Nat

\* The clock starts further than either interval from the zero of UnixNano,
\* where snapshotTime and lastTrialTime start.
Epoch == SleepWindow + HealthInterval + 1

\* New: closed, with empty statistics.  The switches have their defaults.
Init ==
  /\ circuitOpen = FALSE /\ lastTrialTime = 0 /\ snapshotTime = 0
  /\ now = Epoch
  /\ errors = NewRollingNumber(Epoch) /\ requests = NewRollingNumber(Epoch)
  /\ props = [s \in Switches |-> s = "Enabled"]
  /\ pc = [p \in Goroutines |-> "idle"]
  /\ loc = [p \in Goroutines |-> NoLocals]
  /\ volume = [p \in Goroutines |-> 0]
  /\ calls = 0 /\ changes = 0
  /\ seen = [p \in Goroutines |-> {}]
  /\ tripTime = 0 /\ trialTime = 0 /\ rearmed = FALSE /\ evidence = 0
-----------------------------------------------------------------------------
At(p, label) == pc[p] = label
Goto(p, label) == pc' = [pc EXCEPT ![p] = label]
Leave(p) == Goto(p, "idle") /\ loc' = [loc EXCEPT ![p] = NoLocals]

\* The verdicts the state of the circuit and its switches allows.
Verdicts ==
  {v \in {"open", "closed"} :
     \/ v = "open" /\ (circuitOpen \/ props["ForceOpen"])
     \/ v = "closed" /\ (~ circuitOpen \/ props["ForceClosed"])}

\* History: what p's call could have found, from its first step to now.
Observe ==
  seen' = [p \in Goroutines |->
             IF pc'[p] = "idle" THEN {}
             ELSE IF pc[p] = "idle" THEN Verdicts'
             ELSE seen[p] \cup Verdicts']

\* What a step of a goroutine inside a call leaves alone; and a step that
\* only takes it and its local variables further.
InCall == UNCHANGED <<outside, calls>> /\ Observe
OnlyLocal == UNCHANGED <<breaker, health, volume, history>> /\ InCall

\* IsOpen is called, by caller.
Ask(p, caller) ==
  /\ Goto(p, "readForceClosed")
  /\ loc' = [loc EXCEPT ![p].caller = caller]

\* Mutant of SleptEnough: the trial is not made to wait.
SleptEnoughAlways(l) == TRUE
SleptEnough(l) == l.trialClock > l.trialSeen + SleepWindow

\* Mutant of AfterAnswer: an open circuit admits ordinary calls too.
AfterAnswerOpen(l, open) ==
  CASE l.caller = "trial"  -> IF open /\ SleptEnough(l) THEN "swapTrialTime" ELSE "allow"
    [] l.caller = "poll"   -> "idle"
    [] OTHER               -> "run"

\* Where the caller goes on when IsOpen answers: isTrialCallAllowed tries to
\* take the trial, isRequestAllowed lets f run or has Do reject, the metrics
\* stream is done.
AfterAnswer(l, open) ==
  CASE l.caller = "trial"  -> IF open /\ SleptEnough(l) THEN "swapTrialTime" ELSE "allow"
    [] l.caller = "update" -> "run"
    [] l.caller = "admit"  -> IF open /\ ~ l.trial THEN "incRejection" ELSE "run"
    [] OTHER               -> "idle"

Answer(p, open) ==
  LET next == AfterAnswer(loc[p], open)
  IN  /\ Goto(p, next)
      /\ loc' = [loc EXCEPT ![p] =
                   IF next = "idle" THEN NoLocals
                   ELSE [@ EXCEPT !.caller = "none", !.stamp = 0, !.clock = 0]]
-----------------------------------------------------------------------------
(* Do and isRequestAllowed.                                                *)

Begin(p) ==
  /\ At(p, "idle") /\ calls < MaxCalls
  /\ calls' = calls + 1
  /\ Goto(p, IF props["Enabled"] THEN "checkForceOpen" ELSE "runUntracked")
  /\ UNCHANGED <<breaker, health, outside, loc, volume, history>> /\ Observe

CheckForceOpen(p) ==
  /\ At(p, "checkForceOpen")
  /\ Goto(p, IF props["ForceOpen"] THEN "idle" ELSE "incRequest")
  /\ UNCHANGED loc /\ OnlyLocal

IncRequest(p) ==
  /\ At(p, "incRequest")
  /\ requests' = Incremented(requests, now)
  /\ evidence' = evidence + 1
  /\ Goto(p, "loadTrialTime")
  /\ UNCHANGED <<breaker, snapshotTime, errors, loc, volume,
                 tripTime, trialTime, rearmed>> /\ InCall

LoadTrialTime(p) ==
  /\ At(p, "loadTrialTime")
  /\ loc' = [loc EXCEPT ![p].trialSeen = lastTrialTime]
  /\ Goto(p, "readTrialClock")
  /\ OnlyLocal

ReadTrialClock(p) ==
  /\ At(p, "readTrialClock")
  /\ Goto(p, "readForceClosed")
  /\ loc' = [loc EXCEPT ![p].caller = "trial", ![p].trialClock = now]
  /\ OnlyLocal

\* Mutant of Swaps: the value the swap expects is not compared.
SwapsBlindly(current, expected) == TRUE
\* Whether a CompareAndSwap that expects a value succeeds.
Swaps(current, expected) == current = expected

SwapTrialTime(p) ==
  /\ At(p, "swapTrialTime")
  /\ Goto(p, "allow")
  /\ IF Swaps(lastTrialTime, loc[p].trialSeen)
     THEN /\ lastTrialTime' = loc[p].trialClock
          /\ loc' = [loc EXCEPT ![p].trial = TRUE]
          /\ trialTime' = loc[p].trialClock
          /\ rearmed' = FALSE
     ELSE UNCHANGED <<lastTrialTime, loc, trialTime, rearmed>>
  /\ UNCHANGED <<circuitOpen, health, volume, tripTime, evidence>> /\ InCall

Allow(p) ==
  /\ At(p, "allow")
  /\ Ask(p, IF props["ForceClosed"] THEN "update" ELSE "admit")
  /\ OnlyLocal

\* Mutant of AfterSuccess: any success closes the circuit.
AfterSuccessAlways(trial) == "resetErrors"
AfterSuccess(trial) == IF trial THEN "resetErrors" ELSE "idle"

\* f returns an error or none, or panics; Do recovers nothing.
Finish(p) ==
  /\ At(p, "run")
  /\ \E next \in {"incFailure", AfterSuccess(loc[p].trial), "idle"} :
       /\ Goto(p, next)
       /\ loc' = IF next = "idle" THEN [loc EXCEPT ![p] = NoLocals] ELSE loc
  /\ OnlyLocal

FinishUntracked(p) == At(p, "runUntracked") /\ Leave(p) /\ OnlyLocal

\* The call failed or was rejected; it returns.
IncError(p) ==
  /\ pc[p] \in {"incFailure", "incRejection"}
  /\ errors' = Incremented(errors, now)
  /\ Leave(p)
  /\ UNCHANGED <<breaker, snapshotTime, requests, volume, history>> /\ InCall

ResetErrors(p) ==
  /\ At(p, "resetErrors")
  /\ errors' = ResetNumber(errors, now)
  /\ Goto(p, "resetRequests")
  /\ UNCHANGED <<breaker, snapshotTime, requests, loc, volume, history>> /\ InCall

ResetRequests(p) ==
  /\ At(p, "resetRequests")
  /\ requests' = ResetNumber(requests, now)
  /\ evidence' = 0
  /\ Goto(p, "close")
  /\ UNCHANGED <<breaker, snapshotTime, errors, loc, volume,
                 tripTime, trialTime, rearmed>> /\ InCall

Close(p) ==
  /\ At(p, "close")
  /\ circuitOpen' = FALSE
  /\ Leave(p)
  /\ UNCHANGED <<lastTrialTime, health, volume, history>> /\ InCall
-----------------------------------------------------------------------------
(* IsOpen and Health.                                                      *)

\* The metrics stream asks whether the circuit is open.
Poll(p) ==
  /\ At(p, "idle") /\ calls < MaxCalls
  /\ calls' = calls + 1
  /\ Ask(p, "poll")
  /\ UNCHANGED <<breaker, health, outside, volume, history>> /\ Observe

ReadForceClosed(p) ==
  /\ At(p, "readForceClosed")
  /\ \/ props["ForceClosed"] /\ Answer(p, FALSE)
     \/ ~ props["ForceClosed"] /\ Goto(p, "readForceOpen") /\ UNCHANGED loc
  /\ OnlyLocal

ReadForceOpen(p) ==
  /\ At(p, "readForceOpen")
  /\ \/ props["ForceOpen"] /\ Answer(p, TRUE)
     \/ ~ props["ForceOpen"] /\ Goto(p, "loadOpen") /\ UNCHANGED loc
  /\ OnlyLocal

LoadOpen(p) ==
  /\ At(p, "loadOpen")
  /\ \/ circuitOpen /\ Answer(p, TRUE)
     \/ ~ circuitOpen /\ Goto(p, "loadSnapshotTime") /\ UNCHANGED loc
  /\ OnlyLocal

LoadSnapshotTime(p) ==
  /\ At(p, "loadSnapshotTime")
  /\ loc' = [loc EXCEPT ![p].stamp = snapshotTime]
  /\ Goto(p, "readSnapshotClock")
  /\ OnlyLocal

\* Until the interval has passed Health returns the snapshot New made, for a
\* computed one is stored through a local pointer only.  It has no errors:
\* IsOpen answers FALSE.
ReadSnapshotClock(p) ==
  /\ At(p, "readSnapshotClock")
  /\ IF now > loc[p].stamp + HealthInterval
     THEN loc' = [loc EXCEPT ![p].clock = now] /\ Goto(p, "swapSnapshotTime")
     ELSE Answer(p, FALSE)
  /\ OnlyLocal

SwapSnapshotTime(p) ==
  /\ At(p, "swapSnapshotTime")
  /\ IF Swaps(snapshotTime, loc[p].stamp)
     THEN snapshotTime' = loc[p].clock /\ Goto(p, "sumRequests") /\ UNCHANGED loc
     ELSE Answer(p, FALSE) /\ UNCHANGED snapshotTime
  /\ UNCHANGED <<breaker, errors, requests, volume, history>> /\ InCall

SumRequests(p) ==
  /\ At(p, "sumRequests")
  /\ requests' = FindCurrentBucket(requests, now)
  /\ volume' = [volume EXCEPT ![p] = SumOf(requests')]
  /\ Goto(p, "sumErrors")
  /\ UNCHANGED <<breaker, snapshotTime, errors, loc, history>> /\ InCall

\* Mutant of Unhealthy: the volume threshold is not looked at.
UnhealthyAnyVolume(errorCount, reqCount) ==
  errorCount * 100 > ErrorThresholdPercentage * reqCount
\* The two tests of IsOpen, without the division: no requests and no errors
\* is NaN, above nothing; no requests and an error is +Inf, above everything.
Unhealthy(errorCount, reqCount) ==
  /\ reqCount >= RequestVolumeThreshold
  /\ errorCount * 100 > ErrorThresholdPercentage * reqCount

SumErrors(p) ==
  /\ At(p, "sumErrors")
  /\ errors' = FindCurrentBucket(errors, now)
  /\ volume' = [volume EXCEPT ![p] = 0]
  /\ IF Unhealthy(SumOf(errors'), volume[p])
     THEN Goto(p, "swapOpen") /\ UNCHANGED loc
     ELSE Answer(p, FALSE)
  /\ UNCHANGED <<breaker, snapshotTime, requests, history>> /\ InCall

SwapOpen(p) ==
  /\ At(p, "swapOpen")
  /\ IF Swaps(circuitOpen, FALSE)
     THEN /\ circuitOpen' = TRUE
          /\ tripTime' = now
          /\ Goto(p, "readTripClock") /\ UNCHANGED loc
     ELSE Answer(p, TRUE) /\ UNCHANGED <<circuitOpen, tripTime>>
  /\ UNCHANGED <<lastTrialTime, health, volume,
                 trialTime, rearmed, evidence>> /\ InCall

ReadTripClock(p) ==
  /\ At(p, "readTripClock")
  /\ loc' = [loc EXCEPT ![p].clock = now]
  /\ Goto(p, "storeTrialTime")
  /\ OnlyLocal

StoreTrialTime(p) ==
  /\ At(p, "storeTrialTime")
  /\ lastTrialTime' = loc[p].clock
  /\ rearmed' = TRUE
  /\ Answer(p, TRUE)
  /\ UNCHANGED <<circuitOpen, health, volume, tripTime, trialTime, evidence>> /\ InCall
-----------------------------------------------------------------------------
Step(p) ==
  \/ Begin(p) \/ CheckForceOpen(p) \/ IncRequest(p)
  \/ LoadTrialTime(p) \/ ReadTrialClock(p) \/ SwapTrialTime(p) \/ Allow(p)
  \/ Finish(p) \/ FinishUntracked(p) \/ IncError(p)
  \/ ResetErrors(p) \/ ResetRequests(p) \/ Close(p)
  \/ Poll(p) \/ ReadForceClosed(p) \/ ReadForceOpen(p) \/ LoadOpen(p)
  \/ LoadSnapshotTime(p) \/ ReadSnapshotClock(p) \/ SwapSnapshotTime(p)
  \/ SumRequests(p) \/ SumErrors(p)
  \/ SwapOpen(p) \/ ReadTripClock(p) \/ StoreTrialTime(p)

\* The wall clock.  It is not set back (see README).
Tick ==
  /\ now < Epoch + MaxTime
  /\ now' = now + 1
  /\ UNCHANGED <<breaker, health, props, changes, pc, loc, volume, calls, history>>
  /\ Observe

\* vaquita properties are dynamic: one changes between any two reads.
ChangeProperty ==
  /\ changes < MaxChanges
  /\ changes' = changes + 1
  /\ \E s \in Dynamic : props' = [props EXCEPT ![s] = ~ @]
  /\ UNCHANGED <<breaker, health, now, pc, loc, volume, calls, history>>
  /\ Observe

Next ==
  \/ \E p \in Goroutines : Step(p)
  \/ Tick
  \/ ChangeProperty

Spec == Init /\ [][Next]_vars
-----------------------------------------------------------------------------
(* What the breaker promises its callers.                                  *)

\* isRequestAllowed decides over up to twenty accesses while others open and
\* close the circuit.  Its verdict is right at some moment of the call all
\* the same: f runs as an ordinary call only if the circuit was closed, or
\* forced closed, at some point since Do began, and as a trial, or not at
\* all, only if the circuit was open, or forced open.
VerdictJustified ==
  \A p \in Goroutines :
    /\ At(p, "run") /\ ~ loc[p].trial => "closed" \in seen[p]
    /\ At(p, "run") /\ loc[p].trial => "open" \in seen[p]
    /\ At(p, "incRejection") => "open" \in seen[p]

TrialTaken(p) == At(p, "swapTrialTime") /\ loc'[p].trial

\* Whoever races for it, one goroutine gets the trial of a sleep window: the
\* clock readings of two successive trials are more than SleepWindow apart,
\* unless the circuit was opened anew in between (isTrialCallAllowed).
TrialSpacing ==
  [][\A p \in Goroutines :
       TrialTaken(p) => rearmed \/ trialTime' > trialTime + SleepWindow]_vars

\* circuitbreaker.go:131, "If the request was a trial and it succeeded reset
\* all the counters": the circuit opens only on enough requests counted since
\* then; what was measured before a recovery cannot reopen it.
OpensOnEvidence ==
  [][~ circuitOpen /\ circuitOpen' => evidence >= RequestVolumeThreshold]_vars

\* circuitbreaker_test.go:99, "Still open untill sleep window time passes":
\* no trial is made within SleepWindow of the opening.
TrialAfterSleep ==
  [][\A p \in Goroutines :
       TrialTaken(p) /\ circuitOpen => trialTime' > tripTime + SleepWindow]_vars

\* The phase of a call for its caller.  Counting the outcome and resetting
\* the statistics come after f, and before the call is over.
PhaseOf(p) ==
  CASE At(p, "idle") -> "out"
    [] loc[p].caller = "poll" -> "asking"
    [] pc[p] \in {"run", "runUntracked", "incFailure"} ->
         IF loc[p].trial THEN "trying" ELSE "admitted"
    [] pc[p] \in {"resetErrors", "resetRequests", "close"} -> "trying"
    [] At(p, "incRejection") -> "refused"
    [] OTHER -> "deciding"

Contract == INSTANCE BreakerContract WITH
  Callers <- Goroutines,
  open <- circuitOpen,
  phase <- [p \in Goroutines |-> PhaseOf(p)],
  verdicts <- seen

\* The breaker implements BreakerContract: only a trial that succeeded closes
\* the circuit, and every call is admitted, tried or refused on its evidence.
ImplementsContract == Contract!Spec

\* How an access looks to Recovery.tla, which leaves out the statistics.
RecoveryPc(p) ==
  CASE pc[p] \in {"runUntracked", "incFailure", "incRejection"} -> "idle"
    [] pc[p] \in {"checkForceOpen", "incRequest"} -> "loadTrialTime"
    [] pc[p] \in {"readForceClosed", "readForceOpen", "allow"} -> "loadOpen"
    [] pc[p] \in {"loadSnapshotTime", "readSnapshotClock", "swapSnapshotTime",
                  "sumRequests", "sumErrors"} -> "health"
    [] pc[p] \in {"resetErrors", "resetRequests"} -> "close"
    [] OTHER -> pc[p]

AgeOf(t) == IF now - t > SleepWindow THEN SleepWindow + 1 ELSE now - t

RecoveryLoc(p) ==
  LET l      == loc[p]
      trying == l.caller = "trial" \/ At(p, "swapTrialTime")
  IN  [caller     |-> IF At(p, "allow") THEN "admit" ELSE l.caller,
       trial      |-> l.trial /\ RecoveryPc(p) \notin {"idle", "close"},
       seen       |-> IF At(p, "readTrialClock") THEN AgeOf(l.trialSeen) ELSE 0,
       trialClock |-> IF trying THEN AgeOf(l.trialClock) ELSE 0,
       tripClock  |-> IF At(p, "storeTrialTime") THEN AgeOf(l.clock) ELSE 0,
       loaded     |-> IF ~ trying /\ ~ At(p, "readTrialClock") THEN "none"
                      ELSE IF l.trialSeen = lastTrialTime THEN "same" ELSE "other",
       slept      |-> l.caller = "trial" /\ SleptEnough(l)]

Reopening == INSTANCE Recovery WITH
  age <- AgeOf(lastTrialTime),
  pc  <- [p \in Goroutines |-> RecoveryPc(p)],
  loc <- [p \in Goroutines |-> RecoveryLoc(p)],
  recovered <- FALSE,
  stuck <- {}

\* Until a switch changes every step of the code's accesses, with their
\* statistics and their clock, is one that Recovery.tla allows or none at all
\* (circuitbreaker.go:155-197): that module, whose liveness is checked, leaves
\* out no step the breaker takes.  Safety only: fairness is not carried over.
ImplementsRecovery ==
  /\ Reopening!Init
  /\ [][changes' = 0 => Reopening!Next \/ UNCHANGED Reopening!vars]_vars
-----------------------------------------------------------------------------
(* The inductive invariant behind VerdictJustified, TrialSpacing and the   *)
(* two refinements.                                                        *)

CurrentSeen == \A p \in Goroutines : ~ At(p, "idle") => Verdicts \subseteq seen[p]

\* What p has read so far was true at some moment of its call.
Justified(p) ==
  /\ pc[p] \in {"idle", "checkForceOpen"} => loc[p] = NoLocals
  /\ \/ loc[p].trial
     \/ pc[p] \in {"swapTrialTime", "readTripClock", "storeTrialTime", "incRejection"}
     => "open" \in seen[p]
  /\ \/ loc[p].caller = "update"
     \/ At(p, "run") /\ ~ loc[p].trial
     \/ pc[p] \in {"loadSnapshotTime", "readSnapshotClock", "swapSnapshotTime",
                   "sumRequests", "sumErrors", "swapOpen"}
     => "closed" \in seen[p]
  /\ At(p, "swapTrialTime") => SleptEnough(loc[p]) /\ loc[p].caller = "none"
  /\ \/ loc[p].caller = "trial"
     \/ pc[p] \in {"incRequest", "loadTrialTime", "readTrialClock", "swapTrialTime"}
     => ~ loc[p].trial

\* The last writer of lastTrialTime was an opening or the last trial.
LastWriter == ~ rearmed => lastTrialTime = trialTime

\* IsOpen has somewhere to return to, and nobody else has; the metrics stream
\* never holds a trial.
Returning(p) ==
  /\ loc[p].caller # "none" <=> pc[p] \in IsOpenLabels
  /\ loc[p].caller = "poll" => ~ loc[p].trial

\* Before the first change of a switch the breaker is enabled and not forced.
Unforced ==
  changes = 0 =>
    /\ props = [s \in Switches |-> s = "Enabled"]
    /\ \A p \in Goroutines : ~ At(p, "runUntracked") /\ loc[p].caller # "update"

IInv ==
  /\ TypeOK
  /\ CurrentSeen
  /\ \A p \in Goroutines : Justified(p) /\ Returning(p)
  /\ LastWriter
  /\ Unforced

-----------------------------------------------------------------------------
(* What a single goroutine has beside: the inductive invariant behind      *)
(* OpensOnEvidence and TrialAfterSleep, which two goroutines break.        *)

\* What p has measured was counted since the last Reset.
Evidenced(p) ==
  /\ At(p, "sumErrors") => volume[p] <= evidence
  /\ At(p, "swapOpen") => RequestVolumeThreshold <= evidence

\* An open circuit's lastTrialTime is not from before the opening, but while
\* the goroutine that opened it has yet to store it.
Rearmed(p) ==
  /\ At(p, "storeTrialTime") => tripTime <= loc[p].clock
  /\ circuitOpen /\ pc[p] \notin {"readTripClock", "storeTrialTime"}
     => tripTime <= lastTrialTime

Alone ==
  /\ SumOf(requests) <= evidence
  /\ tripTime <= now
  /\ \A p \in Goroutines : Evidenced(p) /\ Rearmed(p)
=============================================================================
