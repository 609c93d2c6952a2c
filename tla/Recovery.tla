------------------------------ MODULE Recovery ------------------------------
(***************************************************************************)
(* How an open circuit is closed again, by any number of calls: the        *)
(* accesses of circuitbreaker/circuitbreaker.go to circuitOpen and         *)
(* lastTrialTime, as CircuitBreaker.tla has them, without the statistics,  *)
(* which find the circuit healthy or not as they please, and with the      *)
(* switches at their defaults.                                             *)
(*                                                                         *)
(* Time is relative: what is kept of a clock reading is its age, up to the *)
(* first age past SleepWindow, so that the state is finite though neither  *)
(* calls nor the clock ever stop.  Whether lastTrialTime still has the     *)
(* value a goroutine loaded is kept as a Boolean of its own.               *)
(***************************************************************************)
EXTENDS Naturals

CONSTANTS Goroutines, SleepWindow

ASSUME RecoveryAssumption == SleepWindow \in Nat

Ages == 0 .. SleepWindow + 1
\* Mutant of Older: ages grow past what the sleep window can tell apart.
OlderForever(a) == a + 1
Older(a) == IF a > SleepWindow THEN a ELSE a + 1

VARIABLES circuitOpen,
          age,        \* of lastTrialTime
          pc, loc,
          recovered,  \* the dependency answers again, and will go on to
          stuck       \* calls that were under way then: nothing is known of them

vars == <<circuitOpen, age, pc, loc, recovered, stuck>>

Labels == {"idle", "loadTrialTime", "readTrialClock", "loadOpen", "health", "swapOpen",
           "readTripClock", "storeTrialTime", "swapTrialTime", "run", "close"}

\* caller: where IsOpen returns to.  seen, trialClock and tripClock are ages
\* of readings; loaded: whether lastTrialTime is what was loaded; slept: the
\* sleep window was over when the clock was read.
Locals == [caller : {"none", "trial", "admit", "poll"}, trial : BOOLEAN,
           seen : Ages, trialClock : Ages, tripClock : Ages,
           loaded : {"none", "same", "other"}, slept : BOOLEAN]
NoLocals == [caller |-> "none", trial |-> FALSE, seen |-> 0, trialClock |-> 0,
             tripClock |-> 0, loaded |-> "none", slept |-> FALSE]

TypeOK ==
  /\ circuitOpen \in BOOLEAN /\ age \in Ages
  /\ pc \in [Goroutines -> Labels] /\ loc \in [Goroutines -> Locals]
  /\ recovered \in BOOLEAN /\ stuck \subseteq Goroutines

\* lastTrialTime is the zero of UnixNano, long ago.
Init ==
  /\ circuitOpen = FALSE /\ age = SleepWindow + 1
  /\ pc = [p \in Goroutines |-> "idle"]
  /\ loc = [p \in Goroutines |-> NoLocals]
  /\ recovered = FALSE /\ stuck = {}
-----------------------------------------------------------------------------
At(p, label) == pc[p] = label
Goto(p, label) == pc' = [pc EXCEPT ![p] = label]
Becomes(p, l) == loc' = [loc EXCEPT ![p] = l]
OnlyLocal == UNCHANGED <<circuitOpen, age, recovered, stuck>>

\* Where IsOpen's caller goes on, and with what: isTrialCallAllowed tries to
\* take the trial or has isRequestAllowed ask again; that lets f run or has
\* Do reject; the metrics stream is done.
AnswerPc(l, open) ==
  CASE l.caller = "trial" -> IF open /\ l.slept THEN "swapTrialTime" ELSE "loadOpen"
    [] l.caller = "admit" -> IF open /\ ~ l.trial THEN "idle" ELSE "run"
    [] OTHER              -> "idle"
AnswerLoc(l, open) ==
  CASE AnswerPc(l, open) = "swapTrialTime" ->
         [l EXCEPT !.caller = "none", !.slept = FALSE, !.tripClock = 0]
    [] AnswerPc(l, open) = "loadOpen" -> [NoLocals EXCEPT !.caller = "admit"]
    [] OTHER -> [NoLocals EXCEPT !.trial = l.trial]
Answer(p, open) == Goto(p, AnswerPc(loc[p], open)) /\ Becomes(p, AnswerLoc(loc[p], open))

\* lastTrialTime is written: the value some goroutine loaded may be restored,
\* by a late store or a coarse clock.
Rewritten(ls) ==
  \E same \in SUBSET Goroutines :
    loc' = [q \in Goroutines |->
              IF ls[q].loaded = "none" THEN ls[q]
              ELSE [ls[q] EXCEPT !.loaded = IF q \in same THEN "same" ELSE "other"]]
-----------------------------------------------------------------------------
(* Do, isRequestAllowed and isTrialCallAllowed.                            *)

\* Do is called, and counts the request.
Begin(p) ==
  /\ At(p, "idle") /\ Goto(p, "loadTrialTime")
  /\ UNCHANGED loc /\ OnlyLocal

LoadTrialTime(p) ==
  /\ At(p, "loadTrialTime") /\ Goto(p, "readTrialClock")
  /\ Becomes(p, [NoLocals EXCEPT !.seen = age, !.loaded = "same"])
  /\ OnlyLocal

\* Mutant of SleptEnough: no time is ever past the sleep window.
SleptEnoughNever(seen) == seen > SleepWindow + 1
SleptEnough(seen) == seen > SleepWindow

ReadTrialClock(p) ==
  /\ At(p, "readTrialClock") /\ Goto(p, "loadOpen")
  /\ Becomes(p, [NoLocals EXCEPT !.caller = "trial", !.loaded = loc[p].loaded,
                                 !.slept = SleptEnough(loc[p].seen)])
  /\ OnlyLocal

SwapTrialTime(p) ==
  LET trial == loc[p].loaded = "same"
      l     == [NoLocals EXCEPT !.caller = "admit", !.trial = trial]
  IN  /\ At(p, "swapTrialTime") /\ Goto(p, "loadOpen")
      /\ IF trial
         THEN age' = loc[p].trialClock /\ Rewritten([loc EXCEPT ![p] = l])
         ELSE Becomes(p, l) /\ UNCHANGED age
      /\ UNCHANGED <<circuitOpen, recovered, stuck>>

\* Mutant of AfterSuccess: a trial's success does not close the circuit.
AfterSuccessOpen(trial) == "idle"
AfterSuccess(trial) == IF trial THEN "close" ELSE "idle"

\* f returns, or panics; a call begun after the recovery succeeds.
Finish(p) ==
  /\ At(p, "run")
  /\ \E next \in {AfterSuccess(loc[p].trial), "idle"} :
       /\ recovered /\ p \notin stuck => next = AfterSuccess(loc[p].trial)
       /\ Goto(p, next)
       /\ Becomes(p, NoLocals)
  /\ stuck' = stuck \ {p}
  /\ UNCHANGED <<circuitOpen, age, recovered>>

\* The statistics are reset, too.
Close(p) ==
  /\ At(p, "close") /\ Goto(p, "idle")
  /\ circuitOpen' = FALSE
  /\ UNCHANGED <<age, loc, recovered, stuck>>
-----------------------------------------------------------------------------
(* IsOpen.                                                                 *)

Poll(p) ==
  /\ At(p, "idle") /\ Goto(p, "loadOpen")
  /\ Becomes(p, [NoLocals EXCEPT !.caller = "poll"])
  /\ OnlyLocal

LoadOpen(p) ==
  /\ At(p, "loadOpen")
  /\ IF circuitOpen THEN Answer(p, TRUE) ELSE Goto(p, "health") /\ UNCHANGED loc
  /\ OnlyLocal

\* Health and the thresholds.
Health(p) ==
  /\ At(p, "health")
  /\ \/ Answer(p, FALSE)
     \/ Goto(p, "swapOpen") /\ UNCHANGED loc
  /\ OnlyLocal

SwapOpen(p) ==
  /\ At(p, "swapOpen")
  /\ IF circuitOpen THEN Answer(p, TRUE) ELSE Goto(p, "readTripClock") /\ UNCHANGED loc
  /\ circuitOpen' = TRUE
  /\ UNCHANGED <<age, recovered, stuck>>

ReadTripClock(p) ==
  /\ At(p, "readTripClock") /\ Goto(p, "storeTrialTime")
  /\ UNCHANGED loc /\ OnlyLocal

StoreTrialTime(p) ==
  /\ At(p, "storeTrialTime") /\ Goto(p, AnswerPc(loc[p], TRUE))
  /\ age' = loc[p].tripClock
  /\ Rewritten([loc EXCEPT ![p] = AnswerLoc(loc[p], TRUE)])
  /\ UNCHANGED <<circuitOpen, recovered, stuck>>
-----------------------------------------------------------------------------
Tick ==
  /\ age' = Older(age)
  /\ loc' = [p \in Goroutines |-> [loc[p] EXCEPT
       !.seen       = IF At(p, "readTrialClock") THEN Older(@) ELSE 0,
       !.trialClock = IF loc[p].loaded # "none" /\ ~ At(p, "readTrialClock")
                      THEN Older(@) ELSE 0,
       !.tripClock  = IF At(p, "storeTrialTime") THEN Older(@) ELSE 0]]
  /\ UNCHANGED <<circuitOpen, pc, recovered, stuck>>

\* The dependency recovers.  Somebody is left to call it.
Recover ==
  /\ ~ recovered /\ \E p \in Goroutines : ~ At(p, "run")
  /\ recovered' = TRUE
  /\ stuck' = {p \in Goroutines : At(p, "run")}
  /\ UNCHANGED <<circuitOpen, age, pc, loc>>

Advance(p) ==
  \/ LoadTrialTime(p) \/ ReadTrialClock(p) \/ SwapTrialTime(p) \/ Close(p)
  \/ LoadOpen(p) \/ Health(p) \/ SwapOpen(p) \/ ReadTripClock(p) \/ StoreTrialTime(p)

Step(p) == Begin(p) \/ Poll(p) \/ Finish(p) \/ Advance(p)

Next == (\E p \in Goroutines : Step(p)) \/ Tick \/ Recover

\* The clock and the goroutines go on; Do goes on being called, whatever the
\* metrics stream asks in between; f returns if it was called after the
\* recovery.  Nothing is assumed of the other calls of f.
Fairness ==
  /\ WF_vars(Tick)
  /\ \A p \in Goroutines :
       /\ WF_vars(Advance(p)) /\ SF_vars(Begin(p))
       /\ WF_vars(recovered /\ p \notin stuck /\ Finish(p))

Safety == Init /\ [][Next]_vars
Spec == Safety /\ Fairness
-----------------------------------------------------------------------------
\* README.md:5, "let the system recover": once the dependency answers
\* again a circuit that is open is closed, however the openings, the trials
\* that never returned and the callers that lose the race for the trial push
\* lastTrialTime about (circuitbreaker.go:130-168).
Recovers == recovered /\ circuitOpen ~> ~ circuitOpen
=============================================================================
