----------------------------- MODULE Deadlines -----------------------------
(***************************************************************************)
(* One request as a tree of calls of Exec, with their contexts: executor.go *)
(* with a timeout configured, commands whose Run starts a goroutine for     *)
(* the work and selects on its result and ctx.Done(), and works that        *)
(* execute further commands, as those of examples/commands/ do.  A command  *)
(* in Waits uses util/contextutil/execute.go: when its context is done it   *)
(* waits for the work; the others leave the work behind.                    *)
(*                                                                         *)
(* The request itself (simulateRequest of examples/main.go) is the root.    *)
(* Breaker and semaphore only refuse a call here, and the cache answers as  *)
(* an earlier call of the same command and key was answered.                *)
(***************************************************************************)
EXTENDS Integers, SequencesExt

CONSTANTS Calls, Root,
          Nested,      \* Nested[c]: the calls the work of c makes, in order
          Timeout,     \* Timeout[c]: executionTimeout of c's command, 0 for none
          Waits,       \* the calls that wait for their work
          Same,        \* Same[c]: the calls of c's command and cache key, if it has one
          Fallbacks    \* the calls whose command has a fallback

Works == Calls \cup {Root}

\* A tree: every call is made by one work, at one place.
ASSUME DeadlineAssumption ==
  /\ Root \notin Calls
  /\ Nested \in [Works -> Seq(Calls)]
  /\ \A v, w \in Works : \A i \in DOMAIN Nested[v], j \in DOMAIN Nested[w] :
       Nested[v][i] = Nested[w][j] => v = w /\ i = j
  /\ Timeout \in [Calls -> Nat]
  /\ Waits \subseteq Calls /\ Fallbacks \subseteq Calls
  /\ Same \in [Calls -> SUBSET Calls]

\* Below[w]: what w executes, and what that executes, and so on: the calls
\* in every set that has what w executes and is closed.
Closed(S) == \A c \in S : ToSet(Nested[c]) \subseteq S
Below ==
  [w \in Works |-> {c \in Calls : \A S \in SUBSET Calls :
                      ToSet(Nested[w]) \subseteq S /\ Closed(S) => c \in S}]
Under(w) == Below[w]

VARIABLES phase,    \* of a call: where its Exec is
          ctx,      \* the context Run and Fallback are given
          timer,    \* what is left of its timeout
          work,     \* of a work: not started, busy, or its result
          called,   \* of a work: how many of its calls it has made
          cause,    \* of a call: why Run did not answer
          result    \* of a call: what Exec returns

vars == <<phase, ctx, timer, work, called, cause, result>>

Done == {"deadline", "canceled"}       \* ctx.Err() of a context that is done
Failures == Done \cup {"failure", "refused"}

TypeOK ==
  /\ phase \in [Calls -> {"none", "run", "wait", "fallback", "returned"}]
  /\ ctx \in [Works -> {"none", "live"} \cup Done]
  /\ timer \in [Calls -> Nat]
  /\ work \in [Works -> {"none", "busy", "answer", "failure"}]
  /\ called \in [Works -> Nat]
  /\ cause \in [Calls -> {"none"} \cup Failures]
  /\ result \in [Calls -> {"none", "answer"} \cup Failures]

\* The request has begun, with the background context.
Init ==
  /\ phase = [c \in Calls |-> "none"]
  /\ ctx = [w \in Works |-> IF w = Root THEN "live" ELSE "none"]
  /\ timer = [c \in Calls |-> 0]
  /\ work = [w \in Works |-> IF w = Root THEN "busy" ELSE "none"]
  /\ called = [w \in Works |-> 0]
  /\ cause = [c \in Calls |-> "none"]
  /\ result = [c \in Calls |-> "none"]
-----------------------------------------------------------------------------
(* Contexts: golang.org/x/net/context.                                     *)

\* The context of c is done with err, and so are those derived from it; their
\* timers are stopped.
End(c, err) ==
  LET ended == {d \in {c} \cup Under(c) : ctx[d] = "live"}
  IN  /\ ctx' = [w \in Works |-> IF w \in ended THEN err ELSE ctx[w]]
      /\ timer' = [d \in Calls |-> IF d \in ended THEN 0 ELSE timer[d]]

\* Mutant of Derived: the context of the request in place of the caller's.
DerivedFromRequest(w) == ctx[Root]
\* A context derived from a done one is done, with the same error.
Derived(w) == ctx[w]

\* Mutant of Left: a timer runs on.
LeftOver(t) == t - 1
\* What is left of a timer a moment later.
Left(t) == IF t > 0 THEN t - 1 ELSE 0

Tick ==
  /\ \E c \in Calls : timer[c] > 0
  /\ timer' = [c \in Calls |-> Left(timer[c])]
  /\ UNCHANGED <<phase, ctx, work, called, cause, result>>

\* Exec derives a context of its own if a timeout is configured.
Timed(c) == Timeout[c] # 0

Expire(c) ==
  /\ Timed(c) /\ ctx[c] = "live" /\ timer[c] = 0
  /\ End(c, "deadline")
  /\ UNCHANGED <<phase, work, called, cause, result>>
-----------------------------------------------------------------------------
(* The goroutine of a work.                                                *)

\* The call w has made last.
Current(w) == Nested[w][called[w]]
\* Mutant of InCall: the work does not wait for the calls it makes.
InCallNever(w) == FALSE
InCall(w) == called[w] > 0 /\ phase[Current(w)] # "returned"
\* Every error of a nested call ends the work that made it.
Stopped(w) == called[w] > 0 /\ ~ InCall(w) /\ result[Current(w)] # "answer"
AllCalled(w) == called[w] = Len(Nested[w])

\* The cache has the answer, or the error, of an earlier call: c is given it
\* before a context is derived.  The cache may be switched off at any time.
Cached(c) ==
  \E d \in Same[c] :
    /\ phase[d] = "returned"
    /\ phase' = [phase EXCEPT ![c] = "returned"]
    /\ result' = [result EXCEPT ![c] = result[d]]
    /\ UNCHANGED <<ctx, work, cause>>

\* w executes its next command.  The cache answers it, its Run starts the work,
\* or it is refused.
Exec(w) ==
  LET c == Nested[w][called[w] + 1]
  IN  /\ work[w] = "busy" /\ ~ InCall(w) /\ ~ Stopped(w) /\ ~ AllCalled(w)
      /\ called' = [called EXCEPT ![w] = @ + 1]
      /\ \/ Cached(c)
         \/ /\ phase' = [phase EXCEPT ![c] = "run"]
            /\ ctx' = [ctx EXCEPT ![c] = Derived(w)]
            /\ work' = [work EXCEPT ![c] = "busy"]
            /\ UNCHANGED <<cause, result>>
         \/ /\ phase' = [phase EXCEPT ![c] = "fallback"]
            /\ ctx' = [ctx EXCEPT ![c] = IF Timed(c) /\ Derived(w) = "live"
                                         THEN "canceled" ELSE Derived(w)]
            /\ cause' = [cause EXCEPT ![c] = "refused"]
            /\ UNCHANGED <<work, result>>
      /\ timer' = [timer EXCEPT ![c] = IF phase'[c] = "run" /\ ctx'[c] = "live"
                                       THEN Timeout[c] ELSE 0]

\* w has made its calls, or one failed: it sends its result to the channel,
\* which has room for it whether or not Run still listens.
Finish(w) ==
  /\ work[w] = "busy" /\ ~ InCall(w)
  /\ \/ AllCalled(w) /\ ~ Stopped(w) /\ work' = [work EXCEPT ![w] = "answer"]
     \/ (AllCalled(w) \/ Stopped(w)) /\ work' = [work EXCEPT ![w] = "failure"]
  /\ UNCHANGED <<phase, ctx, timer, called, cause, result>>
-----------------------------------------------------------------------------
(* Run's select, and what is deferred in Exec.                             *)

\* Exec's deferred functions run in reverse: cancel comes before the one that
\* answers or calls the fallback.
Cancel(c) == IF Timed(c) THEN End(c, "canceled") ELSE UNCHANGED <<ctx, timer>>

\* Run is left without an answer.
Fail(c, err) ==
  /\ phase' = [phase EXCEPT ![c] = "fallback"]
  /\ cause' = [cause EXCEPT ![c] = err]
  /\ Cancel(c)
  /\ UNCHANGED <<work, called, result>>

\* The work's result is there; it may be received when the context is done.
Receive(c) ==
  /\ phase[c] = "run" /\ work[c] \in {"answer", "failure"}
  /\ \/ work[c] = "failure" /\ Fail(c, "failure")
     \/ /\ work[c] = "answer"
        /\ phase' = [phase EXCEPT ![c] = "returned"]
        /\ result' = [result EXCEPT ![c] = "answer"]
        /\ Cancel(c)
        /\ UNCHANGED <<work, called, cause>>

\* Mutants of MayLeave: DoWithCancel does not wait; every command waits.
MayLeaveAtOnce(c) == TRUE
MayLeaveLast(c) == work[c] \in {"answer", "failure"}
\* Whether Run returns ctx.Err() now that the context is done.
MayLeave(c) == c \notin Waits \/ work[c] \in {"answer", "failure"}

\* ctx.Done() is received.
TimeOut(c) ==
  /\ phase[c] = "run" /\ ctx[c] \in Done
  /\ IF MayLeave(c) THEN Fail(c, ctx[c])
     ELSE /\ phase' = [phase EXCEPT ![c] = "wait"]
          /\ UNCHANGED <<ctx, timer, work, called, cause, result>>

StopWaiting(c) ==
  /\ phase[c] = "wait" /\ MayLeave(c)
  /\ Fail(c, ctx[c])

\* A fallback answers or fails; without one the error is returned.
Fallback(c) ==
  /\ phase[c] = "fallback"
  /\ phase' = [phase EXCEPT ![c] = "returned"]
  /\ \/ c \in Fallbacks /\ result' = [result EXCEPT ![c] = "answer"]
     \/ result' = [result EXCEPT ![c] = cause[c]]
  /\ UNCHANGED <<ctx, timer, work, called, cause>>

Next ==
  \/ \E w \in Works : Exec(w) \/ Finish(w)
  \/ \E c \in Calls : Expire(c) \/ Receive(c) \/ TimeOut(c) \/ StopWaiting(c) \/ Fallback(c)
  \/ Tick

\* Goroutines and timers are not held up for ever, and the clock goes on.  A
\* work of a call in Waits ends when its context is done: that is what
\* DoWithCancel's cancel is for.  Nothing is assumed of the other works.
Fairness ==
  /\ WF_vars(Tick)
  /\ \A w \in Works : WF_vars(Exec(w))
  /\ WF_vars(Finish(Root))
  /\ \A c \in Waits : WF_vars(ctx[c] \in Done /\ Finish(c))
  /\ \A c \in Calls :
       /\ WF_vars(Expire(c))
       /\ WF_vars(Receive(c) \/ TimeOut(c))
       /\ WF_vars(StopWaiting(c))
       /\ WF_vars(Fallback(c))

Spec == Init /\ [][Next]_vars /\ Fairness
-----------------------------------------------------------------------------
\* The context ends with Run, for the fallback, and for all that the work
\* left behind executes later (executor.go:101-105): nothing is started for
\* a call that has timed out with time of its own.
ContextEndsWithRun ==
  \A c \in Calls : Timed(c) /\ phase[c] \in {"fallback", "returned"} =>
    \A d \in {c} \cup Under(c) : ctx[d] # "live"

\* The call of c left its work behind when its deadline had passed.
LeftBehind(c) == cause[c] = "deadline" /\ c \notin Waits

\* The call of d, below c, runs below what a deadline left behind.
Accounted(c, d) ==
  LeftBehind(c) \/ \E e \in Under(c) : d \in Under(e) /\ LeftBehind(e)

\* A nested call that goes on after the call that made it has returned is
\* what that call's deadline left behind; a call that waits leaves nothing.
OrphansOfDeadlines ==
  \A c \in Calls : \A d \in Under(c) :
    phase[c] \in {"fallback", "returned"} /\ phase[d] \in {"run", "wait", "fallback"} =>
      Accounted(c, d)

\* Exec cancels contexts that nested calls run with, but what they report is
\* the deadline, so addEventForRequest (executor.go:196-212) counts a Timeout
\* and not a Failure.
CancellationIsNotSeen == \A c \in Calls : cause[c] # "canceled"

\* README.md:5, "protected with timeouts": a call with a timeout, or made by
\* one that has, returns though its work may never end.
TimedCallsReturn ==
  \A c \in Calls :
    (Timed(c) \/ \E d \in Calls : c \in Under(d) /\ Timed(d)) =>
      phase[c] = "run" ~> phase[c] = "returned"

\* So does the request, if all the calls it makes have a timeout.
RequestEnds == <>(work[Root] # "busy")
-----------------------------------------------------------------------------
(* The inductive invariant behind the three safety properties.             *)

Untouched(c) == phase[c] = "none" /\ ctx[c] = "none" /\ work[c] = "none"

\* A work makes its calls one after the other, and ends after the last.
InOrder(w) ==
  /\ called[w] <= Len(Nested[w])
  /\ work[w] = "none" => called[w] = 0
  /\ \A i \in DOMAIN Nested[w] :
       /\ i > called[w] => Untouched(Nested[w][i])
       /\ i < called[w] \/ (i = called[w] /\ work[w] # "busy") =>
            phase[Nested[w][i]] = "returned"

\* Where a call is, and its context, work and cause.
Consistent(c) ==
  /\ phase[c] = "none" => Untouched(c)
  /\ phase[c] \in {"none", "run", "wait"} => cause[c] = "none"
  /\ phase[c] \in {"run", "wait"} => ctx[c] \in {"live", "deadline"} /\ work[c] # "none"
  /\ phase[c] = "wait" => ctx[c] \in Done
  /\ cause[c] # "canceled"
  /\ phase[c] \in {"fallback", "returned"} /\ work[c] = "busy" =>
       ctx[c] = "deadline" /\ LeftBehind(c)

\* A context that is done is done for all below.
DoneBelow(c) == ctx[c] \in Done => \A d \in Under(c) : ctx[d] # "live"

\* When Run or the work has ended what still runs below has timed out, and is
\* accounted for.
Settled(c) ==
  work[c] \in {"answer", "failure"} \/ phase[c] \in {"fallback", "returned"} =>
    \A d \in Under(c) :
      /\ phase[d] \in {"run", "wait"} => ctx[d] # "live"
      /\ phase[d] \in {"run", "wait", "fallback"} => Accounted(c, d)

IInv ==
  /\ TypeOK
  /\ ctx[Root] = "live"
  /\ \A w \in Works : InOrder(w)
  /\ \A c \in Calls : Consistent(c) /\ DoneBelow(c) /\ Settled(c)
  /\ ContextEndsWithRun
=============================================================================
