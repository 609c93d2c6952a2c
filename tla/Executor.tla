------------------------------ MODULE Executor ------------------------------
(***************************************************************************)
(* executor.go: goroutines of one request call CommandExecutor.Exec.  They *)
(* share the executor's circuit breakers, semaphores and metrics and, as   *)
(* their context carries both, one request log and one request cache.  An  *)
(* action is one access to what they share, with the local work before the *)
(* next; pc[w] names the access worker w makes next.                       *)
(*                                                                         *)
(* Here a breaker's Do admits a call, makes it a trial or refuses it as it *)
(* pleases: CircuitBreaker.tla says when.  A group is one command's, its   *)
(* limit does not change: Semaphores.tla has both.  The metrics' window is *)
(* longer than the behaviour.                                              *)
(***************************************************************************)
EXTENDS RequestLog

CONSTANTS Workers,
          Commands,        \* command names
          Keys, NoKey,     \* cache keys; with NoKey a call is not cacheable
          FallbackEnabled, \* the commands whose property says so
          MaxConcurrent,   \* maxConcurrentRequests
          RunErrors,       \* errors Run returns, those of calls it makes included
          Panics,          \* values Run and Fallback panic with
          Durations,       \* execution times, for what the log shows of them
          MaxExecs         \* bound: calls of Exec

Errors == {"failure", "timeout", "circuitOpen", "rejected", "text", "unknownPanic"}

ASSUME ExecutorAssumption ==
  /\ IsFiniteSet(Workers)
  /\ FallbackEnabled \subseteq Commands
  /\ MaxConcurrent \in Nat /\ MaxExecs \in Nat
  /\ RunErrors \subseteq Errors
  /\ Panics \subseteq {"failure", "text", "other"}
  /\ Durations \subseteq Int

VARIABLES breakers,  \* circuitBreakers: the number of c's breaker, 0 for none
          created,   \* created[c]: breakers made for c
          taken,     \* messages in c's semaphore
          cache,     \* the request cache
          log,       \* the request log
          counts,    \* the metrics' event counters
          pc, call,  \* of each worker: where it is in Exec, its variables there
          execs      \* bound

vars == <<breakers, created, taken, cache, log, counts, pc, call, execs>>

Events == {"Success", "Failure", "Timeout", "ShortCircuited", "SemaphoreRejected",
           "ResponseFromCache", "FallbackSuccess", "FallbackFailure"}

\* CommandMetrics.TotalRequests
TotalRequests(c) ==
  counts[c]["Success"] + counts[c]["Failure"] + counts[c]["ShortCircuited"]
    + counts[c]["Timeout"] + counts[c]["SemaphoreRejected"]

\* What Run and Fallback return is told apart by the execution it came from.
Results == [by : {"none", "run", "fallback"}, exec : 0 .. MaxExecs]
Nil == [by |-> "none", exec |-> 0]

Cached == [result : Results, err : Errors \cup {"none"}, events : Seq(Events)]
NoEntry == [result |-> Nil, err |-> "none", events |-> << >>]

\* raised: what Exec recovers, "none" if nothing is.  stats: the events of
\* Exec's own executionStats; fallback has those execFallback's copy adds.
Calls == [cmd : Commands, key : Keys, exec : 1 .. MaxExecs,
          breaker : Nat, trial : BOOLEAN, fromCache : BOOLEAN,
          raised : Errors \cup Panics \cup {"none"},
          stats : Seq(Events), fallback : Seq(Events),
          result : Results, err : Errors \cup {"none"}]
NoCall == [exec |-> 0]

\* An entry of the log: its name and events, and, as history, the call.
Entries == [cmd : Commands, key : Keys, events : Seq(Events),
            raised : Errors \cup Panics \cup {"none"},
            result : Results, err : Errors \cup {"none"}]

TypeOK ==
  /\ breakers \in [Commands -> Nat] /\ created \in [Commands -> Nat]
  /\ taken \in [Commands -> 0 .. MaxConcurrent]
  /\ cache \in [Commands \X Keys -> Cached]
  /\ log \in Seq(Entries)
  /\ counts \in [Commands -> [Events -> Nat]]
  /\ pc \in [Workers -> {"idle", "lookup", "getBreaker", "setBreaker", "decide", "acquire",
                         "run", "recover", "fallback", "metrics", "log", "add"}]
  /\ call \in [Workers -> Calls \cup {NoCall}]
  /\ \A w \in Workers : call[w] \in IF pc[w] = "idle" THEN {NoCall} ELSE Calls
  /\ execs \in 0 .. MaxExecs

Init ==
  /\ breakers = [c \in Commands |-> 0] /\ created = [c \in Commands |-> 0]
  /\ taken = [c \in Commands |-> 0]
  /\ cache = [s \in Commands \X Keys |-> NoEntry]
  /\ log = << >>
  /\ counts = [c \in Commands |-> [e \in Events |-> 0]]
  /\ pc = [w \in Workers |-> "idle"]
  /\ call = [w \in Workers |-> NoCall]
  /\ execs = 0
-----------------------------------------------------------------------------
At(w, label) == pc[w] = label
Goto(w, label) == pc' = [pc EXCEPT ![w] = label]
Becomes(w, c) == call' = [call EXCEPT ![w] = c]
Return(w) == Goto(w, "idle") /\ Becomes(w, NoCall)

\* Command.IsCacheable: it has a key.
Cacheable(c) == c.key # NoKey

Start(w) ==
  /\ At(w, "idle") /\ execs < MaxExecs
  /\ execs' = execs + 1
  /\ \E c \in Commands, k \in Keys :
       /\ Becomes(w, [cmd |-> c, key |-> k, exec |-> execs', breaker |-> 0,
                      trial |-> FALSE, fromCache |-> FALSE, raised |-> "none",
                      stats |-> << >>, fallback |-> << >>, result |-> Nil, err |-> "none"])
       /\ Goto(w, IF Cacheable(call'[w]) THEN "lookup" ELSE "getBreaker")
  /\ UNCHANGED <<breakers, created, taken, cache, log, counts>>

\* Mutant of Slot: the command's name is not part of the cache key.
SlotOfKey(c) == <<CHOOSE d \in Commands : TRUE, c.key>>
Slot(c) == <<c.cmd, c.key>>

\* RequestCache.Get.  A hit is logged with the entry's events and returned.
Lookup(w) ==
  LET entry == cache[Slot(call[w])]
  IN  /\ At(w, "lookup")
      /\ IF entry # NoEntry
         THEN /\ Goto(w, "metrics")
              /\ Becomes(w, [call[w] EXCEPT !.fromCache = TRUE, !.stats = entry.events,
                                            !.result = entry.result, !.err = entry.err])
         ELSE Goto(w, "getBreaker") /\ UNCHANGED call
      /\ UNCHANGED <<breakers, created, taken, cache, log, counts, execs>>

\* getCircuitBreakerForCommand: the map is read under its lock ...
GetBreaker(w) ==
  LET c == call[w].cmd
  IN  /\ At(w, "getBreaker")
      /\ IF breakers[c] # 0
         THEN /\ Goto(w, "decide")
              /\ Becomes(w, [call[w] EXCEPT !.breaker = breakers[c]])
              /\ UNCHANGED created
         ELSE /\ Goto(w, "setBreaker")
              /\ created' = [created EXCEPT ![c] = @ + 1]
              /\ Becomes(w, [call[w] EXCEPT !.breaker = created'[c]])
      /\ UNCHANGED <<breakers, taken, cache, log, counts, execs>>

\* ... and written under it again, whatever came between.
SetBreaker(w) ==
  /\ At(w, "setBreaker")
  /\ breakers' = [breakers EXCEPT ![call[w].cmd] = call[w].breaker]
  /\ Goto(w, "decide")
  /\ UNCHANGED <<created, taken, cache, log, counts, call, execs>>
-----------------------------------------------------------------------------
(* CircuitBreaker.Do and the function Exec passes to it.                   *)

\* A trial's error does not matter to its caller (circuitbreaker.go:123-127).
Reported(c, error) == IF c.trial THEN "circuitOpen" ELSE error

\* Do is left, and its variables with it.
Left(c) == [c EXCEPT !.breaker = 0, !.trial = FALSE]

\* Do returns an error: Exec panics with it.
Raise(w, c, error) ==
  /\ Goto(w, "recover")
  /\ Becomes(w, [Left(c) EXCEPT !.raised = error, !.err = error])

Decide(w) ==
  /\ At(w, "decide")
  /\ \/ \E trial \in BOOLEAN :
          Goto(w, "acquire") /\ Becomes(w, [call[w] EXCEPT !.trial = trial])
     \/ Raise(w, call[w], "circuitOpen")
  /\ UNCHANGED <<breakers, created, taken, cache, log, counts, execs>>

\* Mutant of HasRoom: one too many.
HasRoomForOneMore(c) == taken[c] <= MaxConcurrent
HasRoom(c) == taken[c] < MaxConcurrent

Acquire(w) ==
  LET c == call[w]
  IN  /\ At(w, "acquire")
      /\ IF HasRoom(c.cmd)
         THEN /\ taken' = [taken EXCEPT ![c.cmd] = @ + 1]
              /\ Goto(w, "run") /\ UNCHANGED call
         ELSE /\ Raise(w, c, Reported(c, "rejected"))
              /\ UNCHANGED taken
      /\ UNCHANGED <<breakers, created, cache, log, counts, execs>>

\* Run returns a value or an error, or panics, past Do: then err is not set.
\* Its slot is released in every case.
Run(w) ==
  LET c == call[w]
  IN  /\ At(w, "run")
      /\ taken' = [taken EXCEPT ![c.cmd] = @ - 1]
      /\ \/ /\ Goto(w, "metrics")
            /\ Becomes(w, [Left(c) EXCEPT !.stats = Append(@, "Success"),
                                          !.result = [by |-> "run", exec |-> c.exec]])
         \/ \E error \in RunErrors : Raise(w, c, Reported(c, error))
         \/ \E value \in Panics :
              Goto(w, "recover") /\ Becomes(w, [Left(c) EXCEPT !.raised = value])
      /\ UNCHANGED <<breakers, created, cache, log, counts, execs>>
-----------------------------------------------------------------------------
(* Exec's deferred function and execFallback.                              *)

\* Mutant of EventFor: a rejected call is taken for a failed one.
EventForBreaker(r) ==
  CASE r = "timeout"     -> "Timeout"
    [] r = "circuitOpen" -> "ShortCircuited"
    [] OTHER             -> "Failure"
\* addEventForRequest
EventFor(r) ==
  CASE r = "timeout"     -> "Timeout"
    [] r = "circuitOpen" -> "ShortCircuited"
    [] r = "rejected"    -> "SemaphoreRejected"
    [] OTHER             -> "Failure"

\* Mutant of ErrorOf: a value of an unhandled type makes no error.
ErrorOfKnown(r) == IF r = "other" THEN "none" ELSE r
\* panicToError
ErrorOf(r) == IF r = "other" THEN "unknownPanic" ELSE r

Recover(w) ==
  LET c == call[w]
  IN  /\ At(w, "recover")
      /\ IF c.cmd \in FallbackEnabled
         THEN /\ Goto(w, "fallback")
              /\ Becomes(w, [c EXCEPT !.fallback = <<EventFor(c.raised)>>])
         ELSE /\ Goto(w, "metrics")
              /\ Becomes(w, [c EXCEPT !.stats = Append(@, "Failure")])
      /\ UNCHANGED <<breakers, created, taken, cache, log, counts, execs>>

\* Fallback answers, returns an error or, as the one Build supplies, that it is
\* not implemented (no event then), and the command's error is reported, or
\* panics: its own is.
Fallback(w) ==
  LET c == call[w]
  IN  /\ At(w, "fallback")
      /\ Goto(w, "metrics")
      /\ \/ Becomes(w, [c EXCEPT !.fallback = Append(@, "FallbackSuccess"),
                                 !.result = [by |-> "fallback", exec |-> c.exec],
                                 !.err = "none"])
         \/ Becomes(w, [c EXCEPT !.fallback = Append(@, "FallbackFailure"),
                                 !.err = ErrorOf(c.raised)])
         \/ Becomes(w, [c EXCEPT !.err = ErrorOf(c.raised)])
         \/ \E value \in Panics :
              Becomes(w, [c EXCEPT !.fallback = Append(@, "FallbackFailure"),
                                   !.err = ErrorOf(value)])
      /\ UNCHANGED <<breakers, created, taken, cache, log, counts, execs>>
-----------------------------------------------------------------------------
(* logRequest, and the request cache.                                      *)

\* The events of the execution; only one of the two is not empty.
EventsOf(c) == c.stats \o c.fallback

\* Mutant of Counted: an answer from the cache counts as an execution.
CountedAll(events) == ToSet(events)
\* CommandMetrics.update: of a cached answer only that it was cached.
Counted(events) ==
  IF "ResponseFromCache" \in ToSet(events) THEN {"ResponseFromCache"} ELSE ToSet(events)

UpdateMetrics(w) ==
  LET c == call[w]
  IN  /\ At(w, "metrics")
      /\ counts' = [counts EXCEPT ![c.cmd] =
                      [e \in Events |-> @[e] + IF e \in Counted(EventsOf(c)) THEN 1 ELSE 0]]
      /\ Goto(w, "log")
      /\ UNCHANGED <<breakers, created, taken, cache, log, call, execs>>

\* Mutant of Remembers: only answers without an error are cached.
RemembersSuccess(c) == Cacheable(c) /\ ~ c.fromCache /\ c.err = "none"
\* Whether the deferred function goes on to cache.Add; with the fallback
\* disabled it has returned before.
Remembers(c) ==
  /\ Cacheable(c) /\ ~ c.fromCache
  /\ c.raised # "none" => c.cmd \in FallbackEnabled

AppendLog(w) ==
  LET c == call[w]
  IN  /\ At(w, "log")
      /\ log' = Append(log, [cmd |-> c.cmd, key |-> c.key, events |-> EventsOf(c),
                             raised |-> c.raised, result |-> c.result, err |-> c.err])
      /\ IF Remembers(c) THEN Goto(w, "add") /\ UNCHANGED call ELSE Return(w)
      /\ UNCHANGED <<breakers, created, taken, cache, counts, execs>>

\* RequestCache.Add, over whatever is there.  execFallback was given a copy of
\* the statistics: what it added to them is not remembered.
AddToCache(w) ==
  LET c == call[w]
  IN  /\ At(w, "add")
      /\ cache' = [cache EXCEPT ![Slot(c)] =
                     [result |-> c.result, err |-> c.err,
                      events |-> Append(c.stats, "ResponseFromCache")]]
      /\ Return(w)
      /\ UNCHANGED <<breakers, created, taken, log, counts, execs>>

Step(w) ==
  \/ Start(w) \/ Lookup(w) \/ GetBreaker(w) \/ SetBreaker(w)
  \/ Decide(w) \/ Acquire(w) \/ Run(w) \/ Recover(w) \/ Fallback(w)
  \/ UpdateMetrics(w) \/ AppendLog(w) \/ AddToCache(w)

Next == \E w \in Workers : Step(w)

Spec == Init /\ [][Next]_vars
-----------------------------------------------------------------------------
Served(e) == "ResponseFromCache" \in ToSet(e.events)
Logged(c) == {i \in DOMAIN log : log[i].cmd = c /\ ~ Served(log[i])}
Unlogged(c) == {w \in Workers : At(w, "log") /\ call[w].cmd = c /\ ~ call[w].fromCache}
LoggedUnder(c, k) == {i \in Logged(c) : log[i].key = k}

\* executor.go:67, "Panics are recovered and returned as errors": a call
\* whose error is nil has an answer, its own, its fallback's or a cached one;
\* all but one that panicked, past the breaker, with its fallback disabled.
NoErrorMeansAnswer ==
  \A i \in DOMAIN log :
    log[i].err = "none" => \/ log[i].result # Nil
                           \/ log[i].raised \in Panics /\ log[i].cmd \notin FallbackEnabled

\* log.go:13-26: the first event of an execution says what became of it, also
\* when others raced for the circuit and the semaphore: short-circuited only
\* if its breaker, or that of a call Run made, said so, and rejected likewise.  The last says
\* where the answer came from.  Without a fallback whatever is no success is
\* a failure, timed out, short-circuited and rejected alike.
EventsTellOutcome ==
  \A i \in DOMAIN log :
    LET e == log[i]
        last == e.events[Len(e.events)]
    IN  ~ Served(e) =>
          /\ e.events[1] = "Success" <=> e.raised = "none"
          /\ e.cmd \in FallbackEnabled =>
               /\ e.events[1] = "Timeout" <=> e.raised = "timeout"
               /\ e.events[1] = "ShortCircuited" <=> e.raised = "circuitOpen"
               /\ e.events[1] = "SemaphoreRejected" <=> e.raised = "rejected"
               /\ last = "FallbackSuccess" <=> e.result.by = "fallback"
               /\ last \in {"Success", "FallbackSuccess"} <=> e.err = "none"
          /\ e.cmd \notin FallbackEnabled =>
               /\ e.raised # "none" <=> e.events = <<"Failure">>
               /\ e.result.by # "fallback"

\* TotalRequests (commandmetrics.go:60-67) counts every execution once, and
\* no answer from the cache: it is what the log and those about to be logged
\* amount to, at every moment.
ExecutionsCountOnce ==
  \A c \in Commands :
    TotalRequests(c) = Cardinality(Logged(c)) + Cardinality(Unlogged(c))

\* What the cache serves is what an execution of the same command and key
\* returned and logged before.
ServedWasReturned ==
  \A i \in DOMAIN log : Served(log[i]) =>
    \E j \in 1 .. i - 1 :
      /\ ~ Served(log[j]) /\ log[j].cmd = log[i].cmd /\ log[j].key = log[i].key
      /\ log[j].result = log[i].result /\ log[j].err = log[i].err

\* Nothing stops goroutines from executing the same command and key at once,
\* but each does so at most once: then the answer, or the error, is cached.
StampedeIsBounded ==
  \A c \in FallbackEnabled, k \in Keys \ {NoKey} :
    Cardinality(LoggedUnder(c, k)) <= Cardinality(Workers)

\* RequestLog.String tells of every execution and every cached answer once, in
\* the order they came, when the goroutines have returned: whatever they took,
\* with a clock that may have been set back.
LogIsSummarised ==
  (\A w \in Workers : At(w, "idle")) =>
    \A took \in [DOMAIN log -> Durations] :
      LET entries == [i \in DOMAIN log |->
                        [cmd |-> log[i].cmd, events |-> log[i].events, time |-> took[i]]]
      IN  IsSummary(String(entries), entries)

\* executor.go:65-66, "Every command execution is guarded by an internal
\* circuit-breaker", and :24, "Executor must be safe to be accessed by
\* multiple goroutines": two executions of a command are guarded by the same.
OneBreakerPerCommand ==
  \A v, w \in Workers :
    At(v, "run") /\ At(w, "run") /\ call[v].cmd = call[w].cmd
      => call[v].breaker = call[w].breaker
-----------------------------------------------------------------------------
(* The inductive invariant behind TypeOK, NoErrorMeansAnswer,              *)
(* EventsTellOutcome and ServedWasReturned, and after it the one behind    *)
(* StampedeIsBounded; ExecutionsCountOnce is inductive beside the first.   *)

\* The workers that hold a slot of c's semaphore.
Holders(c) == {w \in Workers : At(w, "run") /\ call[w].cmd = c}
SlotsHeld == \A c \in Commands : taken[c] = Cardinality(Holders(c))

\* Nothing has happened yet to a call that is on its way to Run.
Fresh(c) == /\ ~ c.fromCache /\ c.raised = "none" /\ c.err = "none"
            /\ c.stats = << >> /\ c.fallback = << >> /\ c.result = Nil

\* What Exec has recovered; err is nil only after a panic of Run.
Raised(c) == /\ ~ c.fromCache /\ c.raised # "none" /\ c.result = Nil
             /\ c.err = "none" => c.raised \in Panics

\* The four ways an execution ends.
Succeeded(c) == /\ c.raised = "none" /\ c.err = "none" /\ c.result.by = "run"
                /\ c.stats = <<"Success">> /\ c.fallback = << >>
Failed(c) == /\ c.cmd \notin FallbackEnabled /\ Raised(c)
             /\ c.stats = <<"Failure">> /\ c.fallback = << >>
Replaced(c) == /\ c.cmd \in FallbackEnabled /\ c.raised # "none" /\ c.stats = << >>
               /\ c.fallback = <<EventFor(c.raised), "FallbackSuccess">>
               /\ c.err = "none" /\ c.result.by = "fallback"
GaveUp(c) == /\ c.cmd \in FallbackEnabled /\ c.raised # "none" /\ c.stats = << >>
             /\ c.fallback \in {<<EventFor(c.raised)>>, <<EventFor(c.raised), "FallbackFailure">>}
             /\ c.err # "none" /\ c.result = Nil
Ended(c) == ~ c.fromCache /\ (Succeeded(c) \/ Failed(c) \/ Replaced(c) \/ GaveUp(c))

\* An execution of this command and key was logged with this answer.
Returned(cmd, key, result, err) ==
  \E j \in DOMAIN log :
    /\ ~ Served(log[j]) /\ log[j].cmd = cmd /\ log[j].key = key
    /\ log[j].result = result /\ log[j].err = err

\* An answer from the cache.
FromCache(c) ==
  /\ c.fromCache /\ c.raised = "none" /\ c.fallback = << >>
  /\ c.stats \in {<<"ResponseFromCache">>, <<"Success", "ResponseFromCache">>}
  /\ c.err = "none" => c.result # Nil
  /\ Returned(c.cmd, c.key, c.result, c.err)

Progress(w) ==
  LET c == call[w]
  IN  /\ pc[w] \in {"lookup", "getBreaker", "setBreaker", "decide", "acquire", "run"} => Fresh(c)
      /\ pc[w] \in {"recover", "fallback"} => Raised(c) /\ c.stats = << >>
      /\ At(w, "recover") => c.fallback = << >>
      /\ At(w, "fallback") => c.cmd \in FallbackEnabled /\ c.fallback = <<EventFor(c.raised)>>
      /\ pc[w] \in {"metrics", "log", "add"} => Ended(c) \/ FromCache(c)
      /\ At(w, "add") => /\ Ended(c) /\ ~ Failed(c)
                         /\ Returned(c.cmd, c.key, c.result, c.err)

CacheIsReturned ==
  \A c \in Commands, k \in Keys :
    LET entry == cache[<<c, k>>]
    IN  entry # NoEntry =>
          /\ entry.events \in {<<"ResponseFromCache">>, <<"Success", "ResponseFromCache">>}
          /\ entry.err = "none" => entry.result # Nil
          /\ Returned(c, k, entry.result, entry.err)

IInv ==
  /\ TypeOK
  /\ SlotsHeld
  /\ \A w \in Workers : Progress(w)
  /\ CacheIsReturned
  /\ NoErrorMeansAnswer
  /\ EventsTellOutcome
  /\ ServedWasReturned

\* The calls that missed under this command and key, before they are logged
\* and after, until they are cached.
Under(c, k, labels) ==
  {w \in Workers : /\ pc[w] \in labels /\ ~ call[w].fromCache
                   /\ call[w].cmd = c /\ call[w].key = k}
Executing(c, k) ==
  Under(c, k, {"getBreaker", "setBreaker", "decide", "acquire", "run", "recover",
               "fallback", "metrics", "log"})
Adding(c, k) == Under(c, k, {"add"})

\* Until the first is cached every execution that was logged is about to be,
\* by a worker of its own; from then on nobody misses.
Stampede ==
  \A c \in FallbackEnabled, k \in Keys \ {NoKey} :
    IF cache[<<c, k>>] = NoEntry
    THEN Cardinality(LoggedUnder(c, k)) = Cardinality(Adding(c, k))
    ELSE Cardinality(LoggedUnder(c, k)) + Cardinality(Executing(c, k)) <= Cardinality(Workers)
=============================================================================
