# Cuirass in TLA+

Cuirass is a latency and fault tolerance library: a program wraps remote calls in `Command`s
and runs them through a `CommandExecutor`, which guards each with a circuit breaker, a
semaphore, a timeout, a fallback, a request cache, a request log and metrics. This directory
models its core as TLA+ modules, checks them with TLC on small instances and proves the most
important properties with TLAPS for every value of the constants.

    tlc -config RollingNumber.cfg MCRollingNumber      # one run; PROJECT.json lists them all
    tlapm RollingNumberProofs.tla                      # the proofs of one module

## 1. Inventory

| part | source | state | operations |
|---|---|---|---|
| rolling number | `num/rollingnumber.go` | a ring of counters, its current index and the time of that index, a lock | `Increment`, `Sum`, `Reset` (no lock), `findCurrentBucket` |
| rolling percentile | `num/rollingpercentile.go` | a ring of bounded buckets of values, a lock for the ring | `Add`, `Get`, `Mean` |
| circuit breaker | `circuitbreaker/circuitbreaker.go` | `circuitOpen`, `lastTrialTime`, `snapshotTime` (atomics), two rolling numbers, dynamic properties | `Do`, `IsOpen` |
| semaphores | `util/semaphore.go`, `semaphorefactory.go` | a buffered channel; a map from group to semaphore and capacity, a lock | `TryAcquire`, `Release`; `Get` |
| executor | `executor.go` | a map from command name to breaker (a lock for each access), the factory, the metrics; the context of each call | `Exec`, `execFallback`, `IsCircuitBreakerOpen` |
| request cache | `requestcache/` | a map from command and key to answer and events, in the context | `Get`, `Add` |
| request log | `requestlog/` | a sequence of execution records, in the context | `AddExecutionInfo`, `LastRequest`, `String` |
| metrics | `metrics/commandmetrics.go` | per command a rolling number for each event seen and a rolling percentile, a lock | `update`, `TotalRequests`, `ErrorCount`, `ErrorPercentage`, ... |
| command, properties | `command.go`, `commandproperties.go`, `propertiescache.go` | immutable commands; a cache of property objects | builder; `GetProperties` |
| context helper | `util/contextutil/execute.go` | a channel for the result | `DoWithCancel`: run a function until it or the context is done |
| metrics stream | `metricsstream/handler.go` | - | an endless loop that reads metrics and breakers and writes JSON |
| examples | `examples/` | a request's context | commands that run their work in a goroutine, and execute each other; a monitor |

How they interact: `Exec` looks in the request cache; on a miss it derives a context, fetches
(or makes) the command's breaker and calls `Do` with a function that takes a slot of the
group's semaphore and calls `Run`. What `Do` returns or panics with is recovered in a deferred
function, which calls `Fallback`, updates the metrics, appends to the log and fills the cache.
All of it is called from any number of goroutines, and a `Run` may call `Exec` again with its
context. The background loops, the metrics stream and the examples' monitor, only read; but a
read turns the rings it reads, and `IsOpen` may open a circuit. Nothing is persisted and
nothing is sent, so there are no crashes or messages to model: what is hard is interleaving
(the breaker is a chain of up to twenty atomic accesses without a lock, the executor a chain
of separately locked steps, a metric a sequence of sums), time (windows, sleep windows,
snapshot intervals, nested timeouts), work that is left behind at a deadline, and the error
paths of `Exec`. PROJECT.json lists these hazards line by line.

What makes each part correct:

* rolling number: counts exactly what happened in a recent window, however it is visited;
* rolling percentile: holds the latest values of the window; what it reports covers its share;
* breaker: admits, tries or refuses each call on evidence that held during the call; lets one
  trial through in a sleep window; opens only on enough recent evidence; is closed only by a
  successful trial, and is closed when the dependency has recovered;
* semaphores: no slot leaks or is released twice; a group stays within its limit;
* executor: every call ends with an answer or an error, exactly one outcome is logged and
  counted, the cache serves what was returned for that command and key;
* contexts: a call that timed out leaves nothing behind that has time of its own, and returns;
* metrics: a total read while it is updated misses no recent request and invents none;
* log: its summary accounts for every entry.

## 2. Modules

| module | models | composed of |
|---|---|---|
| `RollingWindow` | the ring of `rollingnumber.go` as operators on a record | |
| `RollingNumber` | a `RollingNumber` under a clock; history says what it holds and has dropped | `RollingWindow` |
| `SlidingWindow` | the promise: a log of increments, forgotten between two ages | |
| `RollingPercentile` | the ring of `rollingpercentile.go` and `calculatePercentile`, as operators | `RollingWindow` |
| `CommandMetrics` | one command's metrics: `update`, and the readers of totals and percentiles | `RollingPercentile`, a `RollingWindow` for each event |
| `CircuitBreaker` | `Do` and `IsOpen`, one action for each atomic access | `RollingWindow`, twice |
| `BreakerContract` | the promise: calls are admitted, tried or refused by a circuit | |
| `Recovery` | the accesses to `circuitOpen` and `lastTrialTime` alone, with neither calls nor time bounded: liveness | |
| `Semaphores` | the factory and its semaphores as `Exec` uses them | |
| `Executor` | `Exec` with breaker map, cache, log and metrics | `RequestLog` |
| `RequestLog` | `RequestLog.String` as operators, and what it promises | |
| `Deadlines` | a request's tree of calls, with the contexts `Exec` derives and cancels, `DoWithCancel`, and the works commands leave behind | |
| `MC*` | instances for TLC: symmetry sets, the calls of a request, the executions | |
| `*Proofs` | theorems | |

### Rings

`RollingNumber.num` is the Go struct. `Recycled(n, t)` is the loop of `findCurrentBucket`, as
the set of indices it zeroes; `Kept` and `Dropped` mirror it on the history variable `stamps`.
`Increment` and `Sum` are one action each because they hold the lock. The percentile's ring
turns as the number's does, but the bound of its loop is `bucketsBehind % numBuckets`
(`ResetBuckets`), which is where it fails.

### Metrics

`update` holds `m.lock` from end to end, but the counters and the percentile have locks of
their own, and readers take `m.lock` only to look a counter up: an action of `CommandMetrics`
is what happens under one of these locks. `Counter` makes a counter when its event first
occurs; `Lookup` finds none until then, and does not come back to it. `FindBucket` and
`StoreValue` are the two halves of `RollingPercentile.Add`: the value is stored in the bucket
that was looked up, under no lock of the percentile. `ErrorPercentage` sums five counters for
the total, returns if that is zero, and sums four of them again.

### Breaker

In `CircuitBreaker` the label `pc[p]` names the next access of goroutine `p`. The labels of
`Do` and `isRequestAllowed` are `checkForceOpen`, `incRequest`, `loadTrialTime`,
`readTrialClock`, `swapTrialTime`, `allow`, `run`, ...; those of `IsOpen` and `Health` are
`readForceClosed` to `storeTrialTime`. `IsOpen` has four callers; `loc[p].caller` says where
it returns to, and `AfterAnswer` is the code after the call. Two observations from the code
shape the model. `Health` never stores the snapshot it computes in the breaker
(`atomic.StorePointer(&dest, ...)` writes a local variable): the goroutine that wins the swap
of `snapshotTime` gets the new snapshot, and everyone else, for the whole interval, the empty
one `New` made, on which `IsOpen` answers false. And the error percentage is a division of
floats: `Unhealthy` says what it amounts to when there are no requests.

`seen[p]` collects what the circuit and its switches allowed from the first step of `p`'s call
to now; `evidence`, `tripTime`, `trialTime`, `rearmed` record counted requests, the last
opening and the last trial. No action reads them.

`Recovery` has the same labels without the statistics: `Health` finds the circuit healthy or
not as it pleases. The state is finite without a bound because a clock reading is kept as its
age, up to the first age past the sleep window, and because whether `lastTrialTime` still is
what a goroutine loaded is a Boolean (`loaded`), which a later store may set either way.
`recovered` is set once; calls that were under way then are in `stuck`, and need not return.

### Executor and log

In `Executor` a worker's variables are the record `call[w]`. The breaker is abstract (`Decide`
admits, tries or refuses freely, as `BreakerContract` lets it), the semaphore is a counter. An
answer carries the number of the execution that produced it, so that two answers to the same
question can be told apart. `stats` and `fallback` are two sequences because `execFallback`
receives the statistics by value: the events it adds reach the log, not the cache.
(README.md's sample output shows it: `GetUserAccountCommand[RESPONSE_FROM_CACHE]` after
`[FAILURE, FALLBACK_SUCCESS]`.) `FallbackEnabled` is a set of commands: without it, `Exec`
logs a failure and returns what `err` is, without looking at the cache.

`RequestLog!String` is the loop of `String` as a fold; `IsSummary` says, without a loop, what
its parts must be.

### Deadlines

`Nested` says what each work executes, in order; the calls form a tree, which the module
assumes (a `Command` may be executed often, a call happens once). `Under(w)` is everything
below a work, as the least set of calls that is closed under `Nested`. A call's context is
`live` or done with one of two errors; `End` cancels it with all that are derived from it.
`Works` are the goroutines commands start: `Exec(w)` is the next nested call of a work,
`Finish(w)` its result. The calls in `Waits` use `DoWithCancel`, which waits for its function
once the context is done; the others select and return. Deferred functions run in reverse:
`cancel` comes before the fallback, so `Fail` cancels first. `Same` relates the calls of one
command and key: `Exec` may answer one of them from the cache (`Cached`), before a context is
derived, with what an earlier one returned, its error included.

## 3. Runs

| run | bounds | shows |
|---|---|---|
| `rolling_number` | 3 buckets raised to 2 units, 13 instants, 3 increments | exact counts; nothing of age `ForgetAge` or more counted; nothing of age `KeepAge` or less dropped; the ring implements `SlidingWindow` |
| `metrics` | 1 worker, 1 reader, 2 buckets of 2 values, 4 instants, 3 updates, 1 read of the totals, any number of the percentile | totals, errors, buckets and percentiles as readers see them |
| `percentile_idle` | 1 update, 5 instants | *violation*, see section 5 |
| `breaker` | 2 goroutines, 3 calls, 3 instants, 1 property change | every verdict is justified; trials are spaced; `BreakerContract` is implemented, and the steps of `Recovery` are all there are |
| `breaker_sequential` | 1 goroutine, 6 calls, 6 instants, 2 buckets | the circuit opens on evidence; no trial within the sleep window of the opening |
| `recovery` | 2 goroutines, sleep window 2; calls and time unbounded | an open circuit of a recovered dependency is closed |
| `breaker_early_trial`, `breaker_stale_reopen` | 2 goroutines, 4 calls, 4 instants | *violations*, see section 5 |
| `semaphores` | 3 workers, 2 groups, limits 1 and 2, 2 changes, 5 semaphores | slots, releases, limits |
| `executor` | 2 workers, 3 calls, 2 commands (one with a fallback) under one cache key, every outcome, execution times -1 and 1 | answers, errors, events, metrics, cache, log and its summary agree |
| `executor_breakers` | 2 workers, 2 calls | *violation*, see section 5 |
| `deadlines` | 5 calls, nested, timers of 1 and 2 units, one that waits, two with fallbacks | contexts end with `Run`; what is left behind; timed calls and the request end |

Why the bounds are enough. The ring of `rolling_number` has to be gone round at least twice,
with visits at every offset in a bucket: 12 instants for 3 buckets of 2. In `metrics` a ring
of two buckets of one unit is gone round and comes back; the third update overflows a bucket
of two; a read of at most nine sums can have every update and tick between any two of them.
The races of the breaker are between two goroutines: one call opens the circuit (a single
error does, with the thresholds of the run), and two race for the trial; the violations need a
fourth call to see the effect. One bucket as wide as the behaviour keeps the ring out of the
way where races are the question; `breaker_sequential` has two buckets and lets them expire.
`recovery` has a goroutine that may lose every race and one to win it; its sleep window lets a
reading be inside, at and past the end. `StampedeIsBounded` claims at most one miss for each
worker: three calls by two workers leave room for a third. A negative time is a clock set
back; two entries of one unit each make a whole millisecond together and none apart. Five
semaphores are two for the groups and one more for each change and each worker that read the
limit before it. The request of `deadlines` nests three deep. The inner timers are shorter
than the outer ones, but start later: either may fire first, or both at once. `account` and
`order`, in different subtrees, are calls of one command under one key, so the second may be a
hit. The errors a `Run` returns in `executor` are a timeout and a rejection, which a call it
makes may have returned to it; the proofs are for every error `Exec` knows.

`MaxTime`, `MaxCalls`, `MaxChanges`, `MaxIncrements`, `MaxUpdates`, `MaxReads`,
`MaxSemaphores` and `MaxExecs` bound the clock, calls, property changes, increments, updates,
reads, semaphores and executions; each is a guard of the action that counts up. Symmetry is
declared for goroutines, workers and groups, which are interchangeable, and only where safety
is checked.

Deadlock is not checked where the bounded calls run out: the program is then idle. In
`Semaphores` a worker also stops where the factory would need one semaphore more than the
bound, and in `deadlines` the request ends. It is checked in `recovery`, `metrics`,
`percentile_idle` and `rolling_number`.

### Fairness

`Recovery`: the clock goes on and a goroutine that is inside the breaker goes on (`WF` of
`Tick` and `Advance`); `Do` goes on being called, by each goroutine that is ever again idle,
although the metrics stream may poll in between (`SF` of `Begin`: a poll leaves and re-enters
the idle state, so weak fairness would let the stream keep callers out); `f` returns if it was
called after the recovery. A call from before may hang for ever. Without callers a circuit
stays open, in the code as here: only a trial closes it.

`Deadlines`: timers fire and goroutines that can go on do. A work need not ever end, which is
what timeouts are for, except the work of a call that waits for it (`Waits`), and that only
once its context is done: this is what `DoWithCancel` asks of its function by cancelling it.
`TimedCallsReturn` is false without it.

All other runs check safety, and assume no fairness.

## 4. Proofs

`RollingNumberProofs` proves, for every window size, number of buckets and least bucket size,
and any length of behaviour, that the number is well typed, counts exactly what it holds,
counts nothing of age `ForgetAge` or more and drops nothing of age `KeepAge` or less. Neither of
the last two is inductive: from the age of an increment alone one cannot tell when its bucket
will be recycled. `IInv` adds `AgeByDistance`: an increment whose bucket is `d` moves of the
ring behind the current one is older than `d - 1` and at most `2 * d` bucket sizes, at the
ring's clock. A move of the ring accounts for at least one bucket size (the division rounds
down) and less than two; `RingKeeps` and `RingRecycles` say how far behind a bucket is after a
visit, which is modular arithmetic, and `DivBounds` and `ProductOrder` turn moves into time.

The ring also implements `SlidingWindow` (`ImplementsWindow`). The abstract log is what the
buckets hold: an `Increment` records in it, a visit forgets what it recycles, and `Sum` returns
its total. Both sums, of the buckets and of the log, are folds. `RollingWindowProofs` says what
such a fold is for every finite domain: any function on the subsets of the domain that adds
one element at a time gives it (`SumIs`), because two such functions agree, by induction over
subsets (`SubsetInduction`, from the library's well-founded order on them). It is therefore
the number of units counted (`SumIsCount`), however these are divided into parts
(`SumOfParts`); what the operations do to it follows (`VisitSum`, `IncrementSum`, `EmptySum`).

`CircuitBreakerProofs` proves, for any number of goroutines and any thresholds, type
correctness, `VerdictJustified` and `TrialSpacing`. `IInv` says for each label what the
goroutine has read so far and that `seen` contains it (`Justified`), that `seen` contains the
present verdicts (`CurrentSeen`), and that the last writer of `lastTrialTime` is an opening or
the last trial (`LastWriter`). `TrialSpacing` follows: a trial is taken by a swap that
succeeded, so `lastTrialTime` still is what the goroutine loaded, and it is past it by more
than the sleep window.

`OpensOnEvidence` and `TrialAfterSleep` are false for two goroutines: these are findings 2 and
3 of section 5. For one goroutine they are proved (`AloneOpensOnEvidence`,
`AloneTrialAfterSleep`), for any number of calls, any thresholds and intervals and any changes
of the switches: it is the interleaving that breaks them, and nothing else. Beside `IInv` the
proof needs `Alone`: the requests in the ring are at most those counted since the last reset,
and so are those a goroutine has summed (`Evidenced`), and the `lastTrialTime` of an open
circuit is not from before the opening, except between the swap and the store (`Rearmed`).
Between the sum and the swap, and between the swap and the store, is where a second goroutine
does its harm.

It also proves the two refinements, safety only: every step of the breaker is one of
`BreakerContract` or a stutter (`ContractImplemented`), and one of `Recovery` or a stutter
(`RecoveryImplemented`). There is a lemma for each group of labels and a theorem that collects
them; `IInv` supplies what a mapping needs to know of the state before. Two parts of it are
there for this alone. `Returning`: while a goroutine is inside `IsOpen` it has a caller to
return to, and outside it has none, which says where an answer goes. `Unforced`: before the
first property change both switches are off, so the contract's first state has its verdicts.
For `Recovery` the mapping also has to show that an age follows from two readings of the clock:
a time older than the first age past the sleep window keeps that age at every tick
(`Older`), and `loaded` follows from comparing `lastTrialTime` with what was loaded. What is
then proved of `Recovery` about liveness by TLC is not inherited: the breaker's run assumes no
fairness.

`RecoveryProofs` proves `Recovery` well typed for any number of goroutines and any sleep
window: ages stay below a bound that no guard enforces, so with finitely many goroutines its
states are finitely many, which is why the run `recovery` needs no bound.

`SemaphoresProofs` proves, for any number of workers, groups, limits and changes of them,
every property of the run `semaphores`. `IInv` takes `SlotsAreHeld` (which is inductive once
the types hold), and adds `OneGroup`, the semaphores in the map are distinct and their users
are of the group they were made for, and `Unchanged`, until a limit changes every user of a
semaphore uses the one in the map. `GroupIsLimited` follows: the running commands of a group
are holders of one semaphore, its slots are as many as its holders, and a channel holds at
most its capacity.

`ExecutorProofs` proves, for any finite number of workers and any number of commands, keys and
calls, that `Exec` is well typed (`taken` does not pass the limit, or fall below zero),
`NoErrorMeansAnswer`, `EventsTellOutcome` and `ServedWasReturned`. They are about the log,
which only grows; what makes them true happened before, so `IInv` says for each label what a
call has been through (`Progress`): nothing yet (`Fresh`), something recovered (`Raised`), one
of the four ways an execution ends (`Ended`: it succeeded, failed without a fallback, was
replaced by the fallback, or the fallback gave up), or an answer from the cache (`FromCache`).
`CacheIsReturned` carries the cache: an entry is the answer of some logged execution of its
command and key (it is logged before it is cached), under one of two event sequences.
`SlotsHeld` counts the workers in `Run`, which types `taken`. Steps fall into those that
neither log nor cache (`Step_Unlogged`, `Step_Quiet`), those that end a call (`Step_Home`),
and the two that write the log and the cache.

The same module proves `ExecutionsCountOnce` and `StampedeIsBounded`, which relate the log to
the calls under way by cardinality. The first is inductive beside `IInv`: `Ended` gives an
execution exactly one of the events that `TotalRequests` sums (`EndedIsOne`), `FromCache`
none. The second needs `Stampede`: under a command and key that nothing is cached for, the
executions logged are as many as the workers about to cache one (`Adding`); once something is
cached nobody misses any more, so logged executions and those under way (`Executing`) together
never exceed the workers. The first caching turns the one into the other, as no worker is both
adding and executing. A command without a fallback is excepted, as its failures are not cached.

Last, it proves `LogIsSummarised`, for logs of any length and any execution times. `String` is
a fold over a sequence, and a fold is defined by choosing a function that satisfies an
equation: `FoldExists` shows that there is one, again by induction over subsets, so that it can
be unrolled. `Collects` is the invariant of the loop: after `n` entries it shows a part for
each different one among them, in the place of its first occurrence (`Places`), with their
number and their time (`Tallies`). The next entry is either of a part that is shown already
(`CollectsOther`) or of a new one (`CollectsFirst`); `WholeMilliseconds` is the rounding at the
end.

`DeadlinesProofs` proves, for every tree of calls, finite or not, whatever their timeouts and
whichever of them wait, type correctness, `ContextEndsWithRun`, `OrphansOfDeadlines` and
`CancellationIsNotSeen`. That `Under` is the least closed set makes this a proof without
induction over the tree: what holds of everything below a call is shown by naming a closed set
(`UnderLeast`, and from it `UnderTransitive` and `UnderParent`; the latter needs that the
calls form a tree). `OrphansOfDeadlines` is not inductive, because how a call was left behind
was decided earlier and above it. `IInv` adds `InOrder`, a work has made its calls in turn and
only its latest can be under way; `Consistent`, what a call's phase says of its work, context,
timer and result; `DoneBelow`, a context that is done has no live one below; and `Settled`,
when a work has ended or its `Exec` is past `Run`, all that is still running below has its
context done and a deadline above that accounts for it (`Accounted`).

`CommandMetricsProofs` proves, for any number of workers and readers, every ring of buckets
and every set of executions, type correctness, `BucketsKeepLatest`, `RecentUnlessIdled` and
`KeepsRecentValues`. As for the rolling number, ages follow from how far behind the current
one a bucket is. But a value is looked up and stored at different times, so there are two
bounds. `FoundByDistance`: it was looked up more than `d - 1` bucket sizes ago; a worker that
is between the two halves of `Add` obeys this as the stored values do, however late it comes.
`StoredByDistance`: it was stored at most `2 * d` bucket sizes ago, as long as no visit came
so late that the loop's bound, `bucketsBehind % numBuckets`, left a bucket out (`idled`): this
is where the defect of section 5 enters the proof. `Aligned`, the place a bucket fills next is
the count of what was added modulo its size, gives `BucketsKeepLatest` (`ModDistinct`,
`ModNext`).

The same module proves what a read returns. `TotalIsJustified` compares a sum, over counters
that are visited one after the other, with what had occurred before the read; no single state
holds what it counted. `Accounts` says where each occurrence of a counter is, in one of its
buckets or dropped, that the buckets count them, and how old they can be. `Justified` says
that for each read there are two sets of occurrences, of the sizes summed so far as total and
as errors (`ReadsAreJustified`): nothing in the first was old when the read began, and nothing
from before it that is still counted is missing; what is in the second and from before the
read is in the first. Each sum adds to them what its counter holds (`AccountsSum`).
`TotalCountsRecent` and `ErrorsWithinTotal` follow, the latter because an error that was read
and is not in the total occurred while the read was under way.

`PercentilesCover` needs nothing of the behaviour but types: it is about places in a sorted
sequence. `Sorted` says what sorting does by rank, since the prover has no theory of a sort;
`SortedCounts` shows that such a value exists for each place, `SortedAscends` that they ascend,
`Between` that interpolation stays between two neighbours, and `RankPlaces` and
`PercentileCases` that the roundings of the rank leave no place out.

The assumptions are those the modules name (`WindowAssumption`, `BoundAssumption`,
`BreakerAssumption`, `RecoveryAssumption`, `SemaphoreAssumption`, `ExecutorAssumption`,
`PercentileAssumption`, `MetricsAssumption`, `DeadlineAssumption`), which TLC evaluates in the
runs.

Every safety property that a passing run checks is proved. Model-checked only is liveness
under fairness, which is out of the prover's reach: `Recovers`, `TimedCallsReturn` and
`RequestEnds`.

## 5. Findings

Each of these has a run whose counterexample TLC prints.

1. `percentile_idle`: `RollingPercentile.findCurrentBucket` resets `bucketsBehind %
   numBuckets` buckets (rollingpercentile.go:57). Visited for the first time after exactly one
   window, it resets none, and old values are reported; `RecentUnlessIdled` is what does hold.
2. `breaker_early_trial`: between the swap that opens the circuit and the store of
   `lastTrialTime` another goroutine takes a trial at once.
3. `breaker_stale_reopen`: statistics summed before a recovery reopen the circuit after it.
4. `executor_breakers`: concurrent first executions run under different breakers.

Further disagreements follow from single lines, or are pinned down by a property that does
hold, and have no run:

* The ring's clock restarts at the visit (rollingnumber.go:107), so an increment may be
  counted for almost twice the window that :17-18 promise. `CountedIsRecent` is the bound that
  holds.
* A panic of `Run` with the fallback disabled returns neither an answer nor an error
  (executor.go:76; :67 says panics are returned as errors). `NoErrorMeansAnswer` is proved
  with this, and only this, exception.
* With the fallback disabled `Exec` adds a `Failure` event whatever it recovered
  (executor.go:74), so a short-circuited, rejected or timed out execution is logged as a
  failure (the last conjunct of `EventsTellOutcome`).
* Concurrent executions under one key each execute, and the last overwrites what the cache has
  already served (executor.go:86): two calls of a request may get different answers.
  `StampedeIsBounded` says how many execute.
* With `ForceOpen` and `ForceClosed` both set `Do` rejects (circuitbreaker.go:116) while
  `IsOpen` reports a closed circuit (:172).
* With a timeout configured, the fallback is given a context that is already done
  (executor.go:104: `cancel` is deferred after the function that calls the fallback).
* With `metrics.rollingPercentile.bucketSize` 0 the first timed update panics in
  `percentileBucket.add` (rollingpercentile.go:143) while it holds `m.lock` without a `defer`
  (commandmetrics.go:86). The panic leaves `Exec`'s deferred function to the caller, and the
  lock is never released: the next update or read of the command waits for ever.
* The stream's loop ends on no condition (handler.go:27): it goes on when its client has left.
* The stream reports the semaphore's rejections as those of a thread pool (handler.go:108) and
  0 as the semaphore's (:105).

## 6. Simplifications, and what is not modelled

* The wall clock is not set back, and `RollingNumber`'s clock, monotonic in Go, cannot be.
  `circuitbreaker.go` compares `UnixNano` values: a clock set back by `d` holds back trials
  and snapshots for `d`. The log guards its times against it, and that is checked.
* `RollingNumber.Reset` takes no lock and stores its index, its time and bucket after bucket;
  here it is one action. In the code a racing increment can be lost, and one that has loaded
  its bucket before the reset can store the old count plus one after it: requests from before a
  recovery are then counted in the closed circuit. `CircuitBreaker` does not show either; it
  has the resets of its two counters as two steps.
* `percentileBucket.add` takes no lock, and the reset or the reading of the same bucket may be
  under way, under the ring's lock. Here each is one step: what their order leaves is modelled,
  a reset or a read in the middle of `add` is not. There it could find its bucket full, have it
  reset by readers that turn the ring, and index past its end (rollingpercentile.go:140-143).
* Percentiles are computed in exact arithmetic; the code uses floats, and truncates.
* `CommandMetrics` has the metrics of one command: commands share nothing but the map, which
  has one lock.
* A panic of `f` inside `Do` is not counted as an error, as in the code.
* Integers do not overflow: counters are 64 bits wide and a window has seconds.
* Properties that only parametrise (thresholds, sleep window) are constants of a run; those
  that switch behaviour change at run time in `CircuitBreaker`, the limits in `Semaphores`. Of
  the executor's switches, the fallback's is a constant of each command, and the request log
  and the request cache are enabled (in `Deadlines` the cache may be off at any call).
* The metrics' window is longer than a behaviour of `Executor`; `CommandMetrics` has the
  windows. In the run of `Executor` every call is cacheable: the others only leave out two
  steps.
* What `Run` or `Fallback` returns beside an error is not kept.
* The examples' goroutines write variables that `Run` reads after the deadline: a data race
  whose outcome is whether `Run` returns an error or an answer, and both are outcomes of
  `Run`.
* Not modelled: command properties (look-ups in vaquita, an external library, and a map of
  objects under one lock); the JSON of the metrics stream; the builder (immutable data).

## 7. Plan

Done: rolling number, breaker, semaphores, executor, metrics, contexts and deadlines, each
with proofs; the refinements of the rolling number and of the breaker, proved; percentile and
log summary; liveness of the breaker and of requests, by TLC.

What is left, in the order of worth: `Reset` of the rolling number store by store, racing
with `Increment`, and `percentileBucket.add` access by access; the request log and the request cache switched off; the cache of command
properties. Of what the runs check only liveness has no proof (end of section 4).
