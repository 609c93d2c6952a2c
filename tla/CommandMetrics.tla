--------------------------- MODULE CommandMetrics ---------------------------
(***************************************************************************)
(* metrics/commandmetrics.go: the CommandMetrics of one command.  Workers  *)
(* are executors' goroutines that call update; readers ask for the error   *)
(* percentage, the mean and the percentiles, as metricsstream/handler.go   *)
(* and the monitor of examples/main.go do in a loop.                       *)
(*                                                                         *)
(* update holds m.lock throughout, but the counters and the percentile     *)
(* have locks of their own and readers take m.lock for the look-up of a    *)
(* counter only: they see an update half done.  An action is what happens  *)
(* under one of these locks, or the store of a value, under no lock of     *)
(* the percentile.                                                         *)
(***************************************************************************)
EXTENDS RollingPercentile

CONSTANTS Workers, Readers,
          Executions,    \* what update is called with: time and events
          Percentiles,   \* percentiles asked for, in tenths of a percent
          MaxTime,       \* bound: the clock stops here
          MaxUpdates,    \* bound: calls of update
          MaxReads       \* bound: calls of ErrorPercentage

\* Events no execution has have no counter, and a reader that looks one up
\* changes nothing; the sequences leave them out.
Events == UNION {ToSet(x.events) : x \in Executions}

\* Exec reports what became of the command: one event at least.
ASSUME MetricsAssumption ==
  /\ \A x \in Executions : x.time \in Nat /\ x.events \in Seq(Events) \ {<< >>}
  /\ Percentiles \subseteq 0 .. 1000
  /\ {MaxTime, MaxUpdates, MaxReads} \subseteq Nat

VARIABLES eventCounters,  \* a map: its domain grows as events occur
          executionTime,
          lock,           \* m.lock: the worker that holds it, or "free"
          now,            \* what clock.Now() returns
          pc, update,     \* of workers: the access made next, the call
          read,           \* of readers: the call of ErrorPercentage
          updates, reads, \* bounds
          occurred,       \* history: when each event was counted
          added,          \* history: values stored in a bucket since its reset
          idled           \* history: the percentile was once not visited for
                          \* as long as its window

metrics == <<eventCounters, executionTime, lock>>
history == <<occurred, added, idled>>
vars == <<metrics, now, pc, update, read, updates, reads, history>>

Untimed == {"ShortCircuited", "SemaphoreRejected"}

\* The counters TotalRequests and ErrorCount read, in their order.
IfKnown(e) == IF e \in Events THEN <<e>> ELSE << >>
ErrorEvents ==
  IfKnown("Failure") \o IfKnown("Timeout")
    \o IfKnown("ShortCircuited") \o IfKnown("SemaphoreRejected")
\* Mutant of TotalEvents: failures are left out of the total.
TotalEventsFewer ==
  IfKnown("Success") \o IfKnown("Timeout")
    \o IfKnown("ShortCircuited") \o IfKnown("SemaphoreRejected")
TotalEvents == IfKnown("Success") \o ErrorEvents
ReadEvents == TotalEvents \o ErrorEvents

\* todo: events still to be counted.  bucket: what Add's look-up found.
Updates == [todo : Seq(Events), timed : BOOLEAN, time : Nat, bucket : Buckets, found : Nat]
NoUpdate == [todo |-> << >>, timed |-> FALSE, time |-> 0, bucket |-> 0, found |-> 0]

\* next: the counter read next.  history: started, before (what had occurred).
Reads == [next : 1 .. Len(ReadEvents) + 1, total : Nat, errors : Nat,
          started : Nat, before : [Events -> Nat]]
NoRead == [next |-> 1, total |-> 0, errors |-> 0, started |-> 0,
           before |-> [e \in Events |-> 0]]

TypeOK ==
  /\ DOMAIN eventCounters \subseteq Events
  /\ \A e \in DOMAIN eventCounters : eventCounters[e] \in RollingNumbers
  /\ executionTime \in RollingPercentiles
  /\ lock \in Workers \cup {"free"} /\ now \in 0 .. MaxTime
  /\ pc \in [Workers \cup Readers ->
               {"idle", "count", "find", "store", "lookup", "sum", "done"}]
  /\ update \in [Workers -> Updates] /\ read \in [Readers -> Reads]
  /\ updates \in 0 .. MaxUpdates /\ reads \in 0 .. MaxReads
  /\ occurred \in [Events -> Seq(Nat)] /\ added \in [Buckets -> Seq(Items)]
  /\ idled \in BOOLEAN

\* fetchMetrics has just made the metrics of the command.
Init ==
  /\ eventCounters = << >>
  /\ executionTime = NewRollingPercentile(0)
  /\ lock = "free" /\ now = 0
  /\ pc = [g \in Workers \cup Readers |-> "idle"]
  /\ update = [w \in Workers |-> NoUpdate]
  /\ read = [r \in Readers |-> NoRead]
  /\ updates = 0 /\ reads = 0
  /\ occurred = [e \in Events |-> << >>]
  /\ added = [b \in Buckets |-> << >>]
  /\ idled = FALSE
-----------------------------------------------------------------------------
At(g, label) == pc[g] = label
Goto(g, label) == pc' = [pc EXCEPT ![g] = label]

\* A visit of the percentile and its history: what a reset bucket held is gone.
VisitPercentile ==
  /\ executionTime' = Visited(executionTime, now)
  /\ added' = [b \in Buckets |->
                 IF BucketsBehind(executionTime, now) > 0 /\ b \in ResetBuckets(executionTime, now)
                 THEN << >> ELSE added[b]]
  /\ idled' = (idled \/ BucketsBehind(executionTime, now) >= NumBuckets)
-----------------------------------------------------------------------------
(* update.                                                                 *)

\* An answer from the cache counts as that and nothing else.
BeginUpdate(w) ==
  /\ At(w, "idle") /\ lock = "free" /\ updates < MaxUpdates
  /\ lock' = w /\ updates' = updates + 1
  /\ Goto(w, "count")
  /\ \E x \in Executions :
       LET cached == "ResponseFromCache" \in ToSet(x.events)
       IN  update' = [update EXCEPT
             ![w].todo  = IF cached THEN <<"ResponseFromCache">> ELSE x.events,
             ![w].timed = ~ cached /\ ToSet(x.events) \cap Untimed = {},
             ![w].time  = x.time]
  /\ UNCHANGED <<eventCounters, executionTime, now, read, reads, history>>

\* Mutant of Counter: what the map has is not used.
CounterFresh(e) == NewRollingNumber(now)
\* findEventCounter: a counter is made when its event first occurs.
Counter(e) == IF e \in DOMAIN eventCounters THEN eventCounters[e] ELSE NewRollingNumber(now)

CountEvent(w) ==
  LET e    == Head(update[w].todo)
      rest == Tail(update[w].todo)
      last == rest = << >> /\ ~ update[w].timed
  IN  /\ At(w, "count")
      /\ eventCounters' = [x \in DOMAIN eventCounters \cup {e} |->
                             IF x = e THEN Incremented(Counter(e), now) ELSE eventCounters[x]]
      /\ occurred' = [occurred EXCEPT ![e] = Append(@, now)]
      /\ Goto(w, IF rest # << >> THEN "count" ELSE IF last THEN "idle" ELSE "find")
      /\ update' = [update EXCEPT ![w] = IF last THEN NoUpdate ELSE [@ EXCEPT !.todo = rest]]
      /\ lock' = IF last THEN "free" ELSE lock
      /\ UNCHANGED <<executionTime, now, read, updates, reads, added, idled>>

\* RollingPercentile.Add looks the bucket up under the percentile's lock ...
FindBucket(w) ==
  /\ At(w, "find")
  /\ VisitPercentile
  /\ update' = [update EXCEPT ![w].bucket = executionTime'.currentBucket, ![w].found = now]
  /\ Goto(w, "store")
  /\ UNCHANGED <<eventCounters, lock, now, read, updates, reads, occurred>>

\* ... and stores the value without it, wherever the ring is by then.
StoreValue(w) ==
  /\ At(w, "store")
  /\ LET b    == update[w].bucket
         item == [value |-> update[w].time, found |-> update[w].found, stored |-> now]
     IN  /\ executionTime' = [executionTime EXCEPT !.buckets[b] = BucketAdd(@, item)]
         /\ added' = [added EXCEPT ![b] = Append(@, item)]
  /\ lock' = "free"
  /\ Goto(w, "idle") /\ update' = [update EXCEPT ![w] = NoUpdate]
  /\ UNCHANGED <<eventCounters, now, read, updates, reads, occurred, idled>>
-----------------------------------------------------------------------------
(* ErrorPercentage, Get and Mean.                                          *)

BeginRead(r) ==
  /\ At(r, "idle") /\ reads < MaxReads
  /\ reads' = reads + 1
  /\ read' = [read EXCEPT ![r].started = now,
                          ![r].before = [e \in Events |-> Len(occurred[e])]]
  /\ Goto(r, IF TotalEvents = << >> THEN "done" ELSE "lookup")
  /\ UNCHANGED <<metrics, now, update, updates, history>>

\* A RollingSum has returned: on to the next, unless there were no requests.
SumRead(r, value) ==
  LET ofTotal == read[r].next <= Len(TotalEvents)
      total   == IF ofTotal THEN read[r].total + value ELSE read[r].total
      last    == \/ read[r].next = Len(ReadEvents)
                 \/ read[r].next = Len(TotalEvents) /\ total = 0
  IN  /\ Goto(r, IF last THEN "done" ELSE "lookup")
      /\ read' = [read EXCEPT ![r].next = @ + 1, ![r].total = total,
                              ![r].errors = IF ofTotal THEN @ ELSE @ + value]

\* RollingSum looks the counter up under m.lock and sums it without.
Lookup(r) ==
  /\ At(r, "lookup") /\ lock = "free"
  /\ IF ReadEvents[read[r].next] \in DOMAIN eventCounters
     THEN Goto(r, "sum") /\ UNCHANGED read
     ELSE SumRead(r, 0)
  /\ UNCHANGED <<metrics, now, update, updates, reads, history>>

SumCounter(r) ==
  LET e == ReadEvents[read[r].next]
  IN  /\ At(r, "sum")
      /\ eventCounters' = [eventCounters EXCEPT ![e] = FindCurrentBucket(@, now)]
      /\ SumRead(r, SumOf(eventCounters'[e]))
      /\ UNCHANGED <<executionTime, lock, now, update, updates, reads, history>>

\* The percentage is computed from the two sums and returned.
EndRead(r) ==
  /\ At(r, "done")
  /\ Goto(r, "idle") /\ read' = [read EXCEPT ![r] = NoRead]
  /\ UNCHANGED <<metrics, now, update, updates, reads, history>>

\* Get and Mean visit the ring, then compute on what it holds.
GetOrMean(r) ==
  /\ At(r, "idle")
  /\ VisitPercentile
  /\ UNCHANGED <<eventCounters, lock, now, pc, update, read, updates, reads, occurred>>

Tick ==
  /\ now < MaxTime
  /\ now' = now + 1
  /\ UNCHANGED <<metrics, pc, update, read, updates, reads, history>>

Next ==
  \/ \E w \in Workers : BeginUpdate(w) \/ CountEvent(w) \/ FindBucket(w) \/ StoreValue(w)
  \/ \E r \in Readers : BeginRead(r) \/ Lookup(r) \/ SumCounter(r) \/ EndRead(r) \/ GetOrMean(r)
  \/ Tick

Spec == Init /\ [][Next]_vars
-----------------------------------------------------------------------------
(* The counters, as a reader sees them.                                    *)

\* The first n[e] occurrences of each of the events, and when one was counted.
Occurrences(events, n) == UNION {{e} \X (1 .. n[e]) : e \in events}
SoFar == [e \in Events |-> Len(occurred[e])]
When(o) == occurred[o[1]][o[2]]

\* TotalRequests (commandmetrics.go:60-67) sums counters made and turned at
\* different times, while updates go on: still it counts every request that
\* was reported before the read began and is recent, and none that is old or
\* was reported after.
TotalIsJustified ==
  \A r \in Readers : pc[r] = "done" =>
    LET events == ToSet(TotalEvents)
        must == {o \in Occurrences(events, read[r].before) : now - When(o) <= KeepAge}
        may  == {o \in Occurrences(events, SoFar) : read[r].started - When(o) < ForgetAge}
    IN  Cardinality(must) <= read[r].total /\ read[r].total <= Cardinality(may)

\* ErrorPercentage (commandmetrics.go:77-83) reads the errors after the total
\* and without a lock over both.  It may exceed 100, but by no more errors
\* than occurred while it was computed; with none it is a percentage.
ErrorsExceedOnlyByOverlap ==
  \A r \in Readers : pc[r] = "done" =>
    read[r].errors <= read[r].total
      + Cardinality({o \in Occurrences(ToSet(ErrorEvents), SoFar) : o[2] > read[r].before[o[1]]})
-----------------------------------------------------------------------------
(* The percentile.                                                         *)

Held(b) == executionTime.buckets[b].vals

\* The place of the i-th of the values logged.
Place(i) == ((i - 1) % MaxItems) + 1

\* vals are the latest MaxItems of the logged values, each in one place.
HoldsLatest(vals, log) ==
  LET count == Len(log)
  IN  /\ Len(vals) = IF count < MaxItems THEN count ELSE MaxItems
      /\ \A i \in 1 .. count : i > count - MaxItems => vals[Place(i)] = log[i]

\* A bucket holds the latest of the values stored in it since it was reset
\* (rollingpercentile.go:141-160), also if its reset came between the look-up
\* and the store.
BucketsKeepLatest == \A b \in Buckets : HoldsLatest(Held(b), added[b])

\* What Get and Mean would compute on now.
HeldNow == UNION {ToSet(Visited(executionTime, now).buckets[b].vals) : b \in Buckets}

\* rollingpercentile_test.go:103-112: "The value 3 is still in the window",
\* and two buckets later both percentiles and the mean are 0: values older
\* than the ring can be are not reported.
ValuesAreRecent == \A item \in HeldNow : now - item.stored < ForgetAge

\* That holds as long as the percentile is visited at least once in a window.
RecentUnlessIdled ==
  ~ idled /\ BucketsBehind(executionTime, now) < NumBuckets => ValuesAreRecent

\* A value is dropped only to make room, or after KeepAge, though its bucket
\* may have been recycled before it was stored (rollingpercentile.go:46).
KeepsRecentValues ==
  [][\A b \in Buckets : added'[b] = << >> =>
       \A item \in ToSet(added[b]) : now - item.found > KeepAge]_vars

\* A rank in thousandths of values are at most get, and no more than one above
\* that is smaller.
CoversRank(values, get, rank) ==
  /\ 1000 * Cardinality(AtMost(values, get)) >= rank
  /\ 1000 * (Cardinality(Below(values, get)) - 1) < rank

\* What makes Get a percentile (rollingpercentile.go:105-125): it covers that
\* share of the values there are, and no more.
PercentilesCoverShare ==
  LET values == Collected(executionTime)
      count  == Len(values)
  IN  count > 0 => \A p \in Percentiles :
        CoversRank(values, Percentile(p, Sorted(values)), p * count)
-----------------------------------------------------------------------------
(* The inductive invariant behind TypeOK and what is said of the           *)
(* percentile's values: their age, by how far the ring is past the bucket. *)

Distance(b) == (executionTime.currentBucket - b) % NumBuckets
Elapsed(t) == executionTime.currentBucketTime - t

\* update is called with an event at least.
Pending == \A w \in Workers : At(w, "count") => update[w].todo # << >>

\* A reader is at a counter there is, or has read those of the total at least.
Reading ==
  \A r \in Readers :
    /\ At(r, "sum") => ReadEvents[read[r].next] \in DOMAIN eventCounters
    /\ At(r, "lookup") \/ At(r, "sum") => read[r].next <= Len(ReadEvents)
    /\ At(r, "done") => read[r].next > Len(TotalEvents)
    /\ pc[r] \notin {"lookup", "sum", "done"} => read[r] = NoRead

\* The place a bucket fills next.
Aligned == \A b \in Buckets : executionTime.buckets[b].currentPosition = Len(added[b]) % MaxItems

\* A value was looked up d - 1 bucket sizes ago, or earlier.
FoundByDistance ==
  /\ \A b \in Buckets : \A item \in ToSet(added[b]) :
       Elapsed(item.found) > (Distance(b) - 1) * BucketSize
  /\ \A w \in Workers : At(w, "store") =>
       Elapsed(update[w].found) > (Distance(update[w].bucket) - 1) * BucketSize

\* It was stored 2 * d bucket sizes ago, or later.
StoredByDistance ==
  ~ idled => \A b \in Buckets : \A item \in ToSet(Held(b)) :
               Elapsed(item.stored) <= 2 * Distance(b) * BucketSize

IInv ==
  /\ TypeOK /\ Pending /\ Reading
  /\ executionTime.currentBucketTime <= now
  /\ Aligned /\ BucketsKeepLatest
  /\ FoundByDistance /\ StoredByDistance
=============================================================================
