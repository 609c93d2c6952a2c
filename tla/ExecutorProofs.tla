--------------------------- MODULE ExecutorProofs ---------------------------
(***************************************************************************)
(* For any number of workers, commands, keys and executions, and whatever  *)
(* Run and Fallback do: answer, error and events of every logged call      *)
(* agree, the cache serves what was returned before, no slot leaks, every  *)
(* execution is counted once, and a stampede is bounded by the workers.    *)
(* What String makes of the log accounts for every entry of it: a fold     *)
(* with an accumulator of any length, in the last part.                    *)
(***************************************************************************)
EXTENDS Executor, FiniteSetTheorems, SequenceTheorems, WellFoundedInduction, TLAPS

Labels == {"idle", "lookup", "getBreaker", "setBreaker", "decide", "acquire",
           "run", "recover", "fallback", "metrics", "log", "add"}

\* A step moves its worker and leaves the others where they are.
LEMMA Moved ==
  ASSUME TypeOK, NEW w \in Workers, NEW l \in Labels \ {"idle"}, NEW c \in Calls,
         Goto(w, l), Becomes(w, c)
  PROVE  /\ pc' \in [Workers -> Labels] /\ call' \in [Workers -> Calls \cup {NoCall}]
         /\ pc'[w] = l /\ call'[w] = c
         /\ \A v \in Workers : v # w => pc'[v] = pc[v] /\ call'[v] = call[v]
         /\ \A v \in Workers : call'[v] \in IF pc'[v] = "idle" THEN {NoCall} ELSE Calls
  <1>1. pc' \in [Workers -> Labels] /\ pc'[w] = l
    BY DEF TypeOK, Goto, Labels
  <1> QED BY <1>1 DEF TypeOK, Becomes, Goto, Labels

\* A call that returns leaves its worker idle, and the others where they are.
LEMMA MovedHome ==
  ASSUME TypeOK, NEW w \in Workers, Return(w)
  PROVE  /\ pc' \in [Workers -> Labels] /\ call' \in [Workers -> Calls \cup {NoCall}]
         /\ pc'[w] = "idle" /\ call'[w] = NoCall
         /\ \A v \in Workers : v # w => pc'[v] = pc[v] /\ call'[v] = call[v]
         /\ \A v \in Workers : call'[v] \in IF pc'[v] = "idle" THEN {NoCall} ELSE Calls
  BY DEF TypeOK, Return, Goto, Becomes, Labels

\* The type invariant without what Moved and MovedHome say.
SharedTyped ==
  /\ breakers \in [Commands -> Nat] /\ created \in [Commands -> Nat]
  /\ taken \in [Commands -> 0 .. MaxConcurrent]
  /\ cache \in [Commands \X Keys -> Cached]
  /\ log \in Seq(Entries)
  /\ counts \in [Commands -> [Events -> Nat]]
  /\ execs \in 0 .. MaxExecs

\* TypeOK is what is shared, and where the workers are.
LEMMA Typed ==
  TypeOK <=> /\ SharedTyped
             /\ pc \in [Workers -> Labels]
             /\ call \in [Workers -> Calls \cup {NoCall}]
             /\ \A w \in Workers : call[w] \in IF pc[w] = "idle" THEN {NoCall} ELSE Calls
  BY DEF TypeOK, SharedTyped, Labels

\* A call under way is a record of Exec's variables.
LEMMA CallTyped ==
  ASSUME TypeOK, NEW w \in Workers, pc[w] # "idle"
  PROVE  /\ call[w] \in Calls
         /\ call[w].cmd \in Commands /\ call[w].key \in Keys
         /\ call[w].exec \in 1 .. MaxExecs
         /\ call[w].breaker \in Nat
         /\ call[w].raised \in Errors \cup Panics \cup {"none"}
         /\ call[w].stats \in Seq(Events) /\ call[w].fallback \in Seq(Events)
         /\ call[w].result \in Results /\ call[w].err \in Errors \cup {"none"}
  BY DEF TypeOK, Calls

\* What an error or a panic is taken for.
LEMMA Kinds ==
  ASSUME NEW r \in Errors \cup Panics, r # "none"
  PROVE  /\ EventFor(r) \in {"Timeout", "ShortCircuited", "SemaphoreRejected", "Failure"}
         /\ EventFor(r) = "Timeout" <=> r = "timeout"
         /\ EventFor(r) = "ShortCircuited" <=> r = "circuitOpen"
         /\ EventFor(r) = "SemaphoreRejected" <=> r = "rejected"
         /\ ErrorOf(r) \in Errors /\ ErrorOf(r) # "none"
  BY ExecutorAssumption DEF EventFor, ErrorOf, Errors

\* Two events, one appended to the other.
LEMMA AppendToOne ==
  ASSUME NEW S, NEW e \in S, NEW f \in S
  PROVE  Append(<<e>>, f) = <<e, f>>
  <1> DEFINE s == <<e>>
             t == <<e, f>>
  <1>1. s \in Seq(S) /\ t \in Seq(S) /\ Len(t) = 2
    OBVIOUS
  <1>2. Append(s, f) \in Seq(S) /\ Len(Append(s, f)) = Len(t)
    BY <1>1
  <1>3. Append(s, f)[1] = t[1] /\ Append(s, f)[2] = t[2]
    BY <1>1
  <1> HIDE DEF s, t
  <1>4. \A i \in 1 .. Len(Append(s, f)) : Append(s, f)[i] = t[i]
    BY <1>1, <1>2, <1>3
  <1>5. Append(s, f) = t
    BY <1>1, <1>2, <1>4, SeqEqual
  <1> QED BY <1>5 DEF s, t
-----------------------------------------------------------------------------
\* An execution that was logged stays logged.
LEMMA StaysReturned ==
  ASSUME TypeOK, NEW e, log' \in {log, Append(log, e)},
         NEW c, NEW k, NEW r, NEW x, Returned(c, k, r, x)
  PROVE  Returned(c, k, r, x)'
  <1>1. log \in Seq(Entries)
    BY DEF TypeOK
  <1>2. \A j \in DOMAIN log : j \in DOMAIN log' /\ log'[j] = log[j]
    BY <1>1
  <1> QED BY <1>2 DEF Returned, Served

\* A step of w leaves the others' progress as it was.
LEMMA OthersProgress ==
  ASSUME TypeOK, NEW w \in Workers, NEW e, log' \in {log, Append(log, e)},
         \A v \in Workers : v # w => pc'[v] = pc[v] /\ call'[v] = call[v],
         \A v \in Workers : Progress(v)
  PROVE  \A v \in Workers : v # w => Progress(v)'
  <1> TAKE v \in Workers
  <1> SUFFICES ASSUME v # w PROVE Progress(v)'
    OBVIOUS
  <1>1. pc'[v] = pc[v] /\ call'[v] = call[v] /\ Progress(v)
    OBVIOUS
  <1>2. \A c, k, r, x : Returned(c, k, r, x) => Returned(c, k, r, x)'
    BY StaysReturned
  <1>3. Ended(call[v])' <=> Ended(call[v])
    BY <1>1 DEF Ended, Succeeded, Failed, Replaced, GaveUp, Raised
  <1>4. FromCache(call[v]) => FromCache(call[v])'
    BY <1>1, <1>2 DEF FromCache
  <1>5. Failed(call[v])' <=> Failed(call[v])
    BY <1>1 DEF Failed, Raised
  <1>6. /\ Fresh(call[v])' <=> Fresh(call[v])
        /\ Raised(call[v])' <=> Raised(call[v])
    BY <1>1 DEF Fresh, Raised
  <1> QED BY <1>1, <1>2, <1>3, <1>4, <1>5, <1>6 DEF Progress, At

\* A step that neither logs nor caches disturbs nothing that is about either.
LogAndCache == CacheIsReturned /\ NoErrorMeansAnswer /\ EventsTellOutcome /\ ServedWasReturned

\* What is about log and cache alone stands while they do.
LEMMA LogStands ==
  ASSUME LogAndCache, UNCHANGED <<log, cache>>
  PROVE  LogAndCache'
  <1>1. CacheIsReturned' /\ ServedWasReturned'
    BY DEF LogAndCache, CacheIsReturned, Returned, ServedWasReturned, Served
  <1>2. NoErrorMeansAnswer'
    BY DEF LogAndCache, NoErrorMeansAnswer
  <1>3. EventsTellOutcome'
    BY DEF LogAndCache, EventsTellOutcome, Served
  <1> QED BY <1>1, <1>2, <1>3 DEF LogAndCache

\* Nobody takes or gives back a slot in a step outside Run.
LEMMA SlotsStand ==
  ASSUME TypeOK, SlotsHeld, NEW w \in Workers, UNCHANGED taken,
         pc[w] # "run", pc'[w] # "run",
         \A v \in Workers : v # w => pc'[v] = pc[v] /\ call'[v] = call[v]
  PROVE  SlotsHeld'
  <1>1. \A c : Holders(c)' = Holders(c)
    BY DEF Holders, At
  <1> QED BY <1>1 DEF SlotsHeld
-----------------------------------------------------------------------------
\* What is left to show of a step that neither logs nor caches, and of one
\* that takes or gives back no slot either.
LEMMA Step_Unlogged ==
  ASSUME IInv, NEW w \in Workers, NEW l \in Labels \ {"idle"}, NEW c \in Calls,
         Goto(w, l), Becomes(w, c),
         SharedTyped', UNCHANGED <<log, cache>>,
         Progress(w)', SlotsHeld'
  PROVE  IInv'
  <1>1. /\ pc' \in [Workers -> Labels] /\ call' \in [Workers -> Calls \cup {NoCall}]
        /\ pc'[w] = l
        /\ \A v \in Workers : v # w => pc'[v] = pc[v] /\ call'[v] = call[v]
        /\ \A v \in Workers : call'[v] \in IF pc'[v] = "idle" THEN {NoCall} ELSE Calls
    BY Moved DEF IInv
  <1>2. TypeOK'
    BY <1>1, Typed DEF TypeOK, SharedTyped, Labels
  <1>3. \A v \in Workers : Progress(v)'
    BY <1>1, OthersProgress DEF IInv
  <1>4. LogAndCache'
    BY LogStands DEF IInv, LogAndCache
  <1> QED BY <1>2, <1>3, <1>4 DEF IInv, LogAndCache

\* A step that goes on with a call, outside Run, and neither logs nor caches
\* keeps the invariant if the call has made its progress.
LEMMA Step_Quiet ==
  ASSUME IInv, NEW w \in Workers, NEW l \in Labels \ {"idle", "run"}, NEW c \in Calls,
         pc[w] # "run", Goto(w, l), Becomes(w, c),
         SharedTyped', UNCHANGED <<log, cache, taken>>,
         Progress(w)'
  PROVE  IInv'
  <1>1. /\ pc'[w] = l
        /\ \A v \in Workers : v # w => pc'[v] = pc[v] /\ call'[v] = call[v]
    BY Moved DEF IInv
  <1>2. SlotsHeld'
    BY <1>1, SlotsStand DEF IInv
  <1> QED BY <1>2, Step_Unlogged

\* A step that ends the call.
LEMMA Step_Home ==
  ASSUME IInv, NEW w \in Workers, NEW e,
         pc[w] # "run", Return(w),
         SharedTyped', UNCHANGED taken, log' \in {log, Append(log, e)},
         LogAndCache'
  PROVE  IInv'
  <1>1. /\ pc' \in [Workers -> Labels] /\ call' \in [Workers -> Calls \cup {NoCall}]
        /\ pc'[w] = "idle"
        /\ \A v \in Workers : v # w => pc'[v] = pc[v] /\ call'[v] = call[v]
        /\ \A v \in Workers : call'[v] \in IF pc'[v] = "idle" THEN {NoCall} ELSE Calls
    BY MovedHome DEF IInv
  <1>2. TypeOK'
    BY <1>1, Typed DEF TypeOK, SharedTyped, Labels
  <1>3. Progress(w)'
    BY <1>1 DEF Progress, At
  <1>4. \A v \in Workers : Progress(v)'
    BY <1>1, <1>3, OthersProgress DEF IInv
  <1>5. SlotsHeld'
    BY <1>1, SlotsStand DEF IInv
  <1> QED BY <1>2, <1>4, <1>5 DEF IInv, LogAndCache
-----------------------------------------------------------------------------
\* A fresh executor satisfies the invariant.
LEMMA InitEstablishes == Init => IInv
  <1> SUFFICES ASSUME Init PROVE IInv
    OBVIOUS
  <1>1. NoEntry \in Cached
    BY ExecutorAssumption DEF NoEntry, Cached, Results, Nil
  <1>2. TypeOK
    BY <1>1, ExecutorAssumption DEF Init, TypeOK
  <1>3. \A c : Holders(c) = {}
    BY DEF Init, Holders, At
  <1>4. SlotsHeld
    BY <1>3, FS_EmptySet DEF Init, SlotsHeld
  <1>5. \A w \in Workers : Progress(w)
    BY DEF Init, Progress, At
  <1>6. /\ CacheIsReturned /\ NoErrorMeansAnswer
        /\ EventsTellOutcome /\ ServedWasReturned
    BY DEF Init, CacheIsReturned, NoErrorMeansAnswer, EventsTellOutcome, ServedWasReturned
  <1> QED BY <1>2, <1>4, <1>5, <1>6 DEF IInv

\* Exec starts.
LEMMA StartPreserves ==
  ASSUME IInv, NEW w \in Workers, Start(w)
  PROVE  IInv'
  <1>1. PICK c \in Commands, k \in Keys :
          LET new == [cmd |-> c, key |-> k, exec |-> execs', breaker |-> 0,
                      trial |-> FALSE, fromCache |-> FALSE, raised |-> "none",
                      stats |-> << >>, fallback |-> << >>, result |-> Nil, err |-> "none"]
          IN  Becomes(w, new) /\ Goto(w, IF Cacheable(call'[w]) THEN "lookup" ELSE "getBreaker")
    BY DEF Start
  <1> DEFINE new == [cmd |-> c, key |-> k, exec |-> execs', breaker |-> 0,
                     trial |-> FALSE, fromCache |-> FALSE, raised |-> "none",
                     stats |-> << >>, fallback |-> << >>, result |-> Nil, err |-> "none"]
             l == IF Cacheable(call'[w]) THEN "lookup" ELSE "getBreaker"
  <1>2. /\ execs' = execs + 1 /\ execs < MaxExecs /\ execs \in Nat /\ MaxExecs \in Nat
        /\ UNCHANGED <<breakers, created, taken, cache, log, counts>>
        /\ pc[w] = "idle"
    BY ExecutorAssumption DEF Start, At, IInv, TypeOK
  <1>3. execs' \in 1 .. MaxExecs
    BY <1>2
  <1>4. Nil \in Results
    BY ExecutorAssumption DEF Nil, Results
  <1>5. new \in Calls
    BY <1>3, <1>4 DEF Calls
  <1>6. SharedTyped'
    BY <1>2, <1>3 DEF SharedTyped, IInv, TypeOK
  <1>7. l \in Labels \ {"idle", "run"}
    BY DEF Labels
  <1>8. call'[w] = new /\ pc'[w] = l
    BY <1>1 DEF IInv, TypeOK, Becomes, Goto
  <1>9. Progress(w)'
    BY <1>8 DEF Progress, At, Fresh
  <1> QED BY <1>1, <1>2, <1>5, <1>6, <1>7, <1>9, Step_Quiet

\* The cache is looked at.
LEMMA LookupPreserves ==
  ASSUME IInv, NEW w \in Workers, Lookup(w)
  PROVE  IInv'
  <1> DEFINE entry == cache[Slot(call[w])]
  <1>1. /\ pc[w] = "lookup" /\ call[w] \in Calls /\ Fresh(call[w])
        /\ UNCHANGED <<breakers, created, taken, cache, log, counts, execs>>
        /\ SharedTyped /\ TypeOK
    BY CallTyped DEF Lookup, At, IInv, Progress, TypeOK, SharedTyped
  <1>2. SharedTyped'
    BY <1>1 DEF SharedTyped
  <1>3. CASE entry # NoEntry
    <2> DEFINE new == [call[w] EXCEPT !.fromCache = TRUE, !.stats = entry.events,
                                      !.result = entry.result, !.err = entry.err]
    <2>1. Becomes(w, new) /\ Goto(w, "metrics")
      BY <1>3 DEF Lookup
    <2>2. call[w].cmd \in Commands /\ call[w].key \in Keys
      BY <1>1 DEF Calls
    <2>3. entry \in Cached
      BY <1>1, <2>2 DEF SharedTyped, Slot
    <2>4. entry.events \in Seq(Events) /\ entry.result \in Results /\ entry.err \in Errors \cup {"none"}
      BY <2>3 DEF Cached
    <2>5. new \in Calls
      BY <1>1, <2>4 DEF Calls
    <2>6. /\ entry.events \in {<<"ResponseFromCache">>, <<"Success", "ResponseFromCache">>}
          /\ entry.err = "none" => entry.result # Nil
          /\ Returned(call[w].cmd, call[w].key, entry.result, entry.err)
      BY <1>3, <2>2 DEF IInv, CacheIsReturned, Slot
    <2>7. /\ new.fromCache /\ new.raised = "none" /\ new.fallback = << >>
          /\ new.stats = entry.events /\ new.result = entry.result /\ new.err = entry.err
          /\ new.cmd = call[w].cmd /\ new.key = call[w].key
      BY <1>1 DEF Calls, Fresh
    <2>8. call'[w] = new /\ pc'[w] = "metrics"
      BY <1>1, <2>1 DEF TypeOK, Becomes, Goto
    <2>9. \A c, k, r, x : Returned(c, k, r, x) => Returned(c, k, r, x)'
      BY <1>1 DEF Returned, Served
    <2> HIDE DEF new, entry
    <2>10. FromCache(call[w])'
      BY <2>6, <2>7, <2>8, <2>9 DEF FromCache
    <2>11. Progress(w)'
      BY <2>8, <2>10 DEF Progress, At
    <2> QED BY <1>1, <1>2, <2>1, <2>5, <2>11, Step_Quiet DEF Labels
  <1>4. CASE entry = NoEntry
    <2>1. Goto(w, "getBreaker") /\ call' = call
      BY <1>4 DEF Lookup
    <2>2. Becomes(w, call[w])
      BY <1>1, <2>1 DEF Becomes, TypeOK
    <2>3. call'[w] = call[w] /\ pc'[w] = "getBreaker"
      BY <1>1, <2>1 DEF TypeOK, Goto
    <2>4. Progress(w)'
      BY <1>1, <2>3 DEF Progress, At, Fresh
    <2> QED BY <1>1, <1>2, <2>1, <2>2, <2>4, Step_Quiet DEF Labels
  <1> QED BY <1>3, <1>4

\* The command's breaker is looked up.
LEMMA GetBreakerPreserves ==
  ASSUME IInv, NEW w \in Workers, GetBreaker(w)
  PROVE  IInv'
  <1> DEFINE c == call[w].cmd
  <1>1. /\ pc[w] = "getBreaker" /\ call[w] \in Calls /\ Fresh(call[w]) /\ c \in Commands
        /\ UNCHANGED <<breakers, taken, cache, log, counts, execs>>
        /\ SharedTyped /\ TypeOK
    BY CallTyped DEF GetBreaker, At, IInv, Progress, TypeOK, SharedTyped
  <1>2. PICK b \in Nat, l \in {"decide", "setBreaker"} :
          /\ Goto(w, l) /\ Becomes(w, [call[w] EXCEPT !.breaker = b])
          /\ created' \in [Commands -> Nat]
    <2>1. breakers[c] \in Nat /\ created[c] + 1 \in Nat
          /\ [created EXCEPT ![c] = @ + 1] \in [Commands -> Nat]
          /\ [created EXCEPT ![c] = @ + 1][c] = created[c] + 1
      BY <1>1 DEF SharedTyped
    <2>2. CASE breakers[c] # 0
      BY <1>1, <2>1, <2>2 DEF GetBreaker, SharedTyped
    <2>3. CASE breakers[c] = 0
      BY <1>1, <2>1, <2>3 DEF GetBreaker
    <2> QED BY <2>2, <2>3
  <1> DEFINE new == [call[w] EXCEPT !.breaker = b]
  <1>3. new \in Calls /\ (Fresh(call[w]) => Fresh(new))
    BY <1>1 DEF Calls, Fresh
  <1>4. SharedTyped'
    BY <1>1, <1>2 DEF SharedTyped
  <1>5. call'[w] = new /\ pc'[w] = l
    BY <1>1, <1>2 DEF TypeOK, Becomes, Goto
  <1>6. Progress(w)'
    BY <1>1, <1>3, <1>5 DEF Progress, At, Fresh
  <1>7. l \in Labels \ {"idle", "run"} /\ pc[w] # "run"
    BY <1>1 DEF Labels
  <1> QED BY <1>1, <1>2, <1>3, <1>4, <1>6, <1>7, Step_Quiet

\* A breaker is made for a command that had none.
LEMMA SetBreakerPreserves ==
  ASSUME IInv, NEW w \in Workers, SetBreaker(w)
  PROVE  IInv'
  <1>1. /\ pc[w] = "setBreaker" /\ call[w] \in Calls /\ Fresh(call[w])
        /\ call[w].cmd \in Commands /\ call[w].breaker \in Nat
        /\ Goto(w, "decide")
        /\ UNCHANGED <<created, taken, cache, log, counts, call, execs>>
        /\ SharedTyped /\ TypeOK
    BY CallTyped DEF SetBreaker, At, IInv, Progress, TypeOK, SharedTyped
  <1>2. breakers' \in [Commands -> Nat]
    BY <1>1 DEF SetBreaker, SharedTyped
  <1>3. SharedTyped'
    BY <1>1, <1>2 DEF SharedTyped
  <1>4. Becomes(w, call[w]) /\ call'[w] = call[w] /\ pc'[w] = "decide"
    BY <1>1 DEF TypeOK, Becomes, Goto
  <1>5. Progress(w)'
    BY <1>1, <1>4 DEF Progress, At, Fresh
  <1> QED BY <1>1, <1>3, <1>4, <1>5, Step_Quiet DEF Labels

\* Do has returned an error: Exec recovers it.
LEMMA RaisePreserves ==
  ASSUME IInv, NEW w \in Workers, NEW error \in Errors, Fresh(call[w]), pc[w] # "idle"
  PROVE  LET new == [Left(call[w]) EXCEPT !.raised = error, !.err = error]
         IN  /\ new \in Calls /\ Raised(new) /\ new.stats = << >> /\ new.fallback = << >>
  <1>1. call[w] \in Calls
    BY CallTyped DEF IInv
  <1>2. Left(call[w]) \in Calls /\ Fresh(Left(call[w]))
    BY <1>1 DEF Left, Calls, Fresh
  <1>3. error # "none"
    BY DEF Errors
  <1> HIDE DEF Left
  <1> QED BY <1>2, <1>3 DEF Calls, Fresh, Raised

\* The breaker admits, tries or refuses.
LEMMA DecidePreserves ==
  ASSUME IInv, NEW w \in Workers, Decide(w)
  PROVE  IInv'
  <1>1. /\ pc[w] = "decide" /\ call[w] \in Calls /\ Fresh(call[w])
        /\ UNCHANGED <<breakers, created, taken, cache, log, counts, execs>>
        /\ SharedTyped /\ TypeOK
    BY CallTyped DEF Decide, At, IInv, Progress, TypeOK, SharedTyped
  <1>2. SharedTyped'
    BY <1>1 DEF SharedTyped
  <1>3. ASSUME NEW trial \in BOOLEAN, Goto(w, "acquire"),
               Becomes(w, [call[w] EXCEPT !.trial = trial])
        PROVE  IInv'
    <2> DEFINE new == [call[w] EXCEPT !.trial = trial]
    <2>1. new \in Calls /\ Fresh(new)
      BY <1>1 DEF Calls, Fresh
    <2>2. call'[w] = new /\ pc'[w] = "acquire"
      BY <1>1, <1>3 DEF TypeOK, Becomes, Goto
    <2>3. Progress(w)'
      BY <2>1, <2>2 DEF Progress, At, Fresh
    <2> QED BY <1>1, <1>2, <1>3, <2>1, <2>3, Step_Quiet DEF Labels
  <1>4. ASSUME Raise(w, call[w], "circuitOpen")
        PROVE  IInv'
    <2> DEFINE new == [Left(call[w]) EXCEPT !.raised = "circuitOpen", !.err = "circuitOpen"]
    <2>1. new \in Calls /\ Raised(new) /\ new.stats = << >> /\ new.fallback = << >>
      BY <1>1, RaisePreserves DEF Errors
    <2>2. Becomes(w, new) /\ Goto(w, "recover")
      BY <1>4 DEF Raise
    <2>3. call'[w] = new /\ pc'[w] = "recover"
      BY <1>1, <2>2 DEF TypeOK, Becomes, Goto
    <2> HIDE DEF new
    <2>4. Progress(w)'
      BY <2>1, <2>3 DEF Progress, At, Raised
    <2> QED BY <1>1, <1>2, <2>1, <2>2, <2>4, Step_Quiet DEF Labels
  <1> QED BY <1>3, <1>4 DEF Decide
-----------------------------------------------------------------------------
\* The holders of a semaphore are finitely many: they can be counted up and
\* down by one.
LEMMA HoldersCounted ==
  ASSUME NEW c
  PROVE  /\ Cardinality(Holders(c)) \in Nat
         /\ \A w : w \notin Holders(c) =>
              Cardinality(Holders(c) \cup {w}) = Cardinality(Holders(c)) + 1
         /\ \A w \in Holders(c) :
              /\ Cardinality(Holders(c) \ {w}) = Cardinality(Holders(c)) - 1
              /\ Cardinality(Holders(c) \ {w}) \in Nat
  <1>1. IsFiniteSet(Holders(c))
    BY ExecutorAssumption, FS_Subset DEF Holders
  <1>2. \A w : IsFiniteSet(Holders(c) \ {w})
    BY <1>1, FS_Difference
  <1>3. \A w : w \notin Holders(c) =>
          Cardinality(Holders(c) \cup {w}) = Cardinality(Holders(c)) + 1
    BY <1>1, FS_AddElement
  <1>4. \A w \in Holders(c) :
          Cardinality(Holders(c) \ {w}) = Cardinality(Holders(c)) - 1
    BY <1>1, FS_RemoveElement
  <1> QED BY <1>1, <1>2, <1>3, <1>4, FS_CardinalityType

\* A slot of the semaphore is taken, or there is none.
LEMMA AcquirePreserves ==
  ASSUME IInv, NEW w \in Workers, Acquire(w)
  PROVE  IInv'
  <1> DEFINE c == call[w]
  <1>1. /\ pc[w] = "acquire" /\ c \in Calls /\ Fresh(c) /\ c.cmd \in Commands
        /\ UNCHANGED <<breakers, created, cache, log, counts, execs>>
        /\ SharedTyped /\ TypeOK
    BY CallTyped DEF Acquire, At, IInv, Progress, TypeOK, SharedTyped
  <1> PICK m \in Commands : m = c.cmd
    BY <1>1
  <1>2. CASE HasRoom(c.cmd)
    <2>1. /\ taken' = [taken EXCEPT ![c.cmd] = @ + 1]
          /\ Goto(w, "run") /\ Becomes(w, c) /\ UNCHANGED call
      BY <1>1, <1>2 DEF Acquire, Becomes, TypeOK
    <2>2. /\ pc'[w] = "run" /\ \A v \in Workers : v # w => pc'[v] = pc[v]
      BY <1>1, <2>1 DEF TypeOK, Goto
    <2>3. taken[m] + 1 \in 0 .. MaxConcurrent
      BY <1>1, <1>2, ExecutorAssumption DEF SharedTyped, HasRoom
    <2>4. SharedTyped'
      BY <1>1, <2>1, <2>3 DEF SharedTyped
    <2>5. w \notin Holders(m) /\ Holders(m)' = Holders(m) \cup {w}
      BY <1>1, <2>1, <2>2 DEF Holders, At
    <2>6. \A d \in Commands : d # m => Holders(d)' = Holders(d)
      BY <1>1, <2>1, <2>2 DEF Holders, At
    <2>7. SlotsHeld'
      <3>1. taken'[m] = taken[m] + 1 /\ \A d \in Commands : d # m => taken'[d] = taken[d]
        BY <1>1, <2>1 DEF SharedTyped
      <3>2. Cardinality(Holders(m) \cup {w}) = Cardinality(Holders(m)) + 1
        BY <2>5, HoldersCounted
      <3>3. taken[m] = Cardinality(Holders(m))
        BY <1>1 DEF SlotsHeld, IInv
      <3>4. taken'[m] = Cardinality(Holders(m)')
        BY <2>5, <3>1, <3>2, <3>3
      <3>5. \A d \in Commands : d # m => taken'[d] = Cardinality(Holders(d)')
        BY <2>6, <3>1 DEF SlotsHeld, IInv
      <3> QED BY <3>4, <3>5 DEF SlotsHeld
    <2>8. Progress(w)'
      BY <1>1, <2>1, <2>2 DEF Progress, At, Fresh
    <2> QED BY <1>1, <2>1, <2>4, <2>7, <2>8, Step_Unlogged DEF Labels
  <1>3. CASE ~ HasRoom(c.cmd)
    <2> DEFINE error == Reported(c, "rejected")
               new == [Left(c) EXCEPT !.raised = error, !.err = error]
    <2>1. error \in Errors
      BY DEF Reported, Errors
    <2>2. new \in Calls /\ Raised(new) /\ new.stats = << >> /\ new.fallback = << >>
      BY <1>1, <2>1, RaisePreserves
    <2>3. Becomes(w, new) /\ Goto(w, "recover") /\ UNCHANGED taken
      BY <1>3 DEF Acquire, Raise
    <2>4. call'[w] = new /\ pc'[w] = "recover"
      BY <1>1, <2>3 DEF TypeOK, Becomes, Goto
    <2>5. SharedTyped'
      BY <1>1, <2>3 DEF SharedTyped
    <2> HIDE DEF new
    <2>6. Progress(w)'
      BY <2>2, <2>4 DEF Progress, At, Raised
    <2> QED BY <1>1, <2>2, <2>3, <2>5, <2>6, Step_Quiet DEF Labels
  <1> QED BY <1>2, <1>3

\* Run ends, and its slot is given back.
LEMMA RunPreserves ==
  ASSUME IInv, NEW w \in Workers, Run(w)
  PROVE  IInv'
  <1> DEFINE c == call[w]
  <1>1. /\ pc[w] = "run" /\ c \in Calls /\ Fresh(c) /\ c.cmd \in Commands /\ c.exec \in 1 .. MaxExecs
        /\ taken' = [taken EXCEPT ![c.cmd] = @ - 1]
        /\ UNCHANGED <<breakers, created, cache, log, counts, execs>>
        /\ SharedTyped /\ TypeOK
    BY CallTyped DEF Run, At, IInv, Progress, TypeOK, SharedTyped
  <1> PICK m \in Commands : m = c.cmd
    BY <1>1
  <1>2. /\ w \in Holders(m)
        /\ taken[m] = Cardinality(Holders(m))
        /\ taken[m] \in 0 .. MaxConcurrent
    BY <1>1 DEF Holders, At, IInv, SlotsHeld, SharedTyped
  <1>3. /\ Cardinality(Holders(m) \ {w}) = taken[m] - 1
        /\ taken[m] - 1 \in 0 .. MaxConcurrent
    <2>1. /\ Cardinality(Holders(m) \ {w}) = Cardinality(Holders(m)) - 1
          /\ Cardinality(Holders(m) \ {w}) \in Nat
      BY <1>2, HoldersCounted
    <2> QED BY <1>2, <2>1, ExecutorAssumption
  <1>4. SharedTyped'
    BY <1>1, <1>3 DEF SharedTyped
  \* Wherever Run leaves w, its slot is given back.
  <1>5. ASSUME NEW l \in {"metrics", "recover"}, NEW new \in Calls, Goto(w, l), Becomes(w, new),
               l = "metrics" => Ended(new),
               l = "recover" => Raised(new) /\ new.stats = << >> /\ new.fallback = << >>
        PROVE  IInv'
    <2>1. /\ pc'[w] = l /\ call'[w] = new
          /\ \A v \in Workers : v # w => pc'[v] = pc[v] /\ call'[v] = call[v]
      BY <1>1, <1>5, Moved DEF Labels
    <2>2. Holders(m)' = Holders(m) \ {w}
      <3>1. \A v : v \in Holders(m)' <=> v \in Holders(m) /\ v # w
        BY <1>1, <2>1 DEF Holders, At
      <3> QED BY <3>1
    <2>3. \A d \in Commands : d # m => Holders(d)' = Holders(d)
      BY <1>1, <2>1 DEF Holders, At
    <2>4. SlotsHeld'
      <3>1. taken'[m] = taken[m] - 1 /\ \A d \in Commands : d # m => taken'[d] = taken[d]
        BY <1>1 DEF SharedTyped
      <3>2. taken'[m] = Cardinality(Holders(m)')
        BY <1>2, <1>3, <2>2, <3>1
      <3>3. \A d \in Commands : d # m => taken'[d] = Cardinality(Holders(d)')
        BY <2>3, <3>1 DEF SlotsHeld, IInv
      <3> QED BY <3>2, <3>3 DEF SlotsHeld
    <2>5. Progress(w)'
      BY <1>5, <2>1 DEF Progress, At, Raised, Ended, Succeeded, Failed, Replaced, GaveUp
    <2> QED BY <1>1, <1>4, <1>5, <2>4, <2>5, Step_Unlogged DEF Labels
  <1>6. Left(c) \in Calls /\ Fresh(Left(c)) /\ Left(c).exec = c.exec
    BY <1>1 DEF Left, Calls, Fresh
  <1>7. CASE /\ Goto(w, "metrics")
             /\ Becomes(w, [Left(c) EXCEPT !.stats = Append(@, "Success"),
                                           !.result = [by |-> "run", exec |-> c.exec]])
    <2> DEFINE new == [Left(c) EXCEPT !.stats = Append(@, "Success"),
                                      !.result = [by |-> "run", exec |-> c.exec]]
    <2>1. [by |-> "run", exec |-> c.exec] \in Results /\ <<"Success">> \in Seq(Events)
      BY <1>1, ExecutorAssumption DEF Results, Events
    <2>2. new = [Left(c) EXCEPT !.stats = <<"Success">>, !.result = [by |-> "run", exec |-> c.exec]]
      BY <1>6 DEF Fresh, Calls
    <2>3. new \in Calls
      BY <1>6, <2>1, <2>2 DEF Calls
    <2>4. Ended(new)
      BY <1>6, <2>2 DEF Ended, Succeeded, Fresh, Calls
    <2> QED BY <1>5, <1>7, <2>3, <2>4
  <1>8. CASE \E error \in RunErrors : Raise(w, c, Reported(c, error))
    <2>1. PICK error \in RunErrors : Raise(w, c, Reported(c, error))
      BY <1>8
    <2> DEFINE r == Reported(c, error)
               new == [Left(c) EXCEPT !.raised = r, !.err = r]
    <2>2. r \in Errors
      BY ExecutorAssumption DEF Reported, Errors
    <2>3. new \in Calls /\ Raised(new) /\ new.stats = << >> /\ new.fallback = << >>
      BY <1>1, <2>2, RaisePreserves
    <2>4. Becomes(w, new) /\ Goto(w, "recover")
      BY <2>1 DEF Raise
    <2> QED BY <1>5, <2>3, <2>4
  <1>9. CASE \E value \in Panics : Goto(w, "recover") /\ Becomes(w, [Left(c) EXCEPT !.raised = value])
    <2>1. PICK value \in Panics : Goto(w, "recover") /\ Becomes(w, [Left(c) EXCEPT !.raised = value])
      BY <1>9
    <2> DEFINE new == [Left(c) EXCEPT !.raised = value]
    <2>2. value # "none"
      BY ExecutorAssumption
    <2>3. new \in Calls /\ Raised(new) /\ new.stats = << >> /\ new.fallback = << >>
      BY <1>6, <2>2 DEF Calls, Fresh, Raised
    <2> QED BY <1>5, <2>1, <2>3
  <1> QED BY <1>7, <1>8, <1>9 DEF Run
-----------------------------------------------------------------------------
\* Exec's deferred function looks at what has been raised.
LEMMA RecoverPreserves ==
  ASSUME IInv, NEW w \in Workers, Recover(w)
  PROVE  IInv'
  <1> DEFINE c == call[w]
  <1>1. /\ pc[w] = "recover" /\ c \in Calls /\ Raised(c) /\ c.stats = << >> /\ c.fallback = << >>
        /\ c.raised \in Errors \cup Panics
        /\ UNCHANGED <<breakers, created, taken, cache, log, counts, execs>>
        /\ SharedTyped /\ TypeOK
    BY CallTyped DEF Recover, At, IInv, Progress, TypeOK, SharedTyped, Raised
  <1>2. SharedTyped'
    BY <1>1 DEF SharedTyped
  <1>3. CASE c.cmd \in FallbackEnabled
    <2> DEFINE new == [c EXCEPT !.fallback = <<EventFor(c.raised)>>]
    <2>1. Goto(w, "fallback") /\ Becomes(w, new)
      BY <1>3 DEF Recover
    <2>2. EventFor(c.raised) \in Events
      BY DEF EventFor, Events
    <2>3. <<EventFor(c.raised)>> \in Seq(Events)
      BY <2>2
    <2>4. /\ new \in Calls /\ Raised(new) /\ new.stats = << >>
          /\ new.cmd = c.cmd /\ new.raised = c.raised
          /\ new.fallback = <<EventFor(c.raised)>>
      BY <1>1, <2>3 DEF Calls, Raised
    <2>5. call'[w] = new /\ pc'[w] = "fallback"
      BY <1>1, <2>1 DEF TypeOK, Becomes, Goto
    <2> HIDE DEF new
    <2>6. Progress(w)'
      BY <1>3, <2>4, <2>5 DEF Progress, At, Raised
    <2> QED BY <1>1, <1>2, <2>1, <2>4, <2>6, Step_Quiet DEF Labels
  <1>4. CASE c.cmd \notin FallbackEnabled
    <2> DEFINE new == [c EXCEPT !.stats = Append(@, "Failure")]
    <2>1. Goto(w, "metrics") /\ Becomes(w, new)
      BY <1>4 DEF Recover
    <2>2. <<"Failure">> \in Seq(Events) /\ Append(c.stats, "Failure") = <<"Failure">>
      BY <1>1 DEF Events
    <2>3. new = [c EXCEPT !.stats = <<"Failure">>]
      BY <1>1, <2>2 DEF Calls
    <2>4. new \in Calls
      BY <1>1, <2>2, <2>3 DEF Calls
    <2>5. Ended(new)
      BY <1>1, <1>4, <2>3 DEF Ended, Failed, Raised, Calls
    <2>6. call'[w] = new /\ pc'[w] = "metrics"
      BY <1>1, <2>1 DEF TypeOK, Becomes, Goto
    <2> HIDE DEF new
    <2>7. Progress(w)'
      BY <2>5, <2>6 DEF Progress, At, Ended, Succeeded, Failed, Replaced, GaveUp, Raised
    <2> QED BY <1>1, <1>2, <2>1, <2>4, <2>7, Step_Quiet DEF Labels
  <1> QED BY <1>3, <1>4

\* The fallback answers, fails or panics.
LEMMA FallbackPreserves ==
  ASSUME IInv, NEW w \in Workers, Fallback(w)
  PROVE  IInv'
  <1> DEFINE c == call[w]
             event == EventFor(c.raised)
  <1>1. /\ pc[w] = "fallback" /\ c \in Calls /\ Raised(c) /\ c.stats = << >>
        /\ c.cmd \in FallbackEnabled /\ c.fallback = <<event>>
        /\ c.raised \in Errors \cup Panics /\ c.raised # "none" /\ c.exec \in 1 .. MaxExecs
        /\ Goto(w, "metrics")
        /\ UNCHANGED <<breakers, created, taken, cache, log, counts, execs>>
        /\ SharedTyped /\ TypeOK
    BY CallTyped DEF Fallback, At, IInv, Progress, TypeOK, SharedTyped, Raised
  <1>2. SharedTyped'
    BY <1>1 DEF SharedTyped
  <1>3. event \in Events
    BY DEF EventFor, Events
  <1> HIDE DEF event
  <1>4. /\ <<event>> \in Seq(Events)
        /\ Append(c.fallback, "FallbackSuccess") = <<event, "FallbackSuccess">>
        /\ Append(c.fallback, "FallbackFailure") = <<event, "FallbackFailure">>
        /\ <<event, "FallbackSuccess">> \in Seq(Events)
        /\ <<event, "FallbackFailure">> \in Seq(Events)
    <2>1. "FallbackSuccess" \in Events /\ "FallbackFailure" \in Events
      BY DEF Events
    <2>2. c.fallback = <<event>>
      BY <1>1 DEF event
    <2> HIDE DEF c
    <2>3. <<event>> \in Seq(Events)
      BY <1>3
    <2>4. /\ <<event, "FallbackSuccess">> \in Seq(Events)
          /\ <<event, "FallbackFailure">> \in Seq(Events)
      BY <1>3, <2>1
    <2>5. /\ Append(<<event>>, "FallbackSuccess") = <<event, "FallbackSuccess">>
          /\ Append(<<event>>, "FallbackFailure") = <<event, "FallbackFailure">>
      BY <1>3, <2>1, AppendToOne
    <2> QED BY <2>2, <2>3, <2>4, <2>5
  \* Whichever way Fallback ends, the execution has ended as it should.
  <1>5. ASSUME NEW new \in Calls, Ended(new), Becomes(w, new)
        PROVE  IInv'
    <2>1. call'[w] = new /\ pc'[w] = "metrics"
      BY <1>1, <1>5 DEF TypeOK, Becomes, Goto
    <2>2. Progress(w)'
      BY <1>5, <2>1 DEF Progress, At, Ended, Succeeded, Failed, Replaced, GaveUp, Raised
    <2> QED BY <1>1, <1>2, <1>5, <2>2, Step_Quiet DEF Labels
  <1>6. CASE Becomes(w, [c EXCEPT !.fallback = Append(@, "FallbackSuccess"),
                                  !.result = [by |-> "fallback", exec |-> c.exec],
                                  !.err = "none"])
    <2> DEFINE new == [c EXCEPT !.fallback = <<event, "FallbackSuccess">>,
                                !.result = [by |-> "fallback", exec |-> c.exec],
                                !.err = "none"]
    <2>1. Becomes(w, new)
      BY <1>1, <1>4, <1>6 DEF Calls
    <2>2. [by |-> "fallback", exec |-> c.exec] \in Results
      BY <1>1, ExecutorAssumption DEF Results
    <2>3. new \in Calls
      BY <1>1, <1>4, <2>2 DEF Calls
    <2>4. Replaced(new) /\ ~ new.fromCache
      BY <1>1 DEF Replaced, Raised, Calls, event
    <2> QED BY <1>5, <2>1, <2>3, <2>4 DEF Ended
  \* The three ways it gives up differ in the event and the error.
  <1>7. ASSUME NEW events \in {<<event>>, <<event, "FallbackFailure">>}, NEW e \in Errors,
               Becomes(w, [c EXCEPT !.fallback = events, !.err = e])
        PROVE  IInv'
    <2> DEFINE new == [c EXCEPT !.fallback = events, !.err = e]
    <2>1. new \in Calls
      BY <1>1, <1>4 DEF Calls
    <2>2. GaveUp(new) /\ ~ new.fromCache
      BY <1>1 DEF GaveUp, Raised, Calls, Errors, event
    <2> QED BY <1>5, <1>7, <2>1, <2>2 DEF Ended
  <1>8. CASE Becomes(w, [c EXCEPT !.fallback = Append(@, "FallbackFailure"),
                                  !.err = ErrorOf(c.raised)])
    <2>1. Becomes(w, [c EXCEPT !.fallback = <<event, "FallbackFailure">>, !.err = ErrorOf(c.raised)])
      BY <1>1, <1>4, <1>8 DEF Calls
    <2> QED BY <1>1, <1>7, <2>1, Kinds
  <1>9. CASE Becomes(w, [c EXCEPT !.err = ErrorOf(c.raised)])
    <2>1. [c EXCEPT !.err = ErrorOf(c.raised)]
            = [c EXCEPT !.fallback = <<event>>, !.err = ErrorOf(c.raised)]
      BY <1>1 DEF Calls
    <2> QED BY <1>1, <1>7, <1>9, <2>1, Kinds
  <1>10. CASE \E value \in Panics :
                Becomes(w, [c EXCEPT !.fallback = Append(@, "FallbackFailure"),
                                     !.err = ErrorOf(value)])
    <2>1. PICK value \in Panics :
            Becomes(w, [c EXCEPT !.fallback = <<event, "FallbackFailure">>, !.err = ErrorOf(value)])
      BY <1>1, <1>4, <1>10 DEF Calls
    <2>2. ErrorOf(value) \in Errors
      BY ExecutorAssumption, Kinds
    <2> QED BY <1>7, <2>1, <2>2
  <1> QED BY <1>6, <1>8, <1>9, <1>10 DEF Fallback

\* The events of the execution are counted.
LEMMA UpdateMetricsPreserves ==
  ASSUME IInv, NEW w \in Workers, UpdateMetrics(w)
  PROVE  IInv'
  <1> DEFINE c == call[w]
  <1>1. /\ pc[w] = "metrics" /\ c \in Calls /\ c.cmd \in Commands
        /\ Ended(c) \/ FromCache(c)
        /\ Goto(w, "log")
        /\ UNCHANGED <<breakers, created, taken, cache, log, call, execs>>
        /\ SharedTyped /\ TypeOK
    BY CallTyped DEF UpdateMetrics, At, IInv, Progress, TypeOK, SharedTyped
  <1>2. counts' \in [Commands -> [Events -> Nat]]
    <2>1. PICK S : counts' = [counts EXCEPT ![c.cmd] =
                                [e \in Events |-> @[e] + IF e \in S THEN 1 ELSE 0]]
      BY DEF UpdateMetrics
    <2>2. [e \in Events |-> counts[c.cmd][e] + IF e \in S THEN 1 ELSE 0] \in [Events -> Nat]
      BY <1>1 DEF SharedTyped
    <2> QED BY <1>1, <2>1, <2>2 DEF SharedTyped
  <1>3. SharedTyped'
    BY <1>1, <1>2 DEF SharedTyped
  <1>4. Becomes(w, c) /\ call'[w] = c /\ pc'[w] = "log"
    BY <1>1 DEF TypeOK, Becomes, Goto
  <1>5. Ended(c) => Ended(call[w])'
    BY <1>4 DEF Ended, Succeeded, Failed, Replaced, GaveUp, Raised
  <1>6. FromCache(c) => FromCache(call[w])'
    BY <1>1, <1>4 DEF FromCache, Returned, Served
  <1>7. Progress(w)'
    BY <1>1, <1>4, <1>5, <1>6 DEF Progress, At
  <1> QED BY <1>1, <1>3, <1>4, <1>7, Step_Quiet DEF Labels
-----------------------------------------------------------------------------
\* What NoErrorMeansAnswer and EventsTellOutcome say of one entry.
Answers(e) ==
  e.err = "none" => e.result # Nil \/ (e.raised \in Panics /\ e.cmd \notin FallbackEnabled)

Tells(e) ==
  LET last == e.events[Len(e.events)]
  IN  /\ e.events[1] = "Success" <=> e.raised = "none"
      /\ e.cmd \in FallbackEnabled =>
           /\ e.events[1] = "Timeout" <=> e.raised = "timeout"
           /\ e.events[1] = "ShortCircuited" <=> e.raised = "circuitOpen"
           /\ e.events[1] = "SemaphoreRejected" <=> e.raised = "rejected"
           /\ last = "FallbackSuccess" <=> e.result.by = "fallback"
           /\ last \in {"Success", "FallbackSuccess"} <=> e.err = "none"
      /\ e.cmd \notin FallbackEnabled =>
           /\ e.raised # "none" <=> e.events = <<"Failure">>
           /\ e.result.by # "fallback"

\* The log after an entry that agrees with itself, and that is of an execution
\* or repeats one.
LEMMA LogGrows ==
  ASSUME TypeOK, LogAndCache, NEW e \in Entries, log' = Append(log, e), UNCHANGED cache,
         Answers(e), ~ Served(e) => Tells(e),
         Served(e) => Returned(e.cmd, e.key, e.result, e.err)
  PROVE  LogAndCache'
  <1> PICK n \in Nat : n = Len(log)
    BY DEF TypeOK
  <1>1. log \in Seq(Entries) /\ n \in Nat
    BY DEF TypeOK
  <1>2. /\ DOMAIN log = 1 .. n /\ DOMAIN log' = 1 .. n + 1
        /\ log'[n + 1] = e /\ \A i \in 1 .. n : log'[i] = log[i]
    BY <1>1
  <1>3. NoErrorMeansAnswer'
    BY <1>1, <1>2 DEF LogAndCache, NoErrorMeansAnswer, Answers
  <1>4. EventsTellOutcome'
    <2> SUFFICES ASSUME NEW i \in 1 .. n + 1, ~ Served(log'[i]) PROVE Tells(log'[i])
      BY <1>2 DEF EventsTellOutcome, Tells, Served
    <2>1. CASE i = n + 1
      BY <1>2, <2>1
    <2>2. CASE i \in 1 .. n
      <3>1. \A j \in 1 .. n : ~ Served(log[j]) => Tells(log[j])
        BY <1>2 DEF LogAndCache, EventsTellOutcome, Tells
      <3>2. log'[i] = log[i]
        BY <1>2, <2>2
      <3> QED BY <2>2, <3>1, <3>2
    <2> QED BY <1>1, <2>1, <2>2
  <1>5. ServedWasReturned'
    <2> SUFFICES ASSUME NEW i \in 1 .. n + 1, Served(log'[i])
                 PROVE  \E j \in 1 .. i - 1 :
                          /\ ~ Served(log'[j]) /\ log'[j].cmd = log'[i].cmd
                          /\ log'[j].key = log'[i].key
                          /\ log'[j].result = log'[i].result /\ log'[j].err = log'[i].err
      BY <1>2 DEF ServedWasReturned, Served
    <2>1. CASE i = n + 1
      <3>1. PICK j \in 1 .. n : /\ ~ Served(log[j]) /\ log[j].cmd = e.cmd /\ log[j].key = e.key
                                /\ log[j].result = e.result /\ log[j].err = e.err
        BY <1>2, <2>1 DEF Returned
      <3>2. j \in 1 .. i - 1
        BY <1>1, <2>1
      <3> QED BY <1>2, <2>1, <3>1, <3>2
    <2>2. CASE i \in 1 .. n
      <3>1. PICK j \in 1 .. i - 1 :
              /\ ~ Served(log[j]) /\ log[j].cmd = log[i].cmd /\ log[j].key = log[i].key
              /\ log[j].result = log[i].result /\ log[j].err = log[i].err
        BY <1>2, <2>2 DEF LogAndCache, ServedWasReturned
      <3>2. j \in 1 .. n
        BY <1>1, <2>2
      <3> QED BY <1>2, <2>2, <3>1, <3>2
    <2> QED BY <1>1, <2>1, <2>2
  <1>6. CacheIsReturned'
    <2>1. \A c, k, r, x : Returned(c, k, r, x) => Returned(c, k, r, x)'
      BY StaysReturned
    <2> QED BY <2>1 DEF LogAndCache, CacheIsReturned
  <1> QED BY <1>3, <1>4, <1>5, <1>6 DEF LogAndCache

\* The entry AppendLog makes of a call.
EntryOf(c) == [cmd |-> c.cmd, key |-> c.key, events |-> EventsOf(c),
               raised |-> c.raised, result |-> c.result, err |-> c.err]

\* What is logged of a call is an entry of the log.
LEMMA EntryTyped ==
  ASSUME NEW c \in Calls
  PROVE  /\ EntryOf(c) \in Entries
         /\ c.stats = << >> => EventsOf(c) = c.fallback
         /\ c.fallback = << >> => EventsOf(c) = c.stats
  <1>1. c.stats \in Seq(Events) /\ c.fallback \in Seq(Events)
    BY DEF Calls
  <1>2. c.stats \o c.fallback \in Seq(Events)
    BY <1>1, ConcatProperties
  <1>3. << >> \o c.fallback = c.fallback /\ c.stats \o << >> = c.stats
    BY <1>1, ConcatEmptySeq
  <1> QED BY <1>2, <1>3 DEF EntryOf, Entries, EventsOf, Calls

\* An execution that has ended is logged with an answer or an error, and with
\* the events of its outcome.
LEMMA EndedAgrees ==
  ASSUME NEW c \in Calls, Ended(c)
  PROVE  /\ ~ Served(EntryOf(c))
         /\ Answers(EntryOf(c)) /\ Tells(EntryOf(c))
  <1> DEFINE e == EntryOf(c)
             kind == EventFor(c.raised)
  <1>1. /\ e.cmd = c.cmd /\ e.raised = c.raised /\ e.result = c.result /\ e.err = c.err
        /\ e.events = EventsOf(c)
        /\ c.raised \in Errors \cup Panics \cup {"none"}
    BY DEF EntryOf, Calls
  <1>2. c.raised # "none" =>
          /\ kind \in {"Timeout", "ShortCircuited", "SemaphoreRejected", "Failure"}
          /\ kind = "Timeout" <=> c.raised = "timeout"
          /\ kind = "ShortCircuited" <=> c.raised = "circuitOpen"
          /\ kind = "SemaphoreRejected" <=> c.raised = "rejected"
    BY <1>1, Kinds
  <1>3. "none" \notin {"timeout", "circuitOpen", "rejected"}
    OBVIOUS
  <1> HIDE DEF kind, e
  <1>4. CASE Succeeded(c)
    <2>1. e.events = <<"Success">>
      BY <1>1, <1>4, EntryTyped DEF Succeeded
    <2>2. ~ Served(e)
      BY <2>1 DEF Served, ToSet
    <2>3. c.result # Nil /\ c.result.by # "fallback" /\ c.raised = "none" /\ c.err = "none"
      BY <1>4 DEF Succeeded, Nil
    <2> QED BY <1>1, <2>1, <2>2, <2>3 DEF Answers, Tells, e
  <1>5. CASE Failed(c)
    <2>1. e.events = <<"Failure">>
      BY <1>1, <1>5, EntryTyped DEF Failed
    <2>2. ~ Served(e)
      BY <2>1 DEF Served, ToSet
    <2>3. /\ c.result.by # "fallback" /\ c.raised # "none" /\ c.cmd \notin FallbackEnabled
          /\ c.err = "none" => c.raised \in Panics
      BY <1>5 DEF Failed, Raised, Nil
    <2> QED BY <1>1, <2>1, <2>2, <2>3 DEF Answers, Tells, e
  <1>6. CASE Replaced(c)
    <2>1. e.events = <<kind, "FallbackSuccess">>
      BY <1>1, <1>6, EntryTyped DEF Replaced, kind
    <2>2. c.raised # "none" /\ c.cmd \in FallbackEnabled /\ c.err = "none"
          /\ c.result.by = "fallback" /\ c.result # Nil
      BY <1>6 DEF Replaced, Nil
    <2>3. ~ Served(e)
      BY <1>2, <2>1, <2>2 DEF Served, ToSet
    <2> QED BY <1>1, <1>2, <2>1, <2>2, <2>3 DEF Answers, Tells, e
  <1>7. CASE GaveUp(c)
    <2>1. e.events \in {<<kind>>, <<kind, "FallbackFailure">>}
      BY <1>1, <1>7, EntryTyped DEF GaveUp, kind
    <2>2. c.raised # "none" /\ c.cmd \in FallbackEnabled /\ c.err # "none"
          /\ c.result.by # "fallback"
      BY <1>7 DEF GaveUp, Nil
    <2>3. ~ Served(e)
      BY <1>2, <2>1, <2>2 DEF Served, ToSet
    <2>4. /\ e.events[1] = kind
          /\ e.events[Len(e.events)] \notin {"Success", "FallbackSuccess"}
      BY <1>2, <2>1, <2>2
    <2>5. Answers(e)
      BY <1>1, <2>2 DEF Answers
    <2>6. Tells(e)
      BY <1>1, <1>2, <2>2, <2>4 DEF Tells
    <2> QED BY <2>3, <2>5, <2>6 DEF e
  <1> QED BY <1>4, <1>5, <1>6, <1>7 DEF Ended, e

\* A call answered from the cache is logged as such, with what was returned.
LEMMA FromCacheAgrees ==
  ASSUME NEW c \in Calls, FromCache(c)
  PROVE  /\ Served(EntryOf(c)) /\ Answers(EntryOf(c))
         /\ Returned(c.cmd, c.key, c.result, c.err)
  <1>1. EventsOf(c) \in {<<"ResponseFromCache">>, <<"Success", "ResponseFromCache">>}
    BY EntryTyped DEF FromCache
  <1>2. Served(EntryOf(c))
    <2>1. EntryOf(c).events = EventsOf(c)
      BY DEF EntryOf
    <2>2. \E i \in DOMAIN EventsOf(c) : EventsOf(c)[i] = "ResponseFromCache"
      BY <1>1
    <2> QED BY <2>1, <2>2 DEF Served, ToSet
  <1> QED BY <1>2 DEF Answers, FromCache, EntryOf

\* The execution is logged: Progress of the call makes the entry right.
LEMMA AppendLogPreserves ==
  ASSUME IInv, NEW w \in Workers, AppendLog(w)
  PROVE  IInv'
  <1> DEFINE c == call[w]
             e == EntryOf(c)
  <1>1. /\ pc[w] = "log" /\ c \in Calls
        /\ c.cmd \in Commands /\ c.key \in Keys
        /\ Ended(c) \/ FromCache(c)
        /\ log' = Append(log, e)
        /\ UNCHANGED <<breakers, created, taken, cache, counts, execs>>
        /\ SharedTyped /\ TypeOK
    BY CallTyped DEF AppendLog, At, IInv, Progress, TypeOK, SharedTyped, EntryOf
  <1>2. e \in Entries
    BY <1>1, EntryTyped
  <1>3. SharedTyped'
    BY <1>1, <1>2 DEF SharedTyped
  <1>4. /\ Answers(e)
        /\ ~ Served(e) => Tells(e)
        /\ Served(e) => Returned(e.cmd, e.key, e.result, e.err)
        /\ Ended(c) => ~ Served(e)
    BY <1>1, EndedAgrees, FromCacheAgrees DEF EntryOf
  <1>5. LogAndCache'
    BY <1>1, <1>2, <1>4, LogGrows DEF IInv, LogAndCache
  <1>6. CASE Remembers(c)
    <2>1. Goto(w, "add") /\ call' = call
      BY <1>6 DEF AppendLog
    <2>2. Ended(c) /\ ~ Failed(c)
      BY <1>1, <1>6 DEF Remembers, FromCache, Failed, Raised
    <2>3. /\ pc' \in [Workers -> Labels]
          /\ pc'[w] = "add"
          /\ \A v \in Workers : v # w => pc'[v] = pc[v] /\ call'[v] = call[v]
          /\ \A v \in Workers : call'[v] \in IF pc'[v] = "idle" THEN {NoCall} ELSE Calls
      BY <1>1, <2>1 DEF TypeOK, Goto, Labels
    <2>4. TypeOK'
      BY <1>1, <1>3, <2>1, <2>3, Typed DEF TypeOK, SharedTyped, Labels
    <2>5. Returned(c.cmd, c.key, c.result, c.err)'
      <3>1. Len(log) + 1 \in DOMAIN log' /\ log'[Len(log) + 1] = e
        BY <1>1, <1>2 DEF TypeOK
      <3>2. ~ Served(e) /\ e.cmd = c.cmd /\ e.key = c.key /\ e.result = c.result /\ e.err = c.err
        BY <1>4, <2>2 DEF EntryOf
      <3> HIDE DEF e
      <3> QED BY <2>1, <3>1, <3>2 DEF Returned, Served
    <2>6. Progress(w)'
      BY <2>1, <2>2, <2>3, <2>5
      DEF Progress, At, Ended, Succeeded, Failed, Replaced, GaveUp, Raised
    <2>7. \A v \in Workers : Progress(v)'
      BY <1>1, <2>3, <2>6, OthersProgress DEF IInv
    <2>8. SlotsHeld'
      BY <1>1, <2>3, SlotsStand DEF IInv
    <2> QED BY <1>5, <2>4, <2>7, <2>8 DEF IInv, LogAndCache
  <1>7. CASE ~ Remembers(c)
    <2>1. Return(w)
      BY <1>7 DEF AppendLog
    <2> QED BY <1>1, <1>3, <1>5, <2>1, Step_Home
  <1> QED BY <1>6, <1>7

\* The answer is cached: it has been logged.
LEMMA AddToCachePreserves ==
  ASSUME IInv, NEW w \in Workers, AddToCache(w)
  PROVE  IInv'
  <1> DEFINE c == call[w]
             entry == [result |-> c.result, err |-> c.err,
                       events |-> Append(c.stats, "ResponseFromCache")]
  <1>1. /\ pc[w] = "add" /\ c \in Calls
        /\ c.cmd \in Commands /\ c.key \in Keys
        /\ c.stats \in Seq(Events) /\ c.result \in Results /\ c.err \in Errors \cup {"none"}
        /\ Ended(c) /\ ~ Failed(c) /\ Returned(c.cmd, c.key, c.result, c.err)
        /\ cache' = [cache EXCEPT ![<<c.cmd, c.key>>] = entry]
        /\ Return(w)
        /\ UNCHANGED <<breakers, created, taken, log, counts, execs>>
        /\ SharedTyped /\ TypeOK
    BY CallTyped DEF AddToCache, At, IInv, Progress, TypeOK, SharedTyped, Slot
  <1>2. "ResponseFromCache" \in Events /\ "Success" \in Events
    BY DEF Events
  <1>3. c.stats = <<"Success">> \/ c.stats = << >>
    BY <1>1 DEF Ended, Succeeded, Replaced, GaveUp
  <1>4. entry.events \in {<<"ResponseFromCache">>, <<"Success", "ResponseFromCache">>}
    <2>1. Append(<<"Success">>, "ResponseFromCache") = <<"Success", "ResponseFromCache">>
      BY <1>2, AppendToOne
    <2>2. Append(<< >>, "ResponseFromCache") = <<"ResponseFromCache">>
      OBVIOUS
    <2> QED BY <1>3, <2>1, <2>2
  <1>5. entry.err = "none" => entry.result # Nil
    BY <1>1 DEF Ended, Succeeded, Replaced, GaveUp, Nil
  <1>6. entry \in Cached
    <2>1. Append(c.stats, "ResponseFromCache") \in Seq(Events)
      BY <1>1, <1>2, AppendProperties
    <2> QED BY <1>1, <2>1 DEF Cached
  <1>7. Returned(c.cmd, c.key, entry.result, entry.err)
    BY <1>1
  <1> HIDE DEF entry
  <1>8. SharedTyped'
    BY <1>1, <1>6 DEF SharedTyped
  <1>9. CacheIsReturned'
    <2>1. \A d, k, r, x : Returned(d, k, r, x) => Returned(d, k, r, x)'
      BY <1>1 DEF Returned, Served
    <2> SUFFICES ASSUME NEW d \in Commands, NEW k \in Keys, cache'[<<d, k>>] # NoEntry
                 PROVE  /\ cache'[<<d, k>>].events
                             \in {<<"ResponseFromCache">>, <<"Success", "ResponseFromCache">>}
                        /\ cache'[<<d, k>>].err = "none" => cache'[<<d, k>>].result # Nil
                        /\ Returned(d, k, cache'[<<d, k>>].result, cache'[<<d, k>>].err)
      BY <2>1 DEF CacheIsReturned
    <2>2. CASE d = c.cmd /\ k = c.key
      <3>1. cache'[<<d, k>>] = entry
        BY <1>1, <2>2 DEF SharedTyped
      <3> QED BY <1>4, <1>5, <1>7, <2>2, <3>1
    <2>3. CASE ~ (d = c.cmd /\ k = c.key)
      <3>1. cache'[<<d, k>>] = cache[<<d, k>>]
        BY <1>1, <2>3 DEF SharedTyped
      <3> QED BY <3>1 DEF IInv, CacheIsReturned
    <2> QED BY <2>2, <2>3
  <1>10. LogAndCache'
    BY <1>1, <1>9
    DEF IInv, LogAndCache, NoErrorMeansAnswer, EventsTellOutcome, ServedWasReturned, Served
  <1> QED BY <1>1, <1>8, <1>10, Step_Home
-----------------------------------------------------------------------------
\* Nothing happens.
LEMMA StutterPreserves ==
  ASSUME IInv, UNCHANGED vars
  PROVE  IInv'
  <1>1. TypeOK'
    BY DEF IInv, vars, TypeOK
  <1>2. SlotsHeld'
    BY DEF IInv, vars, SlotsHeld, Holders, At
  <1>3. \A c, k, r, x : Returned(c, k, r, x)' <=> Returned(c, k, r, x)
    BY DEF vars, Returned, Served
  <1>4. \A w \in Workers : Progress(w)'
    BY <1>3 DEF IInv, vars, Progress, At, Fresh, FromCache, Ended, Succeeded, Failed,
                Replaced, GaveUp, Raised
  <1>5. LogAndCache'
    BY LogStands DEF IInv, vars, LogAndCache
  <1> QED BY <1>1, <1>2, <1>4, <1>5 DEF IInv, LogAndCache

\* Every step keeps the invariant.
LEMMA NextPreserves == IInv /\ [Next]_vars => IInv'
  <1> SUFFICES ASSUME IInv, [Next]_vars PROVE IInv'
    OBVIOUS
  <1>1. ASSUME NEW w \in Workers, Step(w) PROVE IInv'
    BY <1>1, StartPreserves, LookupPreserves, GetBreakerPreserves, SetBreakerPreserves,
       DecidePreserves, AcquirePreserves, RunPreserves, RecoverPreserves, FallbackPreserves,
       UpdateMetricsPreserves, AppendLogPreserves, AddToCachePreserves
    DEF Step
  <1>2. CASE UNCHANGED vars
    BY <1>2, StutterPreserves
  <1> QED BY <1>1, <1>2 DEF Next

\* The answers, errors and statistics of every goroutine of the request, the
\* cache and the log stay consistent, whatever the interleaving.
THEOREM Inductive == Spec => []IInv
  BY InitEstablishes, NextPreserves, PTL DEF Spec

\* The variables of Exec and what its goroutines share have their types, and no
\* more slots of a semaphore are taken than there are (executor.go:109-112).
THEOREM TypeCorrect == Spec => []TypeOK
  <1>1. IInv => TypeOK
    BY DEF IInv
  <1> QED BY <1>1, Inductive, PTL

\* A nil error comes with an answer, unless a panic met a disabled fallback
\* (executor.go:67-83).
THEOREM NilErrorIsAnswered == Spec => []NoErrorMeansAnswer
  <1>1. IInv => NoErrorMeansAnswer
    BY DEF IInv
  <1> QED BY <1>1, Inductive, PTL

\* The logged events of every execution say what became of it (log.go:13-26).
THEOREM LogTellsOutcome == Spec => []EventsTellOutcome
  <1>1. IInv => EventsTellOutcome
    BY DEF IInv
  <1> QED BY <1>1, Inductive, PTL

\* The cache serves nothing but what an execution of the same command and key
\* returned and logged before (executor.go:86, :90-98).
THEOREM CacheServesReturned == Spec => []ServedWasReturned
  <1>1. IInv => ServedWasReturned
    BY DEF IInv
  <1> QED BY <1>1, Inductive, PTL

\* The slots taken are those of the goroutines in Run: none leaks, however an
\* execution ends (executor.go:111).
THEOREM NoSlotLeaks == Spec => []SlotsHeld
  <1>1. IInv => SlotsHeld
    BY DEF IInv
  <1> QED BY <1>1, Inductive, PTL
-----------------------------------------------------------------------------
(* ExecutionsCountOnce and StampedeIsBounded.  The log is related to calls *)
(* under way by how many they are.                                         *)

\* Sets of workers are finite, and counted as their members come and go.
LEMMA WorkersCounted ==
  ASSUME NEW S \in SUBSET Workers
  PROVE  /\ Cardinality(S) \in Nat
         /\ \A w : w \notin S => Cardinality(S \cup {w}) = Cardinality(S) + 1
         /\ \A w \in S : Cardinality(S \ {w}) = Cardinality(S) - 1
  <1>1. IsFiniteSet(S)
    BY ExecutorAssumption, FS_Subset
  <1>2. \A w : w \notin S => Cardinality(S \cup {w}) = Cardinality(S) + 1
    BY <1>1, FS_AddElement
  <1>3. \A w \in S : Cardinality(S \ {w}) = Cardinality(S) - 1
    BY <1>1, FS_RemoveElement
  <1> QED BY <1>1, <1>2, <1>3, FS_CardinalityType

\* The logged executions of a command, and under a key, are finitely many.
LEMMA LogCounted ==
  ASSUME TypeOK, NEW c, NEW k
  PROVE  /\ IsFiniteSet(Logged(c)) /\ IsFiniteSet(LoggedUnder(c, k))
         /\ Cardinality(Logged(c)) \in Nat /\ Cardinality(LoggedUnder(c, k)) \in Nat
  <1>1. Len(log) \in Nat /\ DOMAIN log = 1 .. Len(log)
    BY DEF TypeOK
  <1>2. IsFiniteSet(1 .. Len(log))
    BY <1>1, FS_Interval
  <1>3. Logged(c) \subseteq 1 .. Len(log) /\ LoggedUnder(c, k) \subseteq 1 .. Len(log)
    BY <1>1 DEF Logged, LoggedUnder
  <1> QED BY <1>2, <1>3, FS_Subset, FS_CardinalityType

\* An execution that is logged is one more under its command and key.
LEMMA LogCountsOneMore ==
  ASSUME TypeOK, NEW e \in Entries, log' = Append(log, e), NEW c, NEW k
  PROVE  /\ Cardinality(Logged(c))' =
              Cardinality(Logged(c)) + IF e.cmd = c /\ ~ Served(e) THEN 1 ELSE 0
         /\ Cardinality(LoggedUnder(c, k))' =
              Cardinality(LoggedUnder(c, k))
              + IF e.cmd = c /\ e.key = k /\ ~ Served(e) THEN 1 ELSE 0
  <1> PICK n \in Nat : n = Len(log)
    BY DEF TypeOK
  <1>1. /\ DOMAIN log = 1 .. n /\ DOMAIN log' = 1 .. n + 1
        /\ log'[n + 1] = e /\ \A i \in 1 .. n : log'[i] = log[i]
    BY DEF TypeOK
  <1>2. n + 1 \notin 1 .. n /\ 1 .. n + 1 = (1 .. n) \cup {n + 1}
    OBVIOUS
  <1>3. /\ n + 1 \notin Logged(c) /\ n + 1 \notin LoggedUnder(c, k)
    BY <1>1, <1>2 DEF Logged, LoggedUnder
  <1>4. Logged(c)' = IF e.cmd = c /\ ~ Served(e) THEN Logged(c) \cup {n + 1} ELSE Logged(c)
    BY <1>1, <1>2 DEF Logged, Served
  <1>5. LoggedUnder(c, k)' = IF e.cmd = c /\ e.key = k /\ ~ Served(e)
                             THEN LoggedUnder(c, k) \cup {n + 1} ELSE LoggedUnder(c, k)
    <2>1. \A i \in 1 .. n : log'[i].key = log[i].key
      BY <1>1
    <2> QED BY <1>1, <1>2, <1>3, <1>4, <2>1 DEF LoggedUnder, Logged
  <1>6. /\ Cardinality(Logged(c) \cup {n + 1}) = Cardinality(Logged(c)) + 1
        /\ Cardinality(LoggedUnder(c, k) \cup {n + 1}) = Cardinality(LoggedUnder(c, k)) + 1
    BY <1>3, LogCounted, FS_AddElement
  <1> QED BY <1>4, <1>5, <1>6, LogCounted

\* A call between its miss in the cache and the log, or not cacheable.
InExecution ==
  {"getBreaker", "setBreaker", "decide", "acquire", "run", "recover", "fallback", "metrics", "log"}

\* The others stay where they are.
OthersStand(w) == \A v \in Workers : v # w => pc'[v] = pc[v] /\ call'[v] = call[v]

\* A call goes on under its command and key.
GoesOn(w) ==
  /\ OthersStand(w)
  /\ pc[w] \in InExecution /\ pc'[w] \in InExecution
  /\ call'[w].cmd = call[w].cmd /\ call'[w].key = call[w].key
  /\ call'[w].fromCache = call[w].fromCache
  /\ UNCHANGED <<log, cache>>

\* A call under the same command and key, come from the same place.
Alike(d, c) == d.cmd = c.cmd /\ d.key = c.key /\ d.fromCache = c.fromCache

\* A step within an execution, to a call alike, lets it go on.
LEMMA GoesOnBy ==
  ASSUME TypeOK, NEW w \in Workers, pc[w] \in InExecution, UNCHANGED <<log, cache>>,
         NEW l \in InExecution, Goto(w, l),
         UNCHANGED call \/ \E c : Becomes(w, c) /\ Alike(c, call[w])
  PROVE  GoesOn(w) /\ pc'[w] = l
  <1>1. pc'[w] = l /\ \A v \in Workers : v # w => pc'[v] = pc[v]
    BY DEF TypeOK, Goto
  <1>2. CASE UNCHANGED call
    BY <1>1, <1>2 DEF GoesOn, OthersStand
  <1>3. CASE ~ UNCHANGED call
    <2>1. PICK c : Becomes(w, c) /\ Alike(c, call[w])
      BY <1>3
    <2>2. call'[w] = c /\ \A v \in Workers : v # w => call'[v] = call[v]
      BY <2>1 DEF TypeOK, Becomes
    <2> QED BY <1>1, <2>1, <2>2 DEF GoesOn, OthersStand, Alike
  <1> QED BY <1>2, <1>3

\* The steps of an execution from the breaker to the metrics.
LEMMA ExecutionGoesOn ==
  ASSUME TypeOK, NEW w \in Workers,
         \/ GetBreaker(w) \/ SetBreaker(w) \/ Decide(w) \/ Acquire(w) \/ Run(w)
         \/ Recover(w) \/ Fallback(w)
  PROVE  /\ GoesOn(w) /\ pc[w] # "log" /\ pc'[w] # "log"
         /\ UNCHANGED counts
  <1> DEFINE c == call[w]
  <1>1. /\ pc[w] \in InExecution \ {"log"} /\ UNCHANGED <<log, cache, counts>>
    <2>1. /\ pc[w] \in {"getBreaker", "setBreaker", "decide", "acquire", "run", "recover", "fallback"}
      BY DEF GetBreaker, SetBreaker, Decide, Acquire, Run, Recover, Fallback, At
    <2>2. UNCHANGED log
      BY DEF GetBreaker, SetBreaker, Decide, Acquire, Run, Recover, Fallback
    <2>3. UNCHANGED cache
      BY DEF GetBreaker, SetBreaker, Decide, Acquire, Run, Recover, Fallback
    <2>4. UNCHANGED counts
      BY DEF GetBreaker, SetBreaker, Decide, Acquire, Run, Recover, Fallback
    <2> QED BY <2>1, <2>2, <2>3, <2>4 DEF InExecution
  <1>2. c \in Calls
    BY <1>1, CallTyped DEF InExecution
  <1> SUFFICES GoesOn(w) /\ pc'[w] # "log"
    BY <1>1
  <1>3. ASSUME NEW l \in InExecution \ {"log"}, Goto(w, l),
               UNCHANGED call \/ \E d : Becomes(w, d) /\ Alike(d, c)
        PROVE  GoesOn(w) /\ pc'[w] # "log"
    BY <1>1, <1>3, GoesOnBy
  <1>4. {"setBreaker", "decide", "acquire", "run", "recover", "fallback", "metrics"}
          \subseteq InExecution \ {"log"}
    BY DEF InExecution
  <1>5. ASSUME NEW error, Raise(w, c, error)
        PROVE  GoesOn(w) /\ pc'[w] # "log"
    <2>1. Alike([Left(c) EXCEPT !.raised = error, !.err = error], c)
      BY <1>2 DEF Left, Calls, Alike
    <2>2. Goto(w, "recover") /\ \E d : Becomes(w, d) /\ Alike(d, c)
      BY <1>5, <2>1 DEF Raise
    <2> QED BY <1>3, <1>4, <2>2
  <1>6. CASE GetBreaker(w)
    <2>1. \A b : Alike([c EXCEPT !.breaker = b], c)
      BY <1>2 DEF Calls, Alike
    <2>2. \E l \in {"decide", "setBreaker"} : \E b :
            Goto(w, l) /\ Becomes(w, [c EXCEPT !.breaker = b])
      BY <1>6 DEF GetBreaker
    <2>3. \E l \in {"decide", "setBreaker"} : Goto(w, l) /\ \E d : Becomes(w, d) /\ Alike(d, c)
      BY <2>1, <2>2
    <2> QED BY <1>3, <1>4, <2>3
  <1>7. CASE SetBreaker(w)
    <2>1. Goto(w, "decide") /\ UNCHANGED call
      BY <1>7 DEF SetBreaker
    <2> QED BY <1>3, <1>4, <2>1
  <1>8. CASE Decide(w)
    <2>1. \A b : Alike([c EXCEPT !.trial = b], c)
      BY <1>2 DEF Calls, Alike
    <2>2. CASE Raise(w, c, "circuitOpen")
      BY <1>5, <2>2
    <2>3. CASE \E trial \in BOOLEAN : Goto(w, "acquire") /\ Becomes(w, [c EXCEPT !.trial = trial])
      <3>1. Goto(w, "acquire") /\ \E d : Becomes(w, d) /\ Alike(d, c)
        BY <2>1, <2>3
      <3> QED BY <1>3, <1>4, <3>1
    <2> QED BY <1>8, <2>2, <2>3 DEF Decide
  <1>9. CASE Acquire(w)
    <2>1. CASE Raise(w, c, Reported(c, "rejected"))
      BY <1>5, <2>1
    <2>2. CASE Goto(w, "run") /\ UNCHANGED call
      BY <1>3, <1>4, <2>2
    <2> QED BY <1>9, <2>1, <2>2 DEF Acquire
  <1>10. CASE Run(w)
    <2> DEFINE answered == [Left(c) EXCEPT !.stats = Append(@, "Success"),
                                           !.result = [by |-> "run", exec |-> c.exec]]
               panicked(value) == [Left(c) EXCEPT !.raised = value]
    <2>1. Alike(answered, c) /\ \A value : Alike(panicked(value), c)
      BY <1>2 DEF Calls, Left, Alike
    <2>2. \/ Goto(w, "metrics") /\ Becomes(w, answered)
          \/ \E error \in RunErrors : Raise(w, c, Reported(c, error))
          \/ \E value \in Panics : Goto(w, "recover") /\ Becomes(w, panicked(value))
      BY <1>10 DEF Run
    <2> HIDE DEF answered, panicked
    <2>3. \/ \E l \in {"metrics", "recover"} : Goto(w, l) /\ \E d : Becomes(w, d) /\ Alike(d, c)
          \/ \E error : Raise(w, c, error)
      BY <2>1, <2>2
    <2> QED BY <1>3, <1>4, <1>5, <2>3
  <1>11. CASE Recover(w)
    <2> DEFINE replaced == [c EXCEPT !.fallback = <<EventFor(c.raised)>>]
               failed == [c EXCEPT !.stats = Append(@, "Failure")]
    <2>1. Alike(replaced, c) /\ Alike(failed, c)
      BY <1>2 DEF Calls, Alike
    <2>2. \/ Goto(w, "fallback") /\ Becomes(w, replaced)
          \/ Goto(w, "metrics") /\ Becomes(w, failed)
      BY <1>11 DEF Recover
    <2> HIDE DEF replaced, failed
    <2>3. \E l \in {"metrics", "fallback"} : Goto(w, l) /\ \E d : Becomes(w, d) /\ Alike(d, c)
      BY <2>1, <2>2
    <2> QED BY <1>3, <1>4, <2>3
  <1>12. CASE Fallback(w)
    <2> DEFINE answered == [c EXCEPT !.fallback = Append(@, "FallbackSuccess"),
                                     !.result = [by |-> "fallback", exec |-> c.exec],
                                     !.err = "none"]
               failed(x) == [c EXCEPT !.fallback = Append(@, "FallbackFailure"), !.err = x]
               missing == [c EXCEPT !.err = ErrorOf(c.raised)]
    <2>1. Alike(answered, c) /\ (\A x : Alike(failed(x), c)) /\ Alike(missing, c)
      BY <1>2 DEF Calls, Alike
    <2>2. /\ Goto(w, "metrics")
          /\ \/ Becomes(w, answered) \/ Becomes(w, failed(ErrorOf(c.raised)))
             \/ Becomes(w, missing)
             \/ \E value \in Panics : Becomes(w, failed(ErrorOf(value)))
      BY <1>12 DEF Fallback
    <2> HIDE DEF answered, failed, missing
    <2>3. Goto(w, "metrics") /\ \E d : Becomes(w, d) /\ Alike(d, c)
      BY <2>1, <2>2
    <2> QED BY <1>3, <1>4, <2>3
  <1> QED BY <1>1, <1>6, <1>7, <1>8, <1>9, <1>10, <1>11, <1>12
-----------------------------------------------------------------------------
(* Every execution is counted once.                                        *)

\* The events that TotalRequests counts.
Primary == {"Success", "Failure", "ShortCircuited", "Timeout", "SemaphoreRejected"}

\* An execution has one of them, an answer from the cache has none.
LEMMA EndedIsOne ==
  ASSUME NEW c \in Calls, Ended(c)
  PROVE  \E p \in Primary : Counted(EventsOf(c)) \cap Primary = {p}
  <1> DEFINE kind == EventFor(c.raised)
  <1>1. c.raised \in Errors \cup Panics \cup {"none"}
    BY DEF Calls
  <1>2. c.raised # "none" => kind \in Primary
    BY <1>1, Kinds DEF Primary
  <1> HIDE DEF kind
  <1>3. PICK p \in Primary : EventsOf(c) \in {<<p>>, <<p, "FallbackSuccess">>, <<p, "FallbackFailure">>}
    <2>1. CASE Succeeded(c)
      BY <2>1, EntryTyped DEF Succeeded, Primary
    <2>2. CASE Failed(c)
      BY <2>2, EntryTyped DEF Failed, Primary
    <2>3. CASE Replaced(c)
      BY <1>2, <2>3, EntryTyped DEF Replaced, kind
    <2>4. CASE GaveUp(c)
      BY <1>2, <2>4, EntryTyped DEF GaveUp, kind
    <2> QED BY <2>1, <2>2, <2>3, <2>4 DEF Ended
  <1>4. ToSet(EventsOf(c)) \in {{p}, {p, "FallbackSuccess"}, {p, "FallbackFailure"}}
    BY <1>3 DEF ToSet
  <1>5. p \in Primary /\ Primary \cap {"FallbackSuccess", "FallbackFailure", "ResponseFromCache"} = {}
    BY DEF Primary
  <1>6. Counted(EventsOf(c)) = ToSet(EventsOf(c))
    BY <1>4, <1>5 DEF Counted
  <1> QED BY <1>4, <1>5, <1>6

\* A call answered from the cache counts none of the events TotalRequests sums.
LEMMA FromCacheIsNone ==
  ASSUME NEW c \in Calls, FromCache(c)
  PROVE  Counted(EventsOf(c)) \cap Primary = {}
  <1>1. "ResponseFromCache" \in ToSet(EventsOf(c))
    BY FromCacheAgrees DEF Served, EntryOf
  <1> QED BY <1>1 DEF Counted, Primary

\* Counting events raises the total by the primary ones among them.
LEMMA TotalGrows ==
  ASSUME TypeOK, NEW c \in Commands, NEW S, NEW d \in Commands,
         counts' = [counts EXCEPT ![c] = [e \in Events |-> @[e] + IF e \in S THEN 1 ELSE 0]]
  PROVE  /\ d # c \/ S \cap Primary = {} => TotalRequests(d)' = TotalRequests(d)
         /\ d = c /\ (\E p \in Primary : S \cap Primary = {p}) =>
              TotalRequests(d)' = TotalRequests(d) + 1
  <1>1. /\ \A e \in Events : counts[d][e] \in Nat
        /\ Primary \subseteq Events
    <2>1. counts[d] \in [Events -> Nat]
      BY DEF TypeOK
    <2>2. Primary \subseteq Events
      BY DEF Events, Primary
    <2> QED BY <2>1, <2>2
  <1>2. CASE d # c
    BY <1>2 DEF TotalRequests, TypeOK
  <1>3. CASE d = c
    <2>1. \A e \in Events : counts'[d][e] = counts[d][e] + IF e \in S THEN 1 ELSE 0
      BY <1>3 DEF TypeOK
    <2>2. CASE S \cap Primary = {}
      <3>1. \A e \in Primary : counts'[d][e] = counts[d][e]
        BY <1>1, <2>1, <2>2
      <3> QED BY <1>3, <2>2, <3>1 DEF TotalRequests, Primary
    <2>3. ASSUME NEW p \in Primary, S \cap Primary = {p}
          PROVE  TotalRequests(d)' = TotalRequests(d) + 1
      <3>1. \A e \in Primary : counts'[d][e] = IF e = p THEN counts[d][e] + 1 ELSE counts[d][e]
        BY <1>1, <2>1, <2>3
      <3> QED BY <1>1, <3>1 DEF TotalRequests, Primary
    <2> QED BY <1>3, <2>2, <2>3
  <1> QED BY <1>2, <1>3

\* A total is a natural number.
LEMMA TotalTyped ==
  ASSUME TypeOK, NEW c \in Commands
  PROVE  TotalRequests(c) \in Nat
  <1>1. counts[c] \in [Events -> Nat]
    BY DEF TypeOK
  <1>2. \A e \in Primary : counts[c][e] \in Nat
    BY <1>1 DEF Primary, Events
  <1>3. /\ counts[c]["Success"] \in Nat /\ counts[c]["Failure"] \in Nat
        /\ counts[c]["ShortCircuited"] \in Nat /\ counts[c]["Timeout"] \in Nat
        /\ counts[c]["SemaphoreRejected"] \in Nat
    BY <1>2 DEF Primary
  <1> QED BY <1>3 DEF TotalRequests

\* A step that neither counts nor logs.
LEMMA CountStands ==
  ASSUME ExecutionsCountOnce, UNCHANGED <<log, counts>>,
         NEW w \in Workers, OthersStand(w), pc[w] # "log", pc'[w] # "log"
  PROVE  ExecutionsCountOnce'
  <1>1. \A c : Logged(c)' = Logged(c)
    BY DEF Logged, Served
  <1>2. \A c : Unlogged(c)' = Unlogged(c)
    BY DEF Unlogged, OthersStand, At
  <1>3. \A c : TotalRequests(c)' = TotalRequests(c)
    BY DEF TotalRequests
  <1> QED BY <1>1, <1>2, <1>3 DEF ExecutionsCountOnce

\* Metrics count an execution that is about to be logged.
LEMMA UpdateMetricsCounts ==
  ASSUME IInv, ExecutionsCountOnce, NEW w \in Workers, UpdateMetrics(w)
  PROVE  ExecutionsCountOnce'
  <1> DEFINE c == call[w]
             S == Counted(EventsOf(c))
  <1>1. /\ pc[w] = "metrics" /\ c \in Calls /\ c.cmd \in Commands
        /\ Ended(c) \/ FromCache(c)
        /\ TypeOK /\ UNCHANGED <<log, call>>
    BY CallTyped DEF UpdateMetrics, At, IInv, Progress
  <1>2. pc'[w] = "log" /\ \A v \in Workers : v # w => pc'[v] = pc[v]
    BY <1>1 DEF UpdateMetrics, Goto, TypeOK
  <1>3. counts' = [counts EXCEPT ![c.cmd] = [e \in Events |-> @[e] + IF e \in S THEN 1 ELSE 0]]
    BY DEF UpdateMetrics
  <1>4. \A d : Logged(d)' = Logged(d)
    BY <1>1 DEF Logged, Served
  <1>5. w \notin Unlogged(c.cmd)
    BY <1>1 DEF Unlogged, At
  <1> SUFFICES ASSUME NEW d \in Commands
               PROVE  (TotalRequests(d) = Cardinality(Logged(d)) + Cardinality(Unlogged(d)))'
    BY DEF ExecutionsCountOnce
  <1>6. /\ TotalRequests(d) = Cardinality(Logged(d)) + Cardinality(Unlogged(d))
        /\ TotalRequests(d) \in Nat /\ Cardinality(Logged(d)) \in Nat
        /\ Unlogged(d) \in SUBSET Workers /\ Cardinality(Unlogged(d)) \in Nat
    <2>1. Unlogged(d) \in SUBSET Workers
      BY DEF Unlogged
    <2> QED BY <1>1, <2>1, TotalTyped, LogCounted, WorkersCounted DEF ExecutionsCountOnce
  <1>7. CASE d = c.cmd /\ Ended(c)
    <2>1. Unlogged(d)' = Unlogged(d) \cup {w}
      BY <1>1, <1>2, <1>7 DEF Unlogged, At, Ended
    <2>2. Cardinality(Unlogged(d))' = Cardinality(Unlogged(d)) + 1
      BY <1>5, <1>6, <1>7, <2>1, WorkersCounted
    <2>3. \E p \in Primary : S \cap Primary = {p}
      BY <1>1, <1>7, EndedIsOne
    <2> HIDE DEF S, c
    <2>4. TotalRequests(d)' = TotalRequests(d) + 1
      BY <1>1, <1>3, <1>7, <2>3, TotalGrows
    <2> QED BY <1>4, <1>6, <2>2, <2>4
  <1>8. CASE d # c.cmd \/ FromCache(c)
    <2>1. Unlogged(d)' = Unlogged(d)
      BY <1>1, <1>2, <1>8 DEF Unlogged, At, FromCache
    <2>2. d # c.cmd \/ S \cap Primary = {}
      BY <1>1, <1>8, FromCacheIsNone
    <2> HIDE DEF S, c
    <2>3. TotalRequests(d)' = TotalRequests(d)
      BY <1>1, <1>3, <2>2, TotalGrows
    <2> QED BY <1>4, <1>6, <2>1, <2>3
  <1> QED BY <1>1, <1>7, <1>8

\* What AppendLog does, of a call that ended or came from the cache.
LEMMA AppendLogDoes ==
  ASSUME IInv, NEW w \in Workers, AppendLog(w)
  PROVE  /\ TypeOK /\ pc[w] = "log" /\ call[w] \in Calls
         /\ EntryOf(call[w]) \in Entries /\ log' = Append(log, EntryOf(call[w]))
         /\ Served(EntryOf(call[w])) <=> call[w].fromCache
         /\ ~ call[w].fromCache => Ended(call[w])
         /\ EntryOf(call[w]).cmd = call[w].cmd /\ EntryOf(call[w]).key = call[w].key
         /\ OthersStand(w)
         /\ IF Remembers(call[w]) THEN pc'[w] = "add" /\ call' = call
                                  ELSE pc'[w] = "idle"
         /\ UNCHANGED <<cache, counts>>
  <1> DEFINE c == call[w]
  <1>1. /\ TypeOK /\ pc[w] = "log" /\ c \in Calls
        /\ Ended(c) \/ FromCache(c)
        /\ log' = Append(log, EntryOf(c))
        /\ UNCHANGED <<cache, counts>>
    BY CallTyped DEF AppendLog, At, IInv, Progress, EntryOf
  <1>2. /\ Served(EntryOf(c)) <=> c.fromCache
        /\ ~ c.fromCache => Ended(c)
    BY <1>1, EndedAgrees, FromCacheAgrees DEF Ended, FromCache
  <1>3. CASE Remembers(c)
    <2>1. Goto(w, "add") /\ call' = call
      BY <1>3 DEF AppendLog
    <2>2. pc'[w] = "add" /\ OthersStand(w)
      BY <1>1, <2>1 DEF Goto, OthersStand, TypeOK
    <2> QED BY <1>1, <1>2, <1>3, <2>1, <2>2, EntryTyped DEF EntryOf
  <1>4. CASE ~ Remembers(c)
    <2>1. Return(w)
      BY <1>4 DEF AppendLog
    <2>2. pc'[w] = "idle" /\ OthersStand(w)
      BY <1>1, <2>1, MovedHome DEF OthersStand
    <2> QED BY <1>1, <1>2, <1>4, <2>2, EntryTyped DEF EntryOf
  <1> QED BY <1>3, <1>4

\* An execution that is logged has been counted.
LEMMA AppendLogCounts ==
  ASSUME IInv, ExecutionsCountOnce, NEW w \in Workers, AppendLog(w)
  PROVE  ExecutionsCountOnce'
  <1> DEFINE c == call[w]
             e == EntryOf(c)
  <1>1. /\ TypeOK /\ pc[w] = "log" /\ pc'[w] # "log" /\ OthersStand(w)
        /\ e \in Entries /\ log' = Append(log, e)
        /\ Served(e) <=> c.fromCache
        /\ e.cmd = c.cmd /\ UNCHANGED counts
    BY AppendLogDoes
  <1> SUFFICES ASSUME NEW d \in Commands
               PROVE  (TotalRequests(d) = Cardinality(Logged(d)) + Cardinality(Unlogged(d)))'
    BY DEF ExecutionsCountOnce
  <1>2. Unlogged(d) \in SUBSET Workers
    BY DEF Unlogged
  <1>3. /\ TotalRequests(d)' = TotalRequests(d)
        /\ TotalRequests(d) = Cardinality(Logged(d)) + Cardinality(Unlogged(d))
        /\ Cardinality(Logged(d)) \in Nat /\ Cardinality(Unlogged(d)) \in Nat
    BY <1>1, <1>2, LogCounted, WorkersCounted DEF ExecutionsCountOnce, TotalRequests
  <1>4. CASE d = c.cmd /\ ~ c.fromCache
    <2>1. w \in Unlogged(d) /\ Unlogged(d)' = Unlogged(d) \ {w}
      BY <1>1, <1>4 DEF Unlogged, At, OthersStand
    <2>2. Cardinality(Unlogged(d))' = Cardinality(Unlogged(d)) - 1
      BY <1>2, <2>1, WorkersCounted
    <2> HIDE DEF c, e
    <2>3. Cardinality(Logged(d))' = Cardinality(Logged(d)) + 1
      BY <1>1, <1>4, LogCountsOneMore
    <2> QED BY <1>3, <2>2, <2>3
  <1>5. CASE ~ (d = c.cmd /\ ~ c.fromCache)
    <2>1. Unlogged(d)' = Unlogged(d)
      BY <1>1, <1>5 DEF Unlogged, At, OthersStand
    <2> HIDE DEF c, e
    <2>2. ~ (e.cmd = d /\ ~ Served(e))
      BY <1>1, <1>5
    <2>3. Cardinality(Logged(d))' = Cardinality(Logged(d)) + 0
      BY <1>1, <2>2, LogCountsOneMore
    <2> QED BY <1>3, <2>1, <2>3
  <1> QED BY <1>4, <1>5

\* Start, Lookup and AddToCache do not touch the log.
LEMMA OutsideStands ==
  ASSUME TypeOK, NEW w \in Workers, Start(w) \/ Lookup(w) \/ AddToCache(w)
  PROVE  /\ OthersStand(w) /\ pc[w] # "log" /\ pc'[w] # "log"
         /\ UNCHANGED <<log, counts>>
  <1>1. CASE Start(w)
    <2>1. PICK l \in {"lookup", "getBreaker"} : Goto(w, l) /\ \E c : Becomes(w, c)
      BY <1>1 DEF Start
    <2> QED BY <1>1, <2>1 DEF Start, At, Goto, Becomes, OthersStand, TypeOK
  <1>2. CASE Lookup(w)
    <2>1. PICK l \in {"metrics", "getBreaker"} :
            Goto(w, l) /\ (call' = call \/ \E c : Becomes(w, c))
      BY <1>2 DEF Lookup
    <2>2. pc'[w] = l /\ \A v \in Workers : v # w => pc'[v] = pc[v]
      BY <2>1 DEF Goto, TypeOK
    <2>3. \A v \in Workers : v # w => call'[v] = call[v]
      BY <2>1 DEF Becomes, TypeOK
    <2> QED BY <1>2, <2>2, <2>3 DEF Lookup, At, OthersStand
  <1>3. CASE AddToCache(w)
    BY <1>3, MovedHome DEF AddToCache, At, OthersStand
  <1> QED BY <1>1, <1>2, <1>3

\* Every step keeps total, log and executions under way in balance.
LEMMA CountPreserved == IInv /\ ExecutionsCountOnce /\ [Next]_vars => ExecutionsCountOnce'
  <1> SUFFICES ASSUME IInv, ExecutionsCountOnce, [Next]_vars PROVE ExecutionsCountOnce'
    OBVIOUS
  <1>1. TypeOK
    BY DEF IInv
  <1>2. ASSUME NEW w \in Workers, Step(w) PROVE ExecutionsCountOnce'
    <2>1. CASE Start(w) \/ Lookup(w) \/ AddToCache(w)
      BY <1>1, <2>1, OutsideStands, CountStands
    <2>2. CASE \/ GetBreaker(w) \/ SetBreaker(w) \/ Decide(w) \/ Acquire(w) \/ Run(w)
               \/ Recover(w) \/ Fallback(w)
      BY <1>1, <2>2, ExecutionGoesOn, CountStands DEF GoesOn
    <2> QED BY <1>2, <2>1, <2>2, UpdateMetricsCounts, AppendLogCounts DEF Step
  <1>3. CASE UNCHANGED vars
    BY <1>3 DEF vars, ExecutionsCountOnce, TotalRequests, Logged, Served, Unlogged, At
  <1> QED BY <1>2, <1>3 DEF Next

\* Nothing is counted and nothing logged.
LEMMA CountInit == Init => ExecutionsCountOnce
  <1> SUFFICES ASSUME Init, NEW c \in Commands
               PROVE  TotalRequests(c) = Cardinality(Logged(c)) + Cardinality(Unlogged(c))
    BY DEF ExecutionsCountOnce
  <1>1. TotalRequests(c) = 0
    BY DEF Init, TotalRequests, Events
  <1>2. Logged(c) = {} /\ Unlogged(c) = {}
    BY DEF Init, Logged, Unlogged, At
  <1> QED BY <1>1, <1>2, FS_EmptySet

\* TotalRequests (commandmetrics.go:60-67) counts every execution once and no
\* answer from the cache, in whatever order metrics and log are updated.
THEOREM EveryExecutionCounts == Spec => []ExecutionsCountOnce
  BY CountInit, CountPreserved, Inductive, PTL DEF Spec
-----------------------------------------------------------------------------
(* A stampede is bounded.                                                  *)

\* Those about to cache and those executing are workers, and none is both.
LEMMA UnderTyped ==
  ASSUME NEW c, NEW k
  PROVE  /\ Executing(c, k) \in SUBSET Workers /\ Adding(c, k) \in SUBSET Workers
         /\ Cardinality(Executing(c, k)) \in Nat /\ Cardinality(Adding(c, k)) \in Nat
         /\ Cardinality(Workers) \in Nat
         /\ Cardinality(Adding(c, k)) + Cardinality(Executing(c, k)) <= Cardinality(Workers)
  <1>1. /\ Executing(c, k) \in SUBSET Workers /\ Adding(c, k) \in SUBSET Workers
        /\ Adding(c, k) \cap Executing(c, k) = {}
    BY DEF Executing, Adding, Under
  <1>2. IsFiniteSet(Executing(c, k)) /\ IsFiniteSet(Adding(c, k)) /\ IsFiniteSet(Workers)
    BY <1>1, ExecutorAssumption, FS_Subset
  <1>3. Cardinality(Adding(c, k) \cup Executing(c, k)) =
          Cardinality(Adding(c, k)) + Cardinality(Executing(c, k))
    <2> DEFINE A == Adding(c, k)
               E == Executing(c, k)
    <2>1. Cardinality(A \cup E) = Cardinality(A) + Cardinality(E) - Cardinality(A \cap E)
      BY <1>2, FS_Union
    <2>2. Cardinality(A \cap E) = 0
      BY <1>1, FS_EmptySet
    <2>3. Cardinality(A) \in Nat /\ Cardinality(E) \in Nat
      BY <1>2, FS_CardinalityType
    <2> HIDE DEF A, E
    <2>4. Cardinality(A \cup E) = Cardinality(A) + Cardinality(E)
      BY <2>1, <2>2, <2>3
    <2> QED BY <2>4 DEF A, E
  <1>4. Cardinality(Adding(c, k) \cup Executing(c, k)) <= Cardinality(Workers)
    BY <1>1, <1>2, FS_Subset
  <1> QED BY <1>1, <1>2, <1>3, <1>4, FS_CardinalityType

\* A step that neither logs nor caches: who adds is the same, and who executes
\* too, unless nothing is cached.
LEMMA StampedeStands ==
  ASSUME Stampede, UNCHANGED <<log, cache>>,
         NEW w \in Workers, OthersStand(w), pc[w] # "add", pc'[w] # "add",
         \A c \in Commands, k \in Keys \ {NoKey} :
           (w \in Executing(c, k))' /\ w \notin Executing(c, k) => cache[<<c, k>>] = NoEntry,
         \A c \in Commands, k \in Keys \ {NoKey} :
           w \in Executing(c, k) => (w \in Executing(c, k))'
  PROVE  Stampede'
  <1> SUFFICES ASSUME NEW c \in FallbackEnabled, NEW k \in Keys \ {NoKey}
               PROVE  IF cache[<<c, k>>] = NoEntry
                      THEN Cardinality(LoggedUnder(c, k))' = Cardinality(Adding(c, k))'
                      ELSE Cardinality(LoggedUnder(c, k))' + Cardinality(Executing(c, k))'
                             <= Cardinality(Workers)
    BY DEF Stampede
  <1>1. LoggedUnder(c, k)' = LoggedUnder(c, k)
    BY DEF LoggedUnder, Logged, Served
  <1>2. Adding(c, k)' = Adding(c, k)
    BY DEF Adding, Under, OthersStand
  <1>3. cache[<<c, k>>] # NoEntry => Executing(c, k)' = Executing(c, k)
    <2>1. c \in Commands
      BY ExecutorAssumption
    <2>2. \A v \in Workers : v # w => (v \in Executing(c, k) <=> (v \in Executing(c, k))')
      BY DEF Executing, Under, OthersStand
    <2>3. \A v \in Executing(c, k) : v \in Workers
      BY DEF Executing, Under
    <2>4. \A v \in Executing(c, k)' : v \in Workers
      BY DEF Executing, Under
    <2> QED BY <2>1, <2>2, <2>3, <2>4
  <1> QED BY <1>1, <1>2, <1>3 DEF Stampede

\* A call that goes on with its execution changes neither side.
LEMMA GoesOnStands ==
  ASSUME Stampede, NEW w \in Workers, GoesOn(w)
  PROVE  Stampede'
  <1>1. /\ OthersStand(w) /\ pc[w] # "add" /\ pc'[w] # "add"
        /\ UNCHANGED <<log, cache>>
    BY DEF GoesOn, InExecution
  <1>2. \A c, k : w \in Executing(c, k) <=> (w \in Executing(c, k))'
    BY DEF GoesOn, InExecution, Executing, Under
  <1> QED BY <1>1, <1>2, StampedeStands

\* Nobody is executing who has not looked into the cache and found nothing.
LEMMA StartStands ==
  ASSUME TypeOK, Stampede, NEW w \in Workers, Start(w)
  PROVE  Stampede'
  <1>1. /\ OthersStand(w) /\ pc[w] = "idle"
        /\ UNCHANGED <<log, cache>>
    BY OutsideStands DEF Start, At
  <1>2. pc'[w] = IF Cacheable(call'[w]) THEN "lookup" ELSE "getBreaker"
    BY DEF Start, Goto, TypeOK
  <1>3. \A c \in Commands, k \in Keys \ {NoKey} :
          w \notin Executing(c, k) /\ ~ (w \in Executing(c, k))'
    BY <1>1, <1>2 DEF Executing, Under, Cacheable
  <1> QED BY <1>1, <1>2, <1>3, StampedeStands

\* A look-up starts an execution only where nothing is cached.
LEMMA LookupStands ==
  ASSUME TypeOK, Stampede, NEW w \in Workers, Lookup(w)
  PROVE  Stampede'
  <1> DEFINE entry == cache[Slot(call[w])]
  <1>1. /\ OthersStand(w) /\ pc[w] = "lookup" /\ call[w] \in Calls
        /\ UNCHANGED <<log, cache>>
    BY OutsideStands, CallTyped DEF Lookup, At
  <1>2. \A c, k : w \notin Executing(c, k)
    BY <1>1 DEF Executing, Under
  <1>3. CASE entry # NoEntry
    <2>1. /\ Goto(w, "metrics")
          /\ \E e : Becomes(w, [call[w] EXCEPT !.fromCache = TRUE, !.stats = e.events,
                                               !.result = e.result, !.err = e.err])
      BY <1>3 DEF Lookup
    <2>2. pc'[w] = "metrics" /\ call'[w].fromCache
      BY <1>1, <2>1 DEF Goto, Becomes, TypeOK, Calls
    <2>3. \A c, k : ~ (w \in Executing(c, k))'
      BY <2>2 DEF Executing, Under
    <2> QED BY <1>1, <1>2, <2>2, <2>3, StampedeStands
  <1>4. CASE entry = NoEntry
    <2>1. pc'[w] = "getBreaker" /\ call' = call
      BY <1>4 DEF Lookup, Goto, TypeOK
    <2>2. \A c, k : (w \in Executing(c, k))' => cache[<<c, k>>] = NoEntry
      BY <1>4, <2>1 DEF Executing, Under, Slot
    <2> QED BY <1>1, <1>2, <2>1, <2>2, StampedeStands
  <1> QED BY <1>3, <1>4

\* Logging takes a worker from executing to caching.
LEMMA AppendLogStands ==
  ASSUME IInv, Stampede, NEW w \in Workers, AppendLog(w)
  PROVE  Stampede'
  <1> DEFINE x == call[w]
             e == EntryOf(x)
  <1>1. /\ TypeOK /\ pc[w] = "log" /\ x \in Calls
        /\ e \in Entries /\ log' = Append(log, e)
        /\ Served(e) <=> x.fromCache
        /\ e.cmd = x.cmd /\ e.key = x.key
        /\ OthersStand(w) /\ UNCHANGED cache
    BY AppendLogDoes
  <1>2. IF Remembers(x) THEN pc'[w] = "add" /\ call' = call ELSE pc'[w] = "idle"
    BY AppendLogDoes
  <1> SUFFICES ASSUME NEW c \in FallbackEnabled, NEW k \in Keys \ {NoKey}
               PROVE  IF cache[<<c, k>>] = NoEntry
                      THEN Cardinality(LoggedUnder(c, k))' = Cardinality(Adding(c, k))'
                      ELSE Cardinality(LoggedUnder(c, k))' + Cardinality(Executing(c, k))'
                             <= Cardinality(Workers)
    BY <1>1 DEF Stampede
  <1>3. /\ IF cache[<<c, k>>] = NoEntry
           THEN Cardinality(LoggedUnder(c, k)) = Cardinality(Adding(c, k))
           ELSE Cardinality(LoggedUnder(c, k)) + Cardinality(Executing(c, k))
                  <= Cardinality(Workers)
        /\ Cardinality(LoggedUnder(c, k)) \in Nat
        /\ Cardinality(Executing(c, k)) \in Nat /\ Cardinality(Workers) \in Nat
        /\ Executing(c, k) \in SUBSET Workers /\ Adding(c, k) \in SUBSET Workers
    BY <1>1, LogCounted, UnderTyped DEF Stampede
  <1>4. CASE x.cmd = c /\ x.key = k /\ ~ x.fromCache
    <2>1. pc'[w] = "add" /\ call' = call
      BY <1>2, <1>4 DEF Remembers, Cacheable
    <2>2. w \in Executing(c, k) /\ Executing(c, k)' = Executing(c, k) \ {w}
      BY <1>1, <1>4, <2>1 DEF Executing, Under, OthersStand
    <2>3. w \notin Adding(c, k) /\ Adding(c, k)' = Adding(c, k) \cup {w}
      BY <1>1, <1>4, <2>1 DEF Adding, Under, OthersStand
    <2>4. /\ Cardinality(Executing(c, k))' = Cardinality(Executing(c, k)) - 1
          /\ Cardinality(Adding(c, k))' = Cardinality(Adding(c, k)) + 1
      BY <1>3, <2>2, <2>3, WorkersCounted
    <2> HIDE DEF e, x
    <2>5. Cardinality(LoggedUnder(c, k))' = Cardinality(LoggedUnder(c, k)) + 1
      BY <1>1, <1>4, LogCountsOneMore
    <2> QED BY <1>3, <2>4, <2>5
  <1>5. CASE ~ (x.cmd = c /\ x.key = k /\ ~ x.fromCache)
    <2>1. Executing(c, k)' = Executing(c, k)
      BY <1>1, <1>2, <1>5 DEF Executing, Under, OthersStand
    <2>2. Adding(c, k)' = Adding(c, k)
      BY <1>1, <1>2, <1>5 DEF Adding, Under, OthersStand
    <2> HIDE DEF e, x
    <2>3. Cardinality(LoggedUnder(c, k))' = Cardinality(LoggedUnder(c, k))
      BY <1>1, <1>3, <1>5, LogCountsOneMore
    <2> QED BY <1>3, <2>1, <2>2, <2>3
  <1> QED BY <1>4, <1>5

\* Whoever has logged before the first is cached is a worker, and so is whoever
\* may still log after it: none is both.
LEMMA AddToCacheStands ==
  ASSUME IInv, Stampede, NEW w \in Workers, AddToCache(w)
  PROVE  Stampede'
  <1> DEFINE x == call[w]
  <1>1. /\ TypeOK /\ pc[w] = "add" /\ x \in Calls
        /\ x.cmd \in Commands /\ x.key \in Keys /\ x.stats \in Seq(Events)
        /\ OthersStand(w) /\ UNCHANGED log
    BY OutsideStands, CallTyped DEF IInv, AddToCache, At
  <1>2. pc'[w] = "idle"
    BY <1>1, MovedHome DEF AddToCache
  <1>3. PICK entry : /\ cache' = [cache EXCEPT ![<<x.cmd, x.key>>] = entry]
                     /\ entry.events = Append(x.stats, "ResponseFromCache")
    <2> DEFINE new == [result |-> x.result, err |-> x.err,
                       events |-> Append(x.stats, "ResponseFromCache")]
    <2>1. cache' = [cache EXCEPT ![<<x.cmd, x.key>>] = new]
      BY DEF AddToCache, Slot
    <2>2. new.events = Append(x.stats, "ResponseFromCache")
      OBVIOUS
    <2> HIDE DEF new
    <2> QED BY <2>1, <2>2
  <1>4. entry # NoEntry
    <2>1. Len(entry.events) = Len(x.stats) + 1 /\ Len(x.stats) \in Nat
      BY <1>1, <1>3, AppendProperties DEF Events
    <2>2. NoEntry.events = << >>
      BY DEF NoEntry
    <2> QED BY <2>1, <2>2
  <1> SUFFICES ASSUME NEW c \in FallbackEnabled, NEW k \in Keys \ {NoKey}
               PROVE  IF cache'[<<c, k>>] = NoEntry
                      THEN Cardinality(LoggedUnder(c, k))' = Cardinality(Adding(c, k))'
                      ELSE Cardinality(LoggedUnder(c, k))' + Cardinality(Executing(c, k))'
                             <= Cardinality(Workers)
    BY DEF Stampede
  <1>5. LoggedUnder(c, k)' = LoggedUnder(c, k)
    BY <1>1 DEF LoggedUnder, Logged, Served
  <1>6. Executing(c, k)' = Executing(c, k)
    BY <1>1, <1>2 DEF Executing, Under, OthersStand
  <1>7. c \in Commands /\ DOMAIN cache = Commands \X Keys
    BY <1>1, ExecutorAssumption DEF TypeOK
  <1>8. CASE c = x.cmd /\ k = x.key
    <2>1. cache'[<<c, k>>] # NoEntry
      BY <1>3, <1>4, <1>7, <1>8
    <2>2. Cardinality(LoggedUnder(c, k)) + Cardinality(Executing(c, k)) <= Cardinality(Workers)
      BY <1>7, UnderTyped DEF Stampede
    <2> QED BY <1>5, <1>6, <2>1, <2>2
  <1>9. CASE ~ (c = x.cmd /\ k = x.key)
    <2>1. cache'[<<c, k>>] = cache[<<c, k>>]
      BY <1>1, <1>3, <1>7, <1>9
    <2>2. Adding(c, k)' = Adding(c, k)
      BY <1>1, <1>2, <1>9 DEF Adding, Under, OthersStand
    <2> QED BY <1>5, <1>6, <2>1, <2>2 DEF Stampede
  <1> QED BY <1>8, <1>9

\* Every step keeps the stampede's bound.
LEMMA StampedePreserved == IInv /\ Stampede /\ [Next]_vars => Stampede'
  <1> SUFFICES ASSUME IInv, Stampede, [Next]_vars PROVE Stampede'
    OBVIOUS
  <1>1. TypeOK
    BY DEF IInv
  <1>2. ASSUME NEW w \in Workers, Step(w) PROVE Stampede'
    <2>1. CASE \/ GetBreaker(w) \/ SetBreaker(w) \/ Decide(w) \/ Acquire(w) \/ Run(w)
               \/ Recover(w) \/ Fallback(w)
      BY <1>1, <2>1, ExecutionGoesOn, GoesOnStands
    <2>2. CASE UpdateMetrics(w)
      <3>1. GoesOn(w)
        BY <1>1, <2>2, GoesOnBy DEF UpdateMetrics, At, InExecution
      <3> QED BY <3>1, GoesOnStands
    <2> QED BY <1>1, <1>2, <2>1, <2>2, StartStands, LookupStands, AppendLogStands,
               AddToCacheStands DEF Step
  <1>3. CASE UNCHANGED vars
    <2>1. UNCHANGED <<log, cache, pc, call>>
      BY <1>3 DEF vars
    <2>2. ASSUME NEW c, NEW k
          PROVE  UNCHANGED <<LoggedUnder(c, k), Executing(c, k), Adding(c, k), cache[<<c, k>>]>>
      <3>1. LoggedUnder(c, k)' = LoggedUnder(c, k)
        BY <2>1 DEF LoggedUnder, Logged, Served
      <3>2. Executing(c, k)' = Executing(c, k) /\ Adding(c, k)' = Adding(c, k)
        BY <2>1 DEF Executing, Adding, Under
      <3> QED BY <2>1, <3>1, <3>2
    <2> QED BY <2>2 DEF Stampede
  <1> QED BY <1>2, <1>3 DEF Next

\* No worker executes and nothing is logged.
LEMMA StampedeInit == Init => Stampede
  <1> SUFFICES ASSUME Init, NEW c \in FallbackEnabled, NEW k \in Keys \ {NoKey}
               PROVE  /\ cache[<<c, k>>] = NoEntry
                      /\ LoggedUnder(c, k) = {} /\ Adding(c, k) = {}
    BY DEF Stampede
  <1>1. c \in Commands
    BY ExecutorAssumption
  <1> QED BY <1>1 DEF Init, LoggedUnder, Logged, Adding, Under

\* Of a command with a fallback no more executions happen under one key than
\* there are goroutines, however many calls they make (executor.go:85-97).
THEOREM StampedeBounded == Spec => []StampedeIsBounded
  <1>1. IInv /\ Stampede => StampedeIsBounded
    <2> SUFFICES ASSUME IInv, Stampede, NEW c \in FallbackEnabled, NEW k \in Keys \ {NoKey}
                 PROVE  Cardinality(LoggedUnder(c, k)) <= Cardinality(Workers)
      BY DEF StampedeIsBounded
    <2>1. TypeOK
      BY DEF IInv
    <2> DEFINE m == Cardinality(LoggedUnder(c, k))
               a == Cardinality(Adding(c, k))
               e == Cardinality(Executing(c, k))
               n == Cardinality(Workers)
    <2>2. m \in Nat
      BY <2>1, LogCounted
    <2>3. a \in Nat /\ e \in Nat /\ n \in Nat /\ a + e <= n
      BY UnderTyped
    <2>4. m = a \/ m + e <= n
      BY DEF Stampede
    <2> HIDE DEF m, a, e, n
    <2>5. m <= n
      BY <2>2, <2>3, <2>4
    <2> QED BY <2>5 DEF m, n
  <1> QED BY <1>1, StampedeInit, StampedePreserved, Inductive, PTL DEF Spec
-----------------------------------------------------------------------------
(* What RequestLog.String shows.  Both folds, FoldLeft's over the entries  *)
(* and the sum of their times, are a function on the subsets of a finite   *)
(* set: there is one that satisfies its equation, by induction over these, *)
(* and then the loop's own invariant holds after every entry.              *)

\* What strict subsets hand on to their set, all subsets of a finite set have.
LEMMA SubsetInduction ==
  ASSUME NEW D, IsFiniteSet(D), NEW P,
         \A s \in SUBSET D : (\A t \in SUBSET s : t # s => t \in P) => s \in P
  PROVE  SUBSET D \subseteq P
  <1> DEFINE R == StrictSubsetOrdering(D)
             Q == (SUBSET D) \ P
  <1>1. IsWellFoundedOn(R, SUBSET D)
    BY FS_StrictSubsetOrderingWellFounded, FS_FiniteSubsetsOfFinite
  <1>2. Q \subseteq SUBSET D
    OBVIOUS
  <1> SUFFICES ASSUME Q # {} PROVE FALSE
    OBVIOUS
  <1>3. PICK s \in Q : \A t \in Q : <<t, s>> \notin R
    <2> HIDE DEF R, Q
    <2> QED BY <1>1, <1>2, WFMin
  <1>4. ASSUME NEW t \in SUBSET s, t # s PROVE t \in P
    <2>1. t \in SUBSET D
      BY <1>3
    <2>2. <<t, s>> \in R
      BY <1>3, <1>4, <2>1 DEF StrictSubsetOrdering
    <2> QED BY <1>3, <2>1, <2>2
  <1>5. s \in P
    BY <1>3, <1>4
  <1> QED BY <1>3, <1>5

\* A finite set of integers has a least member and a greatest.
LEMMA Extremes ==
  ASSUME NEW S, IsFiniteSet(S), S \subseteq Int, S # {}
  PROVE  /\ \E x \in S : \A y \in S : x <= y
         /\ \E x \in S : \A y \in S : x >= y
  <1> DEFINE P == {s \in SUBSET S : s # {} =>
                     /\ \E x \in s : \A y \in s : x <= y
                     /\ \E x \in s : \A y \in s : x >= y}
  <1>1. ASSUME NEW s \in SUBSET S, \A t \in SUBSET s : t # s => t \in P
        PROVE  s \in P
    <2> SUFFICES ASSUME s # {}
                 PROVE  /\ \E x \in s : \A y \in s : x <= y
                        /\ \E x \in s : \A y \in s : x >= y
      OBVIOUS
    <2>1. PICK d \in s : d \in Int
      OBVIOUS
    <2>2. CASE s \ {d} = {}
      <3>1. \A y \in s : y = d
        BY <2>2
      <3> QED BY <2>1, <3>1
    <2>3. CASE s \ {d} # {}
      <3>1. s \ {d} \in P
        BY <1>1, <2>1
      <3>2. PICK a \in s \ {d} : \A y \in s \ {d} : a <= y
        BY <2>3, <3>1
      <3>3. PICK b \in s \ {d} : \A y \in s \ {d} : b >= y
        BY <2>3, <3>1
      <3>4. a \in Int /\ b \in Int /\ \A y \in s : y \in Int
        OBVIOUS
      <3>5. \E x \in s : \A y \in s : x <= y
        <4>1. CASE a <= d
          BY <3>2, <4>1
        <4>2. CASE d <= a
          BY <2>1, <3>2, <3>4, <4>2
        <4> QED BY <2>1, <3>4, <4>1, <4>2
      <3>6. \E x \in s : \A y \in s : x >= y
        <4>1. CASE b >= d
          BY <3>3, <4>1
        <4>2. CASE d >= b
          BY <2>1, <3>3, <3>4, <4>2
        <4> QED BY <2>1, <3>4, <4>1, <4>2
      <3> QED BY <3>5, <3>6
    <2> QED BY <2>2, <2>3
  <1>2. SUBSET S \subseteq P
    <2> HIDE DEF P
    <2> QED BY <1>1, SubsetInduction
  <1> QED BY <1>2

\* h folds every subset of s: base is that of none, c chooses the member that
\* step takes last.
FoldsAll(h, s, base, c, step) ==
  \A t \in SUBSET s : h[t] = IF t = {} THEN base ELSE step[<<c[t], h[t \ {c[t]}]>>]

\* The folds of the library are well defined: there is such a function.
LEMMA FoldExists ==
  ASSUME NEW D, IsFiniteSet(D), NEW V, NEW base \in V,
         NEW c, \A s \in SUBSET D : s # {} => c[s] \in s,
         NEW step \in [D \X V -> V]
  PROVE  \E h \in [SUBSET D -> V] : FoldsAll(h, D, base, c, step)
  <1> DEFINE Sol(s) == {h \in [SUBSET s -> V] : FoldsAll(h, s, base, c, step)}
             val == [s \in SUBSET D |-> CHOOSE v : \E h \in Sol(s) : v = h[s]]
             P == {s \in SUBSET D :
                     /\ Sol(s) # {}
                     /\ \A b \in SUBSET D : s \subseteq b => \A h \in Sol(b) : h[s] = val[s]}
  <1>1. ASSUME NEW b \in SUBSET D, NEW h \in Sol(b), NEW t \in SUBSET b
        PROVE  /\ h[t] \in V
               /\ h[t] = IF t = {} THEN base ELSE step[<<c[t], h[t \ {c[t]}]>>]
    BY DEF FoldsAll
  <1>2. ASSUME NEW s \in SUBSET D,
                NEW h \in [SUBSET s -> V],
                \A t \in SUBSET s : h[t] = IF t = {} THEN base ELSE step[<<c[t], h[t \ {c[t]}]>>]
         PROVE  h \in Sol(s)
    BY <1>2 DEF FoldsAll
  <1>3. \A s \in SUBSET D : val[s] = CHOOSE v : \E h \in Sol(s) : v = h[s]
    OBVIOUS
  <1> HIDE DEF Sol, val
  <1>4. ASSUME NEW s \in SUBSET D, \A t \in SUBSET s : t # s => t \in P
        PROVE  s \in P
    <2> DEFINE new == IF s = {} THEN base ELSE step[<<c[s], val[s \ {c[s]}]>>]
    <2>1. ASSUME NEW t \in SUBSET s, t # s
          PROVE  /\ val[t] \in V
                 /\ val[t] = IF t = {} THEN base ELSE step[<<c[t], val[t \ {c[t]}]>>]
      <3>1. t \in P /\ t \in SUBSET D
        BY <1>4, <2>1
      <3>2. PICK h \in Sol(t) : h[t] = val[t]
        BY <3>1
      <3>3. h[t] \in V /\ h[t] = IF t = {} THEN base ELSE step[<<c[t], h[t \ {c[t]}]>>]
        BY <1>1, <3>1
      <3>4. ASSUME t # {} PROVE h[t \ {c[t]}] = val[t \ {c[t]}]
        <4>1. t \ {c[t]} \in SUBSET s /\ t \ {c[t]} # s /\ t \ {c[t]} \subseteq t
          BY <2>1, <3>4
        <4>2. t \ {c[t]} \in P
          BY <1>4, <4>1
        <4> QED BY <3>1, <4>1, <4>2
      <3> QED BY <3>2, <3>3, <3>4
    <2>2. ASSUME s # {}
          PROVE  /\ c[s] \in s /\ s \ {c[s]} \in SUBSET s /\ s \ {c[s]} # s
                 /\ s \ {c[s]} \in P /\ val[s \ {c[s]}] \in V
      <3>1. c[s] \in s
        BY <2>2
      <3>2. s \ {c[s]} \in SUBSET s /\ s \ {c[s]} # s
        BY <3>1
      <3> HIDE DEF P
      <3> QED BY <1>4, <2>1, <3>1, <3>2
    <2>3. new \in V
      <3>1. CASE s = {}
        BY <3>1
      <3>2. CASE s # {}
        <4>1. c[s] \in D /\ val[s \ {c[s]}] \in V
          BY <2>2, <3>2
        <4>2. step[<<c[s], val[s \ {c[s]}]>>] \in V
          BY <4>1
        <4> QED BY <3>2, <4>2
      <3> QED BY <3>1, <3>2
    <2>4. ASSUME NEW b \in SUBSET D, s \subseteq b, NEW h \in Sol(b)
          PROVE  h[s] = new
      <3>1. h[s] = IF s = {} THEN base ELSE step[<<c[s], h[s \ {c[s]}]>>]
        BY <1>1, <2>4
      <3>2. ASSUME s # {} PROVE h[s \ {c[s]}] = val[s \ {c[s]}]
        <4>1. s \ {c[s]} \in P /\ s \ {c[s]} \subseteq b
          BY <2>2, <2>4, <3>2
        <4> QED BY <4>1
      <3> QED BY <3>1, <3>2
    <2> DEFINE g == [t \in SUBSET s |-> IF t = s THEN new ELSE val[t]]
    <2>5. g \in Sol(s)
      <3>1. g \in [SUBSET s -> V]
        <4> HIDE DEF new
        <4> QED BY <2>1, <2>3
      <3>2. ASSUME NEW t \in SUBSET s
            PROVE  g[t] = IF t = {} THEN base ELSE step[<<c[t], g[t \ {c[t]}]>>]
        <4>1. t # {} => c[t] \in t
          OBVIOUS
        <4>2. t # {} => t \ {c[t]} \in SUBSET s /\ t \ {c[t]} # s
          BY <4>1
        <4>3. t # {} => g[t \ {c[t]}] = val[t \ {c[t]}]
          <5> HIDE DEF new
          <5> QED BY <4>2
        <4>4. CASE t = s
          <5>1. g[t] = new
            BY <4>4
          <5> HIDE DEF g
          <5> QED BY <4>3, <4>4, <5>1
        <4>5. CASE t # s
          <5>1. g[t] = val[t]
            BY <4>5
          <5> HIDE DEF g, new
          <5> QED BY <2>1, <4>3, <4>5, <5>1
        <4> QED BY <4>4, <4>5
      <3> HIDE DEF g
      <3> QED BY <1>2, <3>1, <3>2
    <2>6. val[s] = new
      <3>1. s \in SUBSET D /\ s \subseteq s
        OBVIOUS
      <3>2. \A h \in Sol(s) : h[s] = new
        BY <2>4, <3>1
      <3> HIDE DEF g, new
      <3>3. \E h \in Sol(s) : new = h[s]
        BY <2>5, <3>2
      <3> QED BY <1>3, <3>2, <3>3
    <2> HIDE DEF g, new
    <2> QED BY <2>4, <2>5, <2>6
  <1>5. SUBSET D \subseteq P
    <2> HIDE DEF P
    <2> QED BY <1>4, SubsetInduction
  <1>6. Sol(D) # {}
    BY <1>5
  <1> QED BY <1>6 DEF Sol

\* h adds up f over each subset of D.
Sums(h, D, f) ==
  /\ h[{}] = 0
  /\ \A s \in SUBSET D : \A x \in s : h[s] = f[x] + h[s \ {x}]

\* A finite function of naturals can be added up, in whatever order.
LEMMA SumExists ==
  ASSUME NEW D, IsFiniteSet(D), NEW f \in [D -> Nat]
  PROVE  \E h \in [SUBSET D -> Nat] : Sums(h, D, f)
  <1> DEFINE c == [s \in SUBSET D |-> CHOOSE x \in s : TRUE]
             step == [u \in D \X Nat |-> f[u[1]] + u[2]]
  <1>1. \A s \in SUBSET D : s # {} => c[s] \in s
    OBVIOUS
  <1>2. step \in [D \X Nat -> Nat] /\ \A x \in D, v \in Nat : step[<<x, v>>] = f[x] + v
    OBVIOUS
  <1>3. 0 \in Nat
    OBVIOUS
  <1> HIDE DEF c, step
  <1>4. step \in [D \X Nat -> Nat]
    BY <1>2
  <1>5. PICK h \in [SUBSET D -> Nat] : FoldsAll(h, D, 0, c, step)
    BY <1>1, <1>3, <1>4, FoldExists
  <1>6. h[{}] = 0
    BY <1>5 DEF FoldsAll
  <1>7. ASSUME NEW s \in SUBSET D, s # {}
        PROVE  c[s] \in s /\ h[s] = f[c[s]] + h[s \ {c[s]}]
    <2>1. c[s] \in s /\ c[s] \in D /\ h[s \ {c[s]}] \in Nat
      BY <1>1, <1>7
    <2>2. h[s] = step[<<c[s], h[s \ {c[s]}]>>]
      BY <1>5, <1>7 DEF FoldsAll
    <2> QED BY <1>2, <2>1, <2>2
  <1> DEFINE P == {s \in SUBSET D : \A x \in s : h[s] = f[x] + h[s \ {x}]}
  <1>8. ASSUME NEW s \in SUBSET D, \A t \in SUBSET s : t # s => t \in P
        PROVE  s \in P
    <2> SUFFICES ASSUME NEW x \in s, x # c[s] PROVE h[s] = f[x] + h[s \ {x}]
      BY <1>7
    <2>1. PICK y \in s : y = c[s] /\ y # x
      BY <1>7
    <2>2. h[s] = f[y] + h[s \ {y}]
      BY <1>7, <2>1
    <2>3. s \ {y} \in P /\ x \in s \ {y} /\ s \ {x} \in P /\ y \in s \ {x}
      BY <1>8, <2>1
    <2>4. h[s \ {y}] = f[x] + h[(s \ {y}) \ {x}]
      BY <2>3
    <2>5. h[s \ {x}] = f[y] + h[(s \ {x}) \ {y}]
      BY <2>3
    <2> DEFINE r == (s \ {x}) \ {y}
    <2>6. (s \ {y}) \ {x} = r /\ r \in SUBSET D
      OBVIOUS
    <2> HIDE DEF r
    <2>7. PICK v \in Nat, p \in Nat, q \in Nat : v = h[r] /\ p = f[x] /\ q = f[y]
      BY <2>6
    <2>8. h[s] = q + (p + v) /\ h[s \ {x}] = q + v
      BY <2>2, <2>4, <2>5, <2>6, <2>7 DEF r
    <2>9. q + (p + v) = p + (q + v)
      OBVIOUS
    <2> QED BY <2>7, <2>8, <2>9
  <1>9. SUBSET D \subseteq P
    <2> HIDE DEF P
    <2> QED BY <1>8, SubsetInduction
  <1> QED BY <1>6, <1>9 DEF Sums

\* The time of the entries in D.
TimeTogether(entries, D) == MapThenSumSet(LAMBDA j : entries[j].time, D)

\* What MapThenSumSet adds up, over the subsets of D.
SumStep(entries, D, h) ==
  [s \in SUBSET D |->
     IF s = {} THEN 0
     ELSE entries[CHOOSE x \in s : TRUE].time + h[s \ {CHOOSE x \in s : TRUE}]]

\* MapThenSumSet over a set of entries is the sum of their times.
LEMMA SumIs ==
  ASSUME NEW entries, NEW D, IsFiniteSet(D), NEW f, NEW g, Sums(g, D, f),
         \A j \in D : entries[j].time = f[j]
  PROVE  TimeTogether(entries, D) = g[D]
  <1> DEFINE H == CHOOSE h : h = SumStep(entries, D, h)
             G == [s \in SUBSET D |-> g[s]]
  <1>1. TimeTogether(entries, D) = H[D]
    BY DEF TimeTogether, MapThenSumSet, MapThenFoldSet, SumStep
  <1>2. G = SumStep(entries, D, G)
    <2>1. ASSUME NEW s \in SUBSET D
          PROVE  G[s] = IF s = {} THEN 0
                        ELSE entries[CHOOSE x \in s : TRUE].time
                               + G[s \ {CHOOSE x \in s : TRUE}]
      <3>1. CASE s = {}
        BY <3>1 DEF Sums
      <3>2. CASE s # {}
        <4> DEFINE x == CHOOSE x \in s : TRUE
        <4>1. x \in s
          BY <3>2
        <4> HIDE DEF x
        <4>2. g[s] = f[x] + g[s \ {x}] /\ entries[x].time = f[x]
          BY <4>1 DEF Sums
        <4>3. G[s] = entries[x].time + G[s \ {x}]
          BY <4>2
        <4> HIDE DEF G
        <4> QED BY <3>2, <4>3 DEF x
      <3> QED BY <3>1, <3>2
    <2>2. G = [s \in SUBSET D |-> G[s]]
      OBVIOUS
    <2> HIDE DEF G
    <2> QED BY <2>1, <2>2 DEF SumStep
  <1>3. H = SumStep(entries, D, H)
    <2> HIDE DEF G
    <2> QED BY <1>2
  <1> HIDE DEF H
  <1>4. \A s \in SUBSET D :
          H[s] = IF s = {} THEN 0
                 ELSE entries[CHOOSE x \in s : TRUE].time + H[s \ {CHOOSE x \in s : TRUE}]
    BY <1>3 DEF SumStep
  <1> DEFINE P == {s \in SUBSET D : H[s] = g[s]}
  <1>5. ASSUME NEW s \in SUBSET D, \A t \in SUBSET s : t # s => t \in P
        PROVE  s \in P
    <2>1. CASE s = {}
      BY <1>4, <2>1 DEF Sums
    <2>2. CASE s # {}
      <3> DEFINE x == CHOOSE x \in s : TRUE
      <3>1. x \in s
        BY <2>2
      <3> HIDE DEF x
      <3>2. s \ {x} \in P
        BY <1>5, <3>1
      <3>3. H[s] = entries[x].time + H[s \ {x}]
        BY <1>4, <2>2 DEF x
      <3>4. g[s] = f[x] + g[s \ {x}] /\ entries[x].time = f[x]
        BY <3>1 DEF Sums
      <3> QED BY <3>2, <3>3, <3>4
    <2> QED BY <2>1, <2>2
  <1>6. SUBSET D \subseteq P
    <2> HIDE DEF P
    <2> QED BY <1>5, SubsetInduction
  <1> QED BY <1>1, <1>6

\* Of n entries that are written W: those which are the first of their like.
FirstsOf(n, W) == {i \in 1 .. n : \A j \in 1 .. n : W[j] = W[i] => i <= j}

\* Of the entries up to k: how many are firsts, how many are like i, and how
\* long these took, with sum to add up what took any time.
PlacesOf(n, W) == [k \in 0 .. n |-> Cardinality({j \in 1 .. k : j \in FirstsOf(n, W)})]
CountsOf(n, W) ==
  [k \in 0 .. n |-> [i \in 1 .. n |-> Cardinality({j \in 1 .. k : W[j] = W[i]})]]
TimesOf(n, W, T, sum) ==
  [k \in 0 .. n |-> [i \in 1 .. n |-> sum[{j \in 1 .. k : W[j] = W[i] /\ T[j] > 0}]]]

\* How these follow from one entry to the next.
Places(n, F, place) ==
  /\ place \in [0 .. n -> Nat] /\ place[0] = 0
  /\ \A k \in 1 .. n : place[k] = place[k - 1] + (IF k \in F THEN 1 ELSE 0)
  /\ \A i \in F : \A k \in 0 .. n : i <= k => place[i] <= place[k]
  /\ \A i \in F : place[i] > 0
Tallies(n, W, T, tally) ==
  /\ \A k \in 0 .. n : \A i \in 1 .. n : tally[k][i] \in Nat
  /\ \A k \in 1 .. n : \A i \in 1 .. n :
       tally[k][i] = tally[k - 1][i] + (IF W[k] = W[i] THEN T[k] ELSE 0)
  /\ \A k \in 0 .. n : \A i \in 1 .. n :
       (\A j \in 1 .. k : W[j] # W[i]) => tally[k][i] = 0

\* The firsts are counted one by one.
LEMMA PlacesFollow ==
  ASSUME NEW n \in Nat, NEW W
  PROVE  Places(n, FirstsOf(n, W), PlacesOf(n, W))
  <1>0. PICK F : F = FirstsOf(n, W)
    OBVIOUS
  <1> DEFINE upTo(k) == {j \in 1 .. k : j \in F}
             place == PlacesOf(n, W)
  <1>1. F \subseteq 1 .. n 
    BY <1>0 DEF FirstsOf
  <1>2. \A k \in 0 .. n : place[k] = Cardinality(upTo(k))
    BY <1>0 DEF PlacesOf
  <1>3. DOMAIN place = 0 .. n /\ place = [k \in 0 .. n |-> place[k]]
    BY DEF PlacesOf
  <1> HIDE DEF place
  <1>4. IsFiniteSet(F)
    <2>1. IsFiniteSet(1 .. n)
      BY FS_Interval
    <2> QED BY <1>1, <2>1, FS_Subset
  <1>5. ASSUME NEW k \in 0 .. n
        PROVE  IsFiniteSet(upTo(k)) /\ Cardinality(upTo(k)) \in Nat
    <2>1. upTo(k) \in SUBSET F
      OBVIOUS
    <2> HIDE DEF upTo
    <2>2. IsFiniteSet(upTo(k))
      BY <1>4, <2>1, FS_Subset
    <2> QED BY <2>2, FS_CardinalityType
  <1>6. place \in [0 .. n -> Nat]
    <2>1. \A k \in 0 .. n : place[k] \in Nat
      BY <1>2, <1>5
    <2> QED BY <1>3, <2>1
  <1>7. place[0] = 0
    <2>1. upTo(0) = {} /\ 0 \in 0 .. n
      BY <1>1
    <2>2. Cardinality({}) = 0
      BY FS_EmptySet
    <2> QED BY <1>2, <2>1, <2>2
  <1>8. ASSUME NEW k \in 1 .. n
        PROVE  place[k] = place[k - 1] + (IF k \in F THEN 1 ELSE 0)
    <2>1. k \in 0 .. n /\ k - 1 \in 0 .. n
      OBVIOUS
    <2>2. CASE k \in F
      <3>1. upTo(k) = upTo(k - 1) \cup {k} /\ k \notin upTo(k - 1)
        BY <1>1, <2>2
      <3> HIDE DEF upTo
      <3>2. Cardinality(upTo(k - 1) \cup {k}) = Cardinality(upTo(k - 1)) + 1
        BY <1>5, <2>1, <3>1, FS_AddElement
      <3> QED BY <1>2, <2>1, <2>2, <3>1, <3>2
    <2>3. CASE k \notin F
      <3>1. upTo(k) = upTo(k - 1)
        BY <1>1, <2>3
      <3> HIDE DEF upTo
      <3>2. place[k] = place[k - 1] /\ place[k - 1] \in Nat
        BY <1>2, <1>6, <2>1, <3>1
      <3> QED BY <2>3, <3>2
    <2> QED BY <2>2, <2>3
  <1>9. ASSUME NEW i \in F, NEW k \in 0 .. n, i <= k
        PROVE  place[i] <= place[k]
    <2>1. i \in 0 .. n /\ i \in Nat
      BY <1>1
    <2>2. upTo(i) \in SUBSET upTo(k)
      BY <1>1, <1>9
    <2> HIDE DEF upTo
    <2>3. IsFiniteSet(upTo(k))
      BY <1>5
    <2>4. Cardinality(upTo(i)) <= Cardinality(upTo(k))
      BY <2>2, <2>3, FS_Subset
    <2> QED BY <1>2, <2>1, <2>4
  <1>10. ASSUME NEW i \in F PROVE place[i] > 0
    <2>1. i \in 0 .. n /\ i \in upTo(i)
      BY <1>1
    <2> HIDE DEF upTo
    <2>2. Cardinality(upTo(i)) # 0
      BY <1>5, <2>1, FS_EmptySet
    <2> QED BY <1>2, <1>6, <2>1, <2>2
  <1>11. Places(n, F, place)
    BY <1>6, <1>7, <1>8, <1>9, <1>10 DEF Places
  <1> QED BY <1>0, <1>11 DEF place

\* Each entry counts one.
LEMMA CountsFollow ==
  ASSUME NEW n \in Nat, NEW W
  PROVE  Tallies(n, W, [k \in 1 .. n |-> 1], CountsOf(n, W))
  <1> DEFINE T == [k \in 1 .. n |-> 1]
             like(k, i) == {j \in 1 .. k : W[j] = W[i]}
             tally == CountsOf(n, W)
  <1>1. \A k \in 0 .. n : \A i \in 1 .. n : tally[k][i] = Cardinality(like(k, i))
    BY DEF CountsOf
  <1>3. \A k \in 1 .. n : T[k] = 1
    OBVIOUS
  <1> HIDE DEF tally, T
  <1>4. ASSUME NEW k \in 0 .. n, NEW i \in 1 .. n
        PROVE  IsFiniteSet(like(k, i)) /\ Cardinality(like(k, i)) \in Nat
    <2>1. like(k, i) \in SUBSET (1 .. k) /\ k \in Int /\ 1 \in Int
      OBVIOUS
    <2>2. IsFiniteSet(1 .. k)
      BY <2>1, FS_Interval
    <2> HIDE DEF like
    <2>3. IsFiniteSet(like(k, i))
      BY <2>1, <2>2, FS_Subset
    <2> QED BY <2>3, FS_CardinalityType
  <1>5. \A k \in 0 .. n : \A i \in 1 .. n : tally[k][i] \in Nat
    BY <1>1, <1>4
  <1>6. ASSUME NEW k \in 1 .. n, NEW i \in 1 .. n
        PROVE  tally[k][i] = tally[k - 1][i] + (IF W[k] = W[i] THEN T[k] ELSE 0)
    <2>1. k \in 0 .. n /\ k - 1 \in 0 .. n
      OBVIOUS
    <2>2. tally[k][i] = Cardinality(like(k, i)) /\ tally[k - 1][i] = Cardinality(like(k - 1, i))
      BY <1>1, <2>1
    <2>3. CASE W[k] = W[i]
      <3>1. like(k, i) = like(k - 1, i) \cup {k} /\ k \notin like(k - 1, i)
        BY <2>3
      <3> HIDE DEF like
      <3>2. Cardinality(like(k - 1, i) \cup {k}) = Cardinality(like(k - 1, i)) + 1
        BY <1>4, <2>1, <3>1, FS_AddElement
      <3> QED BY <1>3, <2>2, <2>3, <3>1, <3>2
    <2>4. CASE W[k] # W[i]
      <3>1. like(k, i) = like(k - 1, i)
        BY <2>4
      <3>2. Cardinality(like(k - 1, i)) \in Nat
        BY <1>4, <2>1
      <3> HIDE DEF like
      <3> QED BY <2>2, <2>4, <3>1, <3>2
    <2> QED BY <2>3, <2>4
  <1>7. ASSUME NEW k \in 0 .. n, NEW i \in 1 .. n, \A j \in 1 .. k : W[j] # W[i]
        PROVE  tally[k][i] = 0
    <2>1. like(k, i) = {}
      BY <1>7
    <2>2. Cardinality({}) = 0
      BY FS_EmptySet
    <2> QED BY <1>1, <2>1, <2>2
  <1>8. Tallies(n, W, T, tally)
    BY <1>5, <1>6, <1>7 DEF Tallies
  <1> QED BY <1>8 DEF tally, T

\* And takes its time.
LEMMA TimesFollow ==
  ASSUME NEW n \in Nat, NEW W, NEW T \in [1 .. n -> Nat],
         NEW sum \in [SUBSET (1 .. n) -> Nat], Sums(sum, 1 .. n, T)
  PROVE  Tallies(n, W, T, TimesOf(n, W, T, sum))
  <1> DEFINE like(k, i) == {j \in 1 .. k : W[j] = W[i] /\ T[j] > 0}
             tally == TimesOf(n, W, T, sum)
  <1>1. \A k \in 0 .. n : \A i \in 1 .. n : tally[k][i] = sum[like(k, i)]
    BY DEF TimesOf
  <1> HIDE DEF tally
  <1>4. ASSUME NEW k \in 0 .. n, NEW i \in 1 .. n
        PROVE  like(k, i) \in SUBSET (1 .. n) /\ sum[like(k, i)] \in Nat
    <2>1. like(k, i) \in SUBSET (1 .. n)
      OBVIOUS
    <2> HIDE DEF like
    <2> QED BY <2>1
  <1>5. \A k \in 0 .. n : \A i \in 1 .. n : tally[k][i] \in Nat
    BY <1>1, <1>4
  <1>6. ASSUME NEW k \in 1 .. n, NEW i \in 1 .. n
        PROVE  tally[k][i] = tally[k - 1][i] + (IF W[k] = W[i] THEN T[k] ELSE 0)
    <2>1. k \in 0 .. n /\ k - 1 \in 0 .. n /\ T[k] \in Nat
      OBVIOUS
    <2>2. tally[k][i] = sum[like(k, i)] /\ tally[k - 1][i] = sum[like(k - 1, i)]
      BY <1>1, <2>1
    <2>3. sum[like(k - 1, i)] \in Nat /\ like(k, i) \in SUBSET (1 .. n)
      BY <1>4, <2>1
    <2>4. CASE W[k] = W[i] /\ T[k] > 0
      <3>1. like(k - 1, i) = like(k, i) \ {k} /\ k \in like(k, i)
        BY <2>4
      <3> HIDE DEF like
      <3>2. sum[like(k, i)] = T[k] + sum[like(k, i) \ {k}]
        BY <2>3, <3>1 DEF Sums
      <3>3. sum[like(k, i) \ {k}] = sum[like(k - 1, i)]
        BY <3>1
      <3>4. tally[k][i] = T[k] + tally[k - 1][i] /\ tally[k - 1][i] \in Nat
        BY <2>2, <2>3, <3>2, <3>3
      <3> QED BY <2>1, <2>4, <3>4
    <2>5. CASE ~ (W[k] = W[i] /\ T[k] > 0)
      <3>1. like(k, i) = like(k - 1, i)
        BY <2>5
      <3>2. W[k] = W[i] => T[k] = 0
        BY <2>1, <2>5
      <3> HIDE DEF like
      <3> QED BY <2>2, <2>3, <3>1, <3>2
    <2> QED BY <2>4, <2>5
  <1>7. ASSUME NEW k \in 0 .. n, NEW i \in 1 .. n, \A j \in 1 .. k : W[j] # W[i]
        PROVE  tally[k][i] = 0
    <2>1. like(k, i) = {}
      BY <1>7
    <2>2. sum[{}] = 0
      BY DEF Sums
    <2>3. tally[k][i] = sum[like(k, i)]
      BY <1>1
    <2> HIDE DEF like
    <2> QED BY <2>1, <2>2, <2>3
  <1>8. Tallies(n, W, T, tally)
    BY <1>5, <1>6, <1>7 DEF Tallies
  <1> QED BY <1>8 DEF tally

\* What String may collect of entries written W.
Parts(W) == [cmd : {W[j] : j \in DOMAIN W}, count : Nat, time : Nat]

\* What String has collected after k of the entries written W: the firsts
\* among them, each in its place, with what the entries like it come to.
Collects(shown, k, W, F, place, count, time) ==
  /\ shown \in Seq(Parts(W))
  /\ Len(shown) = place[k]
  /\ \A i \in F : i <= k =>
       /\ place[i] \in 1 .. Len(shown)
       /\ shown[place[i]].cmd = W[i]
       /\ shown[place[i]].count = count[k][i]
       /\ shown[place[i]].time = time[k][i]
  /\ \A p \in 1 .. Len(shown) : \E i \in F : i <= k /\ place[i] = p

\* What has a value in S for each of 1 .. m is a sequence.
LEMMA FunctionIsSeq ==
  ASSUME NEW S, NEW m \in Nat, NEW g \in [1 .. m -> S]
  PROVE  g \in Seq(S) /\ Len(g) = m
  OBVIOUS

\* An entry that joins others is counted with them, and its time added.
LEMMA JoinedTyped ==
  ASSUME NEW C, NEW part \in [cmd : C, count : Nat, time : Nat], NEW t \in Nat,
         NEW joined, joined = [part EXCEPT !.count = @ + 1, !.time = @ + t]
  PROVE  /\ joined \in [cmd : C, count : Nat, time : Nat]
         /\ joined.cmd = part.cmd
         /\ joined.count = part.count + 1
         /\ joined.time = part.time + t
  <1>1. PICK n \in Nat, u \in Nat : n = part.count + 1 /\ u = part.time + t
    OBVIOUS
  <1>2. joined = [part EXCEPT !.count = n, !.time = u]
    BY <1>1
  <1>3. /\ [part EXCEPT !.count = n, !.time = u] \in [cmd : C, count : Nat, time : Nat]
        /\ [part EXCEPT !.count = n, !.time = u].cmd = part.cmd
        /\ [part EXCEPT !.count = n, !.time = u].count = n
        /\ [part EXCEPT !.count = n, !.time = u].time = u
    OBVIOUS
  <1> QED BY <1>1, <1>2, <1>3

\* The next entry, the first of its like, is shown after the others.
LEMMA CollectsFirst ==
  ASSUME NEW n \in Nat, NEW W, DOMAIN W = 1 .. n, NEW T \in [1 .. n -> Nat],
         NEW F, F = FirstsOf(n, W), NEW place, Places(n, F, place),
         NEW count, Tallies(n, W, [k \in 1 .. n |-> 1], count),
         NEW time, Tallies(n, W, T, time),
         NEW k \in 1 .. n, k \in F, NEW shown, Collects(shown, k - 1, W, F, place, count, time),
         NEW e, Written(e) = W[k], ExecutionTime(e) = T[k]
  PROVE  Collects(Aggregate(shown, e), k, W, F, place, count, time)
  <1> DEFINE new == [cmd |-> W[k], count |-> 1, time |-> T[k]]
             result == Append(shown, new)
  <1>0. /\ shown \in Seq(Parts(W)) /\ Len(shown) = place[k - 1] /\ Len(shown) \in Nat
        /\ DOMAIN shown = 1 .. Len(shown) /\ \A p \in 1 .. Len(shown) : shown[p] \in Parts(W)
    <2>1. shown \in Seq(Parts(W)) /\ Len(shown) = place[k - 1]
      BY DEF Collects
    <2> QED BY <2>1
  <1>1. /\ \A i \in F : i <= k - 1 =>
             /\ place[i] \in 1 .. Len(shown)
             /\ shown[place[i]].cmd = W[i]
             /\ shown[place[i]].count = count[k - 1][i]
             /\ shown[place[i]].time = time[k - 1][i]
        /\ \A p \in 1 .. Len(shown) : \E i \in F : i <= k - 1 /\ place[i] = p
    BY DEF Collects
  <1>2. F \subseteq 1 .. n /\ \A j \in 1 .. n : W[j] = W[k] => k <= j
    BY DEF FirstsOf
  <1>3. ASSUME NEW p \in 1 .. Len(shown) PROVE shown[p].cmd # W[k]
    <2>1. PICK i \in F : i <= k - 1 /\ place[i] = p
      BY <1>1
    <2>2. shown[p].cmd = W[i]
      BY <1>1, <2>1
    <2>3. i \in 1 .. n /\ ~ (k <= i)
      BY <1>2, <2>1
    <2> QED BY <1>2, <2>2, <2>3
  <1>4. Aggregate(shown, e) = result
    <2>2. {i \in DOMAIN shown : shown[i].cmd = Written(e)} = {}
      BY <1>0, <1>3
    <2>3. NewAggregated(e) = new
      BY DEF NewAggregated
    <2> HIDE DEF new
    <2> QED BY <2>2, <2>3 DEF Aggregate
  <1>5. new \in Parts(W)
    <2>1. W[k] \in {W[j] : j \in DOMAIN W} /\ T[k] \in Nat
      OBVIOUS
    <2> QED BY <2>1 DEF Parts
  <1>6. /\ result \in Seq(Parts(W)) /\ Len(result) = Len(shown) + 1
        /\ \A p \in 1 .. Len(shown) : result[p] = shown[p]
        /\ result[Len(shown) + 1] = new
    <2> HIDE DEF new
    <2> QED BY <1>0, <1>5
  <1>7. place[k] = Len(shown) + 1 /\ Len(shown) \in Nat
    BY <1>0 DEF Places
  <1>8. ASSUME NEW i \in F, i <= k - 1
        PROVE  /\ place[i] \in 1 .. Len(shown) /\ result[place[i]] = shown[place[i]]
               /\ count[k][i] = count[k - 1][i] /\ time[k][i] = time[k - 1][i]
    <2>1. place[i] \in 1 .. Len(shown) /\ result[place[i]] = shown[place[i]]
      BY <1>1, <1>6, <1>8
    <2>2. i \in 1 .. n /\ W[k] # W[i]
      BY <1>2, <1>8
    <2>3. k - 1 \in 0 .. n
      OBVIOUS
    <2>4. count[k - 1][i] \in Nat /\ time[k - 1][i] \in Nat
      BY <2>2, <2>3 DEF Tallies
    <2>5. count[k][i] = count[k - 1][i] + 0 /\ time[k][i] = time[k - 1][i] + 0
      BY <2>2 DEF Tallies
    <2> QED BY <2>1, <2>4, <2>5
  <1>9. count[k][k] = 1 /\ time[k][k] = T[k]
    <2>1. k - 1 \in 0 .. n /\ \A j \in 1 .. k - 1 : W[j] # W[k]
      BY <1>2
    <2>2. count[k - 1][k] = 0 /\ time[k - 1][k] = 0
      BY <2>1 DEF Tallies
    <2>3. count[k][k] = count[k - 1][k] + 1 /\ time[k][k] = time[k - 1][k] + T[k]
      BY DEF Tallies
    <2> QED BY <2>2, <2>3
  <1>10. ASSUME NEW i \in F, i <= k
         PROVE  /\ place[i] \in 1 .. Len(result)
                /\ result[place[i]].cmd = W[i]
                /\ result[place[i]].count = count[k][i]
                /\ result[place[i]].time = time[k][i]
    <2>1. CASE i = k
      <3>1. result[place[i]] = new /\ place[i] \in 1 .. Len(result)
        BY <1>6, <1>7, <2>1
      <3> HIDE DEF result
      <3> QED BY <1>9, <2>1, <3>1
    <2>2. CASE i # k
      <3>1. i <= k - 1
        BY <1>2, <1>10, <2>2
      <3>2. /\ shown[place[i]].cmd = W[i]
            /\ shown[place[i]].count = count[k - 1][i]
            /\ shown[place[i]].time = time[k - 1][i]
        BY <1>1, <3>1
      <3>3. /\ place[i] \in 1 .. Len(shown) /\ result[place[i]] = shown[place[i]]
            /\ count[k][i] = count[k - 1][i] /\ time[k][i] = time[k - 1][i]
        BY <1>8, <3>1
      <3> HIDE DEF result
      <3>4. place[i] \in 1 .. Len(result)
        BY <1>0, <1>6, <3>3
      <3> QED BY <3>2, <3>3, <3>4
    <2> QED BY <2>1, <2>2
  <1>11. ASSUME NEW p \in 1 .. Len(result)
         PROVE  \E i \in F : i <= k /\ place[i] = p
    <2> HIDE DEF result
    <2>1. CASE p = Len(shown) + 1
      BY <1>7, <2>1
    <2>2. CASE p # Len(shown) + 1
      <3>1. p \in 1 .. Len(shown)
        BY <1>6, <1>7, <2>2
      <3>2. PICK i \in F : i <= k - 1 /\ place[i] = p
        BY <1>1, <3>1
      <3>3. i <= k
        BY <1>2, <3>2
      <3> QED BY <3>2, <3>3
    <2> QED BY <2>1, <2>2
  <1>12. Len(result) = place[k] /\ result \in Seq(Parts(W))
    BY <1>6, <1>7
  <1> HIDE DEF result
  <1> QED BY <1>4, <1>10, <1>11, <1>12 DEF Collects

\* Any other joins the first of its like.
LEMMA CollectsOther ==
  ASSUME NEW n \in Nat, NEW W, DOMAIN W = 1 .. n, NEW T \in [1 .. n -> Nat],
         NEW F, F = FirstsOf(n, W), NEW place, Places(n, F, place),
         NEW count, Tallies(n, W, [k \in 1 .. n |-> 1], count),
         NEW time, Tallies(n, W, T, time),
         NEW k \in 1 .. n, k \notin F, NEW shown, Collects(shown, k - 1, W, F, place, count, time),
         NEW e, Written(e) = W[k], ExecutionTime(e) = T[k]
  PROVE  Collects(Aggregate(shown, e), k, W, F, place, count, time)
  <1>0. /\ shown \in Seq(Parts(W)) /\ Len(shown) = place[k - 1] /\ Len(shown) \in Nat
        /\ DOMAIN shown = 1 .. Len(shown) /\ \A p \in 1 .. Len(shown) : shown[p] \in Parts(W)
    <2>1. shown \in Seq(Parts(W)) /\ Len(shown) = place[k - 1]
      BY DEF Collects
    <2> QED BY <2>1
  <1>1. /\ \A i \in F : i <= k - 1 =>
             /\ place[i] \in 1 .. Len(shown)
             /\ shown[place[i]].cmd = W[i]
             /\ shown[place[i]].count = count[k - 1][i]
             /\ shown[place[i]].time = time[k - 1][i]
        /\ \A p \in 1 .. Len(shown) : \E i \in F : i <= k - 1 /\ place[i] = p
    BY DEF Collects
  <1>2. F \subseteq 1 .. n /\ \A i \in F : \A j \in 1 .. n : W[j] = W[i] => i <= j
    BY DEF FirstsOf
  <1>3. PICK f \in F : f <= k - 1 /\ W[f] = W[k]
    <2> DEFINE like == {j \in 1 .. n : W[j] = W[k]}
    <2>1. IsFiniteSet(like) /\ like \subseteq Int /\ like # {}
      <3>1. IsFiniteSet(1 .. n) /\ like \in SUBSET (1 .. n) /\ k \in like
        BY FS_Interval
      <3>2. IsFiniteSet(like)
        <4> HIDE DEF like
        <4> QED BY <3>1, FS_Subset
      <3> QED BY <3>1, <3>2
    <2>2. PICK f \in like : \A j \in like : f <= j
      <3> HIDE DEF like
      <3> QED BY <2>1, Extremes
    <2>3. f \in 1 .. n /\ W[f] = W[k] /\ \A j \in 1 .. n : W[j] = W[f] => f <= j
      BY <2>2
    <2>4. f \in F /\ f <= k
      BY <2>3 DEF FirstsOf
    <2>5. f # k
      BY <2>4
    <2> QED BY <2>3, <2>4, <2>5
  <1>4. PICK q : q = place[f]
    OBVIOUS
  <1>5. q \in 1 .. Len(shown) /\ f \in 1 .. n
    BY <1>1, <1>2, <1>3, <1>4
  <1>6. ASSUME NEW i \in F, i <= k - 1, W[i] = W[k] PROVE i = f
    BY <1>2, <1>3, <1>6
  <1>7. ASSUME NEW p \in 1 .. Len(shown)
        PROVE  shown[p].cmd = W[k] <=> p = q
    <2>1. PICK i \in F : i <= k - 1 /\ place[i] = p
      BY <1>1
    <2>2. shown[p].cmd = W[i]
      BY <1>1, <2>1
    <2>3. shown[q].cmd = W[f]
      BY <1>1, <1>3, <1>4
    <2> QED BY <1>3, <1>4, <1>6, <2>1, <2>2, <2>3
  <1> DEFINE joined(p) == [shown[p] EXCEPT !.count = @ + 1, !.time = @ + T[k]]
             result == [p \in 1 .. Len(shown) |-> IF p = q THEN joined(p) ELSE shown[p]]
  <1>9. Aggregate(shown, e) = result
    <2> DEFINE same == {p \in DOMAIN shown : shown[p].cmd = Written(e)}
    <2>1. same = {q}
      BY <1>5, <1>7, <1>0
    <2>2. Aggregate(shown, e) =
            [p \in DOMAIN shown |->
               IF p \in same
               THEN [shown[p] EXCEPT !.count = @ + 1, !.time = @ + ExecutionTime(e)]
               ELSE shown[p]]
      <3>1. same # {}
        BY <2>1
      <3> QED BY <3>1 DEF Aggregate
    <2> HIDE DEF same
    <2> QED BY <1>0, <2>1, <2>2
  <1>10. /\ joined(q) \in Parts(W)
         /\ joined(q).cmd = shown[q].cmd
         /\ joined(q).count = shown[q].count + 1
         /\ joined(q).time = shown[q].time + T[k]
    <2>1. shown[q] \in Parts(W) /\ T[k] \in Nat
      BY <1>5, <1>0
    <2>2. PICK j : j = joined(q)
      OBVIOUS
    <2>3. shown[q] \in [cmd : {W[j0] : j0 \in DOMAIN W}, count : Nat, time : Nat]
      BY <2>1 DEF Parts
    <2>4. /\ j \in [cmd : {W[j0] : j0 \in DOMAIN W}, count : Nat, time : Nat]
          /\ j.cmd = shown[q].cmd
          /\ j.count = shown[q].count + 1
          /\ j.time = shown[q].time + T[k]
      BY <2>1, <2>2, <2>3, JoinedTyped
    <2> HIDE DEF joined
    <2> QED BY <2>2, <2>4 DEF Parts
  <1> HIDE DEF joined
  <1>11. /\ result \in Seq(Parts(W)) /\ Len(result) = Len(shown)
         /\ result[q] = joined(q)
         /\ \A p \in 1 .. Len(shown) : p # q => result[p] = shown[p]
    <2>1. \A p \in 1 .. Len(shown) : (IF p = q THEN joined(p) ELSE shown[p]) \in Parts(W)
      BY <1>0, <1>10
    <2>2. result \in [1 .. Len(shown) -> Parts(W)]
      BY <2>1
    <2>3. result[q] = joined(q) /\ \A p \in 1 .. Len(shown) : p # q => result[p] = shown[p]
      BY <1>5
    <2> HIDE DEF result
    <2>4. result \in Seq(Parts(W)) /\ Len(result) = Len(shown)
      BY <1>0, <2>2, FunctionIsSeq
    <2> QED BY <2>3, <2>4
  <1> HIDE DEF result
  <1>12. place[k] = place[k - 1]
    <2>1. k - 1 \in 0 .. n
      OBVIOUS
    <2> QED BY <2>1 DEF Places
  <1>13. ASSUME NEW i \in F, i <= k
         PROVE  /\ place[i] \in 1 .. Len(result)
                /\ result[place[i]].cmd = W[i]
                /\ result[place[i]].count = count[k][i]
                /\ result[place[i]].time = time[k][i]
    <2>1. i <= k - 1 /\ i \in 1 .. n /\ k - 1 \in 0 .. n
      BY <1>2, <1>13
    <2>2. /\ place[i] \in 1 .. Len(shown)
          /\ shown[place[i]].cmd = W[i]
          /\ shown[place[i]].count = count[k - 1][i]
          /\ shown[place[i]].time = time[k - 1][i]
      BY <1>1, <2>1
    <2>3. count[k - 1][i] \in Nat /\ time[k - 1][i] \in Nat
      BY <2>1 DEF Tallies
    <2>4. CASE i = f
      <3>1. W[k] = W[i] /\ place[i] = q
        BY <1>3, <1>4, <2>4
      <3>2. count[k][i] = count[k - 1][i] + 1 /\ time[k][i] = time[k - 1][i] + T[k]
        BY <2>1, <3>1 DEF Tallies
      <3> QED BY <1>10, <1>11, <2>2, <3>1, <3>2
    <2>5. CASE i # f
      <3>1. W[k] # W[i]
        BY <1>6, <2>1, <2>5
      <3>2. count[k][i] = count[k - 1][i] + 0 /\ time[k][i] = time[k - 1][i] + 0
        BY <2>1, <3>1 DEF Tallies
      <3>3. place[i] # q
        BY <1>7, <2>2, <3>1
      <3>4. result[place[i]] = shown[place[i]]
        BY <1>11, <2>2, <3>3
      <3>5. count[k][i] = count[k - 1][i] /\ time[k][i] = time[k - 1][i]
        BY <2>3, <3>2
      <3>6. place[i] \in 1 .. Len(result)
        BY <1>11, <2>2
      <3> QED BY <2>2, <3>4, <3>5, <3>6
    <2> QED BY <2>4, <2>5
  <1>14. ASSUME NEW p \in 1 .. Len(result)
         PROVE  \E i \in F : i <= k /\ place[i] = p
    <2>1. p \in 1 .. Len(shown)
      BY <1>11
    <2>2. PICK i \in F : i <= k - 1 /\ place[i] = p
      BY <1>1, <2>1
    <2>3. i <= k
      BY <1>2, <2>2
    <2> QED BY <2>2, <2>3
  <1>15. Len(result) = place[k] /\ result \in Seq(Parts(W))
    BY <1>0, <1>11, <1>12
  <1> QED BY <1>9, <1>13, <1>14, <1>15 DEF Collects

\* A turn of the loop collects parts, whatever was collected.
LEMMA AggregateTyped ==
  ASSUME NEW W, NEW shown \in Seq(Parts(W)), NEW e, NEW i \in DOMAIN W,
         Written(e) = W[i], ExecutionTime(e) \in Nat
  PROVE  Aggregate(shown, e) \in Seq(Parts(W))
  <1>1. PICK t \in Nat : t = ExecutionTime(e)
    OBVIOUS
  <1> DEFINE same == {p \in DOMAIN shown : shown[p].cmd = Written(e)}
  <1>2. DOMAIN shown = 1 .. Len(shown) /\ Len(shown) \in Nat
        /\ \A p \in 1 .. Len(shown) : shown[p] \in Parts(W)
    OBVIOUS
  <1>3. CASE same = {}
    <2>1. NewAggregated(e) \in Parts(W)
      <3>1. NewAggregated(e) = [cmd |-> W[i], count |-> 1, time |-> t]
        BY <1>1 DEF NewAggregated
      <3> QED BY <3>1 DEF Parts
    <2>2. Append(shown, NewAggregated(e)) \in Seq(Parts(W))
      BY <2>1
    <2>3. Aggregate(shown, e) = Append(shown, NewAggregated(e))
      BY <1>3 DEF Aggregate
    <2> QED BY <2>2, <2>3
  <1>4. CASE same # {}
    <2> DEFINE joined(p) == [shown[p] EXCEPT !.count = @ + 1, !.time = @ + t]
               result == [p \in 1 .. Len(shown) |-> IF p \in same THEN joined(p) ELSE shown[p]]
    <2>1. Aggregate(shown, e) = result
      <3>1. Aggregate(shown, e) =
              [p \in DOMAIN shown |-> IF p \in same
                 THEN [shown[p] EXCEPT !.count = @ + 1, !.time = @ + ExecutionTime(e)]
                 ELSE shown[p]]
        BY <1>4 DEF Aggregate
      <3> HIDE DEF same
      <3> QED BY <1>1, <1>2, <3>1
    <2>2. ASSUME NEW p \in 1 .. Len(shown) PROVE joined(p) \in Parts(W)
      <3>1. PICK j : j = joined(p)
        OBVIOUS
      <3>2. shown[p] \in [cmd : {W[k] : k \in DOMAIN W}, count : Nat, time : Nat]
        BY <1>2 DEF Parts
      <3>3. j \in [cmd : {W[k] : k \in DOMAIN W}, count : Nat, time : Nat]
        BY <3>1, <3>2, JoinedTyped
      <3> QED BY <3>1, <3>3 DEF Parts
    <2> HIDE DEF joined, same
    <2>3. result \in [1 .. Len(shown) -> Parts(W)]
      BY <1>2, <2>2
    <2> HIDE DEF result
    <2>4. result \in Seq(Parts(W))
      BY <1>2, <2>3, FunctionIsSeq
    <2> QED BY <2>1, <2>4
  <1> QED BY <1>3, <1>4

\* What String has collected of all entries.
Collected(entries) == FoldLeft(Aggregate, << >>, entries)

\* What String collects of each subset of the entries.
CollectStep(entries, h) ==
  [s \in SUBSET DOMAIN entries |->
     IF s = {} THEN << >> ELSE Aggregate(h[s \ {Max(s)}], entries[Max(s)])]

\* S[k] is what it has collected of the first k of n entries.
Loops(S, n, entries) ==
  /\ S[0] = << >>
  /\ \A k \in 1 .. n : S[k] = Aggregate(S[k - 1], entries[k])
  /\ Collected(entries) = S[n]

\* The entries are written W, and their times are told as T.
ToldAs(n, entries, W, T) ==
  /\ DOMAIN entries = 1 .. n
  /\ W = [k \in 1 .. n |-> Written(entries[k])]
  /\ T = [k \in 1 .. n |-> ExecutionTime(entries[k])]
  /\ \A k \in 1 .. n : entries[k].time \in Int

\* FoldLeft takes the entries one after the other.
LEMMA StringLoops ==
  ASSUME NEW n \in Nat, NEW entries, NEW W, NEW T, ToldAs(n, entries, W, T)
  PROVE  \E S : Loops(S, n, entries)
  <1>0. /\ DOMAIN entries = 1 .. n /\ DOMAIN W = 1 .. n
        /\ \A k \in 1 .. n : Written(entries[k]) = W[k] /\ ExecutionTime(entries[k]) \in Nat
    BY DEF ToldAs, ExecutionTime
  <1> DEFINE H == CHOOSE h : h = CollectStep(entries, h)
             D == 1 .. n
             V == Seq(Parts(W))
  <1>1. Collected(entries) = H[DOMAIN entries]
    BY <1>0 DEF Collected, FoldLeft, MapThenFoldSet, CollectStep
  <1>2. IsFiniteSet(D)
    BY FS_Interval
  <1>3. \A s \in SUBSET D : s # {} => Max(s) \in s /\ \A y \in s : Max(s) >= y
    <2> SUFFICES ASSUME NEW s \in SUBSET D, s # {}
                 PROVE  Max(s) \in s /\ \A y \in s : Max(s) >= y
      OBVIOUS
    <2>1. s \subseteq Int
      OBVIOUS
    <2>2. IsFiniteSet(s)
      <3> HIDE DEF D
      <3> QED BY <1>2, FS_Subset
    <2>3. \E x \in s : \A y \in s : x >= y
      BY <2>1, <2>2, Extremes
    <2> QED BY <2>3 DEF Max
  <1>4. PICK c : c = [s \in SUBSET D |-> Max(s)]
    OBVIOUS
  <1>5. PICK step : step = [u \in D \X V |-> Aggregate(u[2], entries[u[1]])]
    OBVIOUS
  <1>6. \A x \in D, v \in V : Aggregate(v, entries[x]) \in V
    <2> SUFFICES ASSUME NEW x \in D, NEW v \in V PROVE Aggregate(v, entries[x]) \in V
      OBVIOUS
    <2>1. PICK e : e = entries[x]
      OBVIOUS
    <2>2. Written(e) = W[x] /\ ExecutionTime(e) \in Nat /\ x \in DOMAIN W
      BY <1>0, <2>1
    <2>3. Aggregate(v, e) \in Seq(Parts(W))
      BY <2>2, AggregateTyped
    <2> QED BY <2>1, <2>3
  <1> HIDE DEF V
  <1>7. step \in [D \X V -> V] /\ \A x \in D, v \in V : step[<<x, v>>] = Aggregate(v, entries[x])
    BY <1>5, <1>6
  <1>8. << >> \in V
    BY DEF V
  <1>9. \A s \in SUBSET D : s # {} => c[s] \in s
    BY <1>3, <1>4
  <1>10. PICK g \in [SUBSET D -> V] : FoldsAll(g, D, << >>, c, step)
    <2> HIDE DEF D
    <2>1. step \in [D \X V -> V]
      BY <1>7
    <2> QED BY <1>2, <1>8, <1>9, <2>1, FoldExists
  <1>11. g = CollectStep(entries, g)
    <2>1. ASSUME NEW s \in SUBSET D
          PROVE  g[s] = IF s = {} THEN << >> ELSE Aggregate(g[s \ {Max(s)}], entries[Max(s)])
      <3>1. g[s] = IF s = {} THEN << >> ELSE step[<<c[s], g[s \ {c[s]}]>>]
        BY <1>10 DEF FoldsAll
      <3>2. CASE s # {}
        <4>1. c[s] = Max(s) /\ Max(s) \in D
          BY <1>3, <1>4, <3>2
        <4>2. g[s \ {Max(s)}] \in V
          OBVIOUS
        <4> HIDE DEF D
        <4>3. step[<<Max(s), g[s \ {Max(s)}]>>] = Aggregate(g[s \ {Max(s)}], entries[Max(s)])
          BY <1>7, <4>1, <4>2
        <4> QED BY <3>1, <3>2, <4>1, <4>3
      <3> QED BY <3>1, <3>2
    <2> QED BY <1>0, <2>1 DEF CollectStep
  <1>12. H = CollectStep(entries, H)
    BY <1>11
  <1> HIDE DEF H
  <1>13. \A s \in SUBSET D :
           H[s] = IF s = {} THEN << >> ELSE Aggregate(H[s \ {Max(s)}], entries[Max(s)])
    BY <1>0, <1>12 DEF CollectStep
  <1> DEFINE S == [k \in 0 .. n |-> H[1 .. k]]
  <1>14. S[0] = << >>
    <2>1. 1 .. 0 = {} /\ 0 \in 0 .. n
      OBVIOUS
    <2> QED BY <1>13, <2>1
  <1>15. ASSUME NEW k \in 1 .. n PROVE S[k] = Aggregate(S[k - 1], entries[k])
    <2>1. k \in 0 .. n /\ k - 1 \in 0 .. n /\ 1 .. k \in SUBSET D /\ k \in 1 .. k
      OBVIOUS
    <2>2. (1 .. k) \ {k} = 1 .. k - 1
      OBVIOUS
    <2>3. Max(1 .. k) = k
      <3>1. Max(1 .. k) \in 1 .. k /\ \A y \in 1 .. k : Max(1 .. k) >= y
        BY <1>3, <2>1
      <3> QED BY <2>1, <3>1
    <2>4. H[1 .. k] = Aggregate(H[(1 .. k) \ {k}], entries[k])
      BY <1>13, <2>1, <2>3
    <2> QED BY <2>1, <2>2, <2>4
  <1>16. S[n] = H[DOMAIN entries]
    BY <1>0
  <1> HIDE DEF S, H
  <1> QED BY <1>1, <1>14, <1>15, <1>16 DEF Loops

\* Rounded down, a time is less than a millisecond longer.
LEMMA WholeMilliseconds ==
  ASSUME NEW a \in Nat
  PROVE  LET m == a \div Millisecond
         IN  m * Millisecond <= a /\ a < (m + 1) * Millisecond
  BY RequestLogAssumption

\* The places of a log are finitely many.
LEMMA UpToFinite ==
  ASSUME NEW n \in Nat
  PROVE  IsFiniteSet(1 .. n)
  BY FS_Interval

\* What String shows of any entries is a summary of them.
LEMMA StringSummarises ==
  ASSUME NEW n \in Nat, NEW entries, DOMAIN entries = 1 .. n,
         \A k \in 1 .. n : entries[k].time \in Int
  PROVE  IsSummary(String(entries), entries)
  <1>1. PICK W : W = [k \in 1 .. n |-> Written(entries[k])]
    OBVIOUS
  <1>2. PICK T : T = [k \in 1 .. n |-> ExecutionTime(entries[k])]
    OBVIOUS
  <1>0. DOMAIN W = 1 .. n
    BY <1>1
  <1>3. \A k \in 1 .. n : W[k] = Written(entries[k])
    BY <1>1
  <1>4. /\ T \in [1 .. n -> Nat]
        /\ \A k \in 1 .. n : T[k] = ExecutionTime(entries[k])
        /\ \A k \in 1 .. n : entries[k].time > 0 <=> T[k] > 0
        /\ \A k \in 1 .. n : T[k] > 0 => entries[k].time = T[k]
    BY <1>2 DEF ExecutionTime
  <1>5. PICK S : Loops(S, n, entries)
    <2>1. ToldAs(n, entries, W, T)
      BY <1>1, <1>2 DEF ToldAs
    <2> QED BY <2>1, StringLoops
  <1>6. IsFiniteSet(1 .. n)
    BY UpToFinite
  <1>7. PICK sum \in [SUBSET (1 .. n) -> Nat] : Sums(sum, 1 .. n, T)
    <2>1. T \in [1 .. n -> Nat]
      BY <1>4
    <2> QED BY <1>6, <2>1, SumExists
  <1>8. PICK F : F = FirstsOf(n, W)
    OBVIOUS
  <1>9. PICK place : place = PlacesOf(n, W)
    OBVIOUS
  <1>10. PICK count : count = CountsOf(n, W)
    OBVIOUS
  <1>11. PICK time : time = TimesOf(n, W, T, sum)
    OBVIOUS
  <1>12. Places(n, F, place)
    BY <1>8, <1>9, PlacesFollow
  <1>13. Tallies(n, W, [k \in 1 .. n |-> 1], count)
    BY <1>10, CountsFollow
  <1>14. T \in [1 .. n -> Nat]
    BY <1>4
  <1>15. Tallies(n, W, T, time)
    BY <1>7, <1>11, <1>14, TimesFollow
  <1> DEFINE D == 1 .. n
             Loop(k) == Collects(S[k], k, W, F, place, count, time)
             P == {s \in SUBSET D : \A k \in 0 .. n : s = 1 .. k => Loop(k)}
  <1>16. Loop(0)
    <2>1. S[0] \in Seq(Parts(W)) /\ Len(S[0]) = 0
      BY <1>5 DEF Loops
    <2>2. place[0] = 0 /\ \A i \in F : ~ (i <= 0)
      BY <1>8, <1>12 DEF Places, FirstsOf
    <2> QED BY <2>1, <2>2 DEF Collects
  <1>17. ASSUME NEW k \in 1 .. n, Loop(k - 1) PROVE Loop(k)
    <2>1. PICK shown : shown = S[k - 1]
      OBVIOUS
    <2>2. PICK e : e = entries[k]
      OBVIOUS
    <2>3. Collects(shown, k - 1, W, F, place, count, time)
      BY <1>17, <2>1
    <2>4. Written(e) = W[k]
      BY <1>3, <2>2
    <2>5. ExecutionTime(e) = T[k]
      BY <1>4, <2>2
    <2>6. S[k] = Aggregate(shown, e)
      BY <1>5, <2>1, <2>2 DEF Loops
    <2>7. DOMAIN W = 1 .. n
      BY <1>0
    <2>8. Collects(Aggregate(shown, e), k, W, F, place, count, time)
      <3>1. CASE k \in F
        BY <1>8, <1>12, <1>13, <1>14, <1>15, <2>3, <2>4, <2>5, <2>7, <3>1, CollectsFirst
      <3>2. CASE k \notin F
        BY <1>8, <1>12, <1>13, <1>14, <1>15, <2>3, <2>4, <2>5, <2>7, <3>2, CollectsOther
      <3> QED BY <3>1, <3>2
    <2> QED BY <2>6, <2>8
  <1> HIDE DEF Loop
  <1>18. ASSUME NEW s \in SUBSET D, \A t \in SUBSET s : t # s => t \in P
         PROVE  s \in P
    <2> SUFFICES ASSUME NEW k \in 0 .. n, s = 1 .. k PROVE Loop(k)
      OBVIOUS
    <2>1. CASE k = 0
      BY <1>16, <2>1
    <2>2. CASE k # 0
      <3>1. k \in 1 .. n /\ k - 1 \in 0 .. n
        BY <2>2
      <3>2. 1 .. k - 1 \in SUBSET s /\ 1 .. k - 1 # s
        <4>1. k \in 1 .. k /\ k \notin 1 .. k - 1
          BY <3>1
        <4> QED BY <4>1
      <3>3. 1 .. k - 1 \in P
        <4> HIDE DEF P
        <4> QED BY <1>18, <3>2
      <3>4. Loop(k - 1)
        BY <3>1, <3>3
      <3> QED BY <1>17, <3>1, <3>4
    <2> QED BY <2>1, <2>2
  <1>19. Loop(n)
    <2>1. SUBSET D \subseteq P
      <3>1. IsFiniteSet(D)
        BY <1>6
      <3> HIDE DEF D, P
      <3> QED BY <1>18, <3>1, SubsetInduction
    <2>2. D \in P
      <3> HIDE DEF D, P
      <3> QED BY <2>1
    <2>3. n \in 0 .. n
      OBVIOUS
    <2> QED BY <2>2, <2>3
  <1>20. PICK shown : shown = S[n]
    OBVIOUS
  <1>21. /\ DOMAIN shown = 1 .. Len(shown) /\ Len(shown) \in Nat /\ Len(shown) = place[n]
         /\ \A p \in 1 .. Len(shown) : shown[p] \in Parts(W)
    <2>1. shown \in Seq(Parts(W)) /\ Len(shown) = place[n]
      BY <1>19, <1>20 DEF Loop, Collects
    <2> QED BY <2>1
  <1>22. ASSUME NEW i \in F
         PROVE  /\ place[i] \in 1 .. Len(shown)
                /\ shown[place[i]].cmd = W[i]
                /\ shown[place[i]].count = count[n][i]
                /\ shown[place[i]].time = time[n][i]
    <2>1. i <= n
      BY <1>8 DEF FirstsOf
    <2> QED BY <1>19, <1>20, <2>1 DEF Loop, Collects
  <1>23. PICK result : result = [p \in 1 .. Len(shown) |-> WithTime(shown[p])]
    OBVIOUS
  <1>24. String(entries) = result
    BY <1>5, <1>20, <1>21, <1>23 DEF String, Collected, Loops
  <1> DEFINE Like(i)  == {j \in DOMAIN entries : Written(entries[j]) = Written(entries[i])}
             firsts   == {i \in DOMAIN entries : \A j \in Like(i) : i <= j}
             Place(i) == Cardinality({j \in firsts : j <= i})
             took(i)  == MapThenSumSet(LAMBDA j : entries[j].time,
                                       {j \in Like(i) : entries[j].time > 0})
  <1>25. firsts = F
    BY <1>3, <1>8 DEF FirstsOf
  <1>26. Len(result) = Cardinality(firsts)
    <2>1. Len(result) = Len(shown)
      <3>1. \A p \in 1 .. Len(shown) : result[p] \in {result[q] : q \in 1 .. Len(shown)}
        OBVIOUS
      <3>2. result \in [1 .. Len(shown) -> {result[q] : q \in 1 .. Len(shown)}]
        BY <1>23, <3>1
      <3> QED BY <1>21, <3>2, FunctionIsSeq
    <2>2. {j \in 1 .. n : j \in F} = F
      BY <1>8 DEF FirstsOf
    <2>3. place[n] = Cardinality({j \in 1 .. n : j \in F})
      BY <1>8, <1>9 DEF PlacesOf
    <2> QED BY <1>21, <1>25, <2>1, <2>2, <2>3
  <1>27. ASSUME NEW i \in firsts
         PROVE  LET part == result[Place(i)]
                IN  /\ part.cmd = Written(entries[i])
                    /\ part.count = Cardinality(Like(i))
                    /\ part.time * Millisecond <= took(i)
                    /\ took(i) < (part.time + 1) * Millisecond
    <2>1. i \in F /\ i \in 1 .. n /\ i \in 0 .. n /\ n \in 0 .. n
      BY <1>8, <1>25 DEF FirstsOf
    <2>2. Place(i) = place[i]
      <3>1. {j \in firsts : j <= i} = {j \in 1 .. i : j \in F}
        BY <1>8, <1>25, <2>1 DEF FirstsOf
      <3> QED BY <1>8, <1>9, <2>1, <3>1 DEF PlacesOf
    <2>3. Like(i) = {j \in 1 .. n : W[j] = W[i]}
      BY <1>3, <2>1
    <2>4. Cardinality(Like(i)) = count[n][i]
      BY <1>10, <2>1, <2>3 DEF CountsOf
    <2>5. PICK long : long = {j \in Like(i) : entries[j].time > 0}
      OBVIOUS
    <2>6. long = {j \in 1 .. n : W[j] = W[i] /\ T[j] > 0}
      BY <1>4, <2>3, <2>5
    <2>7. time[n][i] = sum[long]
      BY <1>11, <2>1, <2>6 DEF TimesOf
    <2>8. took(i) = time[n][i]
      <3>1. long \in SUBSET (1 .. n)
        BY <2>6
      <3>2. IsFiniteSet(long)
        BY <1>6, <3>1, FS_Subset
      <3>3. Sums(sum, long, T)
        BY <1>7, <3>1 DEF Sums
      <3>4. \A j \in long : entries[j].time = T[j]
        BY <1>4, <2>6
      <3>5. TimeTogether(entries, long) = sum[long]
        BY <3>2, <3>3, <3>4, SumIs
      <3> QED BY <2>5, <2>7, <3>5 DEF TimeTogether
    <2>9. PICK part : part = shown[place[i]]
      OBVIOUS
    <2>10. part \in Parts(W) /\ part.cmd = W[i] /\ part.count = count[n][i] /\ part.time = time[n][i]
      BY <1>21, <1>22, <2>1, <2>9
    <2>11. PICK t \in Nat : t = part.time
      BY <2>10 DEF Parts
    <2>12. PICK final : final = [part EXCEPT !.time = t \div Millisecond]
      OBVIOUS
    <2>13. /\ final.cmd = part.cmd /\ final.count = part.count
           /\ final.time = t \div Millisecond
      BY <2>10, <2>12 DEF Parts
    <2>14. result[Place(i)] = final
      <3>1. result[place[i]] = WithTime(part)
        BY <1>22, <1>23, <2>1, <2>9
      <3> QED BY <2>2, <2>11, <2>12, <3>1 DEF WithTime
    <2>15. (t \div Millisecond) * Millisecond <= t /\ t < (t \div Millisecond + 1) * Millisecond
      BY WholeMilliseconds
    <2>16. t = took(i)
      BY <2>8, <2>10, <2>11
    <2>17. final.cmd = Written(entries[i])
      BY <1>3, <2>1, <2>10, <2>13
    <2>18. final.count = Cardinality(Like(i))
      BY <2>4, <2>10, <2>13
    <2> HIDE DEF Like, took, Place
    <2>19. final.time * Millisecond <= took(i) /\ took(i) < (final.time + 1) * Millisecond
      BY <2>13, <2>15, <2>16
    <2> QED BY <2>14, <2>17, <2>18, <2>19
  <1> QED BY <1>24, <1>26, <1>27 DEF IsSummary

\* RequestLog.String (log.go:147-172) tells of every logged execution once:
\* each part is what was written first, in the order of the log, with how many
\* entries are like it and the whole milliseconds they took together.
THEOREM LogSummarised == Spec => []LogIsSummarised
  <1>1. ASSUME TypeOK PROVE LogIsSummarised
    <2> SUFFICES ASSUME NEW took \in [DOMAIN log -> Durations], NEW entries,
                        entries = [i \in DOMAIN log |-> [cmd |-> log[i].cmd,
                                     events |-> log[i].events, time |-> took[i]]]
                 PROVE  IsSummary(String(entries), entries)
      BY DEF LogIsSummarised
    <2>1. PICK n \in Nat : DOMAIN log = 1 .. n
      <3>1. log \in Seq(Entries)
        BY <1>1 DEF TypeOK
      <3> QED BY <3>1
    <2>2. DOMAIN entries = 1 .. n
      BY <2>1
    <2>3. \A k \in 1 .. n : entries[k].time \in Int
      <3> SUFFICES ASSUME NEW k \in 1 .. n PROVE entries[k].time \in Int
        OBVIOUS
      <3>1. entries[k].time = took[k]
        BY <2>1
      <3>2. took[k] \in Durations
        BY <2>1
      <3> QED BY <3>1, <3>2, ExecutorAssumption
    <2> QED BY <2>2, <2>3, StringSummarises
  <1> QED BY <1>1, TypeCorrect, PTL
=============================================================================
