----------------------------- MODULE RequestLog -----------------------------
(***************************************************************************)
(* requestlog/log.go: what RequestLog.String shows of a log.  String holds *)
(* the log's lock while it runs, so it is a function of the log: equal     *)
(* entries are shown once, where the first of them was logged, with their  *)
(* number and the time they took together.                                 *)
(*                                                                         *)
(* An entry is a record with fields cmd, events and time, in some unit of  *)
(* which Millisecond make one.  What is written before the times is its    *)
(* name and events: a pair here.                                           *)
(***************************************************************************)
EXTENDS Integers, FiniteSets, SequencesExt

CONSTANT Millisecond

ASSUME RequestLogAssumption == Millisecond \in Nat \ {0}

\* writeCommand
Written(e) == <<e.cmd, e.events>>

\* Mutant of ExecutionTime: a clock that was set back is believed.
ExecutionTimeRaw(e) == e.time
\* ExecutionInfo.ExecutionTime: never negative, though the clock was set back.
ExecutionTime(e) == IF e.time < 0 THEN 0 ELSE e.time

\* newAggregatedCommand
NewAggregated(e) == [cmd |-> Written(e), count |-> 1, time |-> ExecutionTime(e)]

\* Mutant of Aggregate: an entry joins the last one only.
AggregateRuns(shown, e) ==
  LET n == Len(shown)
  IN  IF n > 0 /\ shown[n].cmd = Written(e)
      THEN [shown EXCEPT ![n].count = @ + 1, ![n].time = @ + ExecutionTime(e)]
      ELSE Append(shown, NewAggregated(e))
\* One turn of String's loop, commandOrder and aggregatedCommands in one.
Aggregate(shown, e) ==
  LET same == {i \in DOMAIN shown : shown[i].cmd = Written(e)}
  IN  IF same = {} THEN Append(shown, NewAggregated(e))
      ELSE [i \in DOMAIN shown |->
              IF i \in same THEN [shown[i] EXCEPT !.count = @ + 1, !.time = @ + ExecutionTime(e)]
              ELSE shown[i]]

\* writeCommandWithTime: whole milliseconds, rounded down once, at the end.
WithTime(a) == [a EXCEPT !.time = @ \div Millisecond]

String(entries) ==
  LET shown == FoldLeft(Aggregate, << >>, entries)
  IN  [i \in DOMAIN shown |-> WithTime(shown[i])]
-----------------------------------------------------------------------------
\* What String promises: its parts are the different entries, in the order in
\* which they first occur, each with how many there are and the whole
\* milliseconds they took together.
IsSummary(shown, entries) ==
  LET Like(i)  == {j \in DOMAIN entries : Written(entries[j]) = Written(entries[i])}
      firsts   == {i \in DOMAIN entries : \A j \in Like(i) : i <= j}
      place(i) == Cardinality({j \in firsts : j <= i})
      took(i)  == MapThenSumSet(LAMBDA j : entries[j].time,
                                {j \in Like(i) : entries[j].time > 0})
  IN  /\ Len(shown) = Cardinality(firsts)
      /\ \A i \in firsts :
           LET part == shown[place(i)]
           IN  /\ part.cmd = Written(entries[i])
               /\ part.count = Cardinality(Like(i))
               /\ part.time * Millisecond <= took(i)
               /\ took(i) < (part.time + 1) * Millisecond
=============================================================================
