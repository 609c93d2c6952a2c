-------------------------- MODULE MCCommandMetrics --------------------------
\* An instance of CommandMetrics: what Exec reports of an execution.
EXTENDS CommandMetrics

\* An answer, a failure without a fallback, an answer from the cache.
MCExecutions ==
  {[time |-> 1, events |-> <<"Success">>],
   [time |-> 4, events |-> <<"Failure">>],
   [time |-> 4, events |-> <<"Success", "ResponseFromCache">>]}
=============================================================================
