----------------------------- MODULE MCExecutor -----------------------------
\* Executor for TLC: interchangeable workers; an execution took less than a
\* millisecond, or less than nothing.
EXTENDS Executor, TLC

Symmetric == Permutations(Workers)

Took == {-1, 1}
=============================================================================
