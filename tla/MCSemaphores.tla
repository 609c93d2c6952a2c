---------------------------- MODULE MCSemaphores ----------------------------
\* Semaphores for TLC: interchangeable workers and groups.
EXTENDS Semaphores, TLC

Symmetric == Permutations(Workers) \cup Permutations(Groups)
=============================================================================
