-------------------------- MODULE MCCircuitBreaker --------------------------
\* CircuitBreaker for TLC: two goroutines are interchangeable.
EXTENDS CircuitBreaker, TLC

CONSTANTS g1, g2

Symmetric == Permutations(Goroutines)
=============================================================================
