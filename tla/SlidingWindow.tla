--------------------------- MODULE SlidingWindow ---------------------------
(***************************************************************************)
(* What a number "defined for a specified window" promises, without the    *)
(* ring of num/rollingnumber.go: a log of increments that are still        *)
(* counted.  Every access may forget increments older than KeepAge and     *)
(* must forget those of age ForgetAge or more; between the two the window  *)
(* is free.                                                                *)
(***************************************************************************)
EXTENDS Integers, Functions

CONSTANTS KeepAge, ForgetAge, MaxTime

VARIABLES clock,     \* the present
          live,      \* live[t]: increments made at time t and still counted
          reading    \* what the last Read returned

Times == 0 .. MaxTime

Total(log) == FoldFunction(LAMBDA x, y : x + y, 0, log)

\* log2 is what an access at time clock may leave of log1.
Forgets(log1, log2) ==
  \A t \in Times :
    /\ log2[t] <= log1[t]
    /\ log2[t] < log1[t] => clock - t > KeepAge
    /\ clock - t >= ForgetAge => log2[t] = 0

Init == clock = 0 /\ live = [t \in Times |-> 0] /\ reading = 0

Record ==
  /\ Forgets([live EXCEPT ![clock] = @ + 1], live')
  /\ UNCHANGED <<clock, reading>>

Read ==
  /\ Forgets(live, live')
  /\ reading' = Total(live')
  /\ UNCHANGED clock

Clear == live' = [t \in Times |-> 0] /\ UNCHANGED <<clock, reading>>

Advance == clock' = clock + 1 /\ UNCHANGED <<live, reading>>

Next == Record \/ Read \/ Clear \/ Advance

Spec == Init /\ [][Next]_<<clock, live, reading>>
=============================================================================
