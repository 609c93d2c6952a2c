-------------------------- MODULE BreakerContract --------------------------
(***************************************************************************)
(* What a circuit breaker promises its callers, without statistics, clock  *)
(* or atomics: a circuit that is open or closed, and callers whose calls   *)
(* are admitted, tried or refused.  A closed circuit is opened by a caller *)
(* asking for its state; an open one is closed by a caller whose trial     *)
(* succeeded and by nothing else.  verdicts[c] is what the circuit and its *)
(* switches have allowed since c's call began: a call is admitted only if  *)
(* the circuit allowed it at some moment of the call, and refused or made  *)
(* a trial only if the circuit was open at some moment of the call.        *)
(***************************************************************************)
CONSTANT Callers

VARIABLES open, phase, verdicts

vars == <<open, phase, verdicts>>

Init ==
  /\ open = FALSE
  /\ phase = [c \in Callers |-> "out"]
  /\ verdicts = [c \in Callers |-> {}]

Moves(c, from, to) == phase[c] = from /\ phase' = [phase EXCEPT ![c] = to]

Enter(c)   == Moves(c, "out", "deciding") /\ UNCHANGED open
Bypass(c)  == Moves(c, "out", "admitted") /\ UNCHANGED open
Query(c)   == Moves(c, "out", "asking") /\ UNCHANGED open
Admit(c)   == Moves(c, "deciding", "admitted") /\ "closed" \in verdicts[c] /\ UNCHANGED open
Try(c)     == Moves(c, "deciding", "trying") /\ "open" \in verdicts[c] /\ UNCHANGED open
Refuse(c)  == /\ Moves(c, "deciding", "refused") \/ Moves(c, "deciding", "out")
              /\ "open" \in verdicts[c]
              /\ UNCHANGED open
Leave(c)   == /\ \E from \in {"admitted", "trying", "refused", "asking"} : Moves(c, from, "out")
              /\ UNCHANGED open
Trip(c)    == /\ phase[c] \in {"deciding", "asking"}
              /\ ~ open /\ open' = TRUE
              /\ UNCHANGED phase
Recover(c) == Moves(c, "trying", "out") /\ open' = FALSE

\* Verdicts accumulate during a call and are forgotten when it ends.
Witness ==
  \A c \in Callers :
    IF phase'[c] = "out" THEN verdicts'[c] = {}
    ELSE phase[c] # "out" => verdicts[c] \subseteq verdicts'[c]

Next ==
  /\ \/ \E c \in Callers :
          \/ Enter(c) \/ Bypass(c) \/ Query(c)
          \/ Admit(c) \/ Try(c) \/ Refuse(c)
          \/ Leave(c) \/ Trip(c) \/ Recover(c)
     \/ UNCHANGED <<open, phase>>
  /\ Witness

Spec == Init /\ [][Next]_vars
=============================================================================
