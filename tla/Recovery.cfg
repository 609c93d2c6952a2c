\* Two goroutines race for the trial, or one polls, opens the circuit or hangs in
\* a call from before the recovery.  Neither calls nor time are bounded.
SPECIFICATION Spec
CONSTANTS
  Goroutines = {g1, g2}
  SleepWindow = 2
INVARIANT TypeOK
PROPERTY Recovers
