\* Calls of Exec are bounded: when they are used up nothing is left to do.
SPECIFICATION Spec
CONSTANTS
  Workers = {w1, w2}
  Commands = {c1}
  Keys = {none}
  NoKey = none
  FallbackEnabled = {c1}
  MaxConcurrent = 2
  RunErrors = {}
  Panics = {}
  Durations = {}
  Millisecond = 1
  MaxExecs = 2
INVARIANT OneBreakerPerCommand
CHECK_DEADLOCK FALSE
