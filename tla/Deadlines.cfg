\* A request of two calls with nested ones; timers of one and two units, so that
\* either of a nested pair fires first.  No work of a call that does not wait
\* need end.
\* The request ends: then nothing is left to do.
SPECIFICATION Spec
CONSTANTS
  Calls <- MCCalls
  Root = "request"
  Nested <- MCNested
  Timeout <- MCTimeout
  Waits = {"user"}
  Same <- MCSame
  Fallbacks = {"user", "account", "order"}
INVARIANTS
  TypeOK
  ContextEndsWithRun
  OrphansOfDeadlines
  CancellationIsNotSeen
PROPERTIES
  TimedCallsReturn
  RequestEnds
CHECK_DEADLOCK FALSE
