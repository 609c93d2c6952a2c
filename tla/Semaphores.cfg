\* Changes of a limit and semaphores are bounded: at the bound a worker may wait
\* for ever where the factory would make one more.
\* Three workers, two groups, limits that change twice: up to five semaphores.
SPECIFICATION Spec
CONSTANTS
  Workers = {w1, w2, w3}
  Groups = {g1, g2}
  Limits = {1, 2}
  Default = 1
  MaxSemaphores = 5
  MaxChanges = 2
INVARIANTS
  TypeOK
  SlotsAreHeld
  ReleaseIsMatched
  GroupIsLimited
  CapacityHolds
SYMMETRY Symmetric
CHECK_DEADLOCK FALSE
