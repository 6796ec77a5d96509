SPECIFICATION Spec
CONSTANTS
  Jobs = {j1, j2, j3}
  Waiters = {w1}
  Closer = Closer
  Concurrency = 2
  MaxPending = 2
  RunAts = {0, 1}
  Priorities = {0, 1}
  MaxTime = 1
SYMMETRY Symmetry
INVARIANTS
  QueueSafe
  NoOvertaking
PROPERTIES
  LifecycleImplemented
CHECK_DEADLOCK FALSE
