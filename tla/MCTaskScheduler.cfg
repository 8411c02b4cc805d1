CONSTANTS
  Task = {t1, t2, t3}
  Client = {u1, u2}
  MaxRunning = 1
  Setups <- SafeSetups
  None = None
SPECIFICATION Spec
SYMMETRY Symmetric
INVARIANTS
  TypeOK
  RunningBound
  QueueIsServed
  StatusIsTrue
PROPERTIES
  DoneIsFinal
CHECK_DEADLOCK FALSE
