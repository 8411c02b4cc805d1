CONSTANTS
  Task = {t1, t2}
  Client = {u1}
  MaxRunning = 1
  Setups <- ContinueSetups
  None = None
SPECIFICATION Spec
SYMMETRY Symmetric
INVARIANTS
  RunningBound
CHECK_DEADLOCK FALSE
