CONSTANTS
  MaxConns = 3
  Size = 13
  Buf = 1
  MinSteal = 3
  Budgets <- LiveBudgets
SPECIFICATION FairSpec
PROPERTIES
  LoopEnds
  PauseReturns
CHECK_DEADLOCK FALSE
