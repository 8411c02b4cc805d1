CONSTANTS
  MaxConns = 2
  Size = 9
  Buf = 1
  MinSteal = 4
  Budgets <- ForbiddenBudgets
SPECIFICATION Spec
INVARIANTS
  DoneMeansWhole
CHECK_DEADLOCK FALSE
