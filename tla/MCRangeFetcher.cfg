CONSTANTS
  MaxConns = 2
  Size = 9
  Buf = 1
  MinSteal = 4
  Budgets <- SafeBudgets
SPECIFICATION Spec
INVARIANTS
  TypeOK
  DoneMeansWhole
  FetcherIsConsistent
PROPERTIES
  ImplementsRangeChunks
CHECK_DEADLOCK FALSE
