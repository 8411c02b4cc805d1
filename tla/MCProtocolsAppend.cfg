CONSTANTS
  Protocols = {"http"}
  HttpSetups <- AppendSetups
  Segments = 2
  Workers = 2
  MaxRetries = 1
  MaxSid = 3
  Budgets <- HlsBudgets
  Nil = Nil
  t1 = t1
  t2 = t2
  Task = {t1, t2}
  File = {1, 2}
  Path = {1, 2}
SPECIFICATION MCSpec
INVARIANTS
  DoneIsWhole
CHECK_DEADLOCK FALSE
