CONSTANTS
  Protocols = {"hls", "http", "bt", "ed2k"}
  HttpSetups <- SafeSetups
  Segments = 2
  Workers = 2
  MaxRetries = 1
  MaxSid = 3
  Budgets <- HlsBudgets
  Nil = Nil
  t1 = t1
  t2 = t2
  Task = {t1, t2}
  File = {1, 2}
  Path = {1, 2}
SPECIFICATION MCSpec
INVARIANTS
  TypeOK
  OutputIsWhole
  StagingIsKept
  
  
PROPERTIES
  RunsEnd
  EndsAreHeard
CHECK_DEADLOCK FALSE
