CONSTANTS
  Task = {t1, t2}
  Client = {u1, u2}
  MaxRunning = 1
  Setups <- LiveSetups
  None = None
SPECIFICATION FairSpec
PROPERTIES
  CallsReturn
  Settles
  NeverDemotedWhileRunning
CHECK_DEADLOCK FALSE
