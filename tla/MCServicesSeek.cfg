CONSTANTS
  Services = {"spool"}
  Setups <- RecordSetups
  SpoolSetups <- SeekingSpools
  t1 = t1
  t2 = t2
  t3 = t3
  Job = {t1, t2, t3}
  Nobody = Nobody
  Size = 5
  BlockLen = 2
  FirstBytes = 1
  Len_ = 2
  PerByte = 2
  MaxCount = 5
  a1 = a1
  a2 = a2
  Addr = {a1, a2}
SPECIFICATION FairSpec
PROPERTIES
  ReadsReturn
CHECK_DEADLOCK FALSE
