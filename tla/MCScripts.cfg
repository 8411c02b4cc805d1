CONSTANTS
  Source = {s1, s2}
  Task = {t1, t2}
  Request = {r1}
  Limit = 2
  MaxCalls = 5
  None = None
  p1 = p1
  p2 = p2
  Pipe = {p1, p2}
  Slots = 1
  Depth = 1
  Fetch = {f1, f2}
SPECIFICATION ScriptsSpec
SYMMETRY Symmetric
INVARIANTS
  TypeOK
  RefsMatchHolders
  SourcesAreKept
  StreamsAreWhole
  NothingIsStuck
  PlanFollowsPlaylist
PROPERTIES
  ClosesWhenUnused
CHECK_DEADLOCK FALSE
