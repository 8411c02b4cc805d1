CONSTANTS
  Conn = {c0, c1}
  Primary = c0
  Size = 11
  Buf = 2
  MinSteal = 5
SPECIFICATION Spec
INVARIANTS
  TypeOK
  ChunksDisjoint
  ChunksCover
  SnapshotSafe
PROPERTIES
  NoByteIsFetchedAgain
CHECK_DEADLOCK FALSE
