SPECIFICATION Spec
CONSTANTS
  k1 = k1
  k2 = k2
  k3 = k3
  v1 = v1
  v2 = v2
  Keys = {k1, k2, k3}
  Vals = {v1, v2}
  Absent = Absent
  Hash <- Hashes
  InitialSize = 4
  DefaultSize = 4
  ShrinkFloor = 128
  RehashArgs = {0, 1}
  SizeMod = 64
  MaxNodes = 16
INVARIANTS
  TypeOK
  ShortChains
  AtHome
  NoKeyTwice
  CountsEnough
PROPERTIES
  LastWriteWins
  MapStoreUntilRehash
CHECK_DEADLOCK FALSE
