SPECIFICATION FairSpec
CONSTANTS
  k1 = k1
  k2 = k2
  v1 = v1
  v2 = v2
  DbKeys = {k1, k2}
  DbVals = {v1}
  Absent = Absent
  Bucket <- SharedBucket
  NoCommand = NoCommand
  ReplBuffLen = 3
  AofBuffLen = 2
  Rates = {1, 2, 3}
  CronCycle = 6
  MaxCommands = 5
INVARIANTS
  TypeOK
  NothingSkipped
  FileIsPrefix
  CmdbuffIsTail
  ReplayRebuildsDb
PROPERTIES
  AofBuffIsWrittenOut
CHECK_DEADLOCK FALSE
