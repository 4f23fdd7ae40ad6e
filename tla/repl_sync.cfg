CONSTANTS
  MasterOffsets = {0, 60, 420}
  SlaveOffsets = {0, 20, 60, 100, 1020}
  SizeMod = 4096
  Dumps = {0, 1, 3}
  MaxThreads = 3
SPECIFICATION Spec
INVARIANTS TypeOK OnlyHasteMisframes RepliesMatchChecks RepliesAreCurrent InSyncAfterFull
PROPERTY SyncReturns
CHECK_DEADLOCK FALSE
