SPECIFICATION FairSpec
CONSTANTS
  NBlocks = 2
  Extents <- BothBlocks
  NThreads = 2
  BufSize = 2
  InitFlag = "flush_immediate"
  NewFlags <- FlushingFlags
  Coherent = TRUE
  Discard = TRUE
  CacheIsOpen = TRUE
  PoolStarted = TRUE
  MaxWrites = 3
  MaxWriteErrors = 0
  MaxSyncErrors = 1
INVARIANTS
  NoUseAfterFree
  CacheOpenWhileRead
  NothingAbandoned
  LocksReleased
PROPERTIES
  CallReturns
