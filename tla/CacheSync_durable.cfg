SPECIFICATION FairSpec
CONSTANTS
  NBlocks = 2
  Extents <- MCExtents
  NThreads = 1
  BufSize = 1
  InitFlag = "flush_immediate"
  NewFlags <- FlushingFlags
  Coherent = FALSE
  Discard = TRUE
  CacheIsOpen = TRUE
  PoolStarted = TRUE
  MaxWrites = 3
  MaxWriteErrors = 1
  MaxSyncErrors = 0
INVARIANTS
  FlushedMeansTransferred
  DirtyHasOwner
PROPERTIES
  EventuallyTransferred
  ImplementsWriteBack
