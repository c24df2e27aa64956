SPECIFICATION Spec
CONSTANTS
  NBlocks = 2
  Extents <- MCExtents
  NThreads = 1
  BufSize = 1
  InitFlag = "flush_immediate"
  NewFlags <- NoFlags
  Coherent = TRUE
  Discard = TRUE
  CacheIsOpen = TRUE
  PoolStarted = TRUE
  MaxWrites = 3
  MaxWriteErrors = 0
  MaxSyncErrors = 0
INVARIANTS
  LockedWhileDirty
