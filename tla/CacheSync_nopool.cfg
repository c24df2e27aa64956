SPECIFICATION Spec
CONSTANTS
  NBlocks = 2
  Extents <- MCExtents
  NThreads = 1
  BufSize = 1
  InitFlag = "flush_immediate"
  NewFlags <- Flags
  Coherent = FALSE
  Discard = FALSE
  CacheIsOpen = TRUE
  PoolStarted = FALSE
  MaxWrites = 3
  MaxWriteErrors = 1
  MaxSyncErrors = 0
INVARIANTS
  CacheHoldsAcked
