SPECIFICATION Spec
CONSTANTS
    Ranks = {1, 2}
    Root = 1
    NBlocks = 2
    Extents <- MCExtents
    FlushFlags = {"flush_immediate", "flush_onclose"}
    MaxWrites = 2
    Opens <- MCOpens
    Faults <- MCFaults
INVARIANTS
  FallbackOpens
  LockedWhileDirty
  FlushedMeansTransferred
PROPERTIES
  CallReturns
CHECK_DEADLOCK FALSE
