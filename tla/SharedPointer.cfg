\* Two ranks; programs of three collective calls, one independent access each.
CONSTANTS
    NP = 2
    Counts = {0, 2}
    Offsets <- MCOffsets
    cb_write = TRUE
    cb_read = FALSE
    OrderedCalls = {"write_ordered", "read_ordered_begin"}
    MaxColl = 3
    MaxShared = 1
    MaxFaults = 1
SPECIFICATION Spec
INVARIANTS
  RegionsTile
  OrderedByRank
  SeekVisible
PROPERTIES
  ProgramEnds
CHECK_DEADLOCK FALSE
