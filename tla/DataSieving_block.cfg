SPECIFICATION Spec
CONSTANTS
    Ranks = {1, 2, 3}
    MaxByte = 7
    Scenarios <- OneBlock
    BufferSizes = {2, 3, 8}
    MaxFailures = 0
INVARIANT ReturnedKept
CHECK_DEADLOCK FALSE
