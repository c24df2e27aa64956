SPECIFICATION Spec
CONSTANTS
    Views <- MCViews
    Buffers <- MCBuffers
    Counts = {1, 2}
    Offsets <- MCOffsets
    MaxByte = 9
    FileSizes = {1, 6}
    Drivers = {"gen"}
    Mixed = FALSE
INVARIANTS
  AccessRight
  PositionKept
  EofRight
