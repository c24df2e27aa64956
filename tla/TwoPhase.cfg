\* Programs of two calls under all hints, an independent write, a failing access.
SPECIFICATION FairSpec
CONSTANTS
    NP = 3
    FileSize = 7
    Eof = 5
    Setups <- MCSetups
    IndepBytes = {4}
    MaxIndep = 1
    MaxFaults = 1
INVARIANTS
  ReturnedMeansWritten
  UnwrittenKept
  ReadsFile
PROPERTIES
  AllReturn
CHECK_DEADLOCK FALSE
