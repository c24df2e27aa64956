SPECIFICATION Spec
CONSTANTS
    Ranks = {1, 2, 3}
    MaxByte = 7
    Scenarios <- MCScenarios
    BufferSizes = {2, 3, 8}
    MaxFailures = 1
INVARIANTS
  ReturnedKept
  Serial
PROPERTY
  AllReturn
CHECK_DEADLOCK FALSE
