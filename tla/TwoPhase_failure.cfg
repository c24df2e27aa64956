SPECIFICATION FairSpec
CONSTANTS
    NP = 3
    FileSize = 7
    Eof = 5
    Setups <- FailureSetups
    IndepBytes = {4}
    MaxIndep = 0
    MaxFaults = 1
PROPERTY FailuresReturn
CHECK_DEADLOCK FALSE
