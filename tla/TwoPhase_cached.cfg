SPECIFICATION Spec
CONSTANTS
    NP = 3
    FileSize = 7
    Eof = 5
    Setups <- CachedSetups
    IndepBytes = {4}
    MaxIndep = 0
    MaxFaults = 0
INVARIANT CachedUnwrittenKept
CHECK_DEADLOCK FALSE
