SPECIFICATION Spec
CONSTANTS
    Files = {"chk", "chk2", "plot"}
    Guards = {"chk", "chk2"}
    Paths <- MCPaths
    DirOf <- MCDirOf
    Begins <- MCBegins
    Names <- MCNames
    MaxHandles = 4
    MaxFailures = 1
    Disciplined = TRUE
INVARIANT NamedHints
CHECK_DEADLOCK FALSE
