SPECIFICATION Spec
CONSTANTS
    Programs <- MCUpdates
    MaxCodes = 2
    ReadBuf = 6
INVARIANTS
    CodesKept
CHECK_DEADLOCK FALSE
