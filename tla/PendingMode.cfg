SPECIFICATION FairSpec
CONSTANTS
    Programs <- MCAllPrograms
    MaxCodes = 2
    ReadBuf = 6
INVARIANTS
    TypeOK
    CodesKeptUnlessSpoiled
PROPERTIES
    UpdateIsAtomic
    AllExecuted
CHECK_DEADLOCK FALSE
