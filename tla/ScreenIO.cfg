SPECIFICATION FairSpec
CONSTANTS
    BufSize = 3
    MaxOutput = 4
    SmallBuf = 2
    WriteLimit = 4
    Writes = {1, 3}
    MaxWrites = 3
    PtyRoom = 2
    WriteMayFail = TRUE
INVARIANTS
    TypeOK
    WriteNotForgotten
PROPERTIES
    StreamsInOrder
    EverythingArrives
CHECK_DEADLOCK FALSE
