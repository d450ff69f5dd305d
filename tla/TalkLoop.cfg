SPECIFICATION FairSpec
CONSTANTS
    p1 = p1
    p2 = p2
    Peers = {p1, p2}
    Raw = {p2}
    MayClose = {p1}
    Sends <- MCSends
    PeerLimit = 2
    ReadLimit = 3
    Room = 1
    Answers = {1}
    None = None
INVARIANTS
    TypeOK
    StreamsWhole
    
    SleepsWatching

    
CHECK_DEADLOCK FALSE
