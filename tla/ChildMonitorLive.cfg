SPECIFICATION FairSpec
CONSTANTS
    c1 = c1
    c2 = c2
    c3 = c3
    Children = {c1}
    MaxChildren = 1
    BufSize = 1
    MaxOutput = 2
    Prewarmed = {c1}
    CloseOnChildDeath = TRUE
    CloseWhen = "running"
    Signals = {"kill"}
INVARIANTS
    TypeOK
    NoLostWakeup
PROPERTIES
    NothingLingers
    ClosedWhileTicking
CHECK_DEADLOCK FALSE
