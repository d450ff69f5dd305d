SPECIFICATION Spec
CONSTANTS
    c1 = c1
    c2 = c2
    c3 = c3
    Children = {c1, c2}
    MaxChildren = 1
    BufSize = 1
    MaxOutput = 1
    Prewarmed = {}
    CloseOnChildDeath = FALSE
    CloseWhen = "queued"
    Signals = {}
SYMMETRY ChildSymmetry
INVARIANTS
    InOnePlace
    RoomForQueue
    InputNotForgotten
    OutputBeforeDeath
CHECK_DEADLOCK FALSE
