SPECIFICATION Spec
CONSTANTS
    c1 = c1
    c2 = c2
    c3 = c3
    Children = {c1, c2, c3}
    MaxChildren = 3
    BufSize = 1
    MaxOutput = 0
    Prewarmed = {c1, c2, c3}
    CloseOnChildDeath = TRUE
    CloseWhen = "never"
    Signals = {}
SYMMETRY ChildSymmetry
PROPERTIES
    PrewarmedDeathsMarked
CHECK_DEADLOCK FALSE
