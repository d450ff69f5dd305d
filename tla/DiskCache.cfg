SPECIFICATION Spec
CONSTANTS
    k1 = k1
    k2 = k2
    k3 = k3
    empty = empty
    small = small
    big = big
    Keys <- MCKeys3
    Values = {small, big}
    Size <- MCSizeUsed
    Null = Null
    NoEntry = NoEntry
    Missing = Missing
    IOError = IOError
    Garbage = Garbage
    MaxAdds = 4
    Usages <- MCEither
    WriteMayFail = FALSE
SYMMETRY KeySymmetry
INVARIANTS
    TypeOK
    StoreSound
    TotalIsSum
PROPERTIES
    Refines
CHECK_DEADLOCK FALSE
