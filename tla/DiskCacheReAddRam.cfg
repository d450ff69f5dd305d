SPECIFICATION Spec
CONSTANTS
    k1 = k1
    k2 = k2
    k3 = k3
    empty = empty
    small = small
    big = big
    Keys <- MCKeys2
    Values = {small, big}
    Size <- MCSizeUsed
    Null = Null
    NoEntry = NoEntry
    Missing = Missing
    IOError = IOError
    Garbage = Garbage
    MaxAdds = 2
    Usages <- MCBoth
    WriteMayFail = FALSE
PROPERTIES
    Refines
CHECK_DEADLOCK FALSE
