SPECIFICATION FairSpec
CONSTANTS
    k1 = k1
    k2 = k2
    k3 = k3
    empty = empty
    small = small
    big = big
    Keys <- MCKeys2
    Values = {empty, big}
    Size <- MCSizeUsed
    Null = Null
    NoEntry = NoEntry
    Missing = Missing
    IOError = IOError
    Garbage = Garbage
    MaxAdds = 3
    Usages <- MCReAdd
    WriteMayFail = TRUE
PROPERTIES
    
    NothingWaits
CHECK_DEADLOCK FALSE
