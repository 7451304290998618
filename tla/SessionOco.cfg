SPECIFICATION FairSpec
CONSTANTS
    Orders <- OneTrade
    NoOrder = 0
    Synchronous = FALSE
    Callers = {u}
    Tasks = {t1, t2}
    MaxEntries = 1
    MaxCloses = 1
    MaxStarts = 1
    Dirs <- MCLong
    Plans <- Both
    Faults = {"user"}
    Delayed = TRUE
    Pyramids = FALSE
    Rollover = FALSE
PROPERTIES
    OcoSettles
    CallsReturn
CHECK_DEADLOCK FALSE
