SPECIFICATION Spec
CONSTANTS
    Orders <- OneTrade
    NoOrder = 0
    Synchronous = FALSE
    Callers = {u}
    Tasks = {t1, t2}
    MaxEntries = 1
    MaxCloses = 1
    MaxStarts = 1
    Dirs <- MCLong
    Plans <- Both
    Faults <- AllFaults
    Delayed = FALSE
    Pyramids = FALSE
    Rollover = FALSE
INVARIANTS
    Protected
    NoStrayLeg
CHECK_DEADLOCK FALSE
