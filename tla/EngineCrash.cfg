SPECIFICATION Spec
CONSTANTS
    Orders = {o1, o2, o3}
    NoOrder = NoOrder
    Synchronous = FALSE
    Dirs <- MCLong
    Rollover = TRUE
    FilledReceipts = FALSE
    FeedKinds = {"on"}
    Faults <- CrashFault
    MaxStarts = 2
SYMMETRY OrderSymmetry
INVARIANTS
    DurableAtRest
PROPERTIES
    TradesInTurn
CHECK_DEADLOCK FALSE
