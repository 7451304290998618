SPECIFICATION Spec
CONSTANTS
    Orders = {o1, o2, o3}
    NoOrder = NoOrder
    Synchronous = FALSE
    Dirs <- MCLong
    Rollover = TRUE
    FilledReceipts = TRUE
    FeedKinds = {"on"}
    Faults <- CrashFault
    MaxStarts = 2
SYMMETRY OrderSymmetry
INVARIANT RestartSafe
CHECK_DEADLOCK FALSE
