SPECIFICATION Spec
CONSTANTS
    Orders = {o1, o2, o3}
    NoOrder = NoOrder
    Synchronous = TRUE
    Dirs <- MCLong
    Rollover = TRUE
    FilledReceipts = TRUE
    FeedKinds = {"on"}
    Faults <- NoFaults
    MaxStarts = 1
SYMMETRY OrderSymmetry
INVARIANT FlattenSticks
CHECK_DEADLOCK FALSE
