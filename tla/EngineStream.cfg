SPECIFICATION Spec
CONSTANTS
    Orders = {o1, o2, o3}
    NoOrder = NoOrder
    Synchronous = FALSE
    Dirs <- MCLong
    Rollover = TRUE
    FilledReceipts = TRUE
    FeedKinds = {"on", "poll"}
    Faults <- CallFaults
    MaxStarts = 1
SYMMETRY OrderSymmetry
INVARIANTS
    BookAgrees
    NoStrayOrder
CHECK_DEADLOCK FALSE
