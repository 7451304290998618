SPECIFICATION FairSpec
CONSTANTS
    Orders = {o1, o2}
    NoOrder = NoOrder
    Synchronous = FALSE
    Dirs <- MCLong
    Rollover = FALSE
    FilledReceipts = TRUE
    FeedKinds = {"poll"}
    Faults <- CallFaults
    MaxStarts = 1
PROPERTIES
    HandlerReturns
    StopReturnsEventually
CHECK_DEADLOCK FALSE
