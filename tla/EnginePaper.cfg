SPECIFICATION Spec
CONSTANTS
    Orders = {o1, o2, o3}
    NoOrder = NoOrder
    Synchronous = TRUE
    Dirs <- MCDirs
    Rollover = TRUE
    FilledReceipts = TRUE
    FeedKinds = {"on", "poll"}
    Faults <- NoFaults
    MaxStarts = 2
SYMMETRY OrderSymmetry
INVARIANTS
    EngineInv
    PaperAgrees
CHECK_DEADLOCK FALSE
