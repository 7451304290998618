SPECIFICATION FairSpec
CONSTANTS
    p1 = p1
    p2 = p2
    p3 = p3
    w1 = w1
    w2 = w2
    w3 = w3
    w4 = w4
    NoOne = NoOne
    Procs = {p1, p2}
    Writers = {w1, w2, w3}
    ProcOf <- TwoProcs
    Faults <- CrashAndDisk
    MaxOps = 1
    MaxPolls = 1
INVARIANTS
    MutualExclusion
    NoLeak
PROPERTIES
    Implements
    MutationEnds
CHECK_DEADLOCK FALSE
