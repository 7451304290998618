SPECIFICATION Spec
CONSTANTS
    p1 = p1
    p2 = p2
    p3 = p3
    w1 = w1
    w2 = w2
    w3 = w3
    w4 = w4
    NoOne = NoOne
    Procs = {p1, p2, p3}
    Writers = {w1, w3, w4}
    ProcOf <- ThreeProcs
    Faults <- CrashFault
    MaxOps = 1
    MaxPolls = 1
INVARIANT NoLostUpdate
CHECK_DEADLOCK FALSE
