--------------------------- MODULE MCResearchStore ---------------------------
(* Finite instances of ResearchStore: process p1 has two threads.          *)
EXTENDS ResearchStore, TLC

CONSTANTS p1, p2, p3, w1, w2, w3, w4

TwoProcs == w1 :> p1 @@ w2 :> p1 @@ w3 :> p2
ThreeProcs == w1 :> p1 @@ w3 :> p2 @@ w4 :> p3

DiskFaults == {"disk"}
CrashAndDisk == {"crash", "disk"}
CrashFault == {"crash"}
=============================================================================
