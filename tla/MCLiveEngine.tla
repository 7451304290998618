---------------------------- MODULE MCLiveEngine ----------------------------
(* Finite instances of LiveEngine: the orders are interchangeable.        *)
EXTENDS LiveEngine, TLC

MCDirs == {-1, 1}
MCLong == {1}
NoFaults == {}
CallFaults == {"submit", "cancel", "positions", "start"}
CrashFault == {"crash"}

OrderSymmetry == Permutations(Orders)
=============================================================================
