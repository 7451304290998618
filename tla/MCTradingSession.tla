-------------------------- MODULE MCTradingSession --------------------------
(* Finite instances of TradingSession: a streaming account and one trade.  *)
(* The paper account is a part of MCDesk.                                  *)
EXTENDS TradingSession

OneTrade == 1 .. 4
MCLong == {1}
Both == {{"stop", "target"}}
AllFaults == {"submit", "cancel", "venue"}
=============================================================================
