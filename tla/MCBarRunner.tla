----------------------------- MODULE MCBarRunner -----------------------------
(***************************************************************************)
(* Finite instances of the bar runner.  A point of the price is 240 units,  *)
(* so that averaged fills stay whole.                                      *)
(***************************************************************************)
EXTENDS BarRunner

Points(n) == 240 * n
Shape(low, high, close, atr) ==
    [low |-> Points(low), high |-> Points(high), close |-> Points(close), atr |-> atr]
MCShapes == {Shape(100, 100, 100, 240), Shape(100, 102, 101, 240), Shape(101, 104, 104, 480),
             Shape(98, 101, 98, 480), Shape(96, 98, 97, 240),
             Shape(97, 103, 97, 240)}

Raw(side, entry, stop, tp, qty) ==
    [side |-> side, entry |-> Points(entry), stop |-> Points(stop), tp |-> Points(tp), rr |-> 0,
     qty |-> qty, mid |-> 0, expiry |-> 1, be |-> 1, trail |-> 1, maxBars |-> 0, maxHold |-> 0,
     cooldown |-> 0]
MCSignals == {Raw(1, 100, 98, 0, 4),
              [Raw(1, 0, 98, 0, 0) EXCEPT !.rr = 3, !.maxBars = 2, !.cooldown = 2],
              [Raw(-1, 102, 104, 98, 3) EXCEPT !.mid = Points(101), !.maxHold = 2, !.be = 0],
              [Raw(1, 97, 95, 0, 2) EXCEPT !.trail = 0, !.be = 0]}

\* The defaults of BarSystemRunner, but for costs in whole units.
Defaults ==
    [trigger |-> "intrabar", oco |-> "intrabar", optimistic |-> FALSE, clamp |-> FALSE, eps |-> 6,
     slip |-> 240, halfSpread |-> 0, perUnit |-> 1, perOrder |-> 0, minCommission |-> 0,
     carry |-> 0, funding |-> 0, rate |-> 0, anchor |-> 0, flatten |-> FALSE, scaleOutAt |-> 1,
     scaleOutDivisor |-> 2, finalR |-> 3, maxDailyLoss |-> 2, atrMult |-> 0, mfe |-> FALSE,
     mfeArm |-> 1, mfeGiveback |-> 1, pyramiding |-> FALSE, addAt |-> 1, addDivisor |-> 2,
     maxAdds |-> 1, addAfterBreakeven |-> TRUE, volScale |-> FALSE, cutIfAtr |-> 13,
     cutDivisor |-> 3, noCutAbove |-> 2, dailyMaxTrades |-> 0, postLossCooldown |-> 0,
     riskPct |-> 2, leverage |-> 1, minQty |-> 1, chase |-> TRUE, chaseAfter |-> 1, chaseSlip |-> 2,
     convertOnExpiry |-> FALSE, reanchor |-> TRUE, maxSlip |-> 4]

MCOptions ==
    {Defaults,
     [Defaults EXCEPT !.pyramiding = TRUE, !.volScale = TRUE, !.postLossCooldown = 2,
                      !.dailyMaxTrades = 1, !.convertOnExpiry = TRUE],
     [Defaults EXCEPT !.flatten = TRUE, !.carry = 1, !.funding = 2, !.rate = 1, !.mfe = TRUE,
                      !.maxDailyLoss = 50, !.reanchor = FALSE, !.maxSlip = 10],
     [Defaults EXCEPT !.trigger = "close", !.oco = "close", !.atrMult = 1, !.dailyMaxTrades = 2,
                      !.postLossCooldown = 3, !.convertOnExpiry = TRUE, !.optimistic = TRUE,
                      !.pyramiding = TRUE, !.addAfterBreakeven = FALSE, !.maxSlip = 20]}
MCClamped == {[Defaults EXCEPT !.clamp = TRUE]}
=============================================================================
