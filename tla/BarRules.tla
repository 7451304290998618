------------------------------ MODULE BarRules ------------------------------
(***************************************************************************)
(* The rules a BarSystemRunner applies to one bar (engine/backtest.py,     *)
(* with execution.py, financing.py, signal.py and position_sizing.py).     *)
(*                                                                         *)
(* r is a runner, o its options, b the bar it is given: high, low, close,  *)
(* atr (0 while the indicator warms up), its day in New York and in UTC,   *)
(* and whether it is at or after the New York close.  A side is 1 or -1.   *)
(* Slippage, spread, clamp and commission are amounts per unit where the   *)
(* code has basis points of the price; every R multiple is compared after  *)
(* multiplying by the initial risk; sizes are whole steps.                 *)
(***************************************************************************)
EXTENDS Integers

NoPosition == [side |-> 0]
NoPending == [side |-> 0]
NoSignal == [side |-> 0]
NoRoom == -1                       \* no shared capital limits an entry

IsOpen(r) == r.open.side # 0
IsPending(r) == r.pending.side # 0

Least(a, b) == IF a <= b THEN a ELSE b
Most(a, b) == IF a >= b THEN a ELSE b
Distance(a, b) == Most(a - b, b - a)

\* The options a runner is made with (any others raise); the three fractions
\* of a position are given by their divisors.
OptionsOk(o) ==
    /\ {o.trigger, o.oco} \subseteq {"intrabar", "close"}
    /\ {o.optimistic, o.clamp, o.flatten, o.mfe, o.pyramiding, o.addAfterBreakeven, o.volScale,
        o.chase, o.convertOnExpiry, o.reanchor} \subseteq BOOLEAN
    /\ {o.eps, o.scaleOutAt, o.finalR, o.maxDailyLoss, o.atrMult, o.mfeArm, o.mfeGiveback,
        o.addAt, o.maxAdds, o.cutIfAtr, o.noCutAbove, o.dailyMaxTrades, o.postLossCooldown,
        o.minQty, o.leverage, o.chaseAfter, o.chaseSlip, o.maxSlip, o.funding} \subseteq Nat
    /\ {o.slip, o.halfSpread, o.perUnit, o.perOrder, o.minCommission, o.carry, o.rate, o.anchor,
        o.riskPct} \subseteq Int
    /\ {o.scaleOutDivisor, o.addDivisor, o.cutDivisor} \subseteq Nat \ {0}

\* _normalize_candle
CandleOk(b) ==
    /\ {b.low, b.high, b.close, b.atr} \subseteq Int
    /\ b.low <= b.close /\ b.close <= b.high

\* A signal as its caller may give it; a field that is left out is 0.
SignalRecord ==
    [side : {-1, 1}, entry : Int, stop : Int, tp : Int, rr : Int, qty : Int, mid : Int, expiry : Int,
     be : Int, trail : Int, maxBars : Int, maxHold : Int, cooldown : Int]

-----------------------------------------------------------------------------
(* Prices, sizes and costs.                                                *)

Slippage(o, kind) ==
    o.halfSpread + CASE kind = "limit" -> o.slip \div 4
                     [] kind = "stop" -> (5 * o.slip) \div 4
                     [] OTHER -> o.slip

ApplyFill(o, price, dir, kind, qty) ==
    [price |-> price + dir * Slippage(o, kind),
     fee |-> Most(o.minCommission, o.perUnit * qty + o.perOrder)]

\* Boundaries of the funding cadence in (from, to].
FundingEvents(o, from, to) ==
    IF o.funding = 0 \/ to <= from THEN 0
    ELSE Most(0, (to - o.anchor) \div o.funding - (from - o.anchor) \div o.funding)

FinancingCost(o, side, notional, from, to) ==
    (notional * o.carry * Most(0, to - from)) \div 100
    + side * ((notional * o.rate * FundingEvents(o, from, to)) \div 100)

ClampStop(o, close, stop, side) ==
    IF side = 1 THEN Least(stop, close - o.eps) ELSE Most(stop, close + o.eps)

\* Best and worst price of a bar for a side, as the trigger mode sees it.
Best(mode, b, side) == IF mode = "close" THEN b.close ELSE IF side = 1 THEN b.high ELSE b.low
Worst(mode, b, side) == Best(mode, b, -side)

TouchedLimit(o, side, limit, b) == side * (Worst(o.trigger, b, side) - limit) <= 0
Reached(o, side, price, b) == side * (Best(o.trigger, b, side) - price) >= 0

OcoExitCheck(o, p, b) ==
    LET stopped == p.side * (Worst(o.oco, b, p.side) - p.stop) <= 0
        met == p.side * (Best(o.oco, b, p.side) - p.tp) >= 0
    IN  CASE stopped /\ ~(met /\ o.optimistic /\ o.oco # "close") -> "SL"
          [] met -> "TP"
          [] OTHER -> "no"

PositionSize(o, equity, entry, stop) ==
    IF equity <= 0 \/ entry = stop THEN 0
    ELSE LET byRisk == (equity * o.riskPct) \div (100 * Distance(entry, stop))
             byLeverage == (equity * o.leverage) \div Most(1, entry)
             qty == Least(byRisk, byLeverage)
         IN  IF qty >= o.minQty THEN qty ELSE 0

Leverage(o) == Most(1, o.leverage)

\* resolve_entry_size of a portfolio: what the capital in room carries.
Resolved(o, room, qty, price) ==
    IF room = NoRoom THEN qty ELSE Least(qty, (room * Leverage(o)) \div Most(1, price))

LockedCapital(o, r) == IF IsOpen(r) THEN (r.open.fill * r.open.size) \div Leverage(o) ELSE 0

MarkedEquity(r) ==
    r.equity + (IF IsOpen(r) /\ r.mark # 0 THEN (r.mark - r.open.fill) * r.open.side * r.open.size ELSE 0)

NormalizeSignal(o, raw, b) ==
    LET entry == IF raw.entry = 0 THEN b.close ELSE raw.entry
        rr == IF raw.rr = 0 THEN o.finalR ELSE raw.rr
        tp == IF raw.tp = 0 /\ rr > 0 THEN entry + raw.side * rr * Distance(entry, raw.stop)
              ELSE raw.tp
    IN  IF raw.side = 0 \/ entry = raw.stop \/ tp = 0 THEN NoSignal
        ELSE [raw EXCEPT !.entry = entry, !.tp = tp]

-----------------------------------------------------------------------------
(* The runner.                                                             *)

\* cash is a history: the money of the trades.
NewRunner(equity) ==
    [idx |-> 1, equity |-> equity, day |-> -1, dayPnl |-> 0, dayTrades |-> 0,
     dayStart |-> equity, cooldown |-> 0, open |-> NoPosition, pending |-> NoPending,
     trades |-> 0, mark |-> 0, atr |-> 0, cash |-> 0]

\* Mutant: a partial exit is charged the whole of the entry fees.
CloseLeg_WholeFee(o, r, qty, price, fee) ==
    LET p == r.open
        financing == FinancingCost(o, p.side, p.fill * qty, p.openIdx, r.idx)
        pnl == (price - p.fill) * p.side * qty - p.fee - fee - financing
    IN  [r EXCEPT !.equity = @ + pnl, !.dayPnl = @ + pnl,
                  !.cash = @ + p.side * price * qty - fee - financing,
                  !.open.size = @ - qty, !.open.realized = @ + pnl]

CloseLeg(o, r, qty, price, fee) ==
    LET p == r.open
        financing == FinancingCost(o, p.side, p.fill * qty, p.openIdx, r.idx)
        pnl == (price - p.fill) * p.side * qty - (p.fee * qty) \div p.init - fee - financing
    IN  [r EXCEPT !.equity = @ + pnl, !.dayPnl = @ + pnl,
                  !.cash = @ + p.side * price * qty - fee - financing,
                  !.open.size = @ - qty, !.open.realized = @ + pnl]

ForceExit(o, r, price) ==
    IF ~IsOpen(r) THEN r
    ELSE LET f == ApplyFill(o, price, -r.open.side, "market", r.open.size)
         IN  [CloseLeg(o, r, r.open.size, f.price, f.fee)
                  EXCEPT !.cooldown = r.open.sig.cooldown, !.open = NoPosition]

CancelPending(r) == [r EXCEPT !.pending = NoPending]

\* Mutant: the stop is moved to the candidate wherever it is.
Tighten_Any(o, p, b, candidate) ==
    [p EXCEPT !.stop = IF o.clamp THEN ClampStop(o, b.close, candidate, p.side) ELSE candidate]

\* tighten() and the end of _tighten_breakeven.
Tighten(o, p, b, candidate) ==
    LET stop == IF p.side * (candidate - p.stop) > 0 THEN candidate ELSE p.stop
    IN  [p EXCEPT !.stop = IF o.clamp THEN ClampStop(o, b.close, stop, p.side) ELSE stop]

Breakeven(o, p, b) ==
    IF p.realized <= 0 \/ p.size <= 0 THEN p
    ELSE Tighten(o, p, b, p.fill - p.side * (p.realized \div p.size))

OpenFromPending(o, r, price, kind, signalEquity, room) ==
    LET p == r.pending
        planned == p.planned
        stop == IF o.reanchor THEN price - p.side * planned ELSE p.stop
        tp == IF o.reanchor /\ p.sig.rr # 0 /\ p.tp = p.entry + p.side * p.sig.rr * planned
              THEN price + p.side * p.sig.rr * Distance(price, stop) ELSE p.tp
        desired == IF p.qty # 0 THEN p.qty ELSE PositionSize(o, signalEquity, price, stop)
        size == Resolved(o, room, desired, price)
        f == ApplyFill(o, price, p.side, kind, size)
    IN  IF 10 * Distance(price, p.entry) > o.maxSlip * planned \/ size < o.minQty
        THEN CancelPending(r)
        ELSE [r EXCEPT
                !.trades = @ + 1, !.dayTrades = @ + 1, !.pending = NoPending,
                !.cash = @ - p.side * f.price * size - f.fee,
                !.open = [side |-> p.side, entry |-> price, stop |-> stop, tp |-> tp,
                          size |-> size, openIdx |-> r.idx, fill |-> f.price, fee |-> f.fee,
                          init |-> size, base |-> size, mfe |-> 0, adds |-> 0,
                          risk |-> Most(1, Distance(price, stop)), realized |-> 0,
                          beArmed |-> FALSE, scaled |-> FALSE, cutDone |-> FALSE,
                          entryAtr |-> r.atr, sig |-> p.sig]]

-----------------------------------------------------------------------------
(* A bar on an open position, in the order of _manage_open.                *)

Excursion(p, b) == p.side * (Best("intrabar", b, p.side) - p.entry)

BreakevenStop(o, p, b) ==
    IF p.sig.be > 0 /\ Excursion(p, b) >= p.sig.be * p.risk /\ ~p.beArmed
    THEN [Tighten(o, p, b, p.entry) EXCEPT !.beArmed = TRUE] ELSE p

TrailStop(o, p, b) ==
    IF p.sig.trail > 0 /\ Excursion(p, b) >= p.sig.trail * p.risk
    THEN Tighten(o, p, b, b.close - p.side * p.risk) ELSE p

ExcursionStop(o, p, b) ==
    IF o.mfe /\ p.mfe >= o.mfeArm * p.risk
    THEN Tighten(o, p, b, p.entry + p.side * Most(0, p.mfe - o.mfeGiveback * p.risk)) ELSE p

AtrStop(o, p, b) ==
    IF o.atrMult > 0 /\ b.atr # 0 THEN Tighten(o, p, b, b.close - p.side * b.atr * o.atrMult) ELSE p

\* The trails, each on the stop the one before it left.
Trailed(o, p, b) ==
    AtrStop(o, ExcursionStop(o, TrailStop(o, BreakevenStop(o,
        [p EXCEPT !.mfe = Most(@, Excursion(p, b))], b), b), b), b)

\* Volatility cut: part of the position goes at the close.
VolatilityCut(o, r, b) ==
    LET p == r.open
        qty == p.size \div o.cutDivisor
        f == ApplyFill(o, b.close, -p.side, "market", qty)
        cut == CloseLeg(o, r, qty, f.price, f.fee)
    IN  IF /\ o.volScale /\ p.entryAtr # 0 /\ b.atr # 0 /\ p.size > o.minQty /\ ~p.cutDone
           /\ 10 * b.atr >= o.cutIfAtr * p.entryAtr
           /\ p.side * (b.close - p.entry) < o.noCutAbove * p.risk
           /\ o.minQty <= qty /\ qty < p.size
        THEN [cut EXCEPT !.open = [Breakeven(o, cut.open, b) EXCEPT !.cutDone = TRUE]]
        ELSE r

CanAdd(o, p, b, price) ==
    /\ o.pyramiding /\ p.adds < o.maxAdds
    /\ o.addAfterBreakeven => p.side * (p.stop - p.entry) >= 0
    /\ Reached(o, p.side, price, b)

\* A pyramid entry, which averages the fill and adds its fee.
Add(o, r, b, room) ==
    LET p == r.open
        price == p.entry + p.side * o.addAt * (p.adds + 1) * p.risk
        qty == Resolved(o, room, p.base \div o.addDivisor, price)
        f == ApplyFill(o, price, p.side, "limit", qty)
    IN  IF ~CanAdd(o, p, b, price) \/ qty < o.minQty THEN r
        ELSE [r EXCEPT
                !.cash = @ - p.side * f.price * qty - f.fee,
                !.open = [p EXCEPT !.fee = @ + f.fee, !.size = @ + qty, !.init = @ + qty,
                                   !.fill = (@ * p.size + f.price * qty) \div (p.size + qty),
                                   !.adds = @ + 1]]

ScaleOut(o, r, b) ==
    LET p == r.open
        price == p.entry + p.side * o.scaleOutAt * p.risk
        qty == p.size \div o.scaleOutDivisor
        f == ApplyFill(o, price, -p.side, "limit", qty)
        scaled == CloseLeg(o, r, qty, f.price, f.fee)
        target == [scaled.open EXCEPT !.scaled = TRUE, !.tp = p.entry + p.side * o.finalR * p.risk]
    IN  IF /\ ~p.scaled /\ o.scaleOutAt > 0 /\ Reached(o, p.side, price, b)
           /\ o.minQty <= qty /\ qty < p.size
        THEN [scaled EXCEPT !.open = [Breakeven(o, target, b) EXCEPT !.beArmed = TRUE]]
        ELSE r

\* The stop or the target closes what is left; a loss starts the cooldown.
OcoExit(o, r, b) ==
    LET p == r.open
        hit == OcoExitCheck(o, p, b)
        f == ApplyFill(o, IF hit = "TP" THEN p.tp ELSE p.stop, -p.side,
                       IF hit = "TP" THEN "limit" ELSE "stop", p.size)
        cooldown == IF hit = "SL" THEN Most(r.cooldown, o.postLossCooldown) ELSE r.cooldown
    IN  IF hit = "no" THEN r
        ELSE [CloseLeg(o, r, p.size, f.price, f.fee) EXCEPT
                !.cooldown = IF cooldown = 0 THEN p.sig.cooldown ELSE cooldown,
                !.open = NoPosition]

\* A position that has just been added to is not scaled out of.
ScaleUnlessAdded(o, cut, added, b) == IF added = cut THEN ScaleOut(o, cut, b) ELSE added

AfterCut(o, cut, b, room) == ScaleUnlessAdded(o, cut, Add(o, cut, b, room), b)

ManageOpen(o, r, b, room) ==
    OcoExit(o, AfterCut(o, VolatilityCut(o, [r EXCEPT !.open = Trailed(o, @, b)], b), b, room), b)

-----------------------------------------------------------------------------
(* A bar, in the order of _pre_signal and _apply_raw_signal.               *)

\* The bar becomes the last bar, and a new day clears the day's totals.
StartBar(o, r, b) ==
    LET day == IF o.flatten \/ o.trigger = "close" THEN b.et ELSE b.utc
        seen == [r EXCEPT !.mark = b.close, !.atr = b.atr]
    IN  IF day = r.day THEN seen
        ELSE [seen EXCEPT !.day = day, !.dayPnl = 0, !.dayTrades = 0, !.dayStart = r.equity]

HeldTooLong(r) ==
    LET held == r.idx - r.open.openIdx
    IN  \/ r.open.sig.maxBars > 0 /\ Most(1, held) >= r.open.sig.maxBars
        \/ r.open.sig.maxHold > 0 /\ held >= r.open.sig.maxHold

\* Time and end-of-day exits come before the stop and the target.
Exits(o, r, b, room) ==
    IF ~IsOpen(r) THEN r
    ELSE IF HeldTooLong(r) \/ (o.flatten /\ b.eod) THEN ForceExit(o, r, b.close)
    ELSE ManageOpen(o, r, b, room)

DailyLossHit(o, r) == 100 * r.dayPnl <= -(o.maxDailyLoss * Distance(r.dayStart, 0))
TradeCap(o, r) == o.dailyMaxTrades > 0 /\ r.dayTrades >= o.dailyMaxTrades
Blocked(o, r) == DailyLossHit(o, r) \/ TradeCap(o, r)

\* Entry chase: after some bars the order moves to the signal's midpoint,
\* and from there it may follow the close a little further.
Chase(o, r, b, equity, room) ==
    LET p == r.pending
        moves == ~p.chased /\ p.sig.mid # 0 /\ r.idx - p.startedAt >= Most(1, o.chaseAfter)
        q == IF moves THEN [p EXCEPT !.entry = p.sig.mid, !.chased = TRUE] ELSE p
        slipped == Most(0, q.side * (b.close - q.entry))
        scaled(limit) == limit * Distance(q.entry, q.stop)
        moved == [r EXCEPT !.pending = q]
    IN  CASE ~q.chased -> r
          [] q.chased /\ 10 * slipped > scaled(o.maxSlip) -> CancelPending(r)
          [] q.chased /\ slipped > 0 /\ 10 * slipped <= scaled(o.chaseSlip) ->
                OpenFromPending(o, moved, b.close, "market", equity, room)
          [] OTHER -> moved

ManagePending(o, r, b, equity, canTrade, room) ==
    IF IsOpen(r) \/ ~IsPending(r) THEN r
    ELSE IF ~canTrade THEN CancelPending(r)
    ELSE IF r.idx > r.pending.expiresAt \/ Blocked(o, r)
    THEN IF o.chase /\ o.convertOnExpiry
         THEN OpenFromPending(o, r, b.close, "market", equity, room) ELSE CancelPending(r)
    ELSE IF TouchedLimit(o, r.pending.side, r.pending.entry, b)
    THEN OpenFromPending(o, r, r.pending.entry, "limit", equity, room)
    ELSE IF o.chase THEN Chase(o, r, b, equity, room) ELSE r

\* shared is the equity entries are sized by, 0 for the runner's own.
SizingEquity(r, shared) == IF shared = 0 THEN r.equity ELSE shared

AfterExits(o, r, b, shared, canTrade, room) ==
    ManagePending(o, r, b, SizingEquity(r, shared), canTrade, room)

PreSignal(o, r, b, shared, canTrade, room) ==
    AfterExits(o, Exits(o, StartBar(o, r, b), b, room), b, shared, canTrade, room)

AsksSignal(o, r, canTrade) ==
    ~IsOpen(r) /\ r.cooldown = 0 /\ canTrade /\ ~Blocked(o, r) /\ ~IsPending(r)

\* The early returns: a cooldown that runs down, entries that are blocked.
NoEntry(o, r, canTrade) ==
    IF IsOpen(r) \/ r.cooldown > 0 THEN [r EXCEPT !.cooldown = Most(0, @ - 1)]
    ELSE IF ~canTrade \/ Blocked(o, r) THEN CancelPending(r) ELSE r

\* The order of a signal; a limit the same bar touched is filled at once.
ApplyRawSignal(o, r, raw, b, equity, room) ==
    LET s == NormalizeSignal(o, raw, b)
        placed == [r EXCEPT !.pending =
            [side |-> s.side, entry |-> s.entry, stop |-> s.stop, tp |-> s.tp, qty |-> s.qty,
             expiresAt |-> r.idx + Most(1, IF s.expiry = 0 THEN 5 ELSE s.expiry),
             startedAt |-> r.idx, chased |-> FALSE, planned |-> Distance(s.entry, s.stop), sig |-> s]]
    IN  IF s = NoSignal THEN r
        ELSE IF TouchedLimit(o, s.side, s.entry, b)
        THEN OpenFromPending(o, placed, s.entry, "limit", equity, room)
        ELSE placed

Asks(o, r, b, shared, canTrade, room) ==
    AsksSignal(o, PreSignal(o, r, b, shared, canTrade, room), canTrade)

AtSignal(o, r, b, raw, shared, canTrade, room) ==
    IF AsksSignal(o, r, canTrade) THEN ApplyRawSignal(o, r, raw, b, SizingEquity(r, shared), room)
    ELSE NoEntry(o, r, canTrade)

\* step(): raw is what the signal returns where it is asked.
Step(o, r, b, raw, shared, canTrade, room) ==
    [AtSignal(o, PreSignal(o, r, b, shared, canTrade, room), b, raw, shared, canTrade, room)
        EXCEPT !.idx = @ + 1]
=============================================================================
