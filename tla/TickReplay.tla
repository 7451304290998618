----------------------------- MODULE TickReplay -----------------------------
(***************************************************************************)
(* backtest_ticks (engine/backtest_ticks.py): one tick at a time, exits    *)
(* before entries before the signal, and whatever is open at the end is    *)
(* closed there.  Whether a touched limit order is filled is drawn from a  *)
(* hash of the order and the tick: any outcome.                            *)
(***************************************************************************)
EXTENDS Integers, FiniteSets, RuleBook

CONSTANTS
    TickOptions,     \* an option record of BarRules
    QueueFills,      \* what the draw of a limit order may be: {TRUE} for probability 1
    TickRows,        \* [bid, ask, last, low, high], 0 for what is absent
    TickSignals,
    TickEquity,
    TicksPerDay,
    TickCount        \* bound: ticks

ASSUME TickAssumption ==
    /\ Rules!OptionsOk(TickOptions) /\ TickSignals \subseteq Rules!SignalRecord
    /\ \A r \in TickRows : {r.bid, r.ask, r.last, r.low, r.high} \subseteq Int
    /\ QueueFills \subseteq BOOLEAN /\ TickEquity \in Nat /\ TicksPerDay \in Nat \ {0} /\ TickCount \in Nat
    /\ TickOptions.oco = "intrabar"

VARIABLES
    tick,            \* index of the next tick
    tickBook,        \* open, equity, day, dayStart, dayPnl, dayTrades
    tickOrder,       \* pending
    lastTick,        \* history: the tick last handled
    tickCash,        \* history: money of the trades
    replayed         \* all ticks are handled and what was open is closed

tickVars == <<tick, tickBook, tickOrder, lastTick, tickCash, replayed>>

\* _normalize_tick: the middle of the quote is the price, and every price
\* of the row widens the range; a row without a price is dropped.
Middle(row) ==
    IF row.bid # 0 /\ row.ask # 0 THEN (row.bid + row.ask) \div 2
    ELSE IF row.last # 0 THEN row.last
    ELSE Rules!Most(row.bid, row.ask)

Quoted(row) == {row.low, row.high, row.bid, row.ask, row.last, Middle(row)} \ {0}

NormalizeTick(row) ==
    [low |-> CHOOSE p \in Quoted(row) : \A q \in Quoted(row) : p <= q,
     high |-> CHOOSE p \in Quoted(row) : \A q \in Quoted(row) : p >= q,
     close |-> Middle(row)]

NoTickOrder == [side |-> 0]

TickInit ==
    /\ tick = 0 /\ replayed = FALSE /\ tickCash = 0
    /\ lastTick = NoTickOrder
    /\ tickBook = [open |-> Rules!NoPosition, equity |-> TickEquity, day |-> -1,
                   dayStart |-> TickEquity, dayPnl |-> 0, dayTrades |-> 0]
    /\ tickOrder = NoTickOrder

\* What a state of the replay is, between the steps of one tick.
Replay(book, order, cash) == [book |-> book, order |-> order, cash |-> cash]

StartTick(book) ==
    IF tick \div TicksPerDay = book.day THEN book
    ELSE [book EXCEPT !.day = tick \div TicksPerDay, !.dayStart = book.equity,
                      !.dayPnl = 0, !.dayTrades = 0]

\* Mutant: a closed position's entry fee stays uncharged.
CloseOnTick_NoFee(s, price, kind, at) ==
    LET p == s.book.open
        f == Rules!ApplyFill(TickOptions, price, -p.side, kind, p.size)
        financing == Rules!FinancingCost(TickOptions, p.side, p.fill * p.size, p.openTick, at)
        pnl == (f.price - p.fill) * p.side * p.size - f.fee - financing
    IN  Replay([s.book EXCEPT !.open = Rules!NoPosition, !.equity = @ + pnl, !.dayPnl = @ + pnl],
               s.order, s.cash + p.side * f.price * p.size - f.fee - financing)

\* close_position.
CloseOnTick(s, price, kind, at) ==
    LET p == s.book.open
        f == Rules!ApplyFill(TickOptions, price, -p.side, kind, p.size)
        financing == Rules!FinancingCost(TickOptions, p.side, p.fill * p.size, p.openTick, at)
        pnl == (f.price - p.fill) * p.side * p.size - p.fee - f.fee - financing
    IN  Replay([s.book EXCEPT !.open = Rules!NoPosition, !.equity = @ + pnl, !.dayPnl = @ + pnl],
               s.order, s.cash + p.side * f.price * p.size - f.fee - financing)

TickExit(s, t) ==
    LET p == s.book.open
        hit == IF p.side = 0 THEN "no" ELSE Rules!OcoExitCheck(TickOptions, p, t)
    IN  CASE hit = "no" -> s
          [] hit = "TP" -> CloseOnTick(s, p.tp, "limit", tick)
          [] hit = "SL" -> CloseOnTick(s, p.stop, "stop", tick)

\* open_pending: an order too small to fill is forgotten as well.
OpenPending(s, t, kind) ==
    LET o == s.order
        entry == IF kind = "market" THEN t.close ELSE o.entry
        size == IF o.qty # 0 THEN o.qty
                ELSE Rules!PositionSize(TickOptions, s.book.equity, entry, o.stop)
        f == Rules!ApplyFill(TickOptions, entry, o.side, kind, size)
        position == [side |-> o.side, stop |-> o.stop, tp |-> o.tp, size |-> size,
                     openTick |-> tick, fill |-> f.price, fee |-> f.fee]
    IN  IF size < TickOptions.minQty THEN Replay(s.book, NoTickOrder, s.cash)
        ELSE Replay([s.book EXCEPT !.open = position, !.dayTrades = @ + 1], NoTickOrder,
                    s.cash - o.side * f.price * size - f.fee)

\* A market order takes the tick after its signal, a limit order a tick that
\* touches it and that the queue lets it fill on.
TickEntry(s, t, queued) ==
    LET o == s.order
        touched == o.side * ((IF o.side = 1 THEN t.low ELSE t.high) - o.entry) <= 0
    IN  IF s.book.open.side # 0 \/ o.side = 0 \/ tick <= o.createdAt THEN s
        ELSE IF o.type = "market" THEN OpenPending(s, t, "market")
        ELSE IF touched /\ queued THEN OpenPending(s, t, "limit") ELSE s

TickBlocked(book) ==
    \/ /\ TickOptions.maxDailyLoss > 0
       /\ 100 * book.dayPnl <= -(TickOptions.maxDailyLoss * book.dayStart)
    \/ TickOptions.dailyMaxTrades > 0 /\ book.dayTrades >= TickOptions.dailyMaxTrades

SignalAsked(s) == s.book.open.side = 0 /\ s.order.side = 0 /\ ~TickBlocked(s.book)

Placed(s, raw, t) ==
    LET n == Rules!NormalizeSignal(TickOptions, raw, t)
    IN  IF n = Rules!NoSignal THEN s
        ELSE [s EXCEPT !.order =
                [side |-> n.side, entry |-> n.entry, stop |-> n.stop, tp |-> n.tp, qty |-> n.qty,
                 type |-> IF raw.entry # 0 THEN "limit" ELSE "market", createdAt |-> tick]]

HandleTick(row, raw, queued) ==
    LET t == NormalizeTick(row)
        s == TickEntry(TickExit(Replay(StartTick(tickBook), tickOrder, tickCash), t), t, queued)
        last == IF raw = Rules!NoSignal THEN s ELSE Placed(s, raw, t)
    IN  /\ ~replayed /\ tick < TickCount
        /\ Quoted(row) # {}
        /\ raw # Rules!NoSignal => SignalAsked(s)
        /\ tick' = tick + 1
        /\ tickBook' = last.book /\ tickOrder' = last.order /\ tickCash' = last.cash
        /\ lastTick' = t
        /\ UNCHANGED replayed

\* After the last tick an open position is closed at its price.
EndOfTicks ==
    LET s == Replay(tickBook, tickOrder, tickCash)
        e == IF tickBook.open.side = 0 THEN s
             ELSE CloseOnTick(s, lastTick.close, "market", tick - 1)
    IN  /\ ~replayed /\ tick > 0
        /\ replayed' = TRUE
        /\ tickBook' = e.book /\ tickCash' = e.cash
        /\ UNCHANGED <<tick, tickOrder, lastTick>>

TickNext ==
    \/ \E row \in TickRows, raw \in TickSignals \cup {Rules!NoSignal}, queued \in QueueFills :
           HandleTick(row, raw, queued)
    \/ EndOfTicks

TickSpec == TickInit /\ [][TickNext]_tickVars

-----------------------------------------------------------------------------
\* The equity is the money the trades moved, an open position at its fill
\* with its entry fee, and when the replay ends nothing is open
\* (backtest_ticks.py:313-369, 426-530).
TicksAddUp ==
    LET p == tickBook.open IN
    /\ tickBook.equity = TickEquity + tickCash
           + (IF p.side = 0 THEN 0 ELSE p.side * p.fill * p.size + p.fee)
    /\ replayed => p.side = 0
=============================================================================
