------------------------------ MODULE PaperBook ------------------------------
(***************************************************************************)
(* live/paper.py: the books of PaperEngine in one symbol, from an order's  *)
(* submission to its fill and the cash and average entry it leaves.        *)
(*                                                                         *)
(* Money is whole: the instance's prices are multiples of a unit that      *)
(* every average of a few fills divides.  simulate_bar is three kinds of   *)
(* step, since subscribers and fill callbacks may call back into the       *)
(* engine: the bar is shown, the open orders are listed, each is matched.  *)
(***************************************************************************)
EXTENDS Integers, Sequences

CONSTANTS
    StartCash,
    Tickets,       \* the orders a caller submits
    Prices,        \* limits an order may be moved to, and marks
    Bars,          \* records of low, high and close
    Slip,          \* [kind -> slippage and half spread per unit]
    PerUnit, PerOrder, MinCommission,
    MaxOrders,     \* bound: orders
    MaxModified,   \* bound: modifications
    MaxBarsShown   \* bound: bars

\* Quantities are positive (_positive) and prices numbers (_finite).
ASSUME BookAssumption ==
    /\ StartCash \in Int /\ PerUnit \in Int /\ PerOrder \in Int /\ MinCommission \in Int
    /\ Slip \in [{"market", "limit", "stop"} -> Int]
    /\ Tickets \subseteq [type : {"market", "limit", "stop", "stop_limit"}, side : {-1, 1},
                        qty : Nat \ {0}, limit : Int, stop : Int]
    /\ Prices \subseteq Int /\ Bars \subseteq [low : Int, high : Int, close : Int]

VARIABLES
    orders,        \* order_history, in order of submission
    position,      \* [qty, avg]: signed quantity and average entry
    cash,
    lastPrice,     \* last_prices, or NoPrice
    bar,           \* the bar being simulated, or NoBar
    queue,         \* the orders simulate_bar has listed and not yet matched
    listed,        \* simulate_bar has listed them
    fees,          \* history: commissions paid
    modified, shown

bookVars == <<orders, position, cash, lastPrice, bar, queue, listed, fees, modified, shown>>

NoPrice == 0
NoBar == [low |-> 0, high |-> 0, close |-> 0]

BookInit ==
    /\ orders = <<>> /\ position = [qty |-> 0, avg |-> 0] /\ cash = StartCash
    /\ lastPrice = NoPrice /\ bar = NoBar /\ queue = {} /\ listed = FALSE
    /\ fees = 0 /\ modified = 0 /\ shown = 0

Magnitude(n) == IF n < 0 THEN -n ELSE n
Lesser(a, b) == IF a < b THEN a ELSE b
Greater(a, b) == IF a < b THEN b ELSE a

\* apply_fill
FillPrice(price, dir, kind) == price + dir * Slip[kind]
Commission(qty) == Greater(MinCommission, PerUnit * qty + PerOrder)

\* Mutant: what is left after a reversal keeps the old entry.
NextPosition_KeepsEntry(p, incoming, price) ==
    LET qty == p.qty + incoming
    IN  CASE p.qty * incoming >= 0 ->
                [qty |-> qty,
                 avg |-> (Magnitude(p.qty) * p.avg + Magnitude(incoming) * price) \div Magnitude(qty)]
          [] qty = 0 -> [qty |-> 0, avg |-> 0]
          [] OTHER -> [qty |-> qty, avg |-> p.avg]

\* The position after a fill of signed quantity incoming at price.
NextPosition(p, incoming, price) ==
    LET qty == p.qty + incoming
    IN  CASE p.qty * incoming >= 0 ->
                [qty |-> qty,
                 avg |-> (Magnitude(p.qty) * p.avg + Magnitude(incoming) * price) \div Magnitude(qty)]
          [] p.qty * incoming < 0 /\ qty = 0 -> [qty |-> 0, avg |-> 0]
          [] p.qty * incoming < 0 /\ qty * p.qty > 0 -> [qty |-> qty, avg |-> p.avg]
          [] p.qty * incoming < 0 /\ qty * p.qty < 0 -> [qty |-> qty, avg |-> price]

Realized(p, incoming, price) ==
    IF p.qty * incoming >= 0 THEN 0
    ELSE LET closed == Lesser(Magnitude(p.qty), Magnitude(incoming))
         IN  (price - p.avg) * closed * (IF p.qty > 0 THEN 1 ELSE -1)

\* _fill_order: order o, as recorded in os, fills.
Fill(os, o, price, kind) ==
    LET p == FillPrice(price, os[o].side, kind)
        incoming == os[o].side * os[o].qty
    IN  /\ position' = NextPosition(position, incoming, p)
        /\ cash' = cash - Commission(os[o].qty) + Realized(position, incoming, p)
        /\ fees' = fees + Commission(os[o].qty)
        /\ orders' = [os EXCEPT ![o].status = "filled", ![o].price = p]

\* submit_order, by a user, a subscriber or a callback.
Submit(t) ==
    /\ Len(orders) < MaxOrders
    /\ LET new == Append(orders, [side |-> t.side, type |-> t.type, qty |-> t.qty,
                      limit |-> t.limit, stop |-> t.stop, status |-> "open",
                      triggered |-> FALSE, price |-> NoPrice])
           o == Len(new)
           price == IF lastPrice # NoPrice THEN lastPrice
                    ELSE IF t.limit # NoPrice THEN t.limit ELSE t.stop
       IN  CASE t.type # "market" ->
                    orders' = new /\ UNCHANGED <<position, cash, fees>>
             [] t.type = "market" /\ price = NoPrice ->
                    /\ orders' = [new EXCEPT ![o].status = "rejected"]
                    /\ UNCHANGED <<position, cash, fees>>
             [] OTHER -> Fill(new, o, price, "market")
    /\ UNCHANGED <<lastPrice, bar, queue, listed, modified, shown>>

IsOpen(o) == orders[o].status = "open"

\* cancel_order_nowait
CancelNow(o) ==
    /\ IsOpen(o)
    /\ orders' = [orders EXCEPT ![o].status = "canceled"]
    /\ UNCHANGED <<position, cash, lastPrice, bar, queue, listed, fees, modified, shown>>

\* modify_order: the quantity, the limit or the stop of an open order.
Modify(o) ==
    /\ IsOpen(o)
    /\ modified < MaxModified /\ modified' = modified + 1
    /\ \/ \E t \in Tickets : orders' = [orders EXCEPT ![o].qty = t.qty]
       \/ \E p \in Prices : orders' = [orders EXCEPT ![o].limit = p]
       \/ \E p \in Prices : orders' = [orders EXCEPT ![o].stop = p]
    /\ UNCHANGED <<position, cash, lastPrice, bar, queue, listed, fees, shown>>

\* simulate_bar shows the bar to its subscribers ...
ShowBar(b) ==
    /\ bar = NoBar
    /\ shown < MaxBarsShown /\ shown' = shown + 1
    /\ bar' = b /\ lastPrice' = b.close
    /\ UNCHANGED <<orders, position, cash, queue, listed, fees, modified>>

\* ... lists the open orders ...
ListOrders ==
    /\ bar # NoBar /\ ~listed
    /\ queue' = {o \in 1 .. Len(orders) : IsOpen(o)}
    /\ listed' = TRUE
    /\ UNCHANGED <<orders, position, cash, lastPrice, bar, fees, modified, shown>>

TouchedLimit(o, b) ==
    IF o.side = 1 THEN b.low <= o.limit ELSE b.high >= o.limit
TouchedStop(o, b) ==
    IF o.side = 1 THEN b.high >= o.stop ELSE b.low <= o.stop

\* The order that was submitted first.
Foremost == CHOOSE o \in queue : \A p \in queue : o <= p

\* Mutant: an order that was canceled while the bar was matched is matched.
MatchNext_Blind ==
    /\ listed /\ queue # {}
    /\ queue' = queue \ {Foremost}
    /\ LET o == Foremost
       IN  IF orders[o].type = "limit" /\ TouchedLimit(orders[o], bar)
           THEN Fill(orders, o, orders[o].limit, "limit")
           ELSE UNCHANGED <<orders, position, cash, fees>>
    /\ UNCHANGED <<lastPrice, bar, listed, modified, shown>>

\* ... and matches them one by one, unless a callback has ended one.
MatchNext ==
    /\ listed /\ queue # {}
    /\ queue' = queue \ {Foremost}
    /\ LET o == Foremost
           r == orders[o]
           hit == r.triggered \/ TouchedStop(r, bar)
       IN  CASE ~IsOpen(o) -> UNCHANGED <<orders, position, cash, fees>>
             [] IsOpen(o) /\ r.type = "limit" /\ TouchedLimit(r, bar) ->
                    Fill(orders, o, r.limit, "limit")
             [] IsOpen(o) /\ r.type = "stop" /\ TouchedStop(r, bar) ->
                    Fill(orders, o, r.stop, "stop")
             [] IsOpen(o) /\ r.type = "stop_limit" /\ hit /\ TouchedLimit(r, bar) ->
                    Fill([orders EXCEPT ![o].triggered = TRUE], o, r.limit, "limit")
             [] OTHER ->
                    /\ orders' = [orders EXCEPT ![o].triggered =
                                      @ \/ (r.type = "stop_limit" /\ hit)]
                    /\ UNCHANGED <<position, cash, fees>>
    /\ UNCHANGED <<lastPrice, bar, listed, modified, shown>>

BarDone ==
    /\ listed /\ queue = {}
    /\ bar' = NoBar /\ listed' = FALSE
    /\ UNCHANGED <<orders, position, cash, lastPrice, queue, fees, modified, shown>>

BookNext ==
    \/ \E t \in Tickets : Submit(t)
    \/ \E o \in 1 .. Len(orders) : CancelNow(o) \/ Modify(o)
    \/ \E b \in Bars : ShowBar(b)
    \/ ListOrders \/ MatchNext \/ BarDone

BookSpec == BookInit /\ [][BookNext]_bookVars

-----------------------------------------------------------------------------
\* What an order has earned when the price is m.
Gain(o, m) == IF o.status = "filled" THEN o.side * o.qty * (m - o.price) ELSE 0

\* What the orders os have earned together.
Earned(os, m) ==
    LET f[o \in 0 .. Len(os)] == IF o = 0 THEN 0 ELSE f[o - 1] + Gain(os[o], m)
    IN  f[Len(os)]

\* Cash and the position marked at any price m are what all fills together
\* have earned at m, less the commissions, through additions, partial exits
\* and reversals (paper.py:145-178, 282-386).
BooksBalance ==
    \A m \in Prices :
        cash + (m - position.avg) * position.qty = StartCash - fees + Earned(orders, m)

\* An order that is filled, canceled or rejected stays exactly as it is, also
\* when a callback ends it while a bar is being matched (paper.py:502-504).
OrdersStayDone ==
    [][\A o \in 1 .. Len(orders) : ~IsOpen(o) => orders'[o] = orders[o]]_bookVars
=============================================================================
