---------------------------- MODULE BrokerAccount ----------------------------
(***************************************************************************)
(* The broker as the live engine sees it: orders of one symbol, the net    *)
(* position they build, and the order updates the account reports.         *)
(*                                                                         *)
(* Two kinds of account share this module.  PaperEngine (Synchronous)      *)
(* answers and reports inside the call, before it returns.  A streaming    *)
(* adapter (~Synchronous) is code outside the repository, known only by    *)
(* the contract live/broker.py states: it answers when it likes and        *)
(* reports each terminal status once, later, in any order.                 *)
(*                                                                         *)
(* Prices are left out.  LiveEngine's orders are all of one unit; in a    *)
(* TradingSession `side' is the signed quantity, a multiple of a unit.     *)
(***************************************************************************)
EXTENDS Integers

CONSTANTS
    Orders,        \* client order ids, each used for at most one order
    NoOrder,       \* no order id
    Synchronous    \* TRUE for PaperEngine, FALSE for a streaming adapter

ASSUME OrderAssumption ==
    /\ NoOrder \notin Orders
    /\ Synchronous \in BOOLEAN

VARIABLES
    status,        \* [Orders -> OrderStatus]
    side,          \* [Orders -> Int]: its signed quantity, buys positive
    market,        \* [Orders -> BOOLEAN]: market order, or resting limit/stop
    told,          \* [Orders -> BOOLEAN]: its terminal status was reported
    net            \* the account's signed position in the symbol

accountVars == <<status, side, market, told, net>>

OrderIds == Orders \cup {NoOrder}

Done == {"filled", "canceled", "rejected"}

\* none: never submitted; sent: the submit call has not been answered.
OrderStatus == {"none", "sent", "working"} \cup Done

AccountTypeOK ==
    /\ status \in [Orders -> OrderStatus]
    /\ side \in [Orders -> {-1, 1}]
    /\ market \in [Orders -> BOOLEAN]
    /\ told \in [Orders -> BOOLEAN]
    /\ net \in Int

AccountInit ==
    /\ status = [o \in Orders |-> "none"]
    /\ side = [o \in Orders |-> 1]
    /\ market = [o \in Orders |-> FALSE]
    /\ told = [o \in Orders |-> FALSE]
    /\ net = 0

Live(o) == status[o] \in {"sent", "working"}

\* submit_order is called with client order id o.
Send(o, d, m) ==
    /\ status[o] = "none"
    /\ status' = [status EXCEPT ![o] = "sent"]
    /\ side' = [side EXCEPT ![o] = d]
    /\ market' = [market EXCEPT ![o] = m]
    /\ UNCHANGED <<told, net>>

\* The order reaches status s.  A paper account reports it at once.
Reach(o, s) ==
    /\ status' = [status EXCEPT ![o] = s]
    /\ told' = [told EXCEPT ![o] = Synchronous /\ s \in Done]
    /\ net' = IF s = "filled" THEN net + side[o] ELSE net
    /\ UNCHANGED <<side, market>>

\* What a submit call may be answered with.  PaperEngine fills or rejects a
\* market order inside the call; it never fills a resting one there.
Answers(o) ==
    IF ~Synchronous THEN {"working", "filled", "rejected"}
    ELSE IF market[o] THEN {"filled", "rejected"} ELSE {"working", "rejected"}

\* A submit call failed on the way out: the order never reaches the account
\* and nothing is ever reported of it.
NeverArrives(o) ==
    /\ status[o] = "sent"
    /\ status' = [status EXCEPT ![o] = "rejected"]
    /\ told' = [told EXCEPT ![o] = TRUE]
    /\ UNCHANGED <<side, market, net>>

\* The account reports the terminal status of o.
Tell(o) ==
    /\ ~Synchronous
    /\ status[o] \in Done
    /\ ~told[o]
    /\ told' = [told EXCEPT ![o] = TRUE]
    /\ UNCHANGED <<status, side, market, net>>
=============================================================================
