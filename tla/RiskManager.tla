----------------------------- MODULE RiskManager -----------------------------
(***************************************************************************)
(* A live engine's use of its RiskManager: it marks every bar, records     *)
(* every exit, asks before every entry, and initializes the manager and    *)
(* loads its own totals into it at every start (live/engine.py).           *)
(*                                                                         *)
(* Bars carry the time they opened and may arrive late, exits the time of  *)
(* their fill.  A position is opened and closed whole.                     *)
(***************************************************************************)
EXTENDS RiskRules

CONSTANTS
    Deposit,       \* the engine's equity before its first start
    Pnls,          \* what a trade may earn, and a position be worth, in equity
    Worth,         \* the value of an entry
    RiskTime,      \* bound: time
    Lag,           \* how late a bar may be
    MaxRestarts,   \* bound: starts after the first
    Overrides      \* TRUE: an operator may halt and clear halts

ASSUME EngineUseAssumption ==
    /\ Deposit \in Nat /\ Pnls \subseteq Int /\ Worth \in Nat /\ RiskTime \in Nat
    /\ Lag \in Nat /\ MaxRestarts \in Nat /\ Overrides \in BOOLEAN

VARIABLES
    now,           \* the wall clock
    risk,          \* the engine's risk_manager
    equity,        \* the engine's realized equity
    totals,        \* the engine's day_pnl and day_trades, persisted and reloaded
    open,          \* a position is open
    lastBar,       \* last_bar_time
    restarts,
    excused        \* history: nothing has been checked since a reset or a clear

riskVars == <<now, risk, equity, totals, open, lastBar, restarts, excused>>

RiskInit ==
    /\ now = 0
    /\ equity = Deposit
    /\ risk = Initialize(NewRisk, Deposit, 0)
    /\ totals = [pnl |-> 0, trades |-> 0]
    /\ open = FALSE /\ lastBar = None /\ restarts = 0 /\ excused = TRUE

Checked(r) ==
    /\ risk' = r
    /\ excused' = FALSE

\* A bar that opened at t: handle_bar marks the equity.
Bar(t) ==
    /\ lastBar < t /\ t <= now /\ now <= t + Lag
    /\ lastBar' = t
    /\ \E u \in (IF open THEN Pnls ELSE {0}) :
        /\ equity + u >= 0
        /\ Checked(Update(risk, equity + u, t))
    /\ UNCHANGED <<now, equity, totals, open, restarts>>

\* _submit_entry, within handle_bar, asks with the time of the last bar.
Enter ==
    /\ ~open
    /\ lastBar # None /\ now <= lastBar + Lag
    /\ CanOpenPosition(risk, lastBar, 0, Worth, equity, None, None)
    /\ open' = TRUE
    /\ totals' = [totals EXCEPT !.trades = @ + 1]
    /\ UNCHANGED <<now, risk, equity, lastBar, restarts, excused>>

\* _on_order_filled books the exit.
Exit(pnl) ==
    /\ open
    /\ equity + pnl >= 0
    /\ open' = FALSE
    /\ equity' = equity + pnl
    /\ totals' = [totals EXCEPT !.pnl = @ + pnl]
    /\ Checked(RecordTrade(risk, pnl, equity + pnl, now))
    /\ UNCHANGED <<now, lastBar, restarts>>

\* start() after a stop or a crash: a new manager, with the persisted totals.
Restart ==
    /\ restarts < MaxRestarts
    /\ restarts' = restarts + 1
    /\ LET at == IF lastBar = None THEN now ELSE lastBar
       IN  risk' = [Initialize(risk, equity, at) EXCEPT !.dayPnl = totals.pnl, !.dayTrades = totals.trades]
    /\ excused' = TRUE
    /\ UNCHANGED <<now, equity, totals, open, lastBar>>

\* halt() of the engine, the orchestrator or an operator; clear_halt().
Overridden ==
    /\ Overrides
    /\ \/ risk' = Halt(risk) /\ UNCHANGED excused
       \/ risk' = ClearHalt(risk) /\ excused' = TRUE
    /\ UNCHANGED <<now, equity, totals, open, lastBar, restarts>>

Tick ==
    /\ now < RiskTime
    /\ now' = now + 1
    /\ UNCHANGED <<risk, equity, totals, open, lastBar, restarts, excused>>

RiskNext ==
    \/ \E t \in 0 .. RiskTime : Bar(t)
    \/ \E pnl \in Pnls : Exit(pnl)
    \/ Enter \/ Restart \/ Overridden \/ Tick

RiskSpec == RiskInit /\ [][RiskNext]_riskVars

-----------------------------------------------------------------------------
\* Every variable has its type, and no equity is above the peak.
RiskTypeOK ==
    /\ now \in 0 .. RiskTime /\ risk \in RiskState /\ equity \in Nat
    /\ totals \in [pnl : Int, trades : Nat]
    /\ open \in BOOLEAN /\ lastBar \in Nat \cup {None} /\ restarts \in 0 .. MaxRestarts /\ excused \in BOOLEAN
    /\ risk.equity \in 0 .. risk.peak

\* From one check to the next reset or clear, a manager whose limits are
\* reached is halted: a new day lifts the halt of a drawdown that lasts, and
\* the same call must set it again (risk.py:123-166, 257-281).
Tripped == (~excused /\ Breached(risk)) => Halted(risk)
=============================================================================
