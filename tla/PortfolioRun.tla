---------------------------- MODULE PortfolioRun ----------------------------
(***************************************************************************)
(* backtest_portfolio (engine/portfolio.py): several runners on one pool   *)
(* of capital.  At each time the systems that have a bar step one after    *)
(* the other; an entry is capped by the capital no system has locked and   *)
(* by the system's own share, and a loss of the day beyond the limit       *)
(* closes every system until midnight in New York.                         *)
(***************************************************************************)
EXTENDS Integers, Sequences, RuleBook
Seqs == INSTANCE SequencesExt

CONSTANTS
    PortOptions,     \* the options of every runner
    PortWeights,     \* <<weight of each system>>
    PortMaxAlloc,    \* max_allocation of every system, 0 when not given
    PortShapes,      \* [high, low, close, atr]
    PortSignals,
    PortEquity,
    PortLossPct,     \* max_daily_loss_pct
    PortShuffled,    \* processing_order is "shuffle"
    PortBarsPerDay,
    PortTimes        \* bound: times

ASSUME PortfolioAssumption ==
    /\ Rules!OptionsOk(PortOptions)
    /\ \A s \in PortShapes : Rules!CandleOk(s) /\ s.close # 0     \* a mark of 0 is no bar yet
    /\ PortEquity \in Nat /\ PortLossPct \in Nat /\ PortBarsPerDay \in Nat \ {0}
    /\ PortTimes \in Nat /\ PortShuffled \in BOOLEAN /\ PortMaxAlloc \in Nat
    /\ PortWeights \in Seq(Nat) /\ \E n \in DOMAIN PortWeights : PortWeights[n] > 0
    /\ PortSignals \subseteq Rules!SignalRecord

VARIABLES
    portTime,        \* next_time
    portActive,      \* the systems still to step at that time, in order
    systems,         \* the runners
    portDay,         \* [day, equity]: current_day and day_start_equity
    portHalted       \* portfolio_halted

portVars == <<portTime, portActive, systems, portDay, portHalted>>

System == DOMAIN PortWeights

\* The sum over the systems of what f says of each.
OverSystems(f) ==
    LET upTo[n \in 0 .. Len(PortWeights)] == IF n = 0 THEN 0 ELSE upTo[n - 1] + f[n]
    IN  upTo[Len(PortWeights)]

WeightTotal == OverSystems(PortWeights)
Reference(n) == (PortEquity * PortWeights[n]) \div WeightTotal

\* _default_system_cap, with max_allocation and without max_allocation_pct, which
\* up to 1 could only lower it; a weight of zero is no limit.
Cap(n, total) ==
    LET equity == Rules!Most(0, total)
        share  == IF PortWeights[n] = 0 THEN equity ELSE (equity * PortWeights[n]) \div WeightTotal
    IN  CASE PortMaxAlloc = 0 -> share
          [] PortMaxAlloc > 0 /\ PortWeights[n] = 0 -> PortMaxAlloc
          [] OTHER -> Rules!Least(share, PortMaxAlloc)

Locked(s, n) == Rules!LockedCapital(PortOptions, s[n])
AllLocked(s) == OverSystems([n \in System |-> Locked(s, n)])
Marked(s) == PortEquity + OverSystems([n \in System |-> Rules!MarkedEquity(s[n]) - Reference(n)])

PortInit ==
    /\ portTime = -1 /\ portActive = <<>> /\ portHalted = FALSE
    /\ systems = [n \in System |-> Rules!NewRunner(Reference(n))]
    /\ portDay = [day |-> -1, equity |-> PortEquity]

\* The next time that some system has a bar for, and the order they step in:
\* by index, or as their hashes have it.
NextTime(S) ==
    /\ portActive = <<>> /\ portTime < PortTimes
    /\ portTime' = portTime + 1
    /\ portActive' \in {q \in Seqs!SetToSeqs(S) : PortShuffled \/ Seqs!IsSorted(q, <)}
    /\ IF portTime' \div PortBarsPerDay = portDay.day THEN UNCHANGED <<portDay, portHalted>>
       ELSE /\ portDay' = [day |-> portTime' \div PortBarsPerDay, equity |-> Marked(systems)]
            /\ portHalted' = FALSE
    /\ UNCHANGED systems

\* Mutant: the orders of the other systems stay.
ForceExitAll_KeepsOrders(s) ==
    [n \in System |-> IF s[n].mark = 0 THEN s[n] ELSE Rules!ForceExit(PortOptions, s[n], s[n].mark)]

ForceExitAll(s) ==
    [n \in System |-> LET r == Rules!CancelPending(s[n])
                      IN  IF r.mark = 0 THEN r ELSE Rules!ForceExit(PortOptions, r, r.mark)]

\* Mutant: what the other systems have locked is forgotten.
Room_Alone(s, n) ==
    Rules!Most(0, Rules!Least(Rules!Most(0, Marked(s)), Cap(n, Marked(s)) - Locked(s, n)))

Room(s, n) ==
    Rules!Most(0, Rules!Least(Rules!Most(0, Marked(s) - AllLocked(s)), Cap(n, Marked(s)) - Locked(s, n)))

Barred(shape) ==
    [high |-> shape.high, low |-> shape.low, close |-> shape.close, atr |-> shape.atr,
     et |-> portDay.day, utc |-> portDay.day, eod |-> (portTime + 1) % PortBarsPerDay = 0]

\* The loss limit, looked at after every step.
CheckLoss(stepped) ==
    IF /\ ~portHalted /\ PortLossPct > 0
       /\ 100 * Marked(stepped) <= portDay.equity * (100 - PortLossPct)
    THEN systems' = ForceExitAll(stepped) /\ portHalted' = TRUE
    ELSE systems' = stepped /\ UNCHANGED portHalted

\* step() of the next system, and the portfolio's loss limit after it.
StepSystem(shape, raw) ==
    /\ portActive # <<>>
    /\ portActive' = Tail(portActive)
    /\ \E n \in {Head(portActive)}, total \in {Marked(systems)} : \E room \in {Room(systems, n)} :
        /\ raw # Rules!NoSignal =>
              Rules!Asks(PortOptions, systems[n], Barred(shape), total, ~portHalted, room)
        /\ \E r \in {Rules!Step(PortOptions, systems[n], Barred(shape), raw, total, ~portHalted, room)} :
              CheckLoss([systems EXCEPT ![n] = r])
    /\ UNCHANGED <<portTime, portDay>>

PortNext ==
    \/ \E S \in SUBSET System \ {{}} : NextTime(S)
    \/ \E shape \in PortShapes, raw \in PortSignals \cup {Rules!NoSignal} : StepSystem(shape, raw)

PortSpec == PortInit /\ [][PortNext]_portVars

-----------------------------------------------------------------------------
\* From the system whose step crosses the daily loss limit until midnight no
\* system has a position or an order, those that have yet to step at that
\* time included (portfolio.py:307-351).
HaltFlattens == portHalted => \A n \in System : ~Rules!IsOpen(systems[n]) /\ ~Rules!IsPending(systems[n])

\* Where fills do not slip, an entry or a pyramid entry never locks more than the
\* system's share of the equity, nor, with what the other systems have locked,
\* more than all of it, although it is sized before the exits of its bar
\* (portfolio.py:315-340).  The run has slip 0; with slippage, of which the code's
\* default is 1 bps, TLC refutes this, as the size is computed at the order's
\* price and what is locked at the fill's.
CapitalShared ==
    [][\A n \in System : Locked(systems', n) > Locked(systems, n) =>
        /\ Locked(systems', n) <= Cap(n, Marked(systems))
        /\ AllLocked(systems') <= Marked(systems)]_portVars
=============================================================================
