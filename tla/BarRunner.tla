------------------------------ MODULE BarRunner ------------------------------
(***************************************************************************)
(* A standalone BarSystemRunner (engine/backtest.py): one step per bar,    *)
(* over every sequence of bars and signals.                                *)
(***************************************************************************)
EXTENDS Integers, RuleBook

CONSTANTS
    RunnerOptions,  \* the option records a runner may be made with
    BarShapes,      \* [high, low, close, atr]
    RawSignals,     \* what the signal may return
    RunnerEquity,
    BarsPerDay,     \* bars from one New York midnight to the next
    UtcOffset,      \* bars by which the UTC day starts earlier
    LastIndex       \* bound: bars

ASSUME RunnerAssumption ==
    /\ RunnerEquity \in Nat /\ BarsPerDay \in Nat \ {0} /\ UtcOffset \in Nat /\ LastIndex \in Nat
    /\ \A o \in RunnerOptions : Rules!OptionsOk(o)
    /\ \A s \in BarShapes : Rules!CandleOk(s)
    /\ RawSignals \subseteq Rules!SignalRecord

VARIABLES
    options,        \* the runner's options, fixed
    runner,         \* the runner
    lastShape       \* history: the bar it was last given

runnerVars == <<options, runner, lastShape>>

\* The calendar of the bar at an index.
BarAt(shape, idx) ==
    [high |-> shape.high, low |-> shape.low, close |-> shape.close, atr |-> shape.atr,
     et |-> idx \div BarsPerDay, utc |-> (idx + UtcOffset) \div BarsPerDay,
     eod |-> (idx + 1) % BarsPerDay = 0]

RunnerInit ==
    /\ options \in RunnerOptions
    /\ runner = Rules!NewRunner(RunnerEquity)
    /\ lastShape = Rules!NoSignal

RunnerStep(shape, raw) ==
    LET b == BarAt(shape, runner.idx) IN
    /\ runner.idx <= LastIndex
    /\ raw # Rules!NoSignal => Rules!Asks(options, runner, b, 0, TRUE, Rules!NoRoom)
    /\ runner' = Rules!Step(options, runner, b, raw, 0, TRUE, Rules!NoRoom)
    /\ lastShape' = shape
    /\ UNCHANGED options

RunnerNext == \E shape \in BarShapes, raw \in RawSignals \cup {Rules!NoSignal} : RunnerStep(shape, raw)

RunnerSpec == RunnerInit /\ [][RunnerNext]_runnerVars

-----------------------------------------------------------------------------
\* The equity is the money the trades moved, plus an open position at its
\* average fill and the share of the entry fees not yet charged: partial
\* exits, pyramid entries and forced exits charge every fee once, when the
\* commission is an amount per unit (backtest.py:537-620, 919-938).
AddsUp(r) ==
    r.equity = RunnerEquity + r.cash +
        (IF Rules!IsOpen(r) THEN r.open.side * r.open.fill * r.open.size
                                 + (r.open.fee * r.open.size) \div r.open.init
         ELSE 0)
BarBooks == AddsUp(runner)

\* Where stops are not clamped to the close, a bar that trades through the
\* stop a position had before it ends the position, whatever the trails, the
\* cut, the pyramid entry and the scale-out of that bar do to its stop.
StopBinds ==
    [][(Rules!IsOpen(runner) /\ ~options.clamp
            /\ runner.open.side * (Rules!Worst(options.oco, lastShape', runner.open.side)
                                       - runner.open.stop) <= 0)
        => (~Rules!IsOpen(runner') \/ runner'.trades > runner.trades)]_runnerVars

\* A position's stop only ever moves in its favour (tighten, and
\* _tighten_breakeven; tests/unit/engine/test_backtest.py:704-705).
TighteningKeepsStop ==
    [][(Rules!IsOpen(runner) /\ Rules!IsOpen(runner') /\ runner'.trades = runner.trades)
        => runner.open.side * (runner'.open.stop - runner.open.stop) >= 0]_runnerVars
=============================================================================
