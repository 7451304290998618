----------------------------- MODULE ModelSignal -----------------------------
(***************************************************************************)
(* A model-backed signal (engine/async_signal.py) in async backtests       *)
(* (engine/backtest_async.py).  LlmSignal asks its resolver once for a     *)
(* bar time and keeps the answer; each ask has a budget, the backtest has  *)
(* its own, and either may be over before the resolver answers.  Backtests *)
(* share one signal, one after the other, or at once when Overlap.         *)
(***************************************************************************)
EXTENDS Integers, Sequences

CONSTANTS
    Backtests,       \* the runs that share the signal
    SignalBars,      \* bars of each; a bar's time is its index
    Decisions,       \* what the resolver may decide
    Skip,            \* None: no order
    OnErrors,        \* the settings of on_error: "skip", "throw"
    Overlap,         \* whether two backtests may run at the same time
    MaxAsks          \* bound: calls of the resolver in all

ASSUME ModelSignalAssumption ==
    /\ SignalBars \in Nat /\ MaxAsks \in Nat /\ Overlap \in BOOLEAN
    /\ OnErrors \subseteq {"skip", "throw"} /\ Skip \notin Decisions

VARIABLES
    onError,         \* the signal's on_error
    barIndex,        \* per backtest: its index
    waits,           \* per backtest: whether its signal awaits the resolver
    runState,        \* per backtest: "new", "running", "over", "raised"
    decided,         \* per backtest: [bar -> what the signal returned]
    cache,           \* LlmSignal._cache
    log,             \* LlmSignal.log: <<[time, result]>>
    asks             \* calls of the resolver

signalVars == <<onError, barIndex, waits, runState, decided, cache, log, asks>>

SignalInit ==
    /\ onError \in OnErrors
    /\ barIndex = [b \in Backtests |-> 1] /\ waits = [b \in Backtests |-> FALSE]
    /\ runState = [b \in Backtests |-> "new"] /\ decided = [b \in Backtests |-> <<>>]
    /\ cache = <<>> /\ log = <<>> /\ asks = 0

StartBacktest(b) ==
    /\ runState[b] = "new"
    /\ Overlap \/ \A c \in Backtests : runState[c] # "running"
    /\ runState' = [runState EXCEPT ![b] = "running"]
    /\ UNCHANGED <<onError, barIndex, waits, decided, cache, log, asks>>

AtBar(b) == runState[b] = "running" /\ ~waits[b] /\ barIndex[b] <= SignalBars

\* A bar on which the runner asks for no signal.
PassBar(b) ==
    /\ AtBar(b)
    /\ barIndex' = [barIndex EXCEPT ![b] = @ + 1]
    /\ UNCHANGED <<onError, waits, runState, decided, cache, log, asks>>

\* The mapping f with v at x.
Put(f, x, v) == [y \in DOMAIN f \union {x} |-> IF y = x THEN v ELSE f[y]]

\* The backtest has its decision and goes on to the next bar.
Decide(b, decision) ==
    /\ decided' = [decided EXCEPT ![b] = Put(@, barIndex[b], decision)]
    /\ barIndex' = [barIndex EXCEPT ![b] = @ + 1]

\* LlmSignal.signal: an answer that is kept is used again.
Cached(b) ==
    /\ AtBar(b) /\ barIndex[b] \in DOMAIN cache
    /\ Decide(b, cache[barIndex[b]])
    /\ UNCHANGED <<onError, waits, runState, cache, log, asks>>
AskResolver(b) ==
    /\ AtBar(b) /\ barIndex[b] \notin DOMAIN cache /\ asks < MaxAsks
    /\ waits' = [waits EXCEPT ![b] = TRUE] /\ asks' = asks + 1
    /\ UNCHANGED <<onError, barIndex, runState, decided, cache, log>>

\* The resolver answers within the budget of the signal.
Keep(time, decision) ==
    /\ cache' = Put(cache, time, decision)
    /\ log' = Append(log, [time |-> time, result |-> decision])
Resolved(b, decision) ==
    /\ waits[b]
    /\ waits' = [waits EXCEPT ![b] = FALSE]
    /\ Keep(barIndex[b], decision) /\ Decide(b, decision)
    /\ UNCHANGED <<onError, runState, asks>>

\* The resolver raises, reads a candle past the bar, or is over its budget.  The
\* bar is a skip from then on, also for a signal that throws.
NotResolved_Unkept(b) ==
    /\ waits[b]
    /\ waits' = [waits EXCEPT ![b] = FALSE]
    /\ log' = Append(log, [time |-> barIndex[b], result |-> Skip]) /\ UNCHANGED cache
    /\ IF onError = "throw"
       THEN runState' = [runState EXCEPT ![b] = "raised"] /\ UNCHANGED <<barIndex, decided>>
       ELSE Decide(b, Skip) /\ UNCHANGED runState
    /\ UNCHANGED <<onError, asks>>
NotResolved(b) ==
    /\ waits[b]
    /\ waits' = [waits EXCEPT ![b] = FALSE]
    /\ Keep(barIndex[b], Skip)
    /\ IF onError = "throw"
       THEN runState' = [runState EXCEPT ![b] = "raised"] /\ UNCHANGED <<barIndex, decided>>
       ELSE Decide(b, Skip) /\ UNCHANGED runState
    /\ UNCHANGED <<onError, asks>>

\* The budget of the backtest is over first: the signal is cancelled, which it
\* neither keeps nor logs, and the backtest raises.
OverBudget(b) ==
    /\ waits[b]
    /\ waits' = [waits EXCEPT ![b] = FALSE]
    /\ runState' = [runState EXCEPT ![b] = "raised"]
    /\ UNCHANGED <<onError, barIndex, decided, cache, log, asks>>

FinishBacktest(b) ==
    /\ runState[b] = "running" /\ barIndex[b] > SignalBars
    /\ runState' = [runState EXCEPT ![b] = "over"]
    /\ UNCHANGED <<onError, barIndex, waits, decided, cache, log, asks>>

SignalNext ==
    \E b \in Backtests :
        \/ StartBacktest(b) \/ PassBar(b) \/ Cached(b) \/ AskResolver(b)
        \/ \E decision \in Decisions \union {Skip} : Resolved(b, decision)
        \/ NotResolved(b) \/ OverBudget(b) \/ FinishBacktest(b)

SignalSpec == SignalInit /\ [][SignalNext]_signalVars

-----------------------------------------------------------------------------
\* Backtests that share a signal one after the other decide alike on every bar
\* they both ask about, whatever raised, was late or was cancelled on the way;
\* and the log has one entry for each bar decided, with the decision that is
\* used (async_signal.py:47-53,111-153; backtest_async.py:34-41).
OneDecision ==
    /\ \A b, c \in Backtests : \A i \in DOMAIN decided[b] \intersect DOMAIN decided[c] :
          decided[b][i] = decided[c][i]
    /\ \A m, n \in DOMAIN log : log[m].time = log[n].time => m = n
    /\ \A m \in DOMAIN log : log[m].time \in DOMAIN cache /\ cache[log[m].time] = log[m].result
=============================================================================
