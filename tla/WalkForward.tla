----------------------------- MODULE WalkForward -----------------------------
(***************************************************************************)
(* walk_forward_optimize (engine/walk_forward.py): each window tries every *)
(* parameter set on its training bars, trades the best one on the bars     *)
(* that follow, and hands the equity it ended with to the next window.     *)
(* The backtests are the bar runner's (BarRules); here one answers a score *)
(* or the legs its positions were closed in, or raises.  A parameter set   *)
(* is its canonical signature, a bar its index.  Equity curves are         *)
(* collected, as they are by default.                                      *)
(***************************************************************************)
EXTENDS Integers, Sequences, FiniteSets

CONSTANTS
    WindowCalls,     \* [anchored, train, test, step]: the windowing options
    Candles,         \* how many candles there are
    ParameterSets,   \* <<signature of each parameter set>>
    Scores,          \* the training scores
    Gains,           \* what a leg may gain
    MaxLegs,         \* bound: the legs of a backtest
    Warmup,          \* warmup_bars of the backtests
    WfEquity         \* backtest_options.equity

ASSUME WalkForwardAssumption ==
    /\ \A c \in WindowCalls : {c.train, c.test, c.step} \subseteq Nat \ {0}
    /\ Candles \in Nat /\ Warmup \in Nat \ {0} /\ WfEquity \in Int
    /\ MaxLegs \in Nat /\ ParameterSets # <<>> /\ Scores \subseteq Nat /\ Gains \subseteq Int

VARIABLES
    wfCall,          \* the options of the call
    wfPhase,         \* "train", "test", "summary", "done", "raised"
    wfScores,        \* the scores of the parameter sets tried in this window
    windows,         \* <<[best, trades, ...]>>
    rollingEquity,
    allTrades,       \* <<legs>>
    eqSeries,        \* <<[time, equity]>>
    summary          \* what the call returns about its winners

wfVars == <<wfCall, wfPhase, wfScores, windows, rollingEquity, allTrades, eqSeries, summary>>

\* The score of metrics without a finite number: below every other.
NoScore == -1
NoSummary == {}

WindowCount(c) ==
    IF Candles < c.train + c.test THEN 0 ELSE ((Candles - c.train - c.test) \div c.step) + 1

\* Half-open ranges of bars, as slices have them.
WindowRanges(c) ==
    [k \in 1 .. WindowCount(c) |->
        LET start == (k - 1) * c.step
        IN  [trainStart |-> IF c.anchored THEN 0 ELSE start, trainEnd |-> start + c.train,
             testStart |-> start + c.train, testEnd |-> start + c.train + c.test]]

\* The first parameter set that no other beats.
Best(scores) ==
    CHOOSE p \in DOMAIN scores :
        /\ \A q \in DOMAIN scores : scores[q] <= scores[p]
        /\ \A q \in 1 .. (p - 1) : scores[q] < scores[p]

\* The sum of the first n numbers of f.
SumOf(f, n) ==
    LET upTo[k \in 0 .. n] == IF k = 0 THEN 0 ELSE upTo[k - 1] + f[k]
    IN  upTo[n]

\* The sum of a field of the members of s.
Total(s, field) == SumOf([k \in DOMAIN s |-> s[k][field]], Len(s))

\* A leg of a position: the bar it is closed on, what it gains, and whether it is
\* the last one, as a number, or one for the exit reason SCALE.
ExitLegs == [bar : 0 .. (Candles - 1), gain : Gains, closes : {0, 1}]
LegLists == UNION {[1 .. n -> ExitLegs] : n \in 0 .. MaxLegs}

\* The legs a backtest of these bars may have, in their order.  A position closes
\* a bar after its entry at the earliest, the next one enters on that bar at the
\* earliest, and a position is scaled out of at most twice (vol_scale and
\* scale_out), on the bar it closes on or before.
Tradable(range, legs) ==
    \A k \in DOMAIN legs :
        /\ legs[k].bar \in (range.testStart + Warmup + 1) .. (range.testEnd - 1)
        /\ k > 1 => legs[k - 1].bar + legs[k - 1].closes <= legs[k].bar
        /\ k > 2 => legs[k - 2].closes + legs[k - 1].closes + legs[k].closes > 0

\* The equity curve of a backtest of the test slice: its first bar, then each bar
\* past the warmup, after a point for every leg closed on it.
Curve(range, equity, legs) ==
    LET test == range.testEnd - range.testStart
        past == IF Warmup < test THEN test - Warmup ELSE 0
        Bar(i)    == range.testEnd - past + i - 1
        Closed(t) == Cardinality({k \in DOMAIN legs : legs[k].bar <= t})
        Point(t, n) == [time |-> t,
                        equity |-> equity + SumOf([k \in DOMAIN legs |-> legs[k].gain], n)]
        On(t)     == [m \in 1 .. (Closed(t) - Closed(t - 1)) |-> Point(t, Closed(t - 1) + m)]
        upTo[i \in 0 .. past] ==
            IF i = 0 THEN << [time |-> range.testStart, equity |-> equity] >>
            ELSE Append(upTo[i - 1] \o On(Bar(i)), Point(Bar(i), Closed(Bar(i))))
    IN  upTo[past]

\* _stitch_equity: only what is later than the last point.
Stitch_All(target, source) == target \o source
Stitch(target, source) ==
    LET Later(p) == target = <<>> \/ p.time > target[Len(target)].time
        upTo[i \in 0 .. Len(source)] ==
            IF i = 0 THEN target
            ELSE IF Later(source[i]) THEN Append(upTo[i - 1], source[i]) ELSE upTo[i - 1]
    IN  upTo[Len(source)]

\* stabilityScore of a window: how many of its neighbours have its winner, out
\* of how many; a window alone counts as stable.
Neighbours(w, k) == {k - 1, k + 1} \intersect DOMAIN w
Stability(w, k) ==
    LET alike == {n \in Neighbours(w, k) : w[n].best = w[k].best}
    IN  IF Neighbours(w, k) = {} THEN <<1, 1>>
        ELSE <<Cardinality(alike), Cardinality(Neighbours(w, k))>>

\* _summarize_best_params.  The leaderboard is by wins, then by profitable
\* windows, and the winner seen first goes first in a tie.
Winners(w) == {w[k].best : k \in DOMAIN w}
Wins(w, p) == {k \in DOMAIN w : w[k].best = p}
Entry(w, p) ==
    [params |-> p, wins |-> Cardinality(Wins(w, p)),
     profitable |-> Cardinality({k \in Wins(w, p) : w[k].profitable}),
     trades |-> SumOf([k \in DOMAIN w |-> IF w[k].best = p THEN w[k].trades ELSE 0], Len(w))]
Ahead(w, p, q) ==
    LET a == Entry(w, p)
        b == Entry(w, q)
    IN  \/ a.wins > b.wins
        \/ a.wins = b.wins /\ a.profitable > b.profitable
        \/ /\ a.wins = b.wins /\ a.profitable = b.profitable
           /\ \E k \in Wins(w, p) : \A l \in Wins(w, q) : k < l
Seat(w, p) == 1 + Cardinality({q \in Winners(w) : Ahead(w, q, p)})
Summary(w) ==
    [repeats |-> Cardinality({k \in 2 .. Len(w) : w[k].best = w[k - 1].best}),
     stability |-> [k \in DOMAIN w |-> Stability(w, k)],
     leaderboard |-> [n \in 1 .. Cardinality(Winners(w)) |->
                         Entry(w, CHOOSE p \in Winners(w) : Seat(w, p) = n)]]

WfInit ==
    /\ wfCall \in WindowCalls
    /\ wfPhase = (IF WindowCount(wfCall) = 0 THEN "raised" ELSE "train")
    /\ wfScores = <<>> /\ windows = <<>> /\ rollingEquity = WfEquity
    /\ allTrades = <<>> /\ eqSeries = <<>> /\ summary = NoSummary

\* One backtest of the training loop.
Train(score) ==
    /\ wfPhase = "train"
    /\ wfScores' = Append(wfScores, score)
    /\ wfPhase' = (IF Len(wfScores') = Len(ParameterSets) THEN "test" ELSE "train")
    /\ UNCHANGED <<wfCall, windows, rollingEquity, allTrades, eqSeries, summary>>

\* A signal or its factory that raises ends the call.
BacktestRaises ==
    /\ wfPhase \in {"train", "test"}
    /\ wfPhase' = "raised"
    /\ UNCHANGED <<wfCall, wfScores, windows, rollingEquity, allTrades, eqSeries, summary>>

\* The backtest of the test slice: all its legs are traded, the last ones of its
\* positions count as trades.  A position still open at the end of the slice is
\* not carried on.
Test(legs) ==
    LET range == WindowRanges(wfCall)[Len(windows) + 1]
    IN  /\ wfPhase = "test" /\ Tradable(range, legs)
        /\ rollingEquity' = rollingEquity + Total(legs, "gain")
        /\ allTrades' = allTrades \o legs
        /\ eqSeries' = Stitch(eqSeries, Curve(range, rollingEquity, legs))
        /\ windows' = Append(windows, [best |-> ParameterSets[Best(wfScores)],
                                       trades |-> Total(legs, "closes"),
                                       profitable |-> Total(legs, "gain") > 0])
        /\ wfScores' = <<>>
        /\ wfPhase' = (IF Len(windows') = WindowCount(wfCall) THEN "summary" ELSE "train")
        /\ UNCHANGED <<wfCall, summary>>

Report ==
    /\ wfPhase = "summary"
    /\ wfPhase' = "done" /\ summary' = Summary(windows)
    /\ UNCHANGED <<wfCall, wfScores, windows, rollingEquity, allTrades, eqSeries>>

WfNext ==
    \/ Report
    \/ \E score \in Scores \union {NoScore} : Train(score)
    \/ BacktestRaises
    \/ \E legs \in LegLists : Test(legs)

WfSpec == WfInit /\ [][WfNext]_wfVars

-----------------------------------------------------------------------------
\* The out-of-sample curve never goes back in time and ends with the equity the
\* call reports, which is the first one plus what all legs gained, whether the
\* test windows touch, overlap or leave gaps; and what is said of the winners
\* agrees: they share all windows and all positions that were closed, and there
\* is one of them when every window is stable, which is when each has the winner
\* of the one before (walk_forward.py:105-159,281-347).
ReportTrue ==
    wfPhase = "done" =>
        /\ \A i \in 2 .. Len(eqSeries) : eqSeries[i - 1].time <= eqSeries[i].time
        /\ eqSeries[Len(eqSeries)].equity = rollingEquity
        /\ rollingEquity = WfEquity + Total(allTrades, "gain")
        /\ Total(summary.leaderboard, "wins") = Len(windows)
        /\ Total(summary.leaderboard, "trades") = Total(allTrades, "closes")
        /\ \A e, f \in DOMAIN summary.leaderboard :
              e < f => summary.leaderboard[e].wins >= summary.leaderboard[f].wins
        /\ (Len(summary.leaderboard) = 1)
              <=> \A k \in DOMAIN windows : summary.stability[k][1] = summary.stability[k][2]
        /\ (Len(summary.leaderboard) = 1) <=> (summary.repeats = Len(windows) - 1)
=============================================================================
