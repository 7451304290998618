------------------------------- MODULE MCDesk -------------------------------
(***************************************************************************)
(* The components around the live engine, and the backtest engines, each  *)
(* on its own: a behaviour belongs to one part, and the variables of the   *)
(* others stay as they are.                                                *)
(***************************************************************************)
EXTENDS RiskManager, SessionRisk, LiveOrchestrator, PaperBook,
        PollingFeed, CandleAggregator, EventStream, JsonStorage, YahooFetch, SessionManager,
        MCBarRunner, PortfolioRun, TickReplay, WalkForward, Optimizer, ModelSignal, BinanceOrders,
        TradingSession

VARIABLE part

deskVars == <<part, riskVars, gateVars, orcVars, bookVars, feedVars, candleVars, streamVars,
              storageVars, fetchVars, managerVars, runnerVars, portVars, tickVars, wfVars, optVars, signalVars,
              binanceVars, vars>>

AllowedAllDay == 0 .. (DayLength - 1)
MCPnls == {-3, -1, 2}
MCMoves == {-4, 2}
MCSwings == {-3, 0}
NoDollars == None

MCPrices == {120, 180}
MCBars == {[low |-> 120, high |-> 180, close |-> 120],
           [low |-> 180, high |-> 240, close |-> 180]}
MCSlip == [market |-> 60, limit |-> 0, stop |-> 60]
Ticket(type, dir, qty, limit, stop) ==
    [type |-> type, side |-> dir, qty |-> qty, limit |-> limit, stop |-> stop]
MCTickets == {Ticket("market", 1, 2, 0, 0), Ticket("market", -1, 1, 120, 0),
              Ticket("limit", -1, 2, 180, 0), Ticket("stop", -1, 1, 0, 120),
              Ticket("stop_limit", 1, 2, 120, 180)}

MCClean == [a |-> "d", b |-> "d"]
MCSpan == [f |-> 3, g |-> 1]
MCDelay == [f |-> 1, g |-> 2]

MCPortOptions ==
    [Defaults EXCEPT !.slip = 0, !.perUnit = 0, !.pyramiding = TRUE, !.addAfterBreakeven = FALSE,
                     !.leverage = 2, !.maxDailyLoss = 50, !.scaleOutAt = 0]
MCPortShapes == {Shape(100, 100, 100, 0), Shape(100, 103, 102, 0), Shape(96, 100, 97, 0)}
MCPortSignals == {Raw(1, 100, 98, 104, 5), [Raw(-1, 102, 104, 97, 5) EXCEPT !.be = 0]}
MCWeights == <<1, 2>>

MCTickOptions ==
    [Defaults EXCEPT !.perOrder = 5, !.carry = 1, !.minCommission = 7, !.maxDailyLoss = 3,
                     !.dailyMaxTrades = 2]
Row(bid, ask, last, low, high) ==
    [bid |-> Points(bid), ask |-> Points(ask), last |-> Points(last),
     low |-> Points(low), high |-> Points(high)]
MCTickRows == {Row(99, 101, 0, 0, 0), Row(0, 0, 102, 0, 0), Row(96, 98, 97, 0, 0),
               Row(0, 101, 0, 96, 105)}
MCTickSignals == {Raw(1, 0, 98, 103, 2), Raw(1, 98, 96, 0, 0), Raw(-1, 102, 104, 98, 3)}

Windowing(anchored, train, test, every) ==
    [anchored |-> anchored, train |-> train, test |-> test, step |-> every]
MCCall == Windowing(FALSE, 3, 3, 3)
MCWindowCalls ==
    {MCCall, Windowing(TRUE, 2, 3, 2), Windowing(FALSE, 4, 4, 2), Windowing(FALSE, 2, 3, 4),
     Windowing(TRUE, 8, 3, 1)}
MCParameterSets == <<"fast", "slow">>
MCGains == {-2, 3}

MCSpecs == {<<<<>>>>, << <<"a", "b">>, <<1, 2>> >>}

EitherWay == {-1, 1}
AnyPlan == SUBSET {"stop", "target"}

MCVenueTickets == {[type |-> "limit", qty |-> 1, price |-> 1], [type |-> "stop", qty |-> 2, price |-> 1]}

\* The variables of the parts other than p.
Others(p) ==
    /\ IF p = "risk" THEN TRUE ELSE UNCHANGED riskVars
    /\ IF p = "gate" THEN TRUE ELSE UNCHANGED gateVars
    /\ IF p = "orchestrator" THEN TRUE ELSE UNCHANGED orcVars
    /\ IF p = "book" THEN TRUE ELSE UNCHANGED bookVars
    /\ IF p = "feed" THEN TRUE ELSE UNCHANGED feedVars
    /\ IF p = "candles" THEN TRUE ELSE UNCHANGED candleVars
    /\ IF p = "streams" THEN TRUE ELSE UNCHANGED streamVars
    /\ IF p = "storage" THEN TRUE ELSE UNCHANGED storageVars
    /\ IF p = "fetch" THEN TRUE ELSE UNCHANGED fetchVars
    /\ IF p = "manager" THEN TRUE ELSE UNCHANGED managerVars
    /\ IF p = "runner" THEN TRUE ELSE UNCHANGED runnerVars
    /\ IF p = "portfolio" THEN TRUE ELSE UNCHANGED portVars
    /\ IF p = "ticks" THEN TRUE ELSE UNCHANGED tickVars
    /\ IF p = "forward" THEN TRUE ELSE UNCHANGED wfVars
    /\ IF p = "optimize" THEN TRUE ELSE UNCHANGED optVars
    /\ IF p = "signal" THEN TRUE ELSE UNCHANGED signalVars
    /\ IF p = "venue" THEN TRUE ELSE UNCHANGED binanceVars
    /\ IF p = "session" THEN TRUE ELSE UNCHANGED vars

MCInit ==
    /\ part \in {"risk", "gate", "orchestrator", "book", "feed", "candles", "streams",
                 "storage", "fetch", "manager", "runner", "portfolio", "ticks",
                 "forward", "optimize", "signal", "venue", "session"}
    /\ RiskInit /\ GateInit /\ OrcInit /\ BookInit /\ FeedInit /\ CandleInit
    /\ StreamInit /\ StorageInit /\ FetchInit /\ ManagerInit
    /\ RunnerInit /\ PortInit /\ TickInit
    /\ WfInit /\ OptInit /\ SignalInit /\ BinanceInit /\ Init
    /\ part # "runner" => options = Defaults
    /\ part # "forward" => wfCall = MCCall
    /\ part # "signal" => onError = "skip"
    /\ part # "venue" => venueKind = "spot"
    /\ part # "optimize" => optMode = "pool" /\ optSets = <<>>

MCNext ==
    /\ part' = part
    /\ \/ part = "risk" /\ RiskNext
       \/ part = "gate" /\ GateNext
       \/ part = "orchestrator" /\ OrcNext
       \/ part = "book" /\ BookNext
       \/ part = "feed" /\ FeedNext
       \/ part = "candles" /\ CandleNext
       \/ part = "streams" /\ StreamNext
       \/ part = "storage" /\ StorageNext
       \/ part = "fetch" /\ FetchNext
       \/ part = "manager" /\ ManagerNext
       \/ part = "runner" /\ RunnerNext
       \/ part = "portfolio" /\ PortNext
       \/ part = "ticks" /\ TickNext
       \/ part = "forward" /\ WfNext
       \/ part = "optimize" /\ OptNext
       \/ part = "signal" /\ SignalNext
       \/ part = "venue" /\ BinanceNext
       \/ part = "session" /\ Next
    /\ Others(part)

MCSpec == MCInit /\ [][MCNext]_deskVars
=============================================================================
