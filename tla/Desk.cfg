SPECIFICATION MCSpec
CONSTANTS
    DayLength = 3
    AllowedTicks <- AllowedAllDay
    MaxDailyLossPct = 10
    MaxDailyLossDollars <- NoDollars
    MaxDrawdownPct = 30
    MaxPositions = 1
    MaxPositionPct = 50
    MaxDailyTrades = 2
    CooldownAfterLoss = 2
    MaxGrossPct = 100
    MaxNetPct = 100
    Deposit = 20
    Pnls <- MCPnls
    Worth = 8
    RiskTime = 6
    Lag = 1
    MaxRestarts = 1
    Overrides = TRUE
    Balance = 20
    EquityMoves <- MCMoves
    ClockEnd = 6
    MaxPlaced = 2
    MaxMoves = 3
    Systems = 2
    Share = 10
    Swings <- MCSwings
    LossPct = 10
    LastDay = 1
    MaxLaunches = 2
    MaxBars = 3
    StartCash = 1000
    Tickets <- MCTickets
    Prices <- MCPrices
    Bars <- MCBars
    Slip <- MCSlip
    PerUnit = 1
    PerOrder = 1
    MinCommission = 3
    MaxOrders = 3
    MaxModified = 1
    MaxBarsShown = 2
    Handlers = {h1, h2}
    BarsPerPoll = 2
    LastBarTime = 3
    MaxPolls = 3
    MaxUnsubscribed = 1
    Intervals = {2, 3}
    FirstInterval = 2
    Grace = 1
    TickPrices = {1, 2}
    TickTimes = {0, 1, 2, 4}
    MaxTicks = 4
    MaxForeign = 1
    Clients = {c1, c2}
    MaxBuffer = 2
    MaxEvents = 4
    Writers = {t1, t2}
    Folders = {"d"}
    Clean <- MCClean
    MaxWrites = 3
    MaxCrashes = 1
    Fetchers = {"f", "g"}
    Begin = 4
    Span <- MCSpan
    MaxSpan = 2
    MinDelay <- MCDelay
    MaxRetries = 2
    Backoff = 1
    FetchEnd = 8
    Names = {n1, n2}
    MaxSessions = 3
    RunnerOptions <- MCOptions
    BarShapes <- MCShapes
    RawSignals <- MCSignals
    RunnerEquity = 96000
    BarsPerDay = 4
    UtcOffset = 1
    LastIndex = 5
    PortOptions <- MCPortOptions
    PortWeights <- MCWeights
    PortMaxAlloc = 0
    PortShapes <- MCPortShapes
    PortSignals <- MCPortSignals
    PortEquity = 72000
    PortLossPct = 3
    PortShuffled = TRUE
    PortBarsPerDay = 2
    PortTimes = 2
    TickOptions <- MCTickOptions
    QueueFills = {TRUE, FALSE}
    TickRows <- MCTickRows
    TickSignals <- MCTickSignals
    TickEquity = 72000
    TicksPerDay = 4
    TickCount = 6
    WindowCalls <- MCWindowCalls
    Candles = 10
    ParameterSets <- MCParameterSets
    Scores = {1}
    Gains <- MCGains
    MaxLegs = 2
    Warmup = 1
    WfEquity = 10
    Specs <- MCSpecs
    Outcomes = {1, 2, noMetric, failure}
    NoMetric = noMetric
    Failure = failure
    Concurrency = 2
    Backtests = {b1, b2}
    SignalBars = 3
    Decisions = {buy, sell}
    Skip = skip
    OnErrors = {"skip", "throw"}
    Overlap = FALSE
    MaxAsks = 4
    Requesters = {c}
    LooksUp = TRUE
    VenueTickets <- MCVenueTickets
    Quantities = {1, 2}
    LimitPrices = {1, 2}
    VenueOrders = 2
    MaxRequests = 4
    Orders = {1, 2, 3, 4, 5, 6, 7, 8}
    NoOrder = 0
    Synchronous = TRUE
    Callers = {u}
    Tasks = {t1, t2}
    MaxEntries = 2
    MaxCloses = 2
    MaxStarts = 2
    Dirs <- EitherWay
    Plans <- AnyPlan
    Faults = {"user"}
    Delayed = FALSE
    Pyramids = FALSE
    Rollover = TRUE
INVARIANTS
    Tripped
    LossHalts
    AllOrNothing
    PortfolioHaltHolds
    BooksBalance
    NothingSkipped
    BarsTrue
    StreamsWhole
    FilesWhole
    SlotsSpaced
    SpanCovered
    NoOrphan
    BarBooks
    HaltFlattens
    TicksAddUp
    ReportTrue
    RankedAlike
    OneDecision
    AsAsked
PROPERTIES
    OrdersStayDone
    StopBinds
    CapitalShared
    ExitsReduce
    FlattenLeavesNothing
CHECK_DEADLOCK FALSE
