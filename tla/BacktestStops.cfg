SPECIFICATION RunnerSpec
CONSTANTS
    RunnerOptions <- MCClamped
    BarShapes <- MCShapes
    RawSignals <- MCSignals
    RunnerEquity = 96000
    BarsPerDay = 4
    UtcOffset = 1
    LastIndex = 5
PROPERTY TighteningKeepsStop
CHECK_DEADLOCK FALSE
