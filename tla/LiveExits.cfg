CONSTANTS
    Instruments = {1}
    RiskPerTrade = 1
    MaxOpenRisk = 2
    MaxDrawdown = 3
    MaxExposure = 1000
    MaxGross = 1000
    MinStopDistance = 1
    MaxPositions = 2
    MaxLoss = 0
    MaxOrders = 1
    AllowShort = FALSE
    DayLength = 5
    PreOpenStart = 0
    SessionOpen = 1
    EntryStart = 1
    EntryCutoff = 3
    SquareOff = 3
    SessionClose = 4
    Holidays = {}
    MaxDeliveries = 2
    MinEquity = 1000
    MaxJumpPercent = 100
    MaxSignalAge = 1
    SignalCount = 2
    Levels <- FourAndTwo
    Equities = {2000}
    Results = {1}
    MaxTime = 4
    MaxSignals = 2
    MaxUpdates = 0
    MaxFaults = 0
    Volumes = {1}
    MaxOrdersIn = 2
    MaxBarsIn = 2
    Sizes = {2}
    Ends = {2, 3}
    Parts = {"whole"}
SPECIFICATION Spec
INVARIANT NoGateBlocksExits
CHECK_DEADLOCK FALSE
