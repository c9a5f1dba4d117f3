CONSTANTS
    Instruments = {1}
    RiskPerTrade = 1
    MaxOpenRisk = 2
    MaxDrawdown = 3
    MaxExposure = 1000
    MaxGross = 1000
    MinStopDistance = 1
    MaxPositions = 2
    MaxLoss = 0
    MaxOrders = 1
    AllowShort = FALSE
    DayLength = 5
    PreOpenStart = 0
    SessionOpen = 1
    EntryStart = 1
    EntryCutoff = 3
    SquareOff = 3
    SessionClose = 4
    Holidays = {}
    MaxDeliveries = 2
    MinEquity = 1000
    MaxJumpPercent = 100
    MaxSignalAge = 1
    SignalCount = 2
    Levels <- FourAndTwo
    Equities = {2000, 4000}
    Results <- Loss
    MaxTime = 7
    MaxSignals = 2
    MaxUpdates = 1
    MaxFaults = 1
    Volumes = {0, 1}
    MaxOrdersIn = 2
    MaxBarsIn = 3
    Sizes = {2}
    Ends = {2, 3, 4}
    Parts = {"risk", "paper"}
SPECIFICATION Spec
INVARIANTS
    OneOrderPerSignal
    PaperBooksAgree
    SquareOffIsFinal
CHECK_DEADLOCK FALSE
ACTION_CONSTRAINT WhenAsked
