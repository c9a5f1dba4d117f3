CONSTANTS
    DayLength = 8
    PreOpenStart = 0
    SessionOpen = 1
    EntryStart = 1
    EntryCutoff = 5
    SquareOff = 6
    SessionClose = 7
    Holidays = {}
    Instruments = {1}
    Interval = 2
    FillGaps = TRUE
    VolumeMode = "cumulative"
    MaxDeliveries = 2
    TickOf <- ThreeTrades
    ReadCount = 2
    MaxTime = 10
    MaxLives = 2
    CoarseInterval = 4
    BarCount = 2
    Snapshots = {1}
    BarPrice <- Zigzag
    MaxUpdates = 1
    MaxFaults = 2
    Histories <- ManyHistories
    TestIntervals = {0, 4}
    TestDays <- TwoRanges
    MinBarsPerDay = 2
    MinTradingDays = 2
    MaxSynthetic = 40
    MaxGap = 25
    MaxRange = 20
SPECIFICATION Spec
INVARIANTS
    BarsAreRight
    NothingUnsaved
    BacktestSeesTheSame
    ReplaysAreInOrder
PROPERTIES
    QuietStillHasBars
CHECK_DEADLOCK FALSE
ACTION_CONSTRAINT WhenRead
