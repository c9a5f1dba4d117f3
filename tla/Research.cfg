CONSTANTS
    EmaFast = 2
    EmaSlow = 3
    AdxPeriod = 2
    AtrPeriod = 2
    RsiPeriod = 2
    RvolSamples = 1
    AdxMin = 20
    RvolMin = 80
    RsiMax = 95
    AtrMult = 10
    PullbackAtr = 1
    TrailAtrMult = 5
    TrailAfterR = 10
    TimeStopMinR = 5
    MinStop = 7
    AtrCeiling = 200
    TimeStopBars = 2
    TpBars <- SomeBars
    TpPositions <- SomePositions
    MaxBars = 5
    MaxSessions = 2
    ShortPeriod = 2
    LongPeriod = 3
    SmaCloses = {1, 2, 4}
    MaxSmaBars = 6
    DayLength = 3
    PreOpenStart = 0
    SessionOpen = 0
    EntryStart = 0
    EntryCutoff = 1
    SquareOff = 2
    SessionClose = 2
    Holidays = {2}
    Feeds = {f1, f2, f3}
    f1 = f1
    f2 = f2
    f3 = f3
    StaleAfter = 1
    MaxMonitorTime = 5
    ResearchSpans <- AFewDays
    HoldoutPercent = 20
    MinSplitDays = 6
    TrainDays = 2
    TestDays = 2
    Combinations = 2
    MinTrades = 2
    RunOutcomes <- Outcome
    Runs <- SomeRuns
    OneMonth = FALSE
    MinOosTrades = 3
    RecordedDays = {0, 1}
    RoundTrips <- SomeTrips
    MatchWindow = 2
    SessionLength = 6
    MaxRoundTrips = 2
    MinMatchPercent = 80
    MaxEntryBps = 15
    MaxRGap = 5
    PaperRequired = 2
    MaxSaves = 3
    Parts = {"trend", "sma", "monitor", "gates", "records"}
SPECIFICATION Spec
INVARIANTS
    StrategiesReadRight
    PassesRestOnEvidence
    DivergenceIsAttributed
PROPERTIES
    EntriesAreFreshAndWarm
    OutagesAreCalledOutages
CHECK_DEADLOCK FALSE
