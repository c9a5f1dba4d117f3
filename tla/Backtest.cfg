SPECIFICATION Spec
CONSTANTS
    Instruments = {1, 2}
    RiskPerTrade = 4
    MaxOpenRisk = 8
    MaxDrawdown = 12
    MaxExposure = 40
    MaxGross = 60
    MinStopDistance = 1
    MaxPositions = 2
    MaxLoss = 0
    MaxOrders = 0
    AllowShort = TRUE
    StartingEquity = 1000
    Compound = TRUE
    DayOf <- FourBarDay
    PhaseOf <- FourBarPhase
    Bars <- FewBars
    Stops = {18, 22}
    Targets = {30}
    Slip = 1
    BuyFee = 1
    SellFee = 2
    FirstClose = 20
    MaxTime = 5
INVARIANTS
    BooksAgree
    MoneyAgrees
    NoLookAhead
    FlatAfterSquareOff
PROPERTIES
    StopsAreHonoured
    HaltHolds
CHECK_DEADLOCK FALSE
