SPECIFICATION Spec
CONSTANTS
    Instruments = {1, 2}
    RiskPerTrade = 4
    MaxOpenRisk = 4
    MaxDrawdown = 12
    MaxExposure = 1000
    MaxGross = 2000
    MinStopDistance = 1
    MaxPositions = 1
    MaxLoss = 0
    MaxOrders = 0
    AllowShort = FALSE
    StartingEquity = 1000
    Compound = TRUE
    DayOf <- OneDay
    PhaseOf <- EntryPhase
    Bars <- QuietBars
    Stops = {18}
    Targets = {0}
    Slip = 0
    BuyFee = 0
    SellFee = 0
    FirstClose = 20
    MaxTime = 1
INVARIANT
    OpenRiskIsCapped
CHECK_DEADLOCK FALSE
