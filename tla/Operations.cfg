CONSTANTS
    MaxDeliveries = 2
    ReadCount = 2
    QueueMaxlen = 2
    BatchSize = 1
    MaxEntries = 5
    MaxDeaths = 1
    Conditions = {loss, stale}
    Cooldown = 2
    MaxRaised = 3
    Ladder <- Rungs
    FloorDen = 2
    MinJudged = 2
    MaxLosing = 2
    MaxAgeDays = 1
    MinEquity = 1
    Tolerance = 2
    LossCapSet = TRUE
    Outcomes <- Sessions
    Capitals = {0, 2}
    Equities = {1, 4, 5}
    MaxDay = 5
    MaxSessions = 4
    MaxSlips = 1
    Parts = {"archive", "alerter", "guard", "ladder"}
    loss = loss
    stale = stale
SPECIFICATION Spec
INVARIANTS
    CountsAddUp
    RepeatsAreCounted
    LiveSizeIsEarned
PROPERTY
    KeepsConsuming
CHECK_DEADLOCK FALSE
