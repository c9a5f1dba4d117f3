CONSTANTS
    Modules = {ingestion, engine, risk}
    Ingestion = ingestion
    Engine = engine
    LockTTL = 2
    WaitSeconds = 1
    CallTime = 1
    TotpWindow = 2
    Base = 1
    Cap = 2
    MaxAttempts = 2
    MaxFaults = 1
    Instruments = {i1}
    StaleSeconds = 1
    ingestion = ingestion
    engine = engine
    risk = risk
    i1 = i1
SPECIFICATION FeedSpec
INVARIANTS
    OneLoginAtATime
    LiveMeansRecent
PROPERTY
    ConnectsOrHalts
CHECK_DEADLOCK FALSE
