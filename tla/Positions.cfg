CONSTANTS
    i1 = i1
    buy = buy
    sell = sell
    Instruments = {i1}
    Orders = {buy, sell}
    OrderOf <- LossThenReversal
    MaxDeliveries = 2
    Piecemeal = {}
    Paper = FALSE
    HaltThreshold = 1
    ReadCount = 2
    MaxDay = 1
    MaxUpdates = 1
    MaxFaults = 2
    Cap = 4000
    Rounding = 30
SPECIFICATION FairSpec
INVARIANTS
    SharesAddUp
    CashAddsUp
PROPERTIES
    BookConverges
    LossReachesBreaker
CHECK_DEADLOCK FALSE
ACTION_CONSTRAINT WhenRead
