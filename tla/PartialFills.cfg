CONSTANTS
    i1 = i1
    buy = buy
    sell = sell
    Instruments = {i1}
    Orders = {buy, sell}
    OrderOf <- LossThenReversal
    MaxDeliveries = 2
    Piecemeal = {buy}
    Paper = FALSE
    HaltThreshold = 1
    ReadCount = 2
    MaxDay = 0
    MaxUpdates = 1
    MaxFaults = 0
    Cap = 4000
    Rounding = 30
SPECIFICATION Spec
PROPERTY EachFillIsAnIncrement
CHECK_DEADLOCK FALSE
