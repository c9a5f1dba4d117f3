SPECIFICATION FairSpec
CONSTANTS
    Orders = {o1, o2, o3}
    Opens = {o1, o2, o3}
    Malformed = {o2}
    Unresolvable = {o3}
    Shares = 1
    Quantity <- EveryOrder
    Modes = {"dry_run", "live"}
    Replies = {"ok", "lost_before"}
    ReadCount = 1
    Keep = 0
    KeyOutlivesOrder = TRUE
    MaxDeliveries = 2
    MaxLog = 2
    MaxFaults = 1
INVARIANTS
    OnlyPoisonIsDeadLettered
PROPERTIES
    EveryEntrySettles
