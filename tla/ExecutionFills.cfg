SPECIFICATION FairSpec
CONSTANTS
    Orders = {o1}
    Opens = {o1}
    Malformed = {}
    Unresolvable = {}
    Shares = 3
    Quantity <- EveryOrder
    Modes = {"dry_run", "live"}
    Replies = {"ok", "ok_no_id", "rejected", "lost_before", "lost_after", "error_before"}
    ReadCount = 1
    Keep = 0
    KeyOutlivesOrder = TRUE
    MaxDeliveries = 2
    MaxLog = 2
    MaxFaults = 2
INVARIANTS
    EventsAreTruthful
    TerminalEventIsLast
PROPERTIES
    FillsAreHeard
    KeepsPromise
