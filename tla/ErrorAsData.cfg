SPECIFICATION Spec
CONSTANTS
    Orders = {o1}
    Opens = {o1}
    Malformed = {}
    Unresolvable = {}
    Shares = 1
    Quantity <- EveryOrder
    Modes = {"live"}
    Replies = {"ok", "ok_no_id", "rejected", "lost_before", "lost_after", "error_before", "error_after"}
    ReadCount = 1
    Keep = 0
    KeyOutlivesOrder = TRUE
    MaxDeliveries = 2
    MaxLog = 2
    MaxFaults = 2
INVARIANTS
    EndingsAreTruthful
