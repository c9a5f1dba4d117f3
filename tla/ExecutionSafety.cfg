SPECIFICATION Spec
CONSTANTS
    Orders = {o1, o2}
    Opens = {o1, o2}
    Malformed = {}
    Unresolvable = {}
    Shares = 1
    Quantity <- EveryOrder
    Modes = {"live"}
    Replies = {"ok", "lost_before", "lost_after"}
    ReadCount = 2
    Keep = 1
    KeyOutlivesOrder = TRUE
    MaxDeliveries = 2
    MaxLog = 3
    MaxFaults = 2
SYMMETRY Symmetry
ACTION_CONSTRAINT AdmissionOnly
INVARIANTS
    TypeOK
    AtMostOncePlacement
    EachFaultLosesAtMostOneOrder
    HaltLetsAtMostOneOpenThrough
