CONSTANTS
    MAX_ORDER = 2
    Procs = {p1, p2}
    Sizes <- FourRegions
    Unusable = {3}
    AllocOrders = {0, 1, 2}
    FreeOrders = {0, 1}
SPECIFICATION FairSpec
INVARIANTS
    NoRegionSkipped
    OnlyUsable
PROPERTIES
    CallsReturn
CHECK_DEADLOCK FALSE
