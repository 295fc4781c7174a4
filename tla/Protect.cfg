CONSTANTS
    Procs = {p1, p2}
    MAX_ORDER = 3
    NPages = 8
    WORD = 64
    Garbage <- NoBlocks
    AllocOrders = {0, 1, 2, 3}
    ReserveBlocks <- NoBlocks
    FreeOrders = {0}
    StrayFrees <- PageBehind
    ProtectEnd = 3
    Places <- RightPlaces
SPECIFICATION ProtectSpec
INVARIANTS
    Partition
    ListsExact
    Coalesced
    ProtectedKept
    MutualExclusion
PROPERTIES
    ImplementsPageRegion
CHECK_DEADLOCK FALSE
