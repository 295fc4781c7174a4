CONSTANTS
    Procs = {p1, p2}
    MAX_ORDER = 4
    NPages = 10
    WORD = 64
    Garbage <- UnsetBits
    AllocOrders = {0, 2, 4}
    ReserveBlocks <- NoBlocks
    FreeOrders = {}
    StrayFrees <- NoBlocks
SPECIFICATION FairAllocSpec
INVARIANTS
    GrantsDisjoint
    NotFullHasPage
PROPERTIES
    LockReleased
    AllocImplementsPageRegion
