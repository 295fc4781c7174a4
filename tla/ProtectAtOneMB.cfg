CONSTANTS
    Procs = {p1}
    MAX_ORDER = 3
    NPages = 14
    WORD = 64
    Garbage <- NoBlocks
    AllocOrders = {0, 1, 2}
    ReserveBlocks <- NoBlocks
    FreeOrders = {}
    StrayFrees <- NoBlocks
    ProtectEnd = 4
    Places <- BetweenPlaces
SPECIFICATION ProtectSpec
INVARIANTS
    ProtectedKept
