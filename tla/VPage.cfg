CONSTANTS
    MAX_ORDER = 3
    T = 3
    Levels = 3
    BootPages = 3
    Start = 1
    Frames = 14
    MapOrders = {0, 1}
    FixedPages = {4, 8}
SPECIFICATION Spec
INVARIANTS
    MappingsExact
    TablesApart
CHECK_DEADLOCK FALSE
