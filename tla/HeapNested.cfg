CONSTANTS
    MAX_ORDER = 10
    HDR = 3
    PTR = 3
    PAGE = 12
    WORD = 256
    StackStart = 1
    StackEnd = 7
    HeapStart = 12
    HeapEnd = 48
    Requests = {1, 3, 8}
    Nested = TRUE
SPECIFICATION Spec
INVARIANT BlocksApart
CHECK_DEADLOCK FALSE
