\* A screen of 3 rows of 5; strings grow by 4, the array by 2.
CONSTANTS
    STRING_ALLOC_LENGTH = 4
    UINT = 400
    Uninitialized <- MCUninitialized
    width = 5
    height = 3
    TAB_SIZE = 3
    MAPPED = 18
    WORD16 = 64
    BYTE = 8
    LOGLEVEL = 5
    ARRAY_ALLOC_LENGTH = 2
    Stamp <- MCStamp
    Messages <- MCMessages
    TickMessage <- Tick1
    MaxCalls = 2
    MaxTicks = 2
    TickInPush = FALSE
SPECIFICATION FairSpec
INVARIANTS
    StoresNearScreen
    CursorShown
    ScreenShowsTail
    MessageRight
    LogKept
PROPERTIES
    PrintkReturns
CHECK_DEADLOCK FALSE
