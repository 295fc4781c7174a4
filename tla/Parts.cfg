CONSTANTS
    Shown <- AllParts
    NULL = NULL
    ARRAY_ALLOC_LENGTH = 2
    Values = {v1, v2}
    Junk = Junk
    MaxEntries = 6
    Ids = {0, 2, 3}
    Functions = {sc_fnc, f1, f2}
    SYSCALL_SYC = 2
    sc_fnc = sc_fnc
    Starts <- SomeStarts
    MaxTicks = 4
    Garbage = {0, 137}
    YEAR_OFFSET = 2000
    MaxHeaders = 2
    Tables <- SomeTables
    Addresses = {0, 1, 3}
    MaxFrames = 2
    WORD = 16
    IRQ_start = 100
    SyscallInts = {30, 104, 110, 128}
SPECIFICATION Spec
INVARIANTS
    TablesRight
    TimeRead
    ElfReads
    NearestSymbol
    LeavesNoTrace
CHECK_DEADLOCK FALSE
