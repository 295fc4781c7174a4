\* A second of 8 ticks and 2 corrections, 5 milliseconds.
CONSTANTS
    TICK = 12
    CORRECTION = 2
    EVERY = 4
    MILLI = 20
    SECOND = 100
    TimeRegs <- SomeRegs
    UNIX = 3
SPECIFICATION FairSpec
INVARIANTS
    RightRegister
    Acknowledged
    ClockExact
PROPERTIES
    NeverBack
    TicksGoOn
CHECK_DEADLOCK FALSE
