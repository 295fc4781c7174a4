\* Pages of 64 bytes, 1 MB as 16 of them and 2 MB as 32; the real MAX_ORDER.
CONSTANTS
    MAX_ORDER = 10
    Loads <- AllLoads
    page_size = 64
    LM_SIZE = 1024
    mm_sb_size = 100
    RegionSize = 40
    MemStart = 1300
    MemLimit = 2048
    mboot_info_size = 16
    WORD = 1073741824
    Remains <- SomeRemains
    MaxPages = 1100
SPECIFICATION Spec
INVARIANTS
    InitialMapRight
    FramesReady
    RegionsAsTold
    KernelKept
    TablesKept
CHECK_DEADLOCK FALSE
