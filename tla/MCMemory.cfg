CONSTANTS
    MAX_FRAMES = 16
    MIN_PHYS = 8
    FALLBACK = 15
    PtPages = 8
    LowTop = 1
    HeapStart = 2
    HeapPages = 7
    Backbuffer = 1
    StackTop = 36
    TASK_MAX = 4
    BootInfos <- MCBootInfos
    Programs <- MCPrograms
SPECIFICATION Spec
INVARIANTS
    
    KernelWritesLand
    FreshProgramIsWhole
CHECK_DEADLOCK FALSE
