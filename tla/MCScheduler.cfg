CONSTANTS
    TASK_MAX <- MCTaskMax
    QUANTUM_TICKS <- MCQuantum
    MaxPid <- MCMaxPid
SPECIFICATION FairSpec
INVARIANTS
    TypeOK
    ContextIdentity
    TrapStackIsOwn
    ExitTakesTheCpu
PROPERTIES
    LiveEntriesAreKept
    NoStarvation
