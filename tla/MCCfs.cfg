SPECIFICATION Spec
CONSTANTS
    MAX_PROCESSES = 3
    Nices <- MCNices
    TICK = 1000
    MIN_GRANULARITY = 1000
    U32 = 4294967
    U64 = 1073741824
    CLOCK_MAX = 12000
INVARIANTS
    QueueInv
    NoDoubleCharge
    MinVruntimeReached

    
