SPECIFICATION TSpec
CONSTANTS
    MAX_PROCESSES = 3
    MAX_THREADS = 5
INVARIANT
    ContextsKept
