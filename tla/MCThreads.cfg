SPECIFICATION TSpec
CONSTANTS
    MAX_PROCESSES = 4
    MAX_THREADS = 6
INVARIANTS
    CurrentIsRunning
    NeverTwice
PROPERTIES
    OvertakenOnce
    EveryReadyRuns
