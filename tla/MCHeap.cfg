SPECIFICATION Spec
CONSTANTS
    HEAP_SIZE = 104
    WORD = 128
    Requests = {0, 1, 9, 20}
INVARIANTS
    PayloadsDisjoint
    HeapInv
    OneFreePair
PROPERTIES
    LiveBlocksStable
    FirstFit
    CallsReturn
    AbsSpec
