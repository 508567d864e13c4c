SPECIFICATION Spec
CONSTANTS
    MAX_FILES = 2
    MAX_FILESIZE = 2
    HEAP_SIZE = 4
    Names = {"a", "b", "c"}
    Sizes = {0, 1, 2, 3}
    Bytes = {0, 1}
INVARIANTS
    NamesUnique
    BuffersOwned
PROPERTY
    AbsSpec
