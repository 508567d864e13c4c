SPECIFICATION SSpec
CONSTANTS
    MAX_FILES = 2
    MAX_FILESIZE = 2
    HEAP_SIZE = 8
    Names = {"a", "b"}
    Sizes = {1, 2}
    Bytes = {0, 1}
    Char = 1
    NUL = 0
    MAX_ARGS = 3
    WORD = 4096
    Lines <- MCLines
INVARIANTS
    NothingLeaks
PROPERTIES
    CommandsEnd
    FilesKept
CHECK_DEADLOCK FALSE
