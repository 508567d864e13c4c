SPECIFICATION Spec
CONSTANTS
    ORDER = 3
    Nodes <- TestNodes
    MAX_INODE_COUNT = 3
    DIRECT_BLOCKS = 2
    FS_BLOCK_SIZE = 2
    MAX_BLOCKS = 3
    Junk = 7
    Names <- TestNames
    MAX_FILENAME_LEN = 3
    HASH_MOD = 65536
    INODES = 60001
    Data <- TestData
    MaxRoom = 4
INVARIANTS
    
    BlocksOwned
