SPECIFICATION CSpec
CONSTANTS
    FrameRegs <- TestFrameRegs
    CallerSaved <- TestCallerSaved
    PC_MAX = 0
    INPUT_BUFFER_SIZE = 2
    SHELL_BUFFER_SIZE = 2
    Key <- TestKey
INVARIANTS
    TrapTransparent
    BufferKept
    KeysAccounted
PROPERTY
    TrapsReturn
