SPECIFICATION Spec
CONSTANTS
    MAX_FDS = 3
    Kinds <- MCKinds
    Nodes = {i1, i2, i3}
    NULL = NULL
    Insts = {0, 1}
    Events <- MCEvents
    Data = {7}
    MaxEvents = {0, 2}
SYMMETRY ItemSymmetry
INVARIANTS
    ItemsOwned
    SearchFinds
    WaitReports
PROPERTY
    AbsSpec
