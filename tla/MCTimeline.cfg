SPECIFICATION Spec
CONSTANTS
    NULL = NULL
    Nodes <- MCNodes
    vruntime <- MCvruntime
INVARIANTS
    StaysBalanced
    WellLinked
    NextVisitsAll
PROPERTY
    AbsSpec
