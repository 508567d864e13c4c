CONSTANTS
    ORDER = 5
    Nodes <- TestNodes
    Keys <- TestKeys
    Vals <- TestVals
    MaxRoom = 3

SPECIFICATION Spec
INVARIANT MapKept
INVARIANT WalkComplete
PROPERTY AbsSpec
