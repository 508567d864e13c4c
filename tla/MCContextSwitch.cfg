SPECIFICATION Spec
CONSTANTS
    Procs <- MCProcs
    Routines <- MCRoutines

    
PROPERTY
    RightUpToBase
