CONSTANTS
    N = 3
    Tree = "radix"
    Radix = 2
    Parent <- MCParent
    Relatives <- MCRelatives
    MasterThreads = TRUE
    Scons = {"s1"}
    Rounds = 2
    MaxPerScon = 1
    MaxTotal = 1
    Xcasters = {}
    Xcasts = 0
SPECIFICATION Spec
INVARIANT UniqueTracker
CHECK_DEADLOCK FALSE
