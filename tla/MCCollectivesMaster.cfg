CONSTANTS
    N = 3
    Tree = "radix"
    Radix = 1
    Parent <- MCParent
    Relatives <- MCRelatives
    MasterThreads = TRUE
    Scons = {"s1"}
    Rounds = 2
    MaxPerScon = 1
    MaxTotal = 1
    Xcasters = {2}
    Xcasts = 1
SPECIFICATION MasterSpec
INVARIANTS MixedOnlyAtMaster XcastsInOrder
PROPERTY XcastBeforeRelease
CHECK_DEADLOCK FALSE
