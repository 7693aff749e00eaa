CONSTANTS
    N = 3
    Tree = "radix"
    Radix = 1
    Parent <- MCParent
    Relatives <- MCRelatives
    MasterThreads = FALSE
    Scons = {"s1"}
    Rounds = 1
    MaxPerScon = 1
    MaxTotal = 1
    Xcasters = {2}
    Xcasts = 1
SPECIFICATION FairSpec
PROPERTIES ImplementsTree EveryXcastArrives
CHECK_DEADLOCK FALSE
