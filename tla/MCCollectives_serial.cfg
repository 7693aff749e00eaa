CONSTANTS
    N = 4
    Tree = "radix"
    Radix = 2
    Parent <- MCParent
    Relatives <- MCRelatives
    MasterThreads = FALSE
    Scons = {"s1"}
    Rounds = 2
    MaxPerScon = 1
    MaxTotal = 1
    Xcasters = {}
    Xcasts = 0
SPECIFICATION FairSpec
INVARIANTS CallbackCarriesItsRound SignaturesHold TrackersHold
PROPERTY EveryCallCompletes
CHECK_DEADLOCK FALSE
