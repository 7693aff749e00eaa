CONSTANTS
    N = 2
    Tree = "radix"
    Radix = 2
    Parent <- MCParent
    Relatives <- MCRelatives
    MasterThreads = FALSE
    Scons = {"s1"}
    Rounds = 3
    MaxPerScon = 2
    MaxTotal = 2
    Xcasters = {}
    Xcasts = 0
SPECIFICATION Spec
INVARIANT SignatureIdentifiesCollective
CHECK_DEADLOCK FALSE
