CONSTANTS
    N = 5
    Tree = "binom"
    Radix = 0
    Parent <- MCParent
    Relatives <- MCRelatives
    Topologies <- MCTopologies
    MaxLost = 2
    MaxN = 9
    Radices = {1, 2, 3}
SPECIFICATION TreesSpec
INVARIANTS TypeOK ReleaseFindsRequest NoOvercount CleanAtEnd RoutedOnOneTree
PROPERTIES ImplementsGather EverythingArrives
CHECK_DEADLOCK FALSE
