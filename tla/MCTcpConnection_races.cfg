CONSTANTS
    Settings <- CalmAndFaulty
    Messages <- TwoEach
    MaxConn = 7
SPECIFICATION FairSpec
INVARIANTS ConnectionHolds NeverTwice NothingGoesWrong
PROPERTY EveryMessageArrives
CHECK_DEADLOCK FALSE
