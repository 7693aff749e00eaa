CONSTANTS
    Settings <- Master
    Messages <- OneEach
    MaxConn = 4
SPECIFICATION Spec
INVARIANT NobodyGivesUp
CHECK_DEADLOCK FALSE
