CONSTANTS
    Names <- MCNames
    MaxRefs = 2
    MaxStarts = 4
    EnumValues <- MCEnumValues
    Verbosities <- MCVerbosities
    Flags <- MCFlags
    Texts <- MCTexts
    Numbers <- MCNumbers
    FlagLists <- MCFlagLists
SPECIFICATION ProcessSpec
INVARIANTS EnumeratorsHold ThreadsHold SconsHold
PROPERTIES SconsComplete ShutDownInTheEnd
CHECK_DEADLOCK FALSE
