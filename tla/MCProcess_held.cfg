CONSTANTS
    Names <- MCNames
    MaxRefs = 2
    MaxStarts = 4
    EnumValues <- MCEnumValues
    Verbosities <- MCVerbosities
    Flags <- MCFlags
    Texts <- MCTexts
    Numbers <- MCNumbers
    FlagLists <- MCFlagLists
SPECIFICATION ProcessSpec
INVARIANT HeldUntilIssued
CHECK_DEADLOCK FALSE
