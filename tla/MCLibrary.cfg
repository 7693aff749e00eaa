CONSTANTS
    Decls <- MCDecls
    Synonyms <- MCSynonyms
    EnumNames <- MCEnumNames
    IntMax = 100000
    Home <- MCHome
    Configs <- MCConfigs
    SetTexts <- MCSetTexts
    MaxSynonyms = 1
    Keys32 <- MCKeys32
    Keys64 <- MCKeys64
    KeysPtr <- MCKeysPtr
    HashValues = {"a", "b"}
    Block = 2
    TableSizes = {1, 2}
    MaxCapacity = 11
    MaxFailures = 1
    Ptrs = {"p", "q"}
    InitialSizes = {0, 1, 3}
    MaxSizes = {5, 6}
    Indexes = {0, 1, 2, 4, 5}
    WordSize = 2
    BitMaps = {"b", "c"}
    BitSizes = {1, 3}
    MaxWords = 3
    Bits = {0, 1, 2, 3, 4}
    Byte = 4
    LongBytes = 4
    IntBytes = 2
    Messages <- MCMessages
    CrcMessages <- MCCrcMessages
    CrcBits <- MCCrcBits
SPECIFICATION LibrarySpec
INVARIANTS VariablesHold ComponentsHold ContainersHold BuffersHold ValuesHold ChecksumsHold
PROPERTIES HashIsMap ContainersImplement ChoicesStay
CHECK_DEADLOCK FALSE
