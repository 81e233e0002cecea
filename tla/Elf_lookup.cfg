CONSTANTS
    Files <- MCFiles
    Half <- MCHalf
    Offsets <- MCOffsets
    Symbols <- MCSymbols
    Demangle <- MCDemangle
    Entry = 2
    Biases = {0, 3}
    MaxAddr = 7
SPECIFICATION Spec
CHECK_DEADLOCK FALSE
INVARIANTS TypeOK LookupIsExact PcIsTranslated NamedAsInFile
