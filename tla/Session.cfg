CONSTANTS
    Code = {1, 2, 3}
    Data = {4}
    Watched = {2, 4}
    Mapped = {1, 2, 4}
    OwnInt3 = {1}
    Numbers = {0, 1}
    Trap = Trap
    NumSlots = 2
    WatchSizes = {1, 3}
    Encodable = {1}
    Refused = {3}
    Ids = {1, 2}
    MaxId = 2
    Syscalls = {1, 999}
    Known = {1}
    CatchLists <- MCCatchLists
    WordOf <- MCWordOf
    VectorTexts <- MCVectorTexts
    BytesOf <- MCBytesOf
    Unknown = Unknown
    NoNumber = NoNumber
    NoFormat = NoFormat
    Failed = Failed
    Throws = Throws
    Unfit = Unfit
    None = None
SPECIFICATION Spec
VIEW MCView
INVARIANTS TypeOK  OneOfEach
PROPERTIES IdsAreForever  StopIsNamed OldAndNew
CHECK_DEADLOCK FALSE
