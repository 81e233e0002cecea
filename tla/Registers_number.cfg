CONSTANTS
    Size = 7
    Word = 2
    Fprs <- MCFprs
    Registers <- MCRegs
    SizeOf <- MCSize
    OffsetOf <- MCOffset
    FormatOf <- MCFormat
    Bytes <- MCBytes
    Computed = {255}
    Refused <- MCRefused
    Values <- MCValues
    Texts <- MCTexts
    Parsed <- MCParsed
    Meant <- MCMeant
    SignOf <- MCSignOf
    Leftovers = {0}
    Failed = Failed
    Throws = Throws
    Unfit = Unfit
SPECIFICATION Spec
INVARIANT OnlyNumbersAreWritten
