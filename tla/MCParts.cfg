CONSTANTS
    RegisterValue = {0, 1}
    ModeArg <- MCModeArg
    ByteValue = {0, 1}
    MemSize = 5
    Address = {0, 1, 3, 4, 5, 7}
    HostBigEndian = FALSE
    ByteBits = 1
    ShiftAmount <- MCShiftAmount
SPECIFICATION MCSpec
VIEW WithoutCall
CONSTRAINT FewWritten
INVARIANTS
    ReadsItsBank
    WritesReadBack
    SizesAgree
    SubtractionIsComplementAddition
    UnsignedComparison
    OverflowOfAdditions
    WideSubtraction
    ShiftsCompose
PROPERTIES
    ImplementsBanked
    OnlyAddressedBytes
CHECK_DEADLOCK FALSE
