SPECIFICATION Spec
CONSTANTS
    ByteBits = 7
    HostBigEndian = FALSE
    MemSize = 40
    Encodings <- MCEncodings
    Ins <- MCIns
    Junk = {0, 268435455}
    Programs <- MCPrograms
    Poked <- MCPoked
    Interrupts = {1, 4}
    RegisterPokes <- MCRegisterPokes
    CpsrPokes = {16, 17, 201326611}
    BytePokes <- MCBytePokes
    MaxCycles = 4
ACTION_CONSTRAINT FewPokes
PROPERTY BranchesSignExtend
