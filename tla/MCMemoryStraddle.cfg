CONSTANTS
    ByteValue = {0, 1}
    MemSize = 5
    Address = {0, 1, 3, 4, 5, 7}
    HostBigEndian = FALSE
SPECIFICATION MemorySpec
INVARIANT SuccessIsComplete
CHECK_DEADLOCK FALSE
