CONSTANTS
    ByteBits = 1
    ShiftAmount = {}
SPECIFICATION AluSpec
INVARIANT OverflowOfSubtractions
CHECK_DEADLOCK FALSE
