CONSTANTS
    ByteBits = 1
    ShiftAmount = {}
SPECIFICATION AluSpec
INVARIANT CarryOfAdditions
CHECK_DEADLOCK FALSE
