CONSTANTS
    ByteBits = 1
    ShiftAmount = {0, 1, 3, 4, 5}
SPECIFICATION AluSpec
INVARIANT ArithmeticShiftKeepsSign
CHECK_DEADLOCK FALSE
