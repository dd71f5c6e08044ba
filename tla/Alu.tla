---------------------------------- MODULE Alu ----------------------------------
(***************************************************************************)
(* arm_data_processing.c: the shifter operand, the results of the sixteen  *)
(* opcodes and the condition flags.  The code has every opcode twice, in   *)
(* arm_data_processing_shift and in arm_data_processing_immediate_msr,     *)
(* with the same formulas; they appear once here.                          *)
(***************************************************************************)
EXTENDS Words

AND == 0
EOR == 1
SUB == 2
RSB == 3
ADD == 4
ADC == 5
SBC == 6
RSC == 7
TST == 8
TEQ == 9
CMP == 10
CMN == 11
ORR == 12
MOV == 13
BIC == 14
MVN == 15

Opcodes == 0..15
Logical == {AND, EOR, TST, TEQ, ORR, MOV, BIC, MVN}
OnlyFlags == {TST, TEQ, CMP, CMN}      \* no destination register

--------------------------------------------------------------------------------
(* The shifter operand and its carry, as a pair.                           *)

ShiftLslImm(rm, imm, c) ==
    IF imm = 0 THEN <<rm, c>> ELSE <<Lsl(rm, imm), get_bit(rm, W - imm)>>

ShiftLsrImm(rm, imm) ==
    IF imm = 0 THEN <<0, get_bit(rm, Top)>> ELSE <<Lsr(rm, imm), get_bit(rm, imm - 1)>>

\* The right shift is that of an unsigned word, and ASR #32 of a negative word
\* yields (uint8_t) 0xFFFFFFFF.
ShiftAsrImm(rm, imm) ==
    IF imm = 0 THEN <<IF get_bit(rm, Top) = 0 THEN 0 ELSE 2^ByteBits - 1, get_bit(rm, Top)>>
    ELSE <<Lsr(rm, imm), get_bit(rm, imm - 1)>>

ShiftRorImm(rm, imm, c) ==
    IF imm = 0 THEN <<c * 2^Top + Lsr(rm, 1), get_bit(rm, 0)>>         \* RRX
    ELSE <<ror(rm, imm), get_bit(rm, imm - 1)>>

\* LSL by register; a shift by the whole width gives Rm itself.
ShiftLslReg(rm, n, c) ==
    CASE n = 0         -> <<rm, c>>
      [] n \in 1..Top  -> <<Lsl(rm, n), get_bit(rm, W - n)>>
      [] n = W         -> <<rm, get_bit(rm, 0)>>
      [] OTHER         -> <<0, 0>>

\* A bug to detect: the carry is the bit left of the last one shifted out.
ShiftLsrRegCarryOffByOne(rm, n, c) ==
    CASE n = 0         -> <<rm, c>>
      [] n \in 1..Top  -> <<Lsr(rm, n), get_bit(rm, n)>>
      [] n = W         -> <<0, get_bit(rm, Top)>>
      [] OTHER         -> <<0, 0>>

ShiftLsrReg(rm, n, c) ==
    CASE n = 0         -> <<rm, c>>
      [] n \in 1..Top  -> <<Lsr(rm, n), get_bit(rm, n - 1)>>
      [] n = W         -> <<0, get_bit(rm, Top)>>
      [] OTHER         -> <<0, 0>>

ShiftAsrReg(rm, n, c) ==
    CASE n = 0         -> <<rm, c>>
      [] n \in 1..Top  -> <<Lsr(rm, n), get_bit(rm, n - 1)>>
      [] OTHER         -> <<IF get_bit(rm, Top) = 0 THEN 0 ELSE 2^W - 1, get_bit(rm, Top)>>

ShiftRorReg(rm, n, c) ==
    CASE n = 0               -> <<rm, c>>
      [] n # 0 /\ n % W = 0  -> <<rm, get_bit(rm, Top)>>
      [] OTHER               -> <<ror(rm, n % W), get_bit(rm, (n % W) - 1)>>

ShiftTypes == {"LSL", "LSR", "ASR", "ROR"}

\* shifter_values_calculator: by an immediate (0..W-1) or by Rs[7:0].
ShiftByImm(type, rm, imm, c) ==
    CASE type = "LSL" -> ShiftLslImm(rm, imm, c)
      [] type = "LSR" -> ShiftLsrImm(rm, imm)
      [] type = "ASR" -> ShiftAsrImm(rm, imm)
      [] type = "ROR" -> ShiftRorImm(rm, imm, c)

ShiftByReg(type, rm, rs, c) ==
    LET n == rs % 256
    IN  CASE type = "LSL" -> ShiftLslReg(rm, n, c)
          [] type = "LSR" -> ShiftLsrReg(rm, n, c)
          [] type = "ASR" -> ShiftAsrReg(rm, n, c)
          [] type = "ROR" -> ShiftRorReg(rm, n, c)

\* An 8-bit immediate rotated right by twice the rotate field.
ImmediateOperand(immed_8, rotate_imm, c) ==
    LET so == ror(immed_8, (2 * rotate_imm) % W)
    IN  <<so, IF rotate_imm = 0 THEN c ELSE get_bit(so, Top)>>

--------------------------------------------------------------------------------
(* Results.  rn: Rn_value, so: shifter_operand, c: FLAG_c.                 *)

LogicalOut(op, rn, so) ==
    CASE op \in {AND, TST} -> And(rn, so)
      [] op \in {EOR, TEQ} -> Xor(rn, so)
      [] op = ORR          -> Or(rn, so)
      [] op = MOV          -> so
      [] op = BIC          -> And(rn, Not(so))
      [] op = MVN          -> Not(so)

\* A bug to detect: SBC and RSC take the C flag for the borrow.
ArithmeticOutBorrowIsCarry(op, rn, so, c) ==
    CASE op \in {SUB, CMP} -> Wrap(rn - so)
      [] op = RSB          -> Wrap(so - rn)
      [] op \in {ADD, CMN} -> Wrap(rn + so)
      [] op = ADC          -> Wrap(rn + so + c)
      [] op = SBC          -> Wrap(rn - so - c)
      [] op = RSC          -> Wrap(so - rn - c)

ArithmeticOut(op, rn, so, c) ==
    CASE op \in {SUB, CMP} -> Wrap(rn - so)
      [] op = RSB          -> Wrap(so - rn)
      [] op \in {ADD, CMN} -> Wrap(rn + so)
      [] op = ADC          -> Wrap(rn + so + c)
      [] op = SBC          -> Wrap(rn - so - (1 - c))
      [] op = RSC          -> Wrap(so - rn - (1 - c))

AluOut(op, rn, so, c) ==
    IF op \in Logical THEN LogicalOut(op, rn, so) ELSE ArithmeticOut(op, rn, so, c)

--------------------------------------------------------------------------------
(* Flags.                                                                  *)

\* (uint32_t) a + b + c is compared with 2^32 - 1 after it has wrapped.
carryFrom(a, b, c) == Wrap(a + b + c) > 2^W - 1

\* A bug to detect: equal operands borrow.
BorrowFromWhenEqual(op1, op2) == op1 <= op2

BorrowFrom(op1, op2) == op1 < op2

\* A bug to detect: operands of different signs overflow too.
OverflowFromAnySigns(rd, rn, so) == get_bit(rd, Top) # get_bit(rn, Top)

OverflowFrom(rd, rn, so) ==
    /\ get_bit(rn, Top) = get_bit(so, Top)
    /\ get_bit(rd, Top) # get_bit(rn, Top)

\* x + (uint32_t) ~FLAG_c: FLAG_c is promoted to int, so ~0 is -1 and ~1 is -2.
PlusNot(x, c) == Wrap(x - 1 - c)

\* A bug to detect: the subtractions set C when they borrow.
CarryOutIsBorrow(op, rn, so, c, sco) ==
    CASE op \in Logical    -> sco # 0
      [] op \in {SUB, CMP} -> BorrowFrom(rn, so)
      [] op = RSB          -> BorrowFrom(so, rn)
      [] op \in {ADD, ADC} -> carryFrom(rn, so, c)
      [] op = CMN          -> carryFrom(rn, so, 0)
      [] op = SBC          -> BorrowFrom(rn, PlusNot(so, c))
      [] op = RSC          -> BorrowFrom(so, PlusNot(rn, c))

CarryOut(op, rn, so, c, sco) ==
    CASE op \in Logical    -> sco # 0
      [] op \in {SUB, CMP} -> ~ BorrowFrom(rn, so)
      [] op = RSB          -> ~ BorrowFrom(so, rn)
      [] op \in {ADD, ADC} -> carryFrom(rn, so, c)
      [] op = CMN          -> carryFrom(rn, so, 0)
      [] op = SBC          -> ~ BorrowFrom(rn, PlusNot(so, c))
      [] op = RSC          -> ~ BorrowFrom(so, PlusNot(rn, c))

\* rd is the destination register read back; CMP and CMN do not write one and
\* use the value the register had before.
OverflowOut(op, rd, rn, so, c) ==
    CASE op \in {SUB, ADD, ADC, CMP, CMN} -> OverflowFrom(rd, rn, so)
      [] op = RSB                         -> OverflowFrom(rd, so, rn)
      [] op = SBC                         -> OverflowFrom(rd, rn, PlusNot(so, c))
      [] op = RSC                         -> OverflowFrom(rd, so, PlusNot(rn, c))

WriteFlag(cpsr, i, set) == IF set THEN set_bit(cpsr, i) ELSE clr_bit(cpsr, i)

\* The new CPSR.  out gives N and Z: the destination register read back, or
\* alu_out for the opcodes without one.
Flags(op, cpsr, out, rd, rn, so, c, sco) ==
    LET nz  == WriteFlag(WriteFlag(cpsr, W - 1, get_bit(out, Top) = 1), W - 2, out = 0)
        nzc == WriteFlag(nz, W - 3, CarryOut(op, rn, so, c, sco))
    IN  IF op \in Logical THEN nzc
        ELSE WriteFlag(nzc, W - 4, OverflowOut(op, rd, rn, so, c))

Flag(cpsr, name) ==
    get_bit(cpsr, CASE name = "N" -> W - 1
                    [] name = "Z" -> W - 2
                    [] name = "C" -> W - 3
                    [] name = "V" -> W - 4)
================================================================================
