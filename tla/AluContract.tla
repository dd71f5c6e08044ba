------------------------------ MODULE AluContract ------------------------------
(***************************************************************************)
(* The arithmetic of Alu against the definitions of the architecture, over *)
(* every operand.  A behaviour picks one job - an opcode on two operands,  *)
(* a shift, or a subtraction of two-word numbers as the compilers emit it  *)
(* (SUBS on the low words, then SBC on the high ones) - and does it.       *)
(***************************************************************************)
EXTENDS Alu

CONSTANT ShiftAmount    \* the amounts of a shift by register: what Rs[7:0] may hold

ASSUME AmountsAssumption == ShiftAmount \subseteq 0..255

VARIABLES job, done

alu_vars == <<job, done>>

Bit == {0, 1}

Operation == [kind : {"operation"}, op : Opcodes, rn : Word, so : Word, c : Bit]
Shift     == [kind : {"shift"}, type : ShiftTypes, rm : Word, by : ShiftAmount, c : Bit]
Wide      == [kind : {"wide"}, a : 0..(2^(2 * W) - 1), b : 0..(2^(2 * W) - 1)]

Nothing == [kind |-> "nothing"]

AluInit == job \in Operation \cup Shift \cup Wide /\ done = Nothing

\* An opcode with S set and a destination other than the PC: the result and the
\* four flags, out of a CPSR that held only C.
Operated(op, rn, so, c) ==
    LET out  == AluOut(op, rn, so, c)
        cpsr == Flags(op, c * 2^(W - 3), out, out, rn, so, c, c)
    IN  [kind |-> "operation", out |-> out, cpsr |-> cpsr]

Operate ==
    /\ job.kind = "operation" /\ done = Nothing
    /\ done' = Operated(job.op, job.rn, job.so, job.c)
    /\ UNCHANGED job

\* Both forms of a shift: by Rs[7:0], and by the immediate field with its low bits.
DoShift ==
    /\ job.kind = "shift" /\ done = Nothing
    /\ done' = [kind |-> "shift",
                imm  |-> ShiftByImm(job.type, job.rm, job.by % W, job.c),
                reg  |-> ShiftByReg(job.type, job.rm, job.by, job.c)]
    /\ UNCHANGED job

\* SUBS on the low words, SBC on the high words with the C flag it left.
SubtractWide ==
    /\ job.kind = "wide" /\ done = Nothing
    /\ LET B == 2^W
           low == Operated(SUB, job.a % B, job.b % B, 0)
           high == Operated(SBC, job.a \div B, job.b \div B, Flag(low.cpsr, "C"))
       IN  done' = [kind |-> "wide", out |-> high.out * B + low.out]
    /\ UNCHANGED job

AluNext == Operate \/ DoShift \/ SubtractWide

AluSpec == AluInit /\ [][AluNext]_alu_vars

--------------------------------------------------------------------------------
Is(kind) == done.kind = kind

Signed(x) == IF get_bit(x, Top) = 1 THEN x - 2^W ELSE x

\* The architecture's adder: every subtraction is an addition of the complement
\* with a carry in.  Checks the results of SUB, RSB, SBC and RSC.
SubtractionIsComplementAddition ==
    Is("operation") =>
        LET rn == job.rn
            so == job.so
            c == job.c
        IN  /\ job.op \in {SUB, CMP} => done.out = Wrap(rn + Not(so) + 1)
            /\ job.op = RSB => done.out = Wrap(so + Not(rn) + 1)
            /\ job.op = SBC => done.out = Wrap(rn + Not(so) + c)
            /\ job.op = RSC => done.out = Wrap(so + Not(rn) + c)

\* After CMP or SUBS the flags decide the unsigned order of the operands: the
\* conditions HS, LO, HI, LS, EQ and NE of arm_condition are right.
UnsignedComparison ==
    Is("operation") /\ job.op \in {SUB, CMP} =>
        /\ (Flag(done.cpsr, "C") = 1) <=> (job.rn >= job.so)
        /\ (Flag(done.cpsr, "Z") = 1) <=> (job.rn = job.so)

\* After ADDS, and ADCS with its carry, V says that the signed sum does not fit.
OverflowOfAdditions ==
    Is("operation") /\ job.op \in {ADD, ADC} =>
        LET sum == Signed(job.rn) + Signed(job.so) + (IF job.op = ADC THEN job.c ELSE 0)
        IN  (Flag(done.cpsr, "V") = 1) <=> (sum # Signed(done.out))

\* The C flag of SUBS carries the borrow into SBC: two-word subtraction is exact.
WideSubtraction ==
    Is("wide") => done.out = (job.a - job.b) % 2^(2 * W)

\* One place of each shift: the word, and the bit shifted out.
OnePlace(type, x) ==
    CASE type = "LSL" -> <<(2 * x) % 2^W, x \div 2^Top>>
      [] type = "LSR" -> <<x \div 2, x % 2>>
      [] type = "ASR" -> <<x \div 2 + get_bit(x, Top) * 2^Top, x % 2>>
      [] type = "ROR" -> <<x \div 2 + (x % 2) * 2^Top, x % 2>>

\* n places, one after the other.
Repeated(type, rm, n, c) ==
    LET place[k \in 0..n] ==
            IF k = 0 THEN <<rm, c>> ELSE OnePlace(type, place[k - 1][1])
    IN  place[n]

\* What the immediate form stands for: a field of 0 is LSL #0, a right shift by
\* the whole width, or RRX.
RepeatedImm(type, rm, imm, c) ==
    IF imm = 0 /\ type = "ROR" THEN <<c * 2^Top + rm \div 2, rm % 2>>
    ELSE Repeated(type, rm, IF imm = 0 /\ type \in {"LSR", "ASR"} THEN W ELSE imm, c)

NegativeAsr == job.type = "ASR" /\ get_bit(job.rm, Top) = 1

\* Shifting by n is shifting by one n times, the carry being the last
\* bit shifted out.  The carry is right in both forms for every amount.  The word
\* is too, but for ASR of a negative word (ArithmeticShiftKeepsSign), by register
\* as long as the amount is less than the width, and for LSL by exactly the width.
ShiftsCompose ==
    Is("shift") =>
        LET reg == Repeated(job.type, job.rm, job.by, job.c)
            imm == RepeatedImm(job.type, job.rm, job.by % W, job.c)
        IN  /\ done.reg[2] = reg[2]
            /\ done.imm[2] = imm[2]
            /\ ~ NegativeAsr => done.imm[1] = imm[1]
            /\ \/ done.reg[1] = reg[1]
               \/ NegativeAsr /\ job.by \in 1..Top
               \/ job.type = "LSL" /\ job.by = W

\* The comments on both forms of ASR call it an arithmetic shift right: a word
\* keeps its sign however far it is shifted.
ArithmeticShiftKeepsSign ==
    Is("shift") /\ job.type = "ASR" =>
        /\ get_bit(done.reg[1], Top) = get_bit(job.rm, Top)
        /\ get_bit(done.imm[1], Top) = get_bit(job.rm, Top)

\* The comment on the V flag of SUBS and CMP: the overflow of Rn - shifter_operand,
\* that is, the signed difference does not fit in a word.
OverflowOfSubtractions ==
    Is("operation") /\ job.op \in {SUB, CMP} =>
        LET difference == Signed(job.rn) - Signed(job.so)
        IN  (Flag(done.cpsr, "V") = 1) <=> (difference # Signed(done.out))

\* The definition above carryFrom: the carry of an addition is set when the true
\* result is bigger than the largest word.
CarryOfAdditions ==
    Is("operation") /\ job.op \in {ADC, CMN} =>
        LET sum == job.rn + job.so + (IF job.op = ADC THEN job.c ELSE 0)
        IN  (Flag(done.cpsr, "C") = 1) <=> (sum > 2^W - 1)
================================================================================
