---------------------------------- MODULE Core ---------------------------------
(***************************************************************************)
(* The instruction set: arm_core.c, arm_data_processing.c,                 *)
(* arm_load_store.c, arm_branch_other.c and arm_exception.c as operators.  *)
(* A handler takes the register array f, the memory m and an instruction,  *)
(* and returns all three effects of the C function: both arrays and the    *)
(* value returned.                                                         *)
(*                                                                         *)
(* A word of memory stands for a whole 32-bit encoding: Ins gives its      *)
(* condition and its other 28 bits.  Offsets and immediates are wrapped to *)
(* the width of a word.  junk is what a variable the code never set holds. *)
(***************************************************************************)
EXTENDS Alu, RegisterFile, MemoryArray, FiniteSets

CONSTANTS Encodings, \* the words that stand for an instruction
          Ins(_)     \* Encodings |-> [cond |-> bits 31..28, bits |-> bits 27..0]

RESET == 1
UNDEFINED_INSTRUCTION == 7
SOFTWARE_INTERRUPT == 8
END_SIMULATION == 9

\* A bug to detect: the result keeps its sign.
Minus1Signed == -1

Minus1 == 255              \* -1, which arm_step hands over as a uint8_t

\* The instruction of a word; the words that stand for none are never executed.
Decode(w) == IF w \in Encodings THEN Ins(w) ELSE [cond |-> 15, bits |-> 0]

Bit(i, n) == (i.bits \div 2^n) % 2
On(i, n) == Bit(i, n) = 1
Rn(i) == (i.bits \div 65536) % 16
Rd(i) == (i.bits \div 4096) % 16
Rs(i) == (i.bits \div 256) % 16
Rm(i) == i.bits % 16
Opcode(i) == (i.bits \div 2097152) % 16

\* The instruction classes of bits 27..25.
InsType(i) == i.bits \div 33554432

Outcome(f, m, result) == [r |-> f, mem |-> m, result |-> result]

--------------------------------------------------------------------------------
(* arm_core.c                                                              *)

Mode(f) == registers_get_mode(f)

\* Reading the PC adds 4 to it and clears bit 1 (& 0xFFFFFFFD).
arm_read_register(f, reg) ==
    LET v == registers_read(f, reg, Mode(f))
    IN  IF reg = 15 THEN clr_bit(Wrap(v + 4), 1) ELSE v

arm_write_register(f, reg, v) == registers_write(f, reg, Mode(f), v)

arm_read_spsr(f) == registers_read_spsr(f, Mode(f))

\* The k bytes of a word as the host lays them out, and back.
Weight(i, k) == 2^(ByteBits * (IF HostBigEndian THEN k - 1 - i ELSE i))

ToBytes(w, k) == [i \in 0..(k - 1) |-> (w \div Weight(i, k)) % 2^ByteBits]

FromBytes(v, k) ==
    LET sum[n \in 0..k] == IF n = 0 THEN 0 ELSE sum[n - 1] + v[n - 1] * Weight(n - 1, k)
    IN  sum[k]

\* arm_read_byte, _half, _word: ENDIANESS is 1, and every caller ignores the
\* failure and goes on with the variable it never set.
Load(m, address, k, junk) ==
    FromBytes(IF Succeeds(address) THEN memory_read(m, address, k, TRUE, ToBytes(junk, k))
              ELSE ToBytes(junk, k), k)

\* arm_write_byte, _half, _word.
Store(m, address, k, w) == memory_write(m, address, k, TRUE, ToBytes(w, k))

--------------------------------------------------------------------------------
(* arm_data_processing.c                                                   *)

\* The operand of arm_data_processing_shift.  The shift amount has five bits in
\* the code; here it is below the width of a word.
ShiftedOperand(f, i) ==
    LET rm   == arm_read_register(f, Rm(i))
        type == <<"LSL", "LSR", "ASR", "ROR">>[1 + ((i.bits \div 32) % 4)]
        c    == Flag(registers_read_cpsr(f), "C")
    IN  IF On(i, 4) THEN ShiftByReg(type, rm, arm_read_register(f, Rs(i)), c)
        ELSE ShiftByImm(type, rm, ((i.bits \div 128) % 32) % W, c)

RotatedOperand(f, i) ==
    ImmediateOperand(i.bits % 256, Rs(i), Flag(registers_read_cpsr(f), "C"))

\* A bug to detect: every instruction takes the S paths.
SetsFlagsAlways(i) == TRUE

SetsFlags(i) == On(i, 20)

\* Both functions from there on.  A flag-setting write to the PC copies SPSR to
\* CPSR; in a mode without SPSR it fails, with the PC already written.
DataProcessing(f, m, i, operand) ==
    LET op     == Opcode(i)
        cpsr   == registers_read_cpsr(f)
        c      == Flag(cpsr, "C")
        rn     == arm_read_register(f, Rn(i))
        out    == AluOut(op, rn, operand[1], c)
        g      == arm_write_register(f, Rd(i), out)
        back   == arm_read_register(g, Rd(i))
        flags(n, d) == Flags(op, cpsr, n, d, rn, operand[1], c, operand[2])
    IN  IF op \in OnlyFlags
        THEN Outcome(registers_write_cpsr(f, flags(out, arm_read_register(f, Rd(i)))), m, 0)
        ELSE IF ~ SetsFlags(i) THEN Outcome(g, m, 0)
        ELSE IF Rd(i) # 15 THEN Outcome(registers_write_cpsr(g, flags(back, back)), m, 0)
        ELSE IF registers_current_mode_has_spsr(g)
        THEN Outcome(registers_write_cpsr(g, arm_read_spsr(g)), m, 0)
        ELSE Outcome(g, m, UNDEFINED_INSTRUCTION)

arm_data_processing_shift(f, m, i) == DataProcessing(f, m, i, ShiftedOperand(f, i))

arm_data_processing_immediate_msr(f, m, i) == DataProcessing(f, m, i, RotatedOperand(f, i))

--------------------------------------------------------------------------------
(* arm_branch_other.c                                                      *)

\* A bug to detect: the number is taken as it is.
sign_extend_30None(value) == value

\* value | 0xFFC00000 for a number of 24 bits: bit 23 is the sign, but the mask
\* sets bit 22 as well, so that numbers below -2^22 come out 2^22 too high.
sign_extend_30(value) ==
    IF (value \div 2^23) % 2 = 0 THEN value
    ELSE value - 2^24 + (IF (value \div 2^22) % 2 = 1 THEN 0 ELSE 2^22)

arm_branch(f, m, i) ==
    LET pc     == arm_read_register(f, 15)
        offset == 4 * sign_extend_30(i.bits % 2^24)
        g      == IF On(i, 24) THEN arm_write_register(f, 14, Wrap(pc - 4)) ELSE f
    IN  Outcome(arm_write_register(g, 15, Wrap(pc + offset)), m, 0)

\* Every coprocessor instruction of this class is taken for an SWI.
arm_coprocessor_others_swi(f, m, i) ==
    Outcome(arm_write_register(f, 14, Wrap(arm_read_register(f, 15) - 4)), m,
            SOFTWARE_INTERRUPT)

\* MRS; the other miscellaneous instructions, MSR among them, do not exist.
arm_miscellaneous(f, m, i) ==
    IF On(i, 21) THEN Outcome(f, m, UNDEFINED_INSTRUCTION)
    ELSE IF Rd(i) = 15 THEN Outcome(f, m, Minus1)
    ELSE Outcome(arm_write_register(f, Rd(i), IF On(i, 22) THEN arm_read_spsr(f)
                                              ELSE registers_read_cpsr(f)), m, 0)

--------------------------------------------------------------------------------
(* arm_load_store.c: single transfers.                                     *)

\* A negative index shifts as an unsigned one, and RRX loses the carry
\* (C_flag >> 31).
shift_index_calculator(rm, imm, type) ==
    CASE type = 0 -> Lsl(rm, imm)
      [] type = 1 -> IF imm = 0 THEN 0 ELSE Lsr(rm, imm)
      [] type = 2 -> IF imm # 0 THEN Lsr(rm, imm)
                     ELSE IF get_bit(rm, Top) = 1 THEN 2^W - 1 ELSE 0
      [] type = 3 -> IF imm = 0 THEN Lsr(rm, 1) ELSE ror(rm, imm)

Mode2Offset(f, i) ==
    IF ~ On(i, 25) THEN i.bits % 4096
    ELSE IF (i.bits \div 16) % 256 = 0 THEN arm_read_register(f, Rm(i))
    ELSE shift_index_calculator(arm_read_register(f, Rm(i)),
                                ((i.bits \div 128) % 32) % W, (i.bits \div 32) % 4)

Mode3Offset(f, i) ==
    IF On(i, 22) THEN Rs(i) * 16 + Rm(i) ELSE arm_read_register(f, Rm(i))

\* Offset, pre-indexed (P) and post-indexed addressing; W asks P to write the
\* base back, post-indexing always does.
Indexed(f, i, offset) ==
    LET base  == arm_read_register(f, Rn(i))
        moved == Wrap(IF On(i, 23) THEN base + offset ELSE base - offset)
    IN  [address |-> IF On(i, 24) THEN moved ELSE base,
         r |-> IF On(i, 24) /\ ~ On(i, 21) THEN f ELSE arm_write_register(f, Rn(i), moved)]

\* -1 is both the answer for the unhandled P = 0, W = 1 and an address.
calculate_address(f, i) ==
    IF ~ On(i, 24) /\ On(i, 21) THEN [address |-> 2^W - 1, r |-> f]
    ELSE Indexed(f, i, Mode2Offset(f, i))

calculate_address_mode3(f, i) == Indexed(f, i, Mode3Offset(f, i))

\* LDR, STR, LDRB, STRB.
TransferWordOrByte(f, m, i, address, junk) ==
    LET k == IF On(i, 22) THEN 1 ELSE 4
    IN  IF On(i, 20)
        THEN Outcome(arm_write_register(f, Rd(i), Load(m, address, k, junk)), m, 0)
        ELSE Outcome(f, Store(m, address, k, arm_read_register(f, Rd(i))), 0)

\* A bug to detect: the store comes before the test of Rd.
TransferExtraStoresFirst(f, m, i, address, junk) ==
    Outcome(f, IF On(i, 20) THEN m ELSE Store(m, address, 2, arm_read_register(f, Rd(i))),
            IF Rd(i) = 15 THEN UNDEFINED_INSTRUCTION ELSE 0)

\* STRH for every store, whatever bits 7..4; LDRH, LDRSB, LDRSH.
TransferExtra(f, m, i, address, junk) ==
    LET kind == (i.bits \div 16) % 16
        loaded == CASE kind = 11 -> Load(m, address, 2, junk)
                    [] kind = 13 -> SignExtend(Load(m, address, 1, junk), ByteBits)
                    [] kind = 15 -> SignExtend(Load(m, address, 2, junk), 2 * ByteBits)
    IN  IF Rd(i) = 15 \/ (On(i, 20) /\ kind \notin {11, 13, 15})
        THEN Outcome(f, m, UNDEFINED_INSTRUCTION)
        ELSE IF On(i, 20) THEN Outcome(arm_write_register(f, Rd(i), loaded), m, 0)
        ELSE Outcome(f, Store(m, address, 2, arm_read_register(f, Rd(i))), 0)

\* The mode 2 address, with its write-back, is computed for the instructions of
\* mode 3 as well, which then compute theirs from the base it left.
arm_load_store(f, m, i, junk) ==
    LET two   == calculate_address(f, i)
        three == calculate_address_mode3(two.r, i)
    IN  IF two.address = 2^W - 1 THEN Outcome(two.r, m, UNDEFINED_INSTRUCTION)
        ELSE IF On(i, 26) THEN TransferWordOrByte(two.r, m, i, two.address, junk)
        ELSE TransferExtra(three.r, m, i, three.address, junk)

--------------------------------------------------------------------------------
(* arm_load_store.c: multiple transfers.                                   *)

RegisterList(i) == {k \in 0..15 : On(i, k)}

Number_of_Set_Bits_In(i) == Cardinality(RegisterList(i))

\* A bug to detect: decrement-before starts where decrement-after does.
addr_ls_multipleStartsLate(f, i) ==
    LET base == arm_read_register(f, Rn(i))
        size == 4 * Number_of_Set_Bits_In(i)
    IN  [start |-> Wrap(IF On(i, 23) THEN base ELSE base - size + 4),
         r |-> IF On(i, 21)
               THEN arm_write_register(f, Rn(i), Wrap(IF On(i, 23) THEN base + size
                                                      ELSE base - size))
               ELSE f]

\* The start address and the registers after the write-back.
addr_ls_multiple(f, i) ==
    LET base == arm_read_register(f, Rn(i))
        size == 4 * Number_of_Set_Bits_In(i)
        up   == On(i, 23)
        before == On(i, 24)
    IN  [start |-> Wrap(CASE up /\ before     -> base + 4
                          [] up /\ ~ before   -> base
                          [] ~ up /\ before   -> base - size
                          [] ~ up /\ ~ before -> base - size + 4),
         r |-> IF On(i, 21)
               THEN arm_write_register(f, Rn(i), Wrap(IF up THEN base + size ELSE base - size))
               ELSE f]

\* The address of register k of the list: the registers go up with the addresses.
TransferAddress(start, i, k) ==
    Wrap(start + 4 * Cardinality({j \in RegisterList(i) : j < k}))

\* The word of register k.  When its read fails, the one variable the loop reads
\* into keeps the last word read.
WordOf(m, start, i, k, junk) ==
    LET good == {j \in RegisterList(i) : j <= k /\ Succeeds(TransferAddress(start, i, j))}
        from == CHOOSE j \in good : \A l \in good : l <= j
    IN  IF good = {} THEN junk ELSE Load(m, TransferAddress(start, i, from), 4, junk)

\* A bug to detect: the loads go to the user bank.
LoadedRegistersUserBank(g, m, start, i, junk) ==
    [s \in DOMAIN g |->
        IF \E k \in RegisterList(i) \ {15} : Slot(k, USR) = s
        THEN WordOf(m, start, i, CHOOSE k \in RegisterList(i) \ {15} : Slot(k, USR) = s, junk)
        ELSE g[s]]

\* Loads of r0..r14, in the bank of the current mode.
LoadedRegisters(g, m, start, i, junk) ==
    [s \in DOMAIN g |->
        IF \E k \in RegisterList(i) \ {15} : Slot(k, Mode(g)) = s
        THEN WordOf(m, start, i, CHOOSE k \in RegisterList(i) \ {15} : Slot(k, Mode(g)) = s,
                    junk)
        ELSE g[s]]

\* The PC comes last, with bit 0 of its word for the T bit (bit 5); when that bit
\* is set it is SPSR, not CPSR, that goes into CPSR with it.
instruction_ldm1(f, m, i, junk) ==
    LET addr == addr_ls_multiple(f, i)
        g    == LoadedRegisters(addr.r, m, addr.start, i, junk)
        word == WordOf(m, addr.start, i, 15, junk)
        h    == arm_write_register(g, 15, clr_bit(word, 0))
    IN  IF 15 \notin RegisterList(i) THEN g
        ELSE registers_write_cpsr(h, IF get_bit(word, 0) = 0
                                     THEN clr_bit(registers_read_cpsr(h), 5)
                                     ELSE set_bit(arm_read_spsr(h), 5))

\* Stores of the registers, upwards, as the write-back left them.
instruction_stm1(g, m, i, start) ==
    LET stored[k \in 0..16] ==
            IF k = 0 THEN m
            ELSE IF k - 1 \in RegisterList(i)
            THEN Store(stored[k - 1], TransferAddress(start, i, k - 1), 4,
                       arm_read_register(g, k - 1))
            ELSE stored[k - 1]
    IN  stored[16]

arm_load_store_multiple(f, m, i, junk) ==
    LET addr == addr_ls_multiple(f, i)
    IN  IF On(i, 22) THEN Outcome(f, m, UNDEFINED_INSTRUCTION)
        ELSE IF On(i, 20) THEN Outcome(instruction_ldm1(f, m, i, junk), m, 0)
        ELSE Outcome(addr.r, instruction_stm1(addr.r, m, i, addr.start), 0)

arm_coprocessor_load_store(f, m, i) == Outcome(f, m, UNDEFINED_INSTRUCTION)

--------------------------------------------------------------------------------
(* arm_exception.c and arm_instruction.c                                   *)

ResetCpsr == 467           \* 0x1d3: SVC mode, interrupts masked

\* A bug to detect: the number is that of the instruction after the SWI.
SwiNumberOfNext(f, m, junk) ==
    Decode(Load(m, Wrap(arm_read_register(f, 15) - 4), 4, junk)).bits % 2^24

\* The number of an SWI is read again from memory, 8 before what the PC reads as.
SwiNumber(f, m, junk) ==
    Decode(Load(m, Wrap(arm_read_register(f, 15) - 8), 4, junk)).bits % 2^24

\* A bug to detect: RESET saves CPSR in the SPSR of SVC mode.
arm_exceptionSavesCpsr(f, m, exception, junk) ==
    IF exception # RESET THEN Outcome(f, m, exception)
    ELSE LET g == registers_write_spsr(f, SVC, registers_read_cpsr(f))
         IN  Outcome(arm_write_register(registers_write_cpsr(g, ResetCpsr), 15, 0), m, RESET)

\* Only RESET changes the state; the others are handed back to the caller.
arm_exception(f, m, exception, junk) ==
    IF exception = RESET
    THEN Outcome(arm_write_register(registers_write_cpsr(f, ResetCpsr), 15, 0), m, RESET)
    ELSE IF exception = SOFTWARE_INTERRUPT
    THEN Outcome(f, m, CASE SwiNumber(f, m, junk) = 1193046 -> END_SIMULATION   \* 0x123456
                         [] SwiNumber(f, m, junk) = 1       -> 0                \* putchar
                         [] OTHER                           -> SOFTWARE_INTERRUPT)
    ELSE Outcome(f, m, exception)

arm_condition(cpsr, cond) ==
    LET n == Flag(cpsr, "N") = 1
        z == Flag(cpsr, "Z") = 1
        c == Flag(cpsr, "C") = 1
        v == Flag(cpsr, "V") = 1
        holds == <<z, c, n, v, c /\ ~ z, n = v, ~ z /\ n = v>>[1 + (cond \div 2)]
    IN  CASE cond <= 13 -> IF cond % 2 = 0 THEN holds ELSE ~ holds
          [] cond = 14  -> TRUE
          [] cond = 15  -> FALSE

\* The dispatch of arm_execute_instruction.
Class(i) ==
    CASE InsType(i) = 0 ->
             IF On(i, 24) /\ ~ On(i, 23) /\ ~ On(i, 20) THEN "miscellaneous"
             ELSE IF On(i, 7) /\ On(i, 4) THEN "load_store"
             ELSE "data_processing_shift"
      [] InsType(i) = 1 -> "data_processing_immediate"
      [] InsType(i) \in {2, 3} -> "load_store"
      [] InsType(i) = 4 -> "load_store_multiple"
      [] InsType(i) = 5 -> "branch"
      [] InsType(i) = 6 -> "coprocessor_load_store"
      [] InsType(i) = 7 -> "swi"
================================================================================
