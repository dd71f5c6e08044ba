--------------------------------- MODULE MCCpu ---------------------------------
(***************************************************************************)
(* A machine of 28-bit words and seven-bit bytes, in which the 24-bit      *)
(* offset of a branch still has to be sign-extended.  Its programs are     *)
(* every pair of instructions of Code after a short prelude.               *)
(***************************************************************************)
EXTENDS Cpu, Sequences

CONSTANT Poked        \* the pairs the debugger interferes with

\* The instructions a memory word may stand for: condition and the other 28 bits.
Code == <<
    << 0,         0>>,  \*  0: a word of zeros: ANDEQ r0, r0, r0
    <<14,  60817432>>,  \*  1: MOV r0, #24
    <<14,  60821633>>,  \*  2: MOV r1, #0x81
    <<14,  28322433>>,  \*  3: MOVS r2, r1, LSL #21
    <<14,   9449473>>,  \*  4: ADDS r3, r0, r1
    <<14,  38797313>>,  \*  5: SUBS r0, r0, #1
    <<14,  55574552>>,  \*  6: CMP r0, #24
    <<14,  13648242>>,  \*  7: SBCS r4, r0, r2, ROR r1
    <<14,  65032192>>,  \*  8: MVN r5, #0
    <<14,  27324430>>,  \*  9: MOV pc, lr
    <<14,  28373006>>,  \* 10: MOVS pc, lr
    <<14,  17784832>>,  \* 11: MRS r6, CPSR
    <<14,  21979136>>,  \* 12: MRS r6, SPSR
    <<14,  17821696>>,  \* 13: MRS pc, CPSR
    <<14,  19525632>>,  \* 14: MSR
    <<14, 153960451>>,  \* 15: STMDB sp!, {r0, r1, lr}
    <<14, 146636803>>,  \* 16: LDMIA sp!, {r0, r1, pc}
    <<14, 143687680>>,  \* 17: LDMIA r0, {pc}
    <<14, 145784838>>,  \* 18: LDMIA r0!, {r1, r2, pc}
    <<14, 160456710>>,  \* 19: LDMIB r0, {r1, r2, r13, r14}
    <<14, 147849218>>,  \* 20: LDMIA r0, {r1}^
    <<14,  94375940>>,  \* 21: STR r1, [r0, #4]!
    <<14,  68165636>>,  \* 22: LDR r2, [r0], #-4 (not up)
    <<14, 131084289>>,  \* 23: LDRB r3, [r0, r1]
    <<14,  88936449>>,  \* 24: LDRB... [sp, #-1]
    <<14, 126886433>>,  \* 25: LDR r2, [r0, r1, LSR #4]
    <<14,  78651396>>,  \* 26: LDRT
    <<14,  29364402>>,  \* 27: STRH r1, [r0, #2]
    <<14,  30425330>>,  \* 28: LDRSH r4, [r0, #2]
    <<14,  13648081>>,  \* 29: LDRSB r4, [r0], #1
    <<14,  26230961>>,  \* 30: LDRH r4, [r0, r1]
    <<14,     66192>>,  \* 31: MUL r1, r0, r2
    <<14,  30425232>>,  \* 32: an undefined extra load
    <<14,  29421746>>,  \* 33: STRH pc
    <<14, 167772160>>,  \* 34: B +8
    << 1, 184549371>>,  \* 35: BNE back
    <<14, 184549377>>,  \* 36: BL
    <<11,  60878850>>,  \* 37: MOVLT pc, #2
    <<15, 167772160>>,  \* 38: NV
    <<14, 252851286>>,  \* 39: SWI end
    <<14, 251658241>>,  \* 40: SWI putchar
    <<14, 251658240>>,  \* 41: SWI
    <<14, 201326592>>,  \* 42: LDC
    <<14, 176160768>>   \* 43: B -2^23
  >>

MCEncodings == 0..(Len(Code) - 1)

MCIns(w) == [cond |-> Code[w + 1][1], bits |-> Code[w + 1][2]]

\* The words at 20..39: an address with the T bit, one without, the bytes
\* 127, 127, 0, 127.
Data == <<53, 24, 268419199, 25, 8>>

\* MOV r0, #24; MOV r1, #0x81; first; second; no-operation; Data.
Listing(first, second) == <<1, 2, first, second, 38>> \o Data

\* As store_word lays it out: the program sees a big-endian memory.
Image(words) == [c \in 0..39 |-> (words[1 + (c \div 4)] \div 128^(3 - (c % 4))) % 128]

\* Any instruction, then one whose outcome depends on what came before.
MCPrograms ==
    {Image(Listing(p[1], p[2])) :
        p \in MCEncodings \X {5, 7, 10, 14, 15, 16, 18, 21, 22, 27, 29, 30, 32,
                                       35, 36, 39, 40}}

MCRegisterPokes == {<<8, 33>>, <<13, 40>>, <<14, 21>>, <<15, 10>>}

MCBytePokes == {<<11, 3>>, <<15, 9>>}

MCPoked == {<<15, 16>>, <<10, 17>>, <<36, 9>>, <<39, 21>>}

\* Bounds the steps that are not arm_step: they happen in these programs only, a
\* poke as the first step, a RESET first or after three instructions.
FewPokes ==
    cycle_count' = cycle_count =>
        /\ <<mem[11], mem[15]>> \in Poked
        /\ (r = arm_create \/ (cycle_count = 3 /\ mem' = mem /\ r'[15] = 0))
================================================================================
