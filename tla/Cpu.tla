----------------------------------- MODULE Cpu ---------------------------------
(***************************************************************************)
(* The simulated machine: register file, memory and cycle counter, driven  *)
(* by arm_step (one action per handler of arm_execute_instruction), by the *)
(* interrupts irq_listener takes in between, and by the debugger's writes. *)
(***************************************************************************)
EXTENDS Core

CONSTANTS Junk,         \* what uninitialised variables may hold
          Programs,     \* the contents of the memory when the simulation starts
          Interrupts,   \* the bytes send_irq sends
          RegisterPokes,    \* what the debugger writes: <<register, word>>,
          CpsrPokes,        \* words for CPSR,
          BytePokes,        \* <<cell, byte>>
          MaxCycles     \* bound on cycle_count

ASSUME CpuAssumption ==
    /\ ByteBits \in 4..8     \* the mode, mask and flag bits of CPSR do not meet
    /\ MemSize \in Word       \* arm_create puts it into sp
    /\ HostBigEndian \in BOOLEAN
    /\ Junk # {} /\ Junk \subseteq Word
    /\ Programs \subseteq [Cells -> Byte]
    /\ \A p \in RegisterPokes : p[1] \in Reg /\ p[2] \in Word
    /\ CpsrPokes \subseteq Word
    /\ \A p \in BytePokes : p[1] \in Cells /\ p[2] \in Byte
    /\ Encodings \subseteq Word
    /\ \A w \in Encodings : Ins(w).cond \in 0..15 /\ Ins(w).bits \in 0..(2^28 - 1)

VARIABLES r, mem, cycle_count,
          result     \* what the last arm_step returned

vars == <<r, mem, cycle_count, result>>

\* The registers after RESET, with sp of SVC mode at the end of the memory.
arm_create ==
    arm_write_register(arm_exception([s \in Slots |-> 0], <<>>, RESET, 0).r, 13, MemSize)

Init ==
    /\ r = arm_create
    /\ mem \in Programs
    /\ cycle_count = 0
    /\ result = 0

--------------------------------------------------------------------------------
PC == registers_read(r, 15, Mode(r))

\* arm_fetch increments the PC and the cycle counter even if the read fails.
AfterFetch == registers_write(r, 15, Mode(r), Wrap(PC + 4))

Instruction(junk) == Decode(Load(mem, PC, 4, junk))

\* The tail of arm_step: a result that is not 0 goes through arm_exception.
Return(outcome, junk) ==
    LET final == IF outcome.result = 0 THEN outcome
                 ELSE arm_exception(outcome.r, outcome.mem, outcome.result, junk)
    IN  /\ r' = final.r
        /\ mem' = final.mem
        /\ result' = final.result
        /\ cycle_count' = cycle_count + 1

FetchFails ==
    /\ ~ Succeeds(PC)
    /\ \E junk \in Junk : Return(Outcome(AfterFetch, mem, Minus1), junk)

Fetches(i) ==
    /\ Succeeds(PC)
    /\ arm_condition(registers_read_cpsr(AfterFetch), i.cond)

Skip(junk) ==
    /\ Succeeds(PC)
    /\ ~ arm_condition(registers_read_cpsr(AfterFetch), Instruction(junk).cond)
    /\ Return(Outcome(AfterFetch, mem, 0), junk)

Miscellaneous(i, junk) ==
    Class(i) = "miscellaneous" /\ Return(arm_miscellaneous(AfterFetch, mem, i), junk)

DataProcessingShift(i, junk) ==
    /\ Class(i) = "data_processing_shift"
    /\ Return(arm_data_processing_shift(AfterFetch, mem, i), junk)

DataProcessingImmediate(i, junk) ==
    /\ Class(i) = "data_processing_immediate"
    /\ Return(arm_data_processing_immediate_msr(AfterFetch, mem, i), junk)

LoadStore(i, junk) ==
    Class(i) = "load_store" /\ Return(arm_load_store(AfterFetch, mem, i, junk), junk)

LoadStoreMultiple(i, junk) ==
    /\ Class(i) = "load_store_multiple"
    /\ Return(arm_load_store_multiple(AfterFetch, mem, i, junk), junk)

Branch(i, junk) ==
    Class(i) = "branch" /\ Return(arm_branch(AfterFetch, mem, i), junk)

CoprocessorLoadStore(i, junk) ==
    /\ Class(i) = "coprocessor_load_store"
    /\ Return(arm_coprocessor_load_store(AfterFetch, mem, i), junk)

SoftwareInterrupt(i, junk) ==
    Class(i) = "swi" /\ Return(arm_coprocessor_others_swi(AfterFetch, mem, i), junk)

Execute(i, junk) ==
    /\ Fetches(i)
    /\ \/ Miscellaneous(i, junk)
       \/ DataProcessingShift(i, junk)
       \/ DataProcessingImmediate(i, junk)
       \/ LoadStore(i, junk)
       \/ LoadStoreMultiple(i, junk)
       \/ Branch(i, junk)
       \/ CoprocessorLoadStore(i, junk)
       \/ SoftwareInterrupt(i, junk)

arm_step ==
    /\ cycle_count < MaxCycles
    /\ \/ FetchFails
       \/ \E junk \in Junk : Skip(junk) \/ Execute(Instruction(junk), junk)

\* irq_listener hands the byte it received to arm_exception and drops the result.
Interrupt ==
    /\ \E e \in Interrupts, junk \in Junk : r' = arm_exception(r, mem, e, junk).r
    /\ UNCHANGED <<mem, cycle_count, result>>

\* The debugger's P, G and X packets.
PokeRegister ==
    /\ \E p \in RegisterPokes : r' = arm_write_register(r, p[1], p[2])
    /\ UNCHANGED <<mem, cycle_count, result>>

PokeCpsr ==
    /\ \E w \in CpsrPokes : r' = registers_write_cpsr(r, w)
    /\ UNCHANGED <<mem, cycle_count, result>>

PokeByte ==
    /\ \E p \in BytePokes : mem' = Store(mem, p[1], 1, p[2])
    /\ UNCHANGED <<r, cycle_count, result>>

Next == arm_step \/ Interrupt \/ PokeRegister \/ PokeCpsr \/ PokeByte

Spec == Init /\ [][Next]_vars

--------------------------------------------------------------------------------
\* Both arrays keep their shape and every cell its width.
TypeOK ==
    /\ r \in [Slots -> Word]
    /\ mem \in [Cells -> Byte]
    /\ result \in 0..255

\* Nothing ever fills an SPSR: arm_write_spsr has no caller.  What an exception
\* return (a flag-setting write to the PC, or LDM with the PC) puts into CPSR is 0.
SpsrsAreZero == \A m \in SpsrModes : registers_read_spsr(r, m) = 0

\* The registers the current mode reaches.
Reached(f) == {Slot(reg, Mode(f)) : reg \in Reg}

\* A step, an interrupt or a debugger's write changes no general register of
\* another mode than the one it started in, and no SPSR.
OwnBankOnly ==
    [][\A s \in Slots \ {CpsrSlot} : r'[s] # r[s] => s \in Reached(r)]_vars

Steps == cycle_count' # cycle_count

\* A step that reports an undefined or unpredictable instruction, or a failed
\* fetch, has not touched the memory.
FailureKeepsMemory ==
    [][Steps /\ result' \in {UNDEFINED_INSTRUCTION, Minus1} => mem' = mem]_vars

\* The mode, mask and state bits of CPSR change only by RESET, by the debugger, by
\* an LDM of the PC and by a flag-setting write to the PC: updating flags leaves
\* them alone.
ControlBits(f) == registers_read_cpsr(f) % 2^(W - 4)

LoadsPC(i) == InsType(i) = 4 /\ On(i, 20) /\ On(i, 15)
ReturnsFromException(i) == InsType(i) \in {0, 1} /\ On(i, 20) /\ Rd(i) = 15

ControlBitsKept ==
    [][Steps /\ ControlBits(r') # ControlBits(r) =>
           \E junk \in Junk : LoadsPC(Instruction(junk))
                              \/ ReturnsFromException(Instruction(junk))]_vars

\* An SWI at an aligned address is served by its own number, read again from memory:
\* it ends the simulation exactly for 0x123456 and is silent exactly for 1.
SwiServesItsOwnNumber ==
    [][Steps /\ PC % 4 = 0 =>
           \E junk \in Junk :
               LET i == Instruction(junk)
               IN  Fetches(i) /\ Class(i) = "swi" =>
                       /\ (result' = END_SIMULATION) <=> (i.bits % 2^24 = 1193046)
                       /\ (result' = 0) <=> (i.bits % 2^24 = 1)]_vars

\* Encodings of STMDB sp!, {list} and LDMIA sp!, {list}; list is a 16-bit mask.
PushOf(list) == [cond |-> 14, bits |-> 153944064 + list]     \* 0x92D0000
PopOf(list)  == [cond |-> 14, bits |-> 146604032 + list]     \* 0x8BD0000

\* Pushing any registers but sp and pc, and popping them, restores every register
\* and the stack pointer, in every mode, wherever the stack has room.
PushPop ==
    \A list \in {16386, 17151} :
        LET push == arm_load_store_multiple(r, mem, PushOf(list), 0)
            pop  == arm_load_store_multiple(push.r, push.mem, PopOf(list), 0)
            sp   == arm_read_register(r, 13)
        IN  sp <= MemSize /\ sp >= 4 * Number_of_Set_Bits_In(PushOf(list)) =>
                pop.r = r

BLOf(offset) == [cond |-> 14, bits |-> 184549376 + offset]   \* 0xB000000
MovPcLr == [cond |-> 14, bits |-> 27324430]                  \* 0x1A0F00E

SignedOffset(offset) == IF offset < 2^23 THEN offset ELSE offset - 2^24

\* BL lands the signed offset, in words, past what the PC reads as (the second
\* instruction after the BL, says arm_branch), and MOV pc, lr at the other end
\* resumes after the BL.  r15 already points there in the handlers.
LandsAndReturns(offset) ==
    LET call == arm_branch(r, mem, BLOf(offset))
        back == arm_data_processing_shift(call.r, mem, MovPcLr)
    IN  /\ registers_read(call.r, 15, Mode(call.r)) = Wrap(PC + 4 + 4 * SignedOffset(offset))
        /\ registers_read(back.r, 15, Mode(back.r)) = PC

\* From an aligned address, for the offsets that sign_extend_30 leaves alone:
\* forwards any, backwards down to -2^22 words.
BranchesLand ==
    PC % 4 = 0 =>
        \A offset \in {0, 1, 2^23 - 1, 2^24 - 2^22, 2^24 - 3} : LandsAndReturns(offset)

\* The comment of sign_extend_30: a negative 24-bit number is sign-extended.  So
\* every branch a program takes lands its signed offset past what the PC reads as.
BranchesSignExtend ==
    [][Steps /\ PC % 4 = 0 =>
           \A junk \in Junk :
               LET i == Instruction(junk)
               IN  Fetches(i) /\ Class(i) = "branch" =>
                       PC' = Wrap(PC + 8 + 4 * SignedOffset(i.bits % 2^24))]_vars
================================================================================
