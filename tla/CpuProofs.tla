-------------------------------- MODULE CpuProofs ------------------------------
(***************************************************************************)
(* Proofs about Cpu, for every memory size, word size, encoding, program   *)
(* and content of uninitialised variables:                                 *)
(*  - whatever a handler does to the registers, it does to CPSR and to the *)
(*    registers the current mode reaches, and never to an SPSR;            *)
(*  - it leaves words in the registers and bytes in the memory;            *)
(*  - the flags are updated without the control bits of CPSR;              *)
(*  - an SWI reads its own number again;                                   *)
(*  - BL and MOV pc, lr, and STM and LDM, undo each other.                 *)
(***************************************************************************)
EXTENDS Cpu, WordsProofs

USE DEF USR, FIQ, IRQ, SVC, ABT, UND, SYS, Reg, Slots, CpsrSlot, SpsrModes

IsArray(f) == f = [s \in Slots |-> f[s]]

\* From f to g, only CPSR and the registers reached from f's mode may differ.
Touches(f, g) ==
    /\ IsArray(g)
    /\ \A s \in Slots \ {CpsrSlot} : g[s] # f[s] => s \in Reached(f)

\* And CPSR does not either, so that the mode is the same.
Keeps(f, g) == Touches(f, g) /\ g[CpsrSlot] = f[CpsrSlot]

--------------------------------------------------------------------------------
\* Every register of every mode, the undefined modes included, is below CPSR.
LEMMA SlotBelowCpsr ==
    ASSUME NEW mode, NEW reg \in Reg
    PROVE  Slot(reg, mode) \in 0..30
BY DEF Slot, BankOffset

\* The SPSRs have slots of their own, beyond CPSR.
LEMMA SpsrBeyondCpsr == \A m \in SpsrModes : SpsrSlot(m) \in 32..36
<1>1. /\ SpsrSlot(17) = 36
      /\ SpsrSlot(18) = 35
      /\ SpsrSlot(19) = 32
      /\ SpsrSlot(23) = 33
      /\ SpsrSlot(27) = 34
  BY DEF SpsrSlot
<1> QED
  BY <1>1

\* The PC has one slot.
LEMMA PCSlot == \A mode : Slot(15, mode) = 15
<1>1. 15 \notin 8..12 /\ 15 \notin 13..14
  OBVIOUS
<1> QED
  BY <1>1, Zenon DEF Slot

\* A register write of the current mode.
LEMMA WriteKeeps ==
    ASSUME NEW f, IsArray(f), NEW reg \in Reg, NEW v
    PROVE  Keeps(f, arm_write_register(f, reg, v))
<1>1. Slot(reg, Mode(f)) \in 0..30 /\ Slot(reg, Mode(f)) \in Reached(f)
  BY SlotBelowCpsr DEF Reached
<1>2. arm_write_register(f, reg, v) = [f EXCEPT ![Slot(reg, Mode(f))] = v]
  BY DEF arm_write_register, registers_write
<1> DEFINE g == arm_write_register(f, reg, v)
           k == Slot(reg, Mode(f))
<1>3. k \in Reached(f) /\ CpsrSlot # k
  BY <1>1 DEF CpsrSlot
<1>4. g = [f EXCEPT ![k] = v] /\ f = [s \in Slots |-> f[s]]
  BY <1>2 DEF IsArray
<1> HIDE DEF g, k
<1>5. g = [s \in Slots |-> IF s = k THEN v ELSE f[s]]
  BY <1>4
<1>6. \A s \in Slots : g[s] = IF s = k THEN v ELSE f[s]
  BY <1>5
<1>7. g = [s \in Slots |-> g[s]]
  BY <1>5
<1>8. CpsrSlot \in Slots
  BY DEF CpsrSlot, Slots
<1>9. Keeps(f, g)
  BY <1>3, <1>6, <1>7, <1>8 DEF Keeps, Touches, IsArray
<1> QED
  BY <1>9 DEF g

\* A write of CPSR touches nothing else.
LEMMA WriteCpsrTouches ==
    ASSUME NEW f, IsArray(f), NEW v
    PROVE  Touches(f, registers_write_cpsr(f, v))
BY DEF Touches, IsArray, registers_write_cpsr

LEMMA KeepsItself ==
    ASSUME NEW f, IsArray(f)
    PROVE  Keeps(f, f)
BY DEF Keeps, Touches

\* Steps chain as long as the mode stays.
LEMMA KeepsThenTouches ==
    ASSUME NEW f, NEW g, NEW h, Keeps(f, g), Touches(g, h)
    PROVE  Touches(f, h)
<1>1. Reached(g) = Reached(f)
  BY DEF Keeps, Reached, Mode, registers_get_mode
<1> QED
  BY <1>1 DEF Keeps, Touches

LEMMA KeepsThenKeeps ==
    ASSUME NEW f, NEW g, NEW h, Keeps(f, g), Keeps(g, h)
    PROVE  Keeps(f, h)
BY KeepsThenTouches DEF Keeps

\* The register fields of an instruction name registers.
LEMMA FieldsAreRegisters ==
    ASSUME NEW i, i.bits \in Nat
    PROVE  Rn(i) \in Reg /\ Rd(i) \in Reg
BY DEF Rn, Rd

--------------------------------------------------------------------------------
(* One lemma per handler.                                                  *)

LEMMA DataProcessingTouches ==
    ASSUME NEW f, IsArray(f), NEW m, NEW i, i.bits \in Nat, NEW operand
    PROVE  Touches(f, DataProcessing(f, m, i, operand).r)
<1> DEFINE g(v) == arm_write_register(f, Rd(i), v)
<1>1. \A v : Keeps(f, g(v))
  BY WriteKeeps, FieldsAreRegisters
<1>2. \A v : Touches(f, g(v)) /\ IsArray(g(v))
  BY <1>1 DEF Keeps, Touches
<1>3. \A v, w : Touches(f, registers_write_cpsr(g(v), w))
  BY <1>1, <1>2, WriteCpsrTouches, KeepsThenTouches
<1>4. \A w : Touches(f, registers_write_cpsr(f, w))
  BY WriteCpsrTouches
<1> HIDE DEF g
<1> QED
  BY <1>2, <1>3, <1>4 DEF DataProcessing, Outcome, g

LEMMA BranchKeeps ==
    ASSUME NEW f, IsArray(f), NEW m, NEW i
    PROVE  Keeps(f, arm_branch(f, m, i).r)
<1> DEFINE g(v) == IF On(i, 24) THEN arm_write_register(f, 14, v) ELSE f
<1>1. \A v : Keeps(f, g(v)) /\ IsArray(g(v))
  BY WriteKeeps, KeepsItself DEF Keeps, Touches
<1>2. \A v, w : Keeps(f, arm_write_register(g(v), 15, w))
  <2> TAKE v, w
  <2> HIDE DEF g
  <2>1. Keeps(g(v), arm_write_register(g(v), 15, w))
    BY <1>1, WriteKeeps
  <2> QED
    BY <1>1, <2>1, KeepsThenKeeps
<1> QED
  BY <1>2 DEF arm_branch, Outcome

LEMMA SwiKeeps ==
    ASSUME NEW f, IsArray(f), NEW m, NEW i
    PROVE  Keeps(f, arm_coprocessor_others_swi(f, m, i).r)
BY WriteKeeps DEF arm_coprocessor_others_swi, Outcome

LEMMA MiscellaneousKeeps ==
    ASSUME NEW f, IsArray(f), NEW m, NEW i, i.bits \in Nat
    PROVE  Keeps(f, arm_miscellaneous(f, m, i).r)
BY WriteKeeps, KeepsItself, FieldsAreRegisters DEF arm_miscellaneous, Outcome

LEMMA IndexedKeeps ==
    ASSUME NEW f, IsArray(f), NEW i, i.bits \in Nat, NEW offset
    PROVE  Keeps(f, Indexed(f, i, offset).r)
BY WriteKeeps, KeepsItself, FieldsAreRegisters DEF Indexed

LEMMA AddressesKeep ==
    ASSUME NEW f, IsArray(f), NEW i, i.bits \in Nat
    PROVE  Keeps(f, calculate_address(f, i).r) /\ Keeps(f, calculate_address_mode3(f, i).r)
BY IndexedKeeps, KeepsItself DEF calculate_address, calculate_address_mode3

LEMMA TransfersKeep ==
    ASSUME NEW f, IsArray(f), NEW m, NEW i, i.bits \in Nat, NEW address, NEW junk
    PROVE  /\ Keeps(f, TransferWordOrByte(f, m, i, address, junk).r)
           /\ Keeps(f, TransferExtra(f, m, i, address, junk).r)
<1>1. Keeps(f, f) /\ \A v : Keeps(f, arm_write_register(f, Rd(i), v))
  BY WriteKeeps, KeepsItself, FieldsAreRegisters
<1>2. Keeps(f, TransferWordOrByte(f, m, i, address, junk).r)
  BY <1>1 DEF TransferWordOrByte, Outcome
<1>3. Keeps(f, TransferExtra(f, m, i, address, junk).r)
  BY <1>1 DEF TransferExtra, Outcome
<1> QED
  BY <1>2, <1>3

LEMMA LoadStoreKeeps ==
    ASSUME NEW f, IsArray(f), NEW m, NEW i, i.bits \in Nat, NEW junk
    PROVE  Keeps(f, arm_load_store(f, m, i, junk).r)
<1> DEFINE two == calculate_address(f, i)
           three == calculate_address_mode3(two.r, i)
<1>1. Keeps(f, two.r) /\ IsArray(two.r)
  BY AddressesKeep DEF Keeps, Touches
<1>2. Keeps(two.r, three.r) /\ IsArray(three.r)
  <2>1. Keeps(two.r, three.r)
    BY <1>1, AddressesKeep
  <2> QED
    BY <2>1 DEF Keeps, Touches
<1>3. Keeps(f, three.r)
  BY <1>1, <1>2, KeepsThenKeeps
<1>4. Keeps(f, TransferWordOrByte(two.r, m, i, two.address, junk).r)
  BY <1>1, TransfersKeep, KeepsThenKeeps
<1>5. Keeps(f, TransferExtra(three.r, m, i, three.address, junk).r)
  BY <1>2, <1>3, TransfersKeep, KeepsThenKeeps
<1> HIDE DEF two, three
<1> QED
  BY <1>1, <1>4, <1>5 DEF arm_load_store, Outcome, two, three

LEMMA LoadedRegistersKeep ==
    ASSUME NEW f, IsArray(f), NEW m, NEW start, NEW i, NEW junk
    PROVE  Keeps(f, LoadedRegisters(f, m, start, i, junk))
<1> DEFINE g == LoadedRegisters(f, m, start, i, junk)
<1>1. DOMAIN f = Slots
  BY DEF IsArray
<1>2. IsArray(g)
  BY <1>1 DEF LoadedRegisters, IsArray
<1>3. \A s \in Slots : g[s] # f[s] => \E k \in RegisterList(i) : Slot(k, Mode(f)) = s
  BY <1>1 DEF LoadedRegisters
<1>4. \A k \in RegisterList(i) : k \in Reg
  BY DEF RegisterList
<1>5. \A s \in Slots : g[s] # f[s] => s \in Reached(f)
  BY <1>3, <1>4 DEF Reached
<1>6. CpsrSlot \notin Reached(f)
  BY SlotBelowCpsr DEF Reached
<1> HIDE DEF g
<1>7. Keeps(f, g)
  BY <1>2, <1>5, <1>6 DEF Keeps, Touches
<1> QED
  BY <1>7 DEF g

LEMMA LoadMultipleTouches ==
    ASSUME NEW f, IsArray(f), NEW m, NEW i, i.bits \in Nat, NEW junk
    PROVE  /\ Keeps(f, addr_ls_multiple(f, i).r)
           /\ Touches(f, instruction_ldm1(f, m, i, junk))
<1> DEFINE a == addr_ls_multiple(f, i)
           g == LoadedRegisters(a.r, m, a.start, i, junk)
           h == arm_write_register(g, 15, clr_bit(WordOf(m, a.start, i, 15, junk), 0))
<1>1. Keeps(f, a.r) /\ IsArray(a.r)
  BY WriteKeeps, KeepsItself, FieldsAreRegisters DEF addr_ls_multiple, Keeps, Touches
<1> HIDE DEF a
<1>2. Keeps(a.r, g) /\ IsArray(g)
  BY <1>1, LoadedRegistersKeep DEF Keeps, Touches
<1>3. Keeps(f, g)
  BY <1>1, <1>2, KeepsThenKeeps
<1> HIDE DEF g
<1>4. Keeps(g, h) /\ IsArray(h)
  BY <1>2, WriteKeeps DEF Keeps, Touches
<1>5. Keeps(f, h)
  BY <1>3, <1>4, KeepsThenKeeps
<1> HIDE DEF h
<1>6. \A w : Touches(f, registers_write_cpsr(h, w))
  BY <1>4, <1>5, WriteCpsrTouches, KeepsThenTouches
<1>7. Touches(f, g)
  BY <1>3 DEF Keeps
<1> QED
  BY <1>1, <1>6, <1>7 DEF instruction_ldm1, a, g, h

LEMMA LoadStoreMultipleTouches ==
    ASSUME NEW f, IsArray(f), NEW m, NEW i, i.bits \in Nat, NEW junk
    PROVE  Touches(f, arm_load_store_multiple(f, m, i, junk).r)
BY LoadMultipleTouches, KeepsItself DEF arm_load_store_multiple, Outcome, Keeps

\* RESET writes the PC in its new mode: one slot whatever the mode.
LEMMA ExceptionTouches ==
    ASSUME NEW f, NEW g, Touches(f, g), NEW m, NEW exception, NEW junk
    PROVE  Touches(f, arm_exception(g, m, exception, junk).r)
<1> DEFINE h == registers_write_cpsr(g, ResetCpsr)
           k == arm_write_register(h, 15, 0)
<1>1. Touches(f, h) /\ IsArray(h)
  BY WriteCpsrTouches DEF Touches, registers_write_cpsr, IsArray
<1>2. k = [h EXCEPT ![15] = 0]
  BY PCSlot DEF arm_write_register, registers_write
<1>3. 15 \in Reached(f)
  BY PCSlot DEF Reached
<1> HIDE DEF h
<1>4. Touches(f, k)
  BY <1>1, <1>2, <1>3 DEF Touches, IsArray
<1> HIDE DEF k
<1> QED
  BY <1>4 DEF arm_exception, Outcome, h, k

--------------------------------------------------------------------------------
(* The steps of the machine.                                               *)

LEMMA AfterFetchKeeps ==
    ASSUME IsArray(r)
    PROVE  Keeps(r, AfterFetch) /\ IsArray(AfterFetch)
<1>1. Keeps(r, arm_write_register(r, 15, Wrap(PC + 4)))
  BY WriteKeeps
<1> QED
  BY <1>1 DEF AfterFetch, arm_write_register, Keeps, Touches

LEMMA ReturnTouches ==
    ASSUME NEW outcome, NEW junk, Touches(r, outcome.r), Return(outcome, junk)
    PROVE  Touches(r, r')
<1>1. Touches(r, arm_exception(outcome.r, outcome.mem, outcome.result, junk).r)
  BY ExceptionTouches
<1> QED
  BY <1>1 DEF Return

\* An instruction handler starts from the registers the fetch left.
LEMMA ExecuteTouches ==
    ASSUME NEW i, i.bits \in Nat, NEW junk, IsArray(r), Execute(i, junk)
    PROVE  Touches(r, r')
<1> DEFINE g == AfterFetch
<1>1. Keeps(r, g) /\ IsArray(g)
  BY AfterFetchKeeps
<1>2. \A h : Touches(g, h) => Touches(r, h)
  BY <1>1, KeepsThenTouches
<1> HIDE DEF g
<1>3. CASE Miscellaneous(i, junk)
  BY <1>1, <1>2, <1>3, MiscellaneousKeeps, ReturnTouches DEF Miscellaneous, Keeps, g
<1>4. CASE DataProcessingShift(i, junk)
  BY <1>1, <1>2, <1>4, DataProcessingTouches, ReturnTouches
     DEF DataProcessingShift, arm_data_processing_shift, g
<1>5. CASE DataProcessingImmediate(i, junk)
  BY <1>1, <1>2, <1>5, DataProcessingTouches, ReturnTouches
     DEF DataProcessingImmediate, arm_data_processing_immediate_msr, g
<1>6. CASE LoadStore(i, junk)
  BY <1>1, <1>2, <1>6, LoadStoreKeeps, ReturnTouches DEF LoadStore, Keeps, g
<1>7. CASE LoadStoreMultiple(i, junk)
  BY <1>1, <1>2, <1>7, LoadStoreMultipleTouches, ReturnTouches DEF LoadStoreMultiple, g
<1>8. CASE Branch(i, junk)
  BY <1>1, <1>2, <1>8, BranchKeeps, ReturnTouches DEF Branch, Keeps, g
<1>9. CASE CoprocessorLoadStore(i, junk)
  <2>1. Touches(r, arm_coprocessor_load_store(g, mem, i).r)
    BY <1>1 DEF arm_coprocessor_load_store, Outcome, Keeps
  <2> QED
    BY <1>9, <2>1, ReturnTouches DEF CoprocessorLoadStore, g
<1>10. CASE SoftwareInterrupt(i, junk)
  BY <1>1, <1>2, <1>10, SwiKeeps, ReturnTouches DEF SoftwareInterrupt, Keeps, g
<1> QED
  BY <1>3, <1>4, <1>5, <1>6, <1>7, <1>8, <1>9, <1>10 DEF Execute

LEMMA InstructionBits == \A junk : Instruction(junk).bits \in Nat
<1>1. \A w \in Encodings : Ins(w).bits \in Nat
  BY CpuAssumption
<1>2. \A w : Decode(w).bits \in Nat
  BY <1>1 DEF Decode
<1> QED
  BY <1>2 DEF Instruction

LEMMA NextTouches ==
    ASSUME IsArray(r), [Next]_vars
    PROVE  Touches(r, r')
<1>1. Touches(r, r) /\ Touches(r, AfterFetch)
  BY AfterFetchKeeps, KeepsItself DEF Keeps
<1>2. CASE FetchFails
  <2>1. PICK junk \in Junk : Return(Outcome(AfterFetch, mem, Minus1), junk)
    BY <1>2 DEF FetchFails
  <2>2. Touches(r, Outcome(AfterFetch, mem, Minus1).r)
    BY <1>1 DEF Outcome
  <2> QED
    BY <2>1, <2>2, ReturnTouches
<1>3. ASSUME NEW junk \in Junk, Skip(junk) PROVE Touches(r, r')
  <2>1. Touches(r, Outcome(AfterFetch, mem, 0).r)
    BY <1>1 DEF Outcome
  <2> QED
    BY <1>3, <2>1, ReturnTouches DEF Skip
<1>4. ASSUME NEW junk \in Junk, Execute(Instruction(junk), junk) PROVE Touches(r, r')
  BY <1>4, ExecuteTouches, InstructionBits
<1>5. CASE Interrupt
  <2>1. PICK e \in Interrupts, junk \in Junk : r' = arm_exception(r, mem, e, junk).r
    BY <1>5 DEF Interrupt
  <2> QED
    BY <1>1, <2>1, ExceptionTouches
<1>6. CASE PokeCpsr
  BY <1>6, WriteCpsrTouches DEF PokeCpsr
<1>7. CASE PokeByte
  BY <1>7, <1>1 DEF PokeByte
<1>8. CASE PokeRegister
  <2>1. PICK p \in RegisterPokes : r' = arm_write_register(r, p[1], p[2])
    BY <1>8 DEF PokeRegister
  <2> QED
    BY <2>1, CpuAssumption, WriteKeeps DEF Keeps
<1>9. CASE UNCHANGED vars
  BY <1>1, <1>9 DEF vars
<1> QED
  BY <1>2, <1>3, <1>4, <1>5, <1>6, <1>7, <1>8, <1>9 DEF Next, arm_step

--------------------------------------------------------------------------------
\* The register array keeps its shape and its SPSRs stay 0.
Inv == IsArray(r) /\ SpsrsAreZero

LEMMA InitInv == Init => Inv
<1> SUFFICES ASSUME Init PROVE Inv
  OBVIOUS
<1> DEFINE z == [s \in Slots |-> 0]
           g == arm_exception(z, <<>>, RESET, 0).r
<1>1. IsArray(z) /\ Touches(z, z)
  BY KeepsItself DEF IsArray, Keeps
<1> HIDE DEF z
<1>2. Touches(z, g) /\ IsArray(g)
  BY <1>1, ExceptionTouches DEF Touches
<1>3. g = [registers_write_cpsr(z, ResetCpsr) EXCEPT ![15] = 0]
  <2>1. g = arm_write_register(registers_write_cpsr(z, ResetCpsr), 15, 0)
    BY SMT DEF arm_exception, Outcome
  <2> QED
    BY <2>1, PCSlot DEF arm_write_register, registers_write
<1> HIDE DEF g
<1>4. Touches(g, r) /\ IsArray(r)
  <2>1. r = arm_write_register(g, 13, MemSize)
    BY DEF Init, arm_create, z, g
  <2>2. Keeps(g, arm_write_register(g, 13, MemSize))
    BY <1>2, WriteKeeps
  <2> QED
    BY <2>1, <2>2 DEF Keeps, Touches
<1>5. \A m \in SpsrModes : g[SpsrSlot(m)] = 0
  BY <1>3, SpsrBeyondCpsr DEF z, registers_write_cpsr
<1>6. \A m \in SpsrModes : SpsrSlot(m) \notin Reached(g)
  BY SlotBelowCpsr, SpsrBeyondCpsr DEF Reached
<1>7. \A m \in SpsrModes : r[SpsrSlot(m)] = 0
  BY <1>4, <1>5, <1>6, SpsrBeyondCpsr DEF Touches
<1> QED
  BY <1>4, <1>7 DEF Inv, SpsrsAreZero, registers_read_spsr

LEMMA NextInv == Inv /\ [Next]_vars => Inv'
<1> SUFFICES ASSUME Inv, [Next]_vars PROVE Inv'
  OBVIOUS
<1>1. Touches(r, r')
  BY NextTouches DEF Inv
<1>2. \A m \in SpsrModes : SpsrSlot(m) \notin Reached(r) \cup {CpsrSlot}
  BY SlotBelowCpsr, SpsrBeyondCpsr DEF Reached
<1>3. \A m \in SpsrModes : r'[SpsrSlot(m)] = 0
  BY <1>1, <1>2, SpsrBeyondCpsr DEF Touches, Inv, SpsrsAreZero, registers_read_spsr
<1> QED
  <2>1. IsArray(r)'
    BY <1>1 DEF Touches, IsArray
  <2>2. SpsrsAreZero'
    BY <1>3 DEF SpsrsAreZero, registers_read_spsr
  <2> QED
    BY <2>1, <2>2 DEF Inv

\* No instruction, interrupt or debugger's write ever fills an SPSR, so what an
\* exception return restores into CPSR is always 0, an undefined mode.
THEOREM SpsrsAreZeroAlways == Spec => []SpsrsAreZero
<1>1. Inv => SpsrsAreZero
  BY DEF Inv
<1> QED
  BY <1>1, InitInv, NextInv, PTL DEF Spec

\* Whatever the instruction, no general register of another mode changes.
THEOREM OwnBankOnlyAlways == Spec => OwnBankOnly
<1>1. Inv /\ [Next]_vars => [\A s \in Slots \ {CpsrSlot} : r'[s] # r[s] => s \in Reached(r)]_vars
  BY NextTouches DEF Inv, Touches
<1> QED
  BY <1>1, InitInv, NextInv, PTL DEF Spec, OwnBankOnly

--------------------------------------------------------------------------------
Failure == {UNDEFINED_INSTRUCTION, Minus1}

\* A handler that fails returns the memory it was given.
Clean(outcome, m) == outcome.result \in Failure => outcome.mem = m

LEMMA HandlersAreClean ==
    ASSUME NEW f, NEW m, NEW i, NEW junk
    PROVE  /\ Clean(arm_miscellaneous(f, m, i), m)
           /\ Clean(arm_data_processing_shift(f, m, i), m)
           /\ Clean(arm_data_processing_immediate_msr(f, m, i), m)
           /\ Clean(arm_load_store(f, m, i, junk), m)
           /\ Clean(arm_load_store_multiple(f, m, i, junk), m)
           /\ Clean(arm_branch(f, m, i), m)
           /\ Clean(arm_coprocessor_load_store(f, m, i), m)
           /\ Clean(arm_coprocessor_others_swi(f, m, i), m)
<1> USE DEF Outcome
<1>1. 0 \notin Failure
  BY DEF Failure, UNDEFINED_INSTRUCTION, Minus1
<1>2. \A g : Clean(Outcome(g, m, 0), m) /\ Clean(Outcome(g, m, UNDEFINED_INSTRUCTION), m)
  BY DEF Clean
<1>3. \A operand : Clean(DataProcessing(f, m, i, operand), m)
  BY <1>2 DEF DataProcessing, Clean
<1>4. \A g, n, address : Clean(TransferWordOrByte(g, m, i, address, n), m)
                        /\ Clean(TransferExtra(g, m, i, address, n), m)
  BY <1>1 DEF TransferWordOrByte, TransferExtra, Clean
<1>5. Clean(arm_load_store(f, m, i, junk), m)
  BY <1>2, <1>4 DEF arm_load_store, Clean
<1>6. Clean(arm_load_store_multiple(f, m, i, junk), m)
  BY <1>1 DEF arm_load_store_multiple, Clean
<1> QED
  BY <1>3, <1>5, <1>6 DEF arm_miscellaneous, arm_data_processing_shift,
     arm_data_processing_immediate_msr, arm_branch, arm_coprocessor_load_store,
     arm_coprocessor_others_swi, Clean

\* The exception handler turns no other result into a failure and stores nothing.
LEMMA ReturnIsClean ==
    ASSUME NEW outcome, NEW junk, Clean(outcome, mem), Return(outcome, junk)
    PROVE  result' \in Failure => mem' = mem
<1> DEFINE e == arm_exception(outcome.r, outcome.mem, outcome.result, junk)
<1> USE DEF Failure, UNDEFINED_INSTRUCTION, Minus1, RESET, SOFTWARE_INTERRUPT, END_SIMULATION
<1>1. e.mem = outcome.mem
  BY DEF arm_exception, Outcome
<1>2. CASE outcome.result = SOFTWARE_INTERRUPT
  <2>1. e.result \in {END_SIMULATION, 0, SOFTWARE_INTERRUPT}
    BY <1>2 DEF arm_exception, Outcome
  <2> QED
    BY <1>2, <2>1 DEF Return
<1>3. CASE outcome.result = RESET
  BY <1>3 DEF Return, arm_exception, Outcome
<1>4. CASE outcome.result \notin {RESET, SOFTWARE_INTERRUPT}
  <2>1. e.result = outcome.result
    BY <1>4 DEF arm_exception, Outcome
  <2> HIDE DEF e
  <2> QED
    BY <1>1, <2>1 DEF Return, Clean, e
<1> QED
  BY <1>2, <1>3, <1>4

\* A failed instruction, or a failed fetch, has left the memory as it was.
THEOREM FailureKeepsMemoryAlways == Spec => FailureKeepsMemory
<1>1. ASSUME [Next]_vars
      PROVE  Steps /\ result' \in Failure => mem' = mem
  <2>1. CASE FetchFails
    <3>1. \A x : Clean(Outcome(AfterFetch, mem, x), mem)
      BY DEF Outcome, Clean
    <3> QED
      BY <2>1, <3>1, ReturnIsClean DEF FetchFails
  <2>2. ASSUME NEW junk \in Junk, Skip(junk) PROVE result' \in Failure => mem' = mem
    <3>1. Clean(Outcome(AfterFetch, mem, 0), mem)
      BY DEF Outcome, Clean
    <3> QED
      BY <2>2, <3>1, ReturnIsClean DEF Skip
  <2>3. ASSUME NEW junk \in Junk, Execute(Instruction(junk), junk)
        PROVE  result' \in Failure => mem' = mem
    BY <2>3, HandlersAreClean, ReturnIsClean
       DEF Execute, Miscellaneous, DataProcessingShift, DataProcessingImmediate, LoadStore,
           LoadStoreMultiple, Branch, CoprocessorLoadStore, SoftwareInterrupt
  <2>4. CASE Interrupt \/ PokeRegister \/ PokeCpsr \/ PokeByte \/ UNCHANGED vars
    BY <2>4 DEF Interrupt, PokeRegister, PokeCpsr, PokeByte, vars, Steps
  <2> QED
    BY <1>1, <2>1, <2>2, <2>3, <2>4 DEF Next, arm_step
<1> QED
  BY <1>1, PTL DEF Spec, FailureKeepsMemory, Failure
--------------------------------------------------------------------------------
(* Types.  Every handler, given words, leaves words in the registers and   *)
(* bytes in the memory, and returns one of four values.                    *)

RegistersOK(f) == f \in [Slots -> Word]
MemoryOK(m) == m \in [Cells -> Byte]

Results == {0, UNDEFINED_INSTRUCTION, SOFTWARE_INTERRUPT, Minus1}

Sound(outcome) ==
    /\ RegistersOK(outcome.r)
    /\ MemoryOK(outcome.mem)
    /\ outcome.result \in Results

InstructionOK(i) == i.bits \in Nat

\* A power of two from two others whose exponents add up to its own.
LEMMA PowerFrom ==
    ASSUME NEW a \in Nat, NEW b \in Nat, NEW p \in Nat, NEW q \in Nat,
           2^a = p, 2^b = q, NEW n, n = a + b
    PROVE  2^n = p * q
<1>1. 2^(a + b) = 2^a * 2^b
  BY PowerOfSum
<1> QED
  BY <1>1

\* The powers that the encodings are made of.
LEMMA SmallPowers == 2^1 = 2 /\ 2^2 = 4 /\ 2^4 = 16 /\ 2^5 = 32 /\ 2^8 = 256
<1>1. 2^1 = 2
  <2>1. 2^(0 + 1) = 2 * 2^0
    BY PowerOfNext
  <2> QED
    BY <2>1, PowerOfZero
<1>2. 2^2 = 4
  BY <1>1, PowerFrom
<1>3. 2^4 = 16
  BY <1>2, PowerFrom
<1>4. 2^5 = 32
  BY <1>1, <1>3, PowerFrom
<1>5. 2^8 = 256
  BY <1>3, PowerFrom
<1> QED
  BY <1>1, <1>2, <1>3, <1>4, <1>5

LEMMA Power16 == 2^16 = 65536
BY SmallPowers, PowerFrom

LEMMA Power24 == 2^24 = 16777216
BY SmallPowers, Power16, PowerFrom

LEMMA Power28 == 2^28 = 268435456
BY SmallPowers, Power24, PowerFrom

\* A word has at least sixteen bits and a byte four: the mode, the masks and the flags
\* fit.
LEMMA CpuWidths == ByteBits \in Nat /\ ByteBits >= 4 /\ W \in Nat /\ W >= 16
BY CpuAssumption, WordSizes DEF W

LEMMA ManyWords == 2^W >= 65536
<1> DEFINE p == 2^W
           q == 2^16
<1>1. q <= p
  BY CpuWidths, PowerIsMonotonic
<1>2. q = 65536
  BY Power16
<1>3. p \in Nat
  BY WordSizes
<1> HIDE DEF p, q
<1>4. p >= 65536
  BY <1>1, <1>2, <1>3
<1> QED
  BY <1>4 DEF p

\* Addresses of vectors, mode bits and bytes are words.
LEMMA SmallWords == \A q \in 0..511 : q \in Word
<1> DEFINE p == 2^W
<1>1. p \in Nat /\ p >= 65536
  BY ManyWords, WordSizes
<1> HIDE DEF p
<1>2. \A q \in 0..511 : q \in 0..(p - 1)
  BY <1>1
<1> QED
  BY <1>2 DEF p, Word

LEMMA ZeroIsWord == 0 \in Word
BY SmallWords

LEMMA AllOnesAreWord == 2^W - 1 \in Word
<1> DEFINE p == 2^W
<1>1. p \in Nat \ {0}
  BY WordSizes
<1> HIDE DEF p
<1>2. p - 1 \in 0..(p - 1)
  BY <1>1
<1> QED
  BY <1>2 DEF p, Word

LEMMA LowOnesAreWord == 2^ByteBits - 1 \in Word
<1> DEFINE p == 2^W
           q == 2^ByteBits
<1>1. p \in Nat \ {0} /\ q \in Nat \ {0} /\ q <= p
  BY WordSizes
<1> HIDE DEF p, q
<1>2. q - 1 \in 0..(p - 1)
  BY <1>1
<1> QED
  BY <1>2 DEF p, q, Word

LEMMA RegisterTypes ==
    ASSUME NEW f, RegistersOK(f), NEW reg \in Reg
    PROVE  /\ IsArray(f)
           /\ Slot(reg, Mode(f)) \in 0..30
           /\ f[Slot(reg, Mode(f))] \in Word
           /\ f[CpsrSlot] \in Word
           /\ arm_read_register(f, reg) \in Word
           /\ \A v \in Word : /\ RegistersOK(arm_write_register(f, reg, v))
                              /\ RegistersOK(registers_write_cpsr(f, v))
<1>1. IsArray(f) /\ f[CpsrSlot] \in Word
  BY DEF IsArray, RegistersOK
<1>2. Slot(reg, Mode(f)) \in 0..30
  BY SlotBelowCpsr
<1>3. f[Slot(reg, Mode(f))] \in Word
  BY <1>2 DEF RegistersOK
<1>4. arm_read_register(f, reg) \in Word
  <2> DEFINE v == f[Slot(reg, Mode(f))]
  <2>0. v \in Word
    BY <1>3
  <2> HIDE DEF v
  <2>1. v + 4 \in Int
    BY <2>0, WordsAreIntegers
  <2>2. Wrap(v + 4) \in Word /\ 1 \in 0..Top
    BY <2>1, WrapIsWord, WordSizes
  <2>3. clr_bit(Wrap(v + 4), 1) \in Word
    BY <2>2, SetBitOfWord
  <2> QED
    BY <2>0, <2>3 DEF arm_read_register, registers_read, v
<1>5. \A v \in Word : /\ RegistersOK(arm_write_register(f, reg, v))
                      /\ RegistersOK(registers_write_cpsr(f, v))
  BY <1>2 DEF RegistersOK, arm_write_register, registers_write, registers_write_cpsr
<1> QED
  BY <1>1, <1>2, <1>3, <1>4, <1>5

LEMMA SpsrType ==
    ASSUME NEW f, RegistersOK(f)
    PROVE  arm_read_spsr(f) \in Word
<1>1. 0 \in Word
  BY ZeroIsWord
<1>2. \A m \in SpsrModes : f[SpsrSlot(m)] \in Word
  BY SpsrBeyondCpsr DEF RegistersOK
<1> QED
  BY <1>1, <1>2 DEF arm_read_spsr, registers_read_spsr

\* The fields that number registers.
LEMMA FieldTypes ==
    ASSUME NEW i, InstructionOK(i)
    PROVE  /\ i.bits \in Nat
           /\ Rn(i) \in Reg /\ Rd(i) \in Reg /\ Rs(i) \in Reg /\ Rm(i) \in Reg
           /\ Opcode(i) \in Opcodes
BY DEF InstructionOK, Rn, Rd, Rs, Rm, Opcode, Opcodes

LEMMA FlagIsBit ==
    ASSUME NEW cpsr \in Word, NEW name
    PROVE  Flag(cpsr, "C") \in {0, 1}
<1>1. W - 3 \in Nat /\ cpsr \in Int
  BY WordSizes, WordsAreIntegers
<1> QED
  BY <1>1, BitType DEF Flag

LEMMA AluOutIsWord ==
    ASSUME NEW op \in Opcodes, NEW rn \in Word, NEW so \in Word, NEW c \in {0, 1}
    PROVE  AluOut(op, rn, so, c) \in Word
<1> USE DEF Logical, AND, EOR, SUB, RSB, ADD, ADC, SBC, RSC, TST, TEQ, CMP, CMN, ORR, MOV, BIC, MVN
<1>1. CASE op \in Logical
  <2>1. Not(so) \in Word
    BY BitwiseOfWords
  <2>2. /\ And(rn, so) \in Word /\ Xor(rn, so) \in Word /\ Or(rn, so) \in Word
        /\ And(rn, Not(so)) \in Word
    BY <2>1, BitwiseOfWords
  <2>3. LogicalOut(op, rn, so) \in Word
    BY <1>1, <2>1, <2>2 DEF LogicalOut
  <2> QED
    BY <1>1, <2>3 DEF AluOut
<1>2. CASE op \notin Logical
  <2>1. rn \in Int /\ so \in Int
    BY WordsAreIntegers
  <2>2. /\ rn - so \in Int /\ so - rn \in Int /\ rn + so \in Int /\ rn + so + c \in Int
        /\ rn - so - (1 - c) \in Int /\ so - rn - (1 - c) \in Int
    BY <2>1
  <2>3. /\ Wrap(rn - so) \in Word /\ Wrap(so - rn) \in Word /\ Wrap(rn + so) \in Word
        /\ Wrap(rn + so + c) \in Word /\ Wrap(rn - so - (1 - c)) \in Word
        /\ Wrap(so - rn - (1 - c)) \in Word
    BY <2>2, WrapIsWord
  <2>4. op \in {SUB, RSB, ADD, ADC, SBC, RSC, CMP, CMN}
    BY <1>2 DEF Opcodes
  <2>5. ArithmeticOut(op, rn, so, c) \in Word
    BY <2>3, <2>4 DEF ArithmeticOut
  <2> QED
    BY <1>2, <2>5 DEF AluOut
<1> QED
  BY <1>1, <1>2

--------------------------------------------------------------------------------
(* The shifter.                                                            *)

LEMMA ShiftByImmIsWord ==
    ASSUME NEW type \in ShiftTypes, NEW rm \in Word, NEW imm \in 0..Top, NEW c \in {0, 1}
    PROVE  ShiftByImm(type, rm, imm, c)[1] \in Word
<1>1. /\ Lsl(rm, imm) \in Word /\ Lsr(rm, imm) \in Word /\ ror(rm, imm) \in Word
      /\ 0 \in Word /\ 2^ByteBits - 1 \in Word
  <2>1. imm \in Nat /\ imm \in 0..W
    BY WordSizes
  <2>2. Lsl(rm, imm) \in Word /\ Lsr(rm, imm) \in Word /\ ror(rm, imm) \in Word
    BY <2>1, ShiftsOfWords
  <2>3. 0 \in Word /\ 2^ByteBits - 1 \in Word
    BY ZeroIsWord, LowOnesAreWord
  <2> QED
    BY <2>2, <2>3
<1>2. c * 2^Top + Lsr(rm, 1) \in Word
  <2> DEFINE H == 2^Top
             q == rm \div 2
  <2>1. /\ H \in Nat \ {0} /\ Word = 0..(2 * H - 1) /\ rm \in Word
        /\ Lsr(rm, 1) = q
    BY WordSizes, SmallPowers DEF Word, Lsr
  <2> HIDE DEF H
  <2>2. q \in 0..(H - 1)
    BY <2>1
  <2>3. c * H = 0 \/ c * H = H
    BY <2>1
  <2> HIDE DEF q
  <2>4. c * H + q \in 0..(2 * H - 1)
    BY <2>1, <2>2, <2>3
  <2> QED
    BY <2>1, <2>4 DEF H
<1> QED
  BY <1>1, <1>2 DEF ShiftByImm, ShiftTypes, ShiftLslImm, ShiftLsrImm, ShiftAsrImm, ShiftRorImm

LEMMA ShiftByRegIsWord ==
    ASSUME NEW type \in ShiftTypes, NEW rm \in Word, NEW rs \in Word, NEW c
    PROVE  ShiftByReg(type, rm, rs, c)[1] \in Word
<1> DEFINE n == rs % 256
<1>1. n \in 0..255
  BY WordsAreIntegers
<1> HIDE DEF n
<1>2. n % W \in 0..Top
  <2>1. n \in Int /\ W \in Nat \ {0} /\ Top = W - 1
    BY <1>1, WordSizes
  <2> QED
    BY <2>1, Division
<1>3. /\ Lsr(rm, n) \in Word /\ ror(rm, n % W) \in Word
      /\ n \in 1..Top => Lsl(rm, n) \in Word
      /\ 0 \in Word /\ 2^W - 1 \in Word
  <2>1. n \in Nat /\ (n \in 1..Top => n \in 0..W)
    BY <1>1, WordSizes
  <2>2. Lsr(rm, n) \in Word /\ ror(rm, n % W) \in Word /\ (n \in 1..Top => Lsl(rm, n) \in Word)
    BY <1>2, <2>1, ShiftsOfWords
  <2>3. 0 \in Word /\ 2^W - 1 \in Word
    BY ZeroIsWord, AllOnesAreWord
  <2> QED
    BY <2>2, <2>3
<1>4. CASE type = "LSL"
  <2>1. ShiftLslReg(rm, n, c)[1] \in Word
    BY <1>1, <1>3 DEF ShiftLslReg
  <2> QED
    BY <1>4, <2>1 DEF ShiftByReg, n
<1>5. CASE type = "LSR"
  <2>1. ShiftLsrReg(rm, n, c)[1] \in Word
    BY <1>1, <1>3 DEF ShiftLsrReg
  <2> QED
    BY <1>5, <2>1 DEF ShiftByReg, n
<1>6. CASE type = "ASR"
  <2>1. ShiftAsrReg(rm, n, c)[1] \in Word
    BY <1>1, <1>3 DEF ShiftAsrReg
  <2> QED
    BY <1>6, <2>1 DEF ShiftByReg, n
<1>7. CASE type = "ROR"
  <2>1. ShiftRorReg(rm, n, c)[1] \in Word
    BY <1>1, <1>3 DEF ShiftRorReg
  <2> QED
    BY <1>7, <2>1 DEF ShiftByReg, n
<1> QED
  BY <1>4, <1>5, <1>6, <1>7 DEF ShiftTypes

LEMMA OperandsAreWords ==
    ASSUME NEW f, RegistersOK(f), NEW i, InstructionOK(i)
    PROVE  ShiftedOperand(f, i)[1] \in Word /\ RotatedOperand(f, i)[1] \in Word
<1> DEFINE type == <<"LSL", "LSR", "ASR", "ROR">>[1 + ((i.bits \div 32) % 4)]
           imm == ((i.bits \div 128) % 32) % W
           c == Flag(registers_read_cpsr(f), "C")
<1>1. type \in ShiftTypes
  <2>1. 1 + ((i.bits \div 32) % 4) \in 1..4
    BY DEF InstructionOK
  <2> QED
    BY <2>1 DEF ShiftTypes
<1>2. imm \in 0..Top
  <2>1. (i.bits \div 128) % 32 \in Int /\ W \in Nat \ {0} /\ Top = W - 1
    BY WordSizes DEF InstructionOK
  <2> QED
    BY <2>1, Division
<1>3. c \in {0, 1}
  BY FlagIsBit DEF RegistersOK, registers_read_cpsr
<1>4. arm_read_register(f, Rm(i)) \in Word /\ arm_read_register(f, Rs(i)) \in Word
  BY RegisterTypes, FieldTypes
<1>5. ShiftedOperand(f, i)[1] \in Word
  <2> HIDE DEF type, imm, c
  <2>1. /\ ShiftByReg(type, arm_read_register(f, Rm(i)), arm_read_register(f, Rs(i)), c)[1] \in Word
        /\ ShiftByImm(type, arm_read_register(f, Rm(i)), imm, c)[1] \in Word
    BY <1>1, <1>2, <1>3, <1>4, ShiftByRegIsWord, ShiftByImmIsWord
  <2> QED
    BY <2>1 DEF ShiftedOperand, type, imm, c
<1>6. RotatedOperand(f, i)[1] \in Word
  <2> DEFINE n == (2 * Rs(i)) % W
  <2>1. i.bits % 256 \in Word
    <3> DEFINE b == i.bits
               q == b % 256
    <3>1. b \in Nat
      BY DEF InstructionOK
    <3> HIDE DEF b
    <3>2. q \in 0..255
      BY <3>1
    <3> HIDE DEF q, type, imm, c, n
    <3>3. q \in Word
      BY <3>2, SmallWords
    <3> QED
      BY <3>3 DEF q, b
  <2>2. n \in 0..Top
    <3>1. 2 * Rs(i) \in Int /\ W \in Nat \ {0} /\ Top = W - 1
      BY FieldTypes, WordSizes
    <3> QED
      BY <3>1, Division
  <2> HIDE DEF n
  <2>3. ror(i.bits % 256, n) \in Word
    BY <2>1, <2>2, ShiftsOfWords
  <2> QED
    BY <2>3 DEF RotatedOperand, ImmediateOperand, n
<1> QED
  BY <1>5, <1>6

--------------------------------------------------------------------------------
(* Flags: a word again, with the control bits that were there.             *)

Control(w) == w % 2^(W - 4)

LEMMA WriteFlagKeepsControl ==
    ASSUME NEW x \in Word, NEW i \in (W - 4)..Top, NEW set
    PROVE  WriteFlag(x, i, set) \in Word /\ Control(WriteFlag(x, i, set)) = Control(x)
<1> DEFINE M == 2^(W - 4)
           k == i - (W - 4)
           K == 2^k
           L == 2^i
<1>1. /\ W - 4 \in Nat /\ k \in Nat /\ i = (W - 4) + k /\ i \in 0..Top /\ x \in Int
  BY WordSizes, WordsAreIntegers
<1>2. set_bit(x, i) \in Word /\ clr_bit(x, i) \in Word
  BY <1>1, SetBitOfWord
<1>3. L = M * K
  <2> HIDE DEF k
  <2> QED
    BY <1>1, PowerOfSum
<1>4. M \in Nat \ {0} /\ K \in Nat \ {0}
  BY <1>1, PowerIsPositive
<1> HIDE DEF k, K, M
<1>5. (x + L) % M = x % M
  <2> DEFINE y == x + L
  <2>1. y = x + M * K /\ K \in Int
    BY <1>3, <1>4
  <2> HIDE DEF y
  <2>2. y % M = x % M
    BY <1>1, <1>4, <2>1, AddMultiple
  <2> QED
    BY <2>2 DEF y
<1>6. (x - L) % M = x % M
  <2> DEFINE y == x - L
             n == 0 - K
  <2>1. n \in Int /\ M * n = 0 - M * K
    BY <1>4
  <2>2. M * K \in Int
    BY <1>4
  <2> HIDE DEF L, n
  <2>3. y = x + M * n
    BY <1>1, <1>3, <2>1, <2>2
  <2> HIDE DEF y
  <2>4. y % M = x % M
    BY <1>1, <1>4, <2>1, <2>3, AddMultiple
  <2> QED
    BY <2>4 DEF y, L
<1>7. set_bit(x, i) % M = x % M /\ clr_bit(x, i) % M = x % M
  BY <1>5, <1>6 DEF set_bit, clr_bit
<1> QED
  BY <1>2, <1>7 DEF WriteFlag, Control, M

LEMMA FlagsKeepControl ==
    ASSUME NEW op, NEW cpsr \in Word, NEW out, NEW rd, NEW rn, NEW so, NEW c, NEW sco
    PROVE  LET flags == Flags(op, cpsr, out, rd, rn, so, c, sco)
           IN  flags \in Word /\ Control(flags) = Control(cpsr)
<1> DEFINE carry == CarryOut(op, rn, so, c, sco)
           overflow == OverflowOut(op, rd, rn, so, c)
           n == WriteFlag(cpsr, W - 1, get_bit(out, Top) = 1)
           nz == WriteFlag(n, W - 2, out = 0)
           nzc == WriteFlag(nz, W - 3, carry)
           nzcv == WriteFlag(nzc, W - 4, overflow)
<1>1. /\ W - 1 \in (W - 4)..Top /\ W - 2 \in (W - 4)..Top /\ W - 3 \in (W - 4)..Top
      /\ W - 4 \in (W - 4)..Top
  BY WordSizes
<1>2. Flags(op, cpsr, out, rd, rn, so, c, sco) = IF op \in Logical THEN nzc ELSE nzcv
  BY DEF Flags
<1> HIDE DEF carry, overflow
<1>3. n \in Word /\ Control(n) = Control(cpsr)
  BY <1>1, WriteFlagKeepsControl
<1> HIDE DEF n
<1>4. nz \in Word /\ Control(nz) = Control(cpsr)
  BY <1>1, <1>3, WriteFlagKeepsControl
<1> HIDE DEF nz
<1>5. nzc \in Word /\ Control(nzc) = Control(cpsr)
  BY <1>1, <1>4, WriteFlagKeepsControl
<1> HIDE DEF nzc
<1>6. nzcv \in Word /\ Control(nzcv) = Control(cpsr)
  BY <1>1, <1>5, WriteFlagKeepsControl
<1> HIDE DEF nzcv
<1> QED
  BY <1>2, <1>5, <1>6

--------------------------------------------------------------------------------
(* Memory accesses.                                                        *)

\* The weights of the bytes of a word, half-word or byte.
LEMMA Weights ==
    ASSUME NEW k \in Nat, NEW i \in 0..(k - 1)
    PROVE  Weight(i, k) \in Nat \ {0}
<1> DEFINE n == ByteBits * (IF HostBigEndian THEN k - 1 - i ELSE i)
<1>1. n \in Nat
  BY WordSizes
<1> QED
  BY <1>1, PowerIsPositive DEF Weight

LEMMA BytesAreBytes ==
    ASSUME NEW w \in Int, NEW k \in Nat
    PROVE  ToBytes(w, k) \in [0..(k - 1) -> Byte]
<1>1. ASSUME NEW i \in 0..(k - 1) PROVE (w \div Weight(i, k)) % 2^ByteBits \in Byte
  <2> DEFINE q == w \div Weight(i, k)
             B == 2^ByteBits
  <2>1. q \in Int /\ B \in Nat \ {0} /\ Byte = 0..(B - 1)
    BY Weights, Division, WordSizes DEF Byte
  <2> HIDE DEF q, B
  <2>2. q % B \in 0..(B - 1)
    BY <2>1, Division
  <2> QED
    BY <2>1, <2>2 DEF q, B
<1> QED
  BY <1>1 DEF ToBytes

\* The sum FromBytes computes, one byte at a time.
LEMMA Sums ==
    ASSUME NEW k \in Nat, NEW v \in [0..(k - 1) -> Byte]
    PROVE  \E sum \in [0..k -> Int] :
               /\ FromBytes(v, k) = sum[k]
               /\ sum[0] = 0
               /\ \A n \in 0..(k - 1) : sum[n + 1] = sum[n] + v[n] * Weight(n, k)
<1> DEFINE Term(n) == v[n - 1] * Weight(n - 1, k)
           Step(f) == f = [n \in 0..k |-> IF n = 0 THEN 0 ELSE f[n - 1] + Term(n)]
           sum[n \in 0..k] == IF n = 0 THEN 0 ELSE sum[n - 1] + v[n - 1] * Weight(n - 1, k)
           G == [n \in 1..k |-> [x \in Int |-> x + Term(n)]]
<1>1. FromBytes(v, k) = sum[k]
  BY DEF FromBytes
<1>2. sum = CHOOSE f : Step(f)
  OBVIOUS
<1>3. \A n \in 1..k : Term(n) \in Int
  <2> TAKE n \in 1..k
  <2>1. n - 1 \in 0..(k - 1)
    OBVIOUS
  <2>2. v[n - 1] \in Int /\ Weight(n - 1, k) \in Int
    BY <2>1, Weights, WordSizes DEF Byte
  <2> QED
    BY <2>2
<1> HIDE DEF sum, Term
<1>4. PICK f \in [0..k -> Int] : IsRecursive(f, k, 0, G)
  <2>1. \A n \in 1..k, x \in Int : G[n][x] \in Int
    BY <1>3
  <2> HIDE DEF G
  <2>2. 0 \in Int
    OBVIOUS
  <2> QED
    BY <2>1, <2>2, Recursion
<1>5. Step(f)
  <2>1. ASSUME NEW n \in 0..k
        PROVE  f[n] = IF n = 0 THEN 0 ELSE f[n - 1] + Term(n)
    <3>1. CASE n = 0
      BY <1>4, <3>1 DEF IsRecursive
    <3>2. CASE n # 0
      <4>1. n \in 1..k /\ n - 1 \in 0..k /\ f[n - 1] \in Int
        BY <3>2
      <4>2. f[n] = G[n][f[n - 1]]
        BY <1>4, <3>2 DEF IsRecursive
      <4> QED
        BY <3>2, <4>1, <4>2
    <3> QED
      BY <3>1, <3>2
  <2> QED
    BY <2>1
<1>6. Step(sum)
  <2> HIDE DEF Step
  <2> QED
    BY <1>2, <1>5
<1>7. ASSUME NEW n \in 0..(k - 1)
      PROVE  sum[n + 1] = sum[n] + v[n] * Weight(n, k)
  <2>1. n + 1 \in 0..k /\ n + 1 # 0 /\ (n + 1) - 1 = n
    OBVIOUS
  <2>2. sum[n + 1] = sum[n] + Term(n + 1)
    BY <1>6, <2>1
  <2> QED
    BY <2>1, <2>2 DEF Term
<1>8. sum \in [0..k -> Int]
  <2> DEFINE S == {n \in Nat : n <= k => sum[n] \in Int}
  <2>1. 0 \in S
    BY <1>6
  <2>2. ASSUME NEW n \in Nat, n \in S PROVE n + 1 \in S
    <3> SUFFICES ASSUME n + 1 <= k PROVE sum[n + 1] \in Int
      OBVIOUS
    <3>1. sum[n] \in Int /\ n + 1 \in 1..k /\ n + 1 \in 0..k /\ n + 1 # 0 /\ (n + 1) - 1 = n
      BY <2>2
    <3>2. sum[n + 1] = sum[n] + Term(n + 1) /\ Term(n + 1) \in Int
      BY <1>3, <1>6, <3>1
    <3> QED
      BY <3>1, <3>2
  <2> HIDE DEF S
  <2>3. \A n \in Nat : n \in S
    BY <2>1, <2>2, Induction
  <2>4. \A n \in 0..k : sum[n] \in Int
    BY <2>3 DEF S
  <2>5. sum = [n \in 0..k |-> sum[n]]
    BY <1>6
  <2> QED
    BY <2>4, <2>5
<1>9. sum[0] = 0
  BY <1>6
<1> QED
  BY <1>1, <1>7, <1>8, <1>9

\* The powers of the size of a byte; the fourth is the size of a word.
LEMMA BytePowers ==
    LET B == 2^ByteBits
        B2 == 2^(ByteBits * 2)
        B3 == 2^(ByteBits * 3)
    IN  /\ 2^(ByteBits * 0) = 1 /\ 2^(ByteBits * 1) = B
        /\ B \in Nat \ {0} /\ B2 \in Nat \ {0} /\ B3 \in Nat \ {0}
        /\ IsProduct(B2, B, B) /\ IsProduct(B3, B2, B) /\ IsProduct(2^W, B3, B)
<1>1. /\ ByteBits \in Nat /\ ByteBits * 2 \in Nat /\ ByteBits * 3 \in Nat
      /\ ByteBits * 0 = 0 /\ ByteBits * 1 = ByteBits
      /\ ByteBits * 2 = ByteBits + ByteBits /\ ByteBits * 3 = ByteBits * 2 + ByteBits
      /\ W = ByteBits * 3 + ByteBits
  BY WordSizes DEF W
<1>2. 2^(ByteBits * 2) = 2^ByteBits * 2^ByteBits
  BY <1>1, PowerOfSum
<1>3. 2^(ByteBits * 3) = 2^(ByteBits * 2) * 2^ByteBits
  BY <1>1, PowerOfSum
<1>4. 2^W = 2^(ByteBits * 3) * 2^ByteBits
  BY <1>1, PowerOfSum
<1>5. /\ 2^ByteBits \in Nat \ {0} /\ 2^(ByteBits * 2) \in Nat \ {0}
      /\ 2^(ByteBits * 3) \in Nat \ {0}
  BY <1>1, PowerIsPositive
<1>6. 2^(ByteBits * 0) = 1 /\ 2^(ByteBits * 1) = 2^ByteBits
  BY <1>1, PowerOfZero
<1> QED
  BY <1>2, <1>3, <1>4, <1>5, <1>6 DEF IsProduct

\* The value of four bytes, the first the least significant.
Value4(a, b, c, d) == a + b * 2^ByteBits + c * 2^(ByteBits * 2) + d * 2^(ByteBits * 3)

LEMMA Value4IsWord ==
    ASSUME NEW a \in Byte, NEW b \in Byte, NEW c \in Byte, NEW d \in Byte
    PROVE  Value4(a, b, c, d) \in Word
<1> DEFINE B == 2^ByteBits
           B2 == 2^(ByteBits * 2)
           B3 == 2^(ByteBits * 3)
           B4 == 2^W
<1>1. /\ B \in Nat \ {0} /\ B2 \in Nat \ {0} /\ B3 \in Nat \ {0}
      /\ IsProduct(B2, B, B) /\ IsProduct(B3, B2, B) /\ IsProduct(B4, B3, B)
  BY BytePowers
<1>2. Byte = 0..(B - 1) /\ Word = 0..(B4 - 1) /\ B4 \in Nat
  BY WordSizes DEF Byte, Word
<1> HIDE DEF B, B2, B3, B4
<1>3. ASSUME NEW x \in Byte, NEW M \in Nat \ {0}, NEW P, IsProduct(P, M, B)
      PROVE  x * M \in Nat /\ x * M <= P - M
  <2>1. x \in Nat /\ B - 1 - x \in Nat
    BY <1>1, <1>2
  <2>2. M * (B - 1 - x) \in Nat /\ x * M \in Nat
    BY <2>1
  <2>3. M * (B - 1 - x) = M * B - M - x * M
    BY <1>1, <2>1
  <2>4. P = M * B /\ M * B \in Nat
    BY <1>1, <1>3 DEF IsProduct
  <2> QED
    BY <2>2, <2>3, <2>4
<1>4. b * B \in Nat /\ b * B <= B2 - B
  BY <1>1, <1>3
<1>5. c * B2 \in Nat /\ c * B2 <= B3 - B2
  BY <1>1, <1>3
<1>6. d * B3 \in Nat /\ d * B3 <= B4 - B3
  BY <1>1, <1>3
<1>7. a + b * B + c * B2 + d * B3 \in 0..(B4 - 1)
  <2> DEFINE bb == b * B
             cc == c * B2
             dd == d * B3
  <2>1. bb \in Nat /\ bb <= B2 - B /\ cc \in Nat /\ cc <= B3 - B2 /\ dd \in Nat /\ dd <= B4 - B3
    BY <1>4, <1>5, <1>6
  <2> HIDE DEF bb, cc, dd
  <2>2. a + bb + cc + dd \in 0..(B4 - 1)
    BY <1>1, <1>2, <2>1
  <2> QED
    BY <2>2 DEF bb, cc, dd
<1> QED
  BY <1>2, <1>7 DEF Value4, B, B2, B3

\* The bytes of a word, and the word again.
LEMMA Value4OfWord ==
    ASSUME NEW w \in Word
    PROVE  Value4(w % 2^ByteBits, (w \div 2^ByteBits) % 2^ByteBits,
                  (w \div 2^(ByteBits * 2)) % 2^ByteBits,
                  (w \div 2^(ByteBits * 3)) % 2^ByteBits) = w
<1> DEFINE B == 2^ByteBits
           B2 == 2^(ByteBits * 2)
           B3 == 2^(ByteBits * 3)
           B4 == 2^W
           q1 == w \div B
           q2 == w \div B2
           q3 == w \div B3
           a == w % B
           b == q1 % B
           c == q2 % B
           d == q3 % B
<1>1. /\ B \in Nat \ {0} /\ B2 \in Nat \ {0} /\ B3 \in Nat \ {0}
      /\ IsProduct(B2, B, B) /\ IsProduct(B3, B2, B) /\ IsProduct(B4, B3, B)
  BY BytePowers
<1>2. w \in Int /\ w \in 0..(B4 - 1)
  BY WordsAreIntegers DEF Word
<1> HIDE DEF B, B2, B3, B4
<1>3. w % B2 = B * (q1 % B) + (w % B)
  <2>1. w \in Int /\ B \in Nat \ {0} /\ IsProduct(B2, B, B)
    BY <1>1, <1>2
  <2> QED
    BY <2>1, DivisionByProduct
<1>4. w % B3 = B2 * (q2 % B) + (w % B2)
  <2>1. w \in Int /\ B \in Nat \ {0} /\ B2 \in Nat \ {0} /\ IsProduct(B3, B2, B)
    BY <1>1, <1>2
  <2> QED
    BY <2>1, DivisionByProduct
<1>5. q3 \in Int /\ w = B3 * q3 + (w % B3) /\ w % B3 \in 0..(B3 - 1)
  BY <1>1, <1>2, Division
<1>6. d = q3
  <2>1. B4 = B3 * B /\ w < B4
    BY <1>2, <1>1 DEF IsProduct
  <2>2. q3 < B
    BY <1>1, <1>2, <2>1, DivisionIsMonotonic
  <2> HIDE DEF q3
  <2>3. q3 >= 0
    <3> SUFFICES ASSUME q3 <= -1 PROVE FALSE
      BY <1>5
    <3>1. B3 * (0 - 1 - q3) >= 0
      BY <1>1, <1>5
    <3>2. B3 * (0 - 1 - q3) = 0 - B3 - B3 * q3
      BY <1>1, <1>5
    <3> QED
      BY <1>1, <1>2, <1>5, <3>1, <3>2
  <2>4. q3 \in 0..(B - 1)
    BY <1>1, <1>5, <2>2, <2>3
  <2> QED
    BY <1>1, <2>4, DivisionOfSmall
<1>7. a \in Int /\ b \in Int /\ c \in Int /\ d \in Int
  <2>1. q1 \in Int /\ q2 \in Int
    BY <1>1, <1>2, Division
  <2> HIDE DEF q1, q2, q3
  <2> QED
    BY <1>1, <1>2, <1>5, <2>1, Division
<1> HIDE DEF a, b, c, d
<1>8. w = B3 * d + (B2 * c + (B * b + a))
  BY <1>3, <1>4, <1>5, <1>6 DEF a, b, c
<1>9. a + b * B + c * B2 + d * B3 = B3 * d + (B2 * c + (B * b + a))
  BY <1>1, <1>7
<1> QED
  BY <1>8, <1>9 DEF Value4, a, b, c, d, B, B2, B3

\* What FromBytes makes of four bytes, in either order.
LEMMA FromFourBytes ==
    ASSUME NEW v \in [0..3 -> Byte]
    PROVE  FromBytes(v, 4) = IF HostBigEndian THEN Value4(v[3], v[2], v[1], v[0])
                             ELSE Value4(v[0], v[1], v[2], v[3])
<1> DEFINE B == 2^ByteBits
           B2 == 2^(ByteBits * 2)
           B3 == 2^(ByteBits * 3)
<1>1. PICK sum \in [0..4 -> Int] :
          /\ FromBytes(v, 4) = sum[4]
          /\ sum[0] = 0
          /\ \A n \in 0..3 : sum[n + 1] = sum[n] + v[n] * Weight(n, 4)
  <2> DEFINE k == 4
  <2>1. k \in Nat /\ k - 1 = 3
    OBVIOUS
  <2> HIDE DEF k
  <2>2. v \in [0..(k - 1) -> Byte]
    BY <2>1
  <2>3. \E sum \in [0..k -> Int] :
            /\ FromBytes(v, k) = sum[k]
            /\ sum[0] = 0
            /\ \A n \in 0..(k - 1) : sum[n + 1] = sum[n] + v[n] * Weight(n, k)
    BY <2>1, <2>2, Sums
  <2> QED
    BY <2>1, <2>3 DEF k
<1>2. FromBytes(v, 4) = v[0] * Weight(0, 4) + v[1] * Weight(1, 4) + v[2] * Weight(2, 4)
                        + v[3] * Weight(3, 4)
  <2> DEFINE t0 == v[0] * Weight(0, 4)
             t1 == v[1] * Weight(1, 4)
             t2 == v[2] * Weight(2, 4)
             t3 == v[3] * Weight(3, 4)
  <2>1. t0 \in Int /\ t1 \in Int /\ t2 \in Int /\ t3 \in Int
    <3>1. \A n \in 0..3 : v[n] \in Int /\ Weight(n, 4) \in Int
      BY Weights, WordSizes DEF Byte
    <3> QED
      BY <3>1
  <2>2. sum[1] = 0 + t0 /\ sum[2] = sum[1] + t1 /\ sum[3] = sum[2] + t2 /\ sum[4] = sum[3] + t3
    BY <1>1
  <2> HIDE DEF t0, t1, t2, t3
  <2>3. sum[4] = t0 + t1 + t2 + t3
    BY <2>1, <2>2
  <2> QED
    BY <1>1, <2>3 DEF t0, t1, t2, t3
<1>3. /\ ~ HostBigEndian => Weight(0, 4) = 1 /\ Weight(1, 4) = B /\ Weight(2, 4) = B2
                            /\ Weight(3, 4) = B3
      /\ HostBigEndian => Weight(0, 4) = B3 /\ Weight(1, 4) = B2 /\ Weight(2, 4) = B
                          /\ Weight(3, 4) = 1
  <2>1. 2^(ByteBits * 0) = 1 /\ 2^(ByteBits * 1) = B
    BY BytePowers
  <2>2. 4 - 1 - 0 = 3 /\ 4 - 1 - 1 = 2 /\ 4 - 1 - 2 = 1 /\ 4 - 1 - 3 = 0
    OBVIOUS
  <2> QED
    BY <2>1, <2>2 DEF Weight
<1>4. \A n \in 0..3 : v[n] \in Int
  BY WordSizes DEF Byte
<1>5. B \in Int /\ B2 \in Int /\ B3 \in Int
  BY BytePowers
<1> HIDE DEF B, B2, B3
<1>6. CASE HostBigEndian
  <2>1. v[0] * B3 + v[1] * B2 + v[2] * B + v[3] * 1 = v[3] + v[2] * B + v[1] * B2 + v[0] * B3
    BY <1>4, <1>5
  <2> QED
    BY <1>2, <1>3, <1>6, <2>1 DEF Value4, B, B2, B3
<1>7. CASE ~ HostBigEndian
  <2>1. v[0] * 1 + v[1] * B + v[2] * B2 + v[3] * B3 = v[0] + v[1] * B + v[2] * B2 + v[3] * B3
    BY <1>4, <1>5
  <2> QED
    BY <1>2, <1>3, <1>7, <2>1 DEF Value4, B, B2, B3
<1> QED
  BY <1>6, <1>7

\* One byte or two are words as well.
LEMMA FromFewBytes ==
    ASSUME NEW k \in {1, 2}, NEW v \in [0..(k - 1) -> Byte]
    PROVE  FromBytes(v, k) \in Word
<1> DEFINE B == 2^ByteBits
<1>1. PICK sum \in [0..k -> Int] :
          /\ FromBytes(v, k) = sum[k]
          /\ sum[0] = 0
          /\ \A n \in 0..(k - 1) : sum[n + 1] = sum[n] + v[n] * Weight(n, k)
  <2>1. k \in Nat
    OBVIOUS
  <2> QED
    BY <2>1, Sums
<1>2. /\ 2^(ByteBits * 0) = 1 /\ 2^(ByteBits * 1) = B
  BY BytePowers
<1>3. 0 \in Byte /\ Byte \subseteq Int /\ B \in Int
  BY WordSizes DEF Byte
<1>4. CASE k = 1
  <2>1. Weight(0, 1) = 1
    <3>1. 1 - 1 - 0 = 0
      OBVIOUS
    <3> QED
      BY <1>2, <3>1 DEF Weight
  <2>2. FromBytes(v, 1) = 0 + v[0] * Weight(0, 1)
    BY <1>1, <1>4
  <2>3. v[0] \in Byte
    BY <1>4
  <2>4. v[0] \in Word
    BY <2>3, WordSizes DEF Byte, Word
  <2>5. v[0] \in Int
    BY <1>3, <2>3
  <2>6. FromBytes(v, 1) = v[0]
    BY <2>1, <2>2, <2>5
  <2> QED
    BY <1>4, <2>4, <2>6
<1>5. CASE k = 2
  <2>1. IF HostBigEndian THEN Weight(0, 2) = B /\ Weight(1, 2) = 1
        ELSE Weight(0, 2) = 1 /\ Weight(1, 2) = B
    <3>1. 2 - 1 - 0 = 1 /\ 2 - 1 - 1 = 0
      OBVIOUS
    <3> QED
      BY <1>2, <3>1 DEF Weight
  <2> DEFINE t0 == v[0] * Weight(0, 2)
             t1 == v[1] * Weight(1, 2)
  <2>2. sum[1] = 0 + t0 /\ sum[2] = sum[1] + t1
    BY <1>1, <1>5
  <2>3. v[0] \in Byte /\ v[1] \in Byte
    BY <1>5
  <2>8. v[0] \in Int /\ v[1] \in Int
    BY <1>3, <2>3
  <2>4. FromBytes(v, 2) = t0 + t1
    <3>1. t0 \in Int /\ t1 \in Int
      <4>1. Weight(0, 2) \in Int /\ Weight(1, 2) \in Int
        BY <1>3, <2>1
      <4> QED
        BY <2>8, <4>1
    <3> HIDE DEF t0, t1
    <3> QED
      BY <1>1, <1>5, <2>2, <3>1
  <2>5. \A a, b \in Byte : Value4(a, b, 0, 0) = a + b * B
    <3>1. 2^(ByteBits * 2) \in Int /\ 2^(ByteBits * 3) \in Int
      BY BytePowers
    <3> QED
      BY <1>3, <3>1 DEF Value4
  <2>6. FromBytes(v, 2) = IF HostBigEndian THEN Value4(v[1], v[0], 0, 0)
                          ELSE Value4(v[0], v[1], 0, 0)
    <3> HIDE DEF B
    <3>1. CASE HostBigEndian
      <4>1. t0 = v[0] * B /\ t1 = v[1] * 1
        BY <2>1, <3>1
      <4>2. v[0] * B + v[1] * 1 = v[1] + v[0] * B
        BY <1>3, <2>8
      <4> QED
        BY <2>3, <2>4, <2>5, <3>1, <4>1, <4>2
    <3>2. CASE ~ HostBigEndian
      <4>1. t0 = v[0] * 1 /\ t1 = v[1] * B
        BY <2>1, <3>2
      <4>2. v[0] * 1 + v[1] * B = v[0] + v[1] * B
        BY <1>3, <2>8
      <4> QED
        BY <2>3, <2>4, <2>5, <3>2, <4>1, <4>2
    <3> QED
      BY <3>1, <3>2
  <2>7. Value4(v[1], v[0], 0, 0) \in Word /\ Value4(v[0], v[1], 0, 0) \in Word
    BY <1>3, <2>3, Value4IsWord
  <2> QED
    BY <1>5, <2>6, <2>7
<1> QED
  BY <1>4, <1>5

LEMMA FromBytesIsWord ==
    ASSUME NEW k \in {1, 2, 4}, NEW v \in [0..(k - 1) -> Byte]
    PROVE  FromBytes(v, k) \in Word
<1>1. CASE k = 4
  <2>1. v \in [0..3 -> Byte]
    BY <1>1
  <2>2. v[0] \in Byte /\ v[1] \in Byte /\ v[2] \in Byte /\ v[3] \in Byte
    <3>1. 0 \in 0..3 /\ 1 \in 0..3 /\ 2 \in 0..3 /\ 3 \in 0..3
      OBVIOUS
    <3> QED
      BY <2>1, <3>1
  <2>3. Value4(v[3], v[2], v[1], v[0]) \in Word /\ Value4(v[0], v[1], v[2], v[3]) \in Word
    BY <2>2, Value4IsWord
  <2>4. FromBytes(v, 4) = IF HostBigEndian THEN Value4(v[3], v[2], v[1], v[0])
                          ELSE Value4(v[0], v[1], v[2], v[3])
    BY <2>1, FromFourBytes
  <2> QED
    BY <1>1, <2>3, <2>4
<1>2. CASE k \in {1, 2}
  BY <1>2, FromFewBytes
<1> QED
  BY <1>1, <1>2

LEMMA MemSizeType == MemSize \in Nat
BY CpuAssumption, WordsAreIntegers

\* A load returns a word whatever the memory, and even if it fails.
LEMMA LoadIsWord ==
    ASSUME NEW m, MemoryOK(m), NEW address \in Nat, NEW k \in {1, 2, 4}, NEW junk \in Word
    PROVE  Load(m, address, k, junk) \in Word
<1> DEFINE j == ToBytes(junk, k)
           v == memory_read(m, address, k, TRUE, j)
<1>1. j \in [0..(k - 1) -> Byte]
  <2>1. junk \in Int /\ k \in Nat
    BY WordsAreIntegers
  <2> QED
    BY <2>1, BytesAreBytes
<1> HIDE DEF j
<1>2. v \in [0..(k - 1) -> Byte]
  <2>1. ASSUME NEW i \in 0..(k - 1)
        PROVE  (IF CellOf(address, k, TRUE, i) < MemSize
                THEN m[CellOf(address, k, TRUE, i)] ELSE j[i]) \in Byte
    <3> DEFINE cell == CellOf(address, k, TRUE, i)
    <3>1. cell \in Nat
      <4>1. address + i \in Nat /\ address + (k - 1 - i) \in Nat
        OBVIOUS
      <4> QED
        BY <4>1 DEF CellOf
    <3> HIDE DEF cell
    <3>2. cell < MemSize => cell \in Cells
      BY <3>1, MemSizeType DEF Cells
    <3> QED
      BY <1>1, <3>2 DEF MemoryOK, cell
  <2> QED
    BY <2>1 DEF memory_read
<1> HIDE DEF v
<1>3. FromBytes(j, k) \in Word /\ FromBytes(v, k) \in Word
  BY <1>1, <1>2, FromBytesIsWord
<1> QED
  BY <1>3 DEF Load, j, v

\* A store leaves bytes.
LEMMA StoreKeepsBytes ==
    ASSUME NEW m, MemoryOK(m), NEW address \in Nat, NEW k \in {1, 2, 4}, NEW w \in Word
    PROVE  MemoryOK(Store(m, address, k, w))
<1> DEFINE v == ToBytes(w, k)
<1>1. v \in [0..(k - 1) -> Byte]
  BY BytesAreBytes, WordsAreIntegers
<1> HIDE DEF v
<1>2. ASSUME NEW c \in Cells
      PROVE  (IF c \in address..(address + k - 1)
              THEN v[IF Swaps(TRUE) THEN k - 1 - (c - address) ELSE c - address]
              ELSE m[c]) \in Byte
  <2>1. CASE c \in address..(address + k - 1)
    <3>1. k - 1 - (c - address) \in 0..(k - 1) /\ c - address \in 0..(k - 1)
      BY <2>1, MemSizeType DEF Cells
    <3> QED
      BY <1>1, <2>1, <3>1
  <2>2. CASE c \notin address..(address + k - 1)
    BY <2>2 DEF MemoryOK
  <2> QED
    BY <2>1, <2>2
<1> QED
  BY <1>2 DEF Store, memory_write, MemoryOK, v

--------------------------------------------------------------------------------
(* One lemma per handler: what it leaves is of the right type.             *)

LEMMA SoundIsRegistersOK ==
    ASSUME NEW f, RegistersOK(f), NEW m, MemoryOK(m), NEW x \in Results
    PROVE  Sound(Outcome(f, m, x))
BY DEF Sound, Outcome

LEMMA ResultsAre ==
    /\ 0 \in Results /\ UNDEFINED_INSTRUCTION \in Results
    /\ SOFTWARE_INTERRUPT \in Results /\ Minus1 \in Results
BY DEF Results

LEMMA ReadIsWord ==
    ASSUME NEW f, RegistersOK(f), NEW reg \in Reg
    PROVE  arm_read_register(f, reg) \in Word /\ arm_read_register(f, reg) \in Nat
<1>1. arm_read_register(f, reg) \in Word
  BY RegisterTypes
<1> QED
  BY <1>1, WordsAreIntegers

LEMMA DataProcessingIsSound ==
    ASSUME NEW f, RegistersOK(f), NEW m, MemoryOK(m), NEW i, InstructionOK(i),
           NEW operand, operand[1] \in Word
    PROVE  Sound(DataProcessing(f, m, i, operand))
<1> DEFINE op == Opcode(i)
           cpsr == registers_read_cpsr(f)
           c == Flag(cpsr, "C")
           rn == arm_read_register(f, Rn(i))
           out == AluOut(op, rn, operand[1], c)
           g == arm_write_register(f, Rd(i), out)
           back == arm_read_register(g, Rd(i))
           flags(n, d) == Flags(op, cpsr, n, d, rn, operand[1], c, operand[2])
<1>1. op \in Opcodes /\ Rn(i) \in Reg /\ Rd(i) \in Reg
  BY FieldTypes
<1>2. cpsr \in Word /\ rn \in Word
  BY <1>1, RegisterTypes DEF registers_read_cpsr
<1>3. c \in {0, 1}
  BY <1>2, FlagIsBit
<1>4. out \in Word
  <2> HIDE DEF op, c, rn
  <2> QED
    BY <1>1, <1>2, <1>3, AluOutIsWord
<1>5. RegistersOK(g)
  <2> HIDE DEF out
  <2> QED
    BY <1>1, <1>4, RegisterTypes
<1>6. \A n, d : flags(n, d) \in Word
  BY <1>2, FlagsKeepControl
<1>7. arm_read_spsr(g) \in Word
  BY <1>5, SpsrType
<1> HIDE DEF g, flags, cpsr, op, c, rn, out, back
<1>8. \A n, d : RegistersOK(registers_write_cpsr(f, flags(n, d)))
               /\ RegistersOK(registers_write_cpsr(g, flags(n, d)))
  BY <1>1, <1>5, <1>6, RegisterTypes
<1>9. RegistersOK(registers_write_cpsr(g, arm_read_spsr(g)))
  BY <1>1, <1>5, <1>7, RegisterTypes
<1>10. /\ \A n, d : Sound(Outcome(registers_write_cpsr(f, flags(n, d)), m, 0))
                    /\ Sound(Outcome(registers_write_cpsr(g, flags(n, d)), m, 0))
       /\ Sound(Outcome(g, m, 0)) /\ Sound(Outcome(g, m, UNDEFINED_INSTRUCTION))
       /\ Sound(Outcome(registers_write_cpsr(g, arm_read_spsr(g)), m, 0))
  BY <1>5, <1>8, <1>9, SoundIsRegistersOK, ResultsAre
<1> HIDE DEF flags
<1>11. DataProcessing(f, m, i, operand) =
          IF op \in OnlyFlags
          THEN Outcome(registers_write_cpsr(f, flags(out, arm_read_register(f, Rd(i)))), m, 0)
          ELSE IF ~ SetsFlags(i) THEN Outcome(g, m, 0)
          ELSE IF Rd(i) # 15 THEN Outcome(registers_write_cpsr(g, flags(back, back)), m, 0)
          ELSE IF registers_current_mode_has_spsr(g)
          THEN Outcome(registers_write_cpsr(g, arm_read_spsr(g)), m, 0)
          ELSE Outcome(g, m, UNDEFINED_INSTRUCTION)
  BY DEF DataProcessing, op, cpsr, c, rn, out, g, back, flags
<1> QED
  BY <1>10, <1>11

LEMMA DataProcessingsAreSound ==
    ASSUME NEW f, RegistersOK(f), NEW m, MemoryOK(m), NEW i, InstructionOK(i)
    PROVE  /\ Sound(arm_data_processing_shift(f, m, i))
           /\ Sound(arm_data_processing_immediate_msr(f, m, i))
BY OperandsAreWords, DataProcessingIsSound
   DEF arm_data_processing_shift, arm_data_processing_immediate_msr

LEMMA WrittenRegister ==
    ASSUME NEW f, RegistersOK(f), NEW reg \in Reg, NEW n \in Int
    PROVE  RegistersOK(arm_write_register(f, reg, Wrap(n)))
BY WrapIsWord, RegisterTypes

LEMMA SignExtend30Type == \A n \in Int : sign_extend_30(n) \in Int
<1>1. 2^24 \in Int /\ 2^22 \in Int
  BY PowerIsPositive
<1> QED
  BY <1>1 DEF sign_extend_30

LEMMA BranchIsSound ==
    ASSUME NEW f, RegistersOK(f), NEW m, MemoryOK(m), NEW i, InstructionOK(i)
    PROVE  Sound(arm_branch(f, m, i)) /\ Sound(arm_coprocessor_others_swi(f, m, i))
<1> DEFINE pc == arm_read_register(f, 15)
           number == i.bits % 2^24
           offset == 4 * sign_extend_30(number)
           link == arm_write_register(f, 14, Wrap(pc - 4))
           g == IF On(i, 24) THEN link ELSE f
<1>1. pc \in Int
  BY ReadIsWord
<1>2. number \in Int
  <2> DEFINE M == 2^24
             b == i.bits
  <2>1. b \in Int /\ M \in Nat \ {0}
    BY PowerIsPositive DEF InstructionOK
  <2> HIDE DEF M, b
  <2>2. b % M \in Int
    BY <2>1, Division
  <2> QED
    BY <2>2 DEF M, b
<1>3. offset \in Int
  <2> HIDE DEF number
  <2>1. sign_extend_30(number) \in Int
    BY <1>2, SignExtend30Type
  <2> QED
    BY <2>1
<1> HIDE DEF offset, pc
<1>4. RegistersOK(link) /\ RegistersOK(g)
  <2>1. pc - 4 \in Int /\ 14 \in Reg
    BY <1>1
  <2> QED
    BY <2>1, WrittenRegister
<1> HIDE DEF g
<1>5. RegistersOK(arm_write_register(g, 15, Wrap(pc + offset)))
  BY <1>1, <1>3, <1>4, WrittenRegister
<1>6. arm_branch(f, m, i) = Outcome(arm_write_register(g, 15, Wrap(pc + offset)), m, 0)
  BY DEF arm_branch, g, pc, offset
<1>7. arm_coprocessor_others_swi(f, m, i) = Outcome(link, m, SOFTWARE_INTERRUPT)
  BY DEF arm_coprocessor_others_swi, pc
<1> HIDE DEF link
<1> QED
  BY <1>4, <1>5, <1>6, <1>7, SoundIsRegistersOK, ResultsAre

LEMMA MiscellaneousIsSound ==
    ASSUME NEW f, RegistersOK(f), NEW m, MemoryOK(m), NEW i, InstructionOK(i)
    PROVE  Sound(arm_miscellaneous(f, m, i)) /\ Sound(arm_coprocessor_load_store(f, m, i))
<1>1. arm_read_spsr(f) \in Word /\ registers_read_cpsr(f) \in Word /\ Rd(i) \in Reg
  BY SpsrType, RegisterTypes, FieldTypes DEF registers_read_cpsr
<1>2. /\ RegistersOK(arm_write_register(f, Rd(i), arm_read_spsr(f)))
      /\ RegistersOK(arm_write_register(f, Rd(i), registers_read_cpsr(f)))
  BY <1>1, RegisterTypes
<1> QED
  BY <1>2, SoundIsRegistersOK, ResultsAre DEF arm_miscellaneous, arm_coprocessor_load_store

--------------------------------------------------------------------------------
(* Single transfers.                                                       *)

LEMMA ShiftedIndexIsWord ==
    ASSUME NEW rm \in Word, NEW imm \in 0..Top, NEW type \in 0..3
    PROVE  shift_index_calculator(rm, imm, type) \in Word
<1>1. /\ Lsl(rm, imm) \in Word /\ Lsr(rm, imm) \in Word /\ ror(rm, imm) \in Word
      /\ Lsr(rm, 1) \in Word
  <2>1. imm \in Nat /\ imm \in 0..W /\ 1 \in Nat
    BY WordSizes
  <2> QED
    BY <2>1, ShiftsOfWords
<1>2. 0 \in Word /\ 2^W - 1 \in Word
  BY ZeroIsWord, AllOnesAreWord
<1> QED
  BY <1>1, <1>2 DEF shift_index_calculator

LEMMA OffsetsAreIntegers ==
    ASSUME NEW f, RegistersOK(f), NEW i, InstructionOK(i)
    PROVE  Mode2Offset(f, i) \in Int /\ Mode3Offset(f, i) \in Int
<1> DEFINE imm == ((i.bits \div 128) % 32) % W
           type == (i.bits \div 32) % 4
           rm == arm_read_register(f, Rm(i))
<1>1. rm \in Word /\ Rs(i) \in Reg /\ Rm(i) \in Reg
  BY RegisterTypes, FieldTypes
<1>2. imm \in 0..Top
  <2>1. (i.bits \div 128) % 32 \in Int /\ W \in Nat \ {0} /\ Top = W - 1
    BY WordSizes DEF InstructionOK
  <2> QED
    BY <2>1, Division
<1>3. type \in 0..3
  BY DEF InstructionOK
<1> HIDE DEF imm, type, rm
<1>4. shift_index_calculator(rm, imm, type) \in Int /\ rm \in Int
  <2>1. shift_index_calculator(rm, imm, type) \in Word
    BY <1>1, <1>2, <1>3, ShiftedIndexIsWord
  <2> DEFINE shifted == shift_index_calculator(rm, imm, type)
  <2>2. shifted \in Word /\ rm \in Word
    BY <1>1, <2>1
  <2> HIDE DEF shifted
  <2>3. shifted \in Int /\ rm \in Int
    BY <2>2, WordsAreIntegers
  <2> QED
    BY <2>3 DEF shifted
<1>5. i.bits % 4096 \in Int
  BY DEF InstructionOK
<1>6. Rs(i) * 16 + Rm(i) \in Int
  BY <1>1
<1> QED
  BY <1>4, <1>5, <1>6 DEF Mode2Offset, Mode3Offset, imm, type, rm

\* An address and the registers after the write-back.
Located(a) == a.address \in Word /\ RegistersOK(a.r)

LEMMA IndexedIsLocated ==
    ASSUME NEW f, RegistersOK(f), NEW i, InstructionOK(i), NEW offset \in Int
    PROVE  Located(Indexed(f, i, offset))
<1> DEFINE base == arm_read_register(f, Rn(i))
           moved == Wrap(IF On(i, 23) THEN base + offset ELSE base - offset)
<1>1. base \in Word /\ base \in Nat /\ Rn(i) \in Reg
  BY ReadIsWord, FieldTypes
<1> HIDE DEF base
<1>2. moved \in Word
  BY <1>1, WrapIsWord
<1> HIDE DEF moved
<1>3. RegistersOK(arm_write_register(f, Rn(i), moved))
  BY <1>1, <1>2, RegisterTypes
<1>4. Indexed(f, i, offset) =
         [address |-> IF On(i, 24) THEN moved ELSE base,
          r |-> IF On(i, 24) /\ ~ On(i, 21) THEN f ELSE arm_write_register(f, Rn(i), moved)]
  BY DEF Indexed, base, moved
<1> QED
  BY <1>1, <1>2, <1>3, <1>4 DEF Located

LEMMA AddressesAreLocated ==
    ASSUME NEW f, RegistersOK(f), NEW i, InstructionOK(i)
    PROVE  Located(calculate_address(f, i)) /\ Located(calculate_address_mode3(f, i))
<1>1. 2^W - 1 \in Word
  BY AllOnesAreWord
<1>2. Located(Indexed(f, i, Mode2Offset(f, i))) /\ Located(Indexed(f, i, Mode3Offset(f, i)))
  BY OffsetsAreIntegers, IndexedIsLocated
<1> QED
  BY <1>1, <1>2 DEF calculate_address, calculate_address_mode3, Located

LEMMA TransfersAreSound ==
    ASSUME NEW f, RegistersOK(f), NEW m, MemoryOK(m), NEW i, InstructionOK(i),
           NEW address \in Word, NEW junk \in Word
    PROVE  /\ Sound(TransferWordOrByte(f, m, i, address, junk))
           /\ Sound(TransferExtra(f, m, i, address, junk))
<1>1. address \in Nat /\ Rd(i) \in Reg /\ ByteBits \in Nat /\ 2 * ByteBits \in Nat
  BY WordsAreIntegers, FieldTypes, WordSizes
<1> DEFINE load(k) == Load(m, address, k, junk)
           store(k) == Store(m, address, k, arm_read_register(f, Rd(i)))
           kind == (i.bits \div 16) % 16
           loaded == CASE kind = 11 -> load(2)
                       [] kind = 13 -> SignExtend(load(1), ByteBits)
                       [] kind = 15 -> SignExtend(load(2), 2 * ByteBits)
<1>2. \A k \in {1, 2, 4} : load(k) \in Word /\ MemoryOK(store(k))
  BY <1>1, LoadIsWord, StoreKeepsBytes, RegisterTypes
<1>3. SignExtend(load(1), ByteBits) \in Word /\ SignExtend(load(2), 2 * ByteBits) \in Word
  BY <1>1, <1>2, SignExtendIsWord
<1> HIDE DEF load, store, kind
<1>4. \A w \in Word : RegistersOK(arm_write_register(f, Rd(i), w))
  BY <1>1, RegisterTypes
<1>5. Sound(TransferWordOrByte(f, m, i, address, junk))
  <2>1. \A k \in {1, 4} : /\ Sound(Outcome(arm_write_register(f, Rd(i), load(k)), m, 0))
                          /\ Sound(Outcome(f, store(k), 0))
    BY <1>2, <1>4, SoundIsRegistersOK, ResultsAre
  <2> QED
    BY <2>1 DEF TransferWordOrByte, load, store
<1>6. Sound(TransferExtra(f, m, i, address, junk))
  <2>1. kind \in {11, 13, 15} => loaded \in Word
    BY <1>2, <1>3
  <2> HIDE DEF loaded
  <2>2. /\ kind \in {11, 13, 15} => Sound(Outcome(arm_write_register(f, Rd(i), loaded), m, 0))
        /\ Sound(Outcome(f, store(2), 0))
        /\ Sound(Outcome(f, m, UNDEFINED_INSTRUCTION))
    BY <1>2, <1>4, <2>1, SoundIsRegistersOK, ResultsAre
  <2>3. TransferExtra(f, m, i, address, junk) =
           IF Rd(i) = 15 \/ (On(i, 20) /\ kind \notin {11, 13, 15})
           THEN Outcome(f, m, UNDEFINED_INSTRUCTION)
           ELSE IF On(i, 20) THEN Outcome(arm_write_register(f, Rd(i), loaded), m, 0)
           ELSE Outcome(f, store(2), 0)
    BY DEF TransferExtra, kind, loaded, load, store
  <2> QED
    BY <2>2, <2>3
<1> QED
  BY <1>5, <1>6

LEMMA LoadStoreIsSound ==
    ASSUME NEW f, RegistersOK(f), NEW m, MemoryOK(m), NEW i, InstructionOK(i),
           NEW junk \in Word
    PROVE  Sound(arm_load_store(f, m, i, junk))
<1> DEFINE two == calculate_address(f, i)
           three == calculate_address_mode3(two.r, i)
<1>1. Located(two) /\ Located(three)
  BY AddressesAreLocated DEF Located
<1> HIDE DEF two, three
<1>2. /\ Sound(TransferWordOrByte(two.r, m, i, two.address, junk))
      /\ Sound(TransferExtra(three.r, m, i, three.address, junk))
  BY <1>1, TransfersAreSound DEF Located
<1>3. Sound(Outcome(two.r, m, UNDEFINED_INSTRUCTION))
  BY <1>1, SoundIsRegistersOK, ResultsAre DEF Located
<1> QED
  BY <1>2, <1>3 DEF arm_load_store, two, three

--------------------------------------------------------------------------------
(* Multiple transfers.                                                     *)

LEMMA Transferred ==
    ASSUME NEW i
    PROVE  /\ IsFiniteSet(RegisterList(i)) /\ Number_of_Set_Bits_In(i) \in Nat
           /\ \A k : Cardinality({j \in RegisterList(i) : j < k}) \in Nat
           /\ \A k : \A start \in Int : TransferAddress(start, i, k) \in Word
<1>1. IsFiniteSet(RegisterList(i))
  <2>1. IsFiniteSet(0..15)
    <3>1. 0 \in Int /\ 15 \in Int
      OBVIOUS
    <3> QED
      BY <3>1, FS_Interval
  <2>2. RegisterList(i) \subseteq 0..15
    BY DEF RegisterList
  <2> QED
    BY <2>1, <2>2, FS_Subset
<1>2. Number_of_Set_Bits_In(i) \in Nat
  BY <1>1, FS_CardinalityType DEF Number_of_Set_Bits_In
<1>3. ASSUME NEW k PROVE Cardinality({j \in RegisterList(i) : j < k}) \in Nat
  <2>1. {j \in RegisterList(i) : j < k} \subseteq RegisterList(i)
    OBVIOUS
  <2> QED
    BY <1>1, <2>1, FS_Subset, FS_CardinalityType
<1>4. ASSUME NEW k, NEW start \in Int PROVE TransferAddress(start, i, k) \in Word
  <2> DEFINE n == Cardinality({j \in RegisterList(i) : j < k})
  <2>1. n \in Nat
    BY <1>3
  <2> HIDE DEF n
  <2>2. Wrap(start + 4 * n) \in Word
    BY <2>1, WrapIsWord
  <2> QED
    BY <2>2 DEF TransferAddress, n
<1> QED
  BY <1>1, <1>2, <1>3, <1>4

LEMMA MultipleAddresses ==
    ASSUME NEW f, RegistersOK(f), NEW i, InstructionOK(i)
    PROVE  addr_ls_multiple(f, i).start \in Word /\ RegistersOK(addr_ls_multiple(f, i).r)
<1> DEFINE base == arm_read_register(f, Rn(i))
           n == Number_of_Set_Bits_In(i)
           size == 4 * n
           up == On(i, 23)
           before == On(i, 24)
<1>1. base \in Int /\ n \in Int /\ Rn(i) \in Reg
  BY ReadIsWord, FieldTypes, Transferred
<1> HIDE DEF base, n, up, before
<1>2. /\ base + 4 \in Int /\ base - size \in Int /\ base - size + 4 \in Int
      /\ base + size \in Int
  BY <1>1
<1> HIDE DEF size
<1>3. /\ Wrap(base + 4) \in Word /\ Wrap(base) \in Word /\ Wrap(base - size) \in Word
      /\ Wrap(base - size + 4) \in Word /\ Wrap(base + size) \in Word
  BY <1>1, <1>2, WrapIsWord
<1>4. \A w \in Word : RegistersOK(arm_write_register(f, Rn(i), w))
  BY <1>1, RegisterTypes
<1>5. addr_ls_multiple(f, i) =
         [start |-> Wrap(CASE up /\ before     -> base + 4
                          [] up /\ ~ before   -> base
                          [] ~ up /\ before   -> base - size
                          [] ~ up /\ ~ before -> base - size + 4),
          r |-> IF On(i, 21)
                THEN arm_write_register(f, Rn(i), Wrap(IF up THEN base + size ELSE base - size))
                ELSE f]
  BY DEF addr_ls_multiple, base, n, size, up, before
<1>6. up \in BOOLEAN /\ before \in BOOLEAN
  BY DEF up, before, On
<1>7. Wrap(CASE up /\ before     -> base + 4
             [] up /\ ~ before   -> base
             [] ~ up /\ before   -> base - size
             [] ~ up /\ ~ before -> base - size + 4) \in Word
  BY <1>3, <1>6
<1>8. RegistersOK(arm_write_register(f, Rn(i), Wrap(IF up THEN base + size ELSE base - size)))
  BY <1>3, <1>4
<1> QED
  BY <1>5, <1>7, <1>8

LEMMA WordOfIsWord ==
    ASSUME NEW m, MemoryOK(m), NEW start \in Word, NEW i, NEW k, NEW junk \in Word
    PROVE  WordOf(m, start, i, k, junk) \in Word
<1>1. ASSUME NEW j PROVE Load(m, TransferAddress(start, i, j), 4, junk) \in Word
  <2> DEFINE a == TransferAddress(start, i, j)
  <2>1. a \in Word
    <3>1. start \in Int
      BY WordsAreIntegers
    <3> QED
      BY <3>1, Transferred, Zenon
  <2> HIDE DEF a
  <2>2. a \in Nat
    BY <2>1, WordsAreIntegers
  <2>3. Load(m, a, 4, junk) \in Word
    BY <2>2, LoadIsWord
  <2> QED
    BY <2>3 DEF a
<1> QED
  BY <1>1 DEF WordOf

LEMMA LoadedRegistersAreWords ==
    ASSUME NEW g, RegistersOK(g), NEW m, MemoryOK(m), NEW start \in Word, NEW i,
           NEW junk \in Word
    PROVE  RegistersOK(LoadedRegisters(g, m, start, i, junk))
<1>1. \A k : WordOf(m, start, i, k, junk) \in Word
  BY WordOfIsWord
<1>2. DOMAIN g = Slots /\ \A s \in Slots : g[s] \in Word
  BY DEF RegistersOK
<1> QED
  BY <1>1, <1>2 DEF RegistersOK, LoadedRegisters

LEMMA LoadMultipleIsSound ==
    ASSUME NEW f, RegistersOK(f), NEW m, MemoryOK(m), NEW i, InstructionOK(i),
           NEW junk \in Word
    PROVE  RegistersOK(instruction_ldm1(f, m, i, junk))
<1> DEFINE addr == addr_ls_multiple(f, i)
           g == LoadedRegisters(addr.r, m, addr.start, i, junk)
           word == WordOf(m, addr.start, i, 15, junk)
           h == arm_write_register(g, 15, clr_bit(word, 0))
<1>1. addr.start \in Word /\ RegistersOK(addr.r)
  BY MultipleAddresses
<1> HIDE DEF addr
<1>2. RegistersOK(g) /\ word \in Word
  BY <1>1, LoadedRegistersAreWords, WordOfIsWord
<1> HIDE DEF g, word
<1>3. 0 \in 0..Top /\ 5 \in 0..Top
  BY CpuWidths, WordSizes
<1>4. clr_bit(word, 0) \in Word
  BY <1>2, <1>3, SetBitOfWord
<1>5. RegistersOK(h)
  BY <1>2, <1>4, RegisterTypes
<1> HIDE DEF h
<1>6. registers_read_cpsr(h) \in Word /\ arm_read_spsr(h) \in Word
  BY <1>5, RegisterTypes, SpsrType DEF registers_read_cpsr
<1>7. clr_bit(registers_read_cpsr(h), 5) \in Word /\ set_bit(arm_read_spsr(h), 5) \in Word
  BY <1>3, <1>6, SetBitOfWord
<1>8. /\ RegistersOK(registers_write_cpsr(h, clr_bit(registers_read_cpsr(h), 5)))
      /\ RegistersOK(registers_write_cpsr(h, set_bit(arm_read_spsr(h), 5)))
  <2>1. 15 \in Reg
    OBVIOUS
  <2> QED
    BY <1>5, <1>7, <2>1, RegisterTypes
<1> QED
  BY <1>2, <1>8 DEF instruction_ldm1, addr, g, word, h

\* The memory after each of the sixteen rounds of a store.
LEMMA StoredOneByOne ==
    ASSUME NEW g, RegistersOK(g), NEW m, MemoryOK(m), NEW i, NEW start \in Word
    PROVE  \E stored \in [0..16 -> [Cells -> Byte]] :
               /\ instruction_stm1(g, m, i, start) = stored[16]
               /\ stored[0] = m
               /\ \A k \in 0..15 :
                      stored[k + 1] =
                          IF k \in RegisterList(i)
                          THEN Store(stored[k], TransferAddress(start, i, k), 4,
                                     arm_read_register(g, k))
                          ELSE stored[k]
<1> DEFINE V == [Cells -> Byte]
           Round(n, v) == IF n - 1 \in RegisterList(i)
                          THEN Store(v, TransferAddress(start, i, n - 1), 4,
                                     arm_read_register(g, n - 1))
                          ELSE v
           Step(f) == f = [k \in 0..16 |-> IF k = 0 THEN m ELSE Round(k, f[k - 1])]
           stored[k \in 0..16] ==
               IF k = 0 THEN m
               ELSE IF k - 1 \in RegisterList(i)
               THEN Store(stored[k - 1], TransferAddress(start, i, k - 1), 4,
                          arm_read_register(g, k - 1))
               ELSE stored[k - 1]
           G == [n \in 1..16 |-> [v \in V |-> Round(n, v)]]
<1>1. instruction_stm1(g, m, i, start) = stored[16]
  BY DEF instruction_stm1
<1>2. stored = CHOOSE f : Step(f)
  OBVIOUS
<1>3. ASSUME NEW n \in 1..16, NEW v \in V PROVE Round(n, v) \in V
  <2> DEFINE a == TransferAddress(start, i, n - 1)
  <2>1. a \in Word
    <3>1. start \in Int
      BY WordsAreIntegers
    <3> QED
      BY <3>1, Transferred
  <2> HIDE DEF a
  <2>2. a \in Nat
    BY <2>1, WordsAreIntegers
  <2>3. n - 1 \in Reg
    OBVIOUS
  <2>4. arm_read_register(g, n - 1) \in Word
    BY <2>3, ReadIsWord
  <2>5. MemoryOK(v)
    BY DEF MemoryOK
  <2>6. MemoryOK(Store(v, a, 4, arm_read_register(g, n - 1)))
    BY <2>2, <2>4, <2>5, StoreKeepsBytes
  <2> QED
    BY <2>6 DEF MemoryOK, a
<1> HIDE DEF stored, Round, V
<1>4. m \in V
  BY DEF V, MemoryOK
<1>5. PICK f \in [0..16 -> V] : IsRecursive(f, 16, m, G)
  <2>1. \A n \in 1..16, v \in V : G[n][v] \in V
    BY <1>3
  <2> HIDE DEF G
  <2>2. 16 \in Nat
    OBVIOUS
  <2> QED
    BY <1>4, <2>1, <2>2, Recursion
<1>6. Step(f)
  <2>1. ASSUME NEW n \in 0..16
        PROVE  f[n] = IF n = 0 THEN m ELSE Round(n, f[n - 1])
    <3>1. CASE n = 0
      BY <1>5, <3>1 DEF IsRecursive
    <3>2. CASE n # 0
      <4>1. n \in 1..16 /\ n - 1 \in 0..16 /\ f[n - 1] \in V
        BY <3>2
      <4>2. f[n] = G[n][f[n - 1]]
        BY <1>5, <3>2 DEF IsRecursive
      <4> QED
        BY <3>2, <4>1, <4>2
    <3> QED
      BY <3>1, <3>2
  <2> QED
    BY <2>1
<1>7. Step(stored)
  <2> HIDE DEF Step
  <2> QED
    BY <1>2, <1>6
<1>8. ASSUME NEW k \in 0..15 PROVE stored[k + 1] = Round(k + 1, stored[k])
  <2>1. k + 1 \in 0..16 /\ k + 1 # 0 /\ (k + 1) - 1 = k
    OBVIOUS
  <2> QED
    BY <1>7, <2>1
<1>9. stored[0] = m
  BY <1>7
<1>10. stored \in [0..16 -> V]
  <2> DEFINE S == {n \in Nat : n <= 16 => stored[n] \in V}
  <2>1. 0 \in S
    BY <1>4, <1>9
  <2>2. ASSUME NEW n \in Nat, n \in S PROVE n + 1 \in S
    <3> SUFFICES ASSUME n + 1 <= 16 PROVE stored[n + 1] \in V
      OBVIOUS
    <3>1. stored[n] \in V /\ n \in 0..15 /\ n + 1 \in 1..16
      BY <2>2
    <3>2. stored[n + 1] = Round(n + 1, stored[n])
      BY <1>8, <3>1
    <3> QED
      BY <1>3, <3>1, <3>2
  <2> HIDE DEF S
  <2>3. \A n \in Nat : n \in S
    BY <2>1, <2>2, Induction
  <2>4. \A n \in 0..16 : stored[n] \in V
    BY <2>3 DEF S
  <2>5. stored = [n \in 0..16 |-> stored[n]]
    BY <1>7
  <2> QED
    BY <2>4, <2>5
<1>11. \A k \in 0..15 :
          stored[k + 1] = IF k \in RegisterList(i)
                          THEN Store(stored[k], TransferAddress(start, i, k), 4,
                                     arm_read_register(g, k))
                          ELSE stored[k]
  <2> TAKE k \in 0..15
  <2>1. (k + 1) - 1 = k
    OBVIOUS
  <2> QED
    BY <1>8, <2>1 DEF Round
<1> QED
  BY <1>1, <1>9, <1>10, <1>11 DEF V

LEMMA LoadStoreMultipleIsSound ==
    ASSUME NEW f, RegistersOK(f), NEW m, MemoryOK(m), NEW i, InstructionOK(i),
           NEW junk \in Word
    PROVE  Sound(arm_load_store_multiple(f, m, i, junk))
<1> DEFINE addr == addr_ls_multiple(f, i)
           stm == instruction_stm1(addr.r, m, i, addr.start)
<1>1. addr.start \in Word /\ RegistersOK(addr.r)
  BY MultipleAddresses
<1> HIDE DEF addr
<1>2. MemoryOK(stm)
  <2> DEFINE g == addr.r
             start == addr.start
  <2>0. RegistersOK(g) /\ start \in Word /\ stm = instruction_stm1(g, m, i, start)
    BY <1>1
  <2> HIDE DEF g, start, stm
  <2>1. PICK stored \in [0..16 -> [Cells -> Byte]] : instruction_stm1(g, m, i, start) = stored[16]
    BY <2>0, StoredOneByOne
  <2>2. 16 \in 0..16
    OBVIOUS
  <2>3. stored[16] \in [Cells -> Byte]
    BY <2>2
  <2> QED
    BY <2>0, <2>1, <2>3 DEF MemoryOK
<1> HIDE DEF stm
<1>3. RegistersOK(instruction_ldm1(f, m, i, junk))
  BY LoadMultipleIsSound
<1>4. /\ Sound(Outcome(f, m, UNDEFINED_INSTRUCTION))
      /\ Sound(Outcome(instruction_ldm1(f, m, i, junk), m, 0))
      /\ Sound(Outcome(addr.r, stm, 0))
  BY <1>1, <1>2, <1>3, SoundIsRegistersOK, ResultsAre
<1> QED
  BY <1>4 DEF arm_load_store_multiple, addr, stm

--------------------------------------------------------------------------------
(* Steps.                                                                  *)

\* What arm_step hands on is a byte, and no exception but RESET writes a register.
LEMMA ExceptionIsSound ==
    ASSUME NEW f, RegistersOK(f), NEW m, NEW exception, NEW junk
    PROVE  /\ RegistersOK(arm_exception(f, m, exception, junk).r)
           /\ arm_exception(f, m, exception, junk).mem = m
           /\ exception \in Results =>
                  /\ arm_exception(f, m, exception, junk).r = f
                  /\ arm_exception(f, m, exception, junk).result \in 0..255
<1> USE DEF RESET, SOFTWARE_INTERRUPT, UNDEFINED_INSTRUCTION, Minus1, END_SIMULATION
<1>1. RegistersOK(arm_write_register(registers_write_cpsr(f, ResetCpsr), 15, 0))
  <2>1. ResetCpsr \in Word /\ 0 \in Word /\ 15 \in Reg
    <3>1. ResetCpsr \in 0..511 /\ 15 \in Reg
      BY DEF ResetCpsr, Reg
    <3> QED
      BY <3>1, SmallWords, ZeroIsWord
  <2> QED
    BY <2>1, RegisterTypes
<1> DEFINE swi == CASE SwiNumber(f, m, junk) = 1193046 -> END_SIMULATION
                    [] SwiNumber(f, m, junk) = 1       -> 0
                    [] OTHER                           -> SOFTWARE_INTERRUPT
<1>2. arm_exception(f, m, exception, junk) =
          IF exception = RESET
          THEN Outcome(arm_write_register(registers_write_cpsr(f, ResetCpsr), 15, 0), m, RESET)
          ELSE IF exception = SOFTWARE_INTERRUPT THEN Outcome(f, m, swi)
          ELSE Outcome(f, m, exception)
  BY SMT DEF arm_exception
<1>3. swi \in 0..255
  BY SMT
<1> HIDE DEF swi
<1> QED
  BY <1>1, <1>2, <1>3 DEF Outcome, Results

LEMMA ReturnIsSound ==
    ASSUME NEW outcome, Sound(outcome), NEW junk, Return(outcome, junk)
    PROVE  TypeOK'
<1>1. 0 \in 0..255
  OBVIOUS
<1> QED
  BY <1>1, ExceptionIsSound DEF Return, Sound, TypeOK, RegistersOK, MemoryOK

LEMMA FetchIsSound ==
    ASSUME RegistersOK(r)
    PROVE  RegistersOK(AfterFetch) /\ PC \in Word
<1>1. PC \in Word
  <2>1. 15 \in Reg
    OBVIOUS
  <2> QED
    BY <2>1, RegisterTypes DEF registers_read, PC
<1>2. PC \in Int
  BY <1>1, WordsAreIntegers
<1> DEFINE n == PC + 4
<1>3. n \in Int
  BY <1>2
<1> HIDE DEF n
<1>4. RegistersOK(arm_write_register(r, 15, Wrap(n)))
  BY <1>3, WrittenRegister
<1> QED
  BY <1>1, <1>4 DEF AfterFetch, arm_write_register, n

LEMMA ExecuteIsSound ==
    ASSUME NEW i, InstructionOK(i), NEW junk \in Word, RegistersOK(r), MemoryOK(mem),
           Execute(i, junk)
    PROVE  TypeOK'
<1> DEFINE g == AfterFetch
<1>1. RegistersOK(g)
  BY FetchIsSound
<1> HIDE DEF g
<1>2. CASE Miscellaneous(i, junk)
  BY <1>1, <1>2, MiscellaneousIsSound, ReturnIsSound DEF Miscellaneous, g
<1>3. CASE DataProcessingShift(i, junk)
  BY <1>1, <1>3, DataProcessingsAreSound, ReturnIsSound DEF DataProcessingShift, g
<1>4. CASE DataProcessingImmediate(i, junk)
  BY <1>1, <1>4, DataProcessingsAreSound, ReturnIsSound DEF DataProcessingImmediate, g
<1>5. CASE LoadStore(i, junk)
  BY <1>1, <1>5, LoadStoreIsSound, ReturnIsSound DEF LoadStore, g
<1>6. CASE LoadStoreMultiple(i, junk)
  BY <1>1, <1>6, LoadStoreMultipleIsSound, ReturnIsSound DEF LoadStoreMultiple, g
<1>7. CASE Branch(i, junk)
  BY <1>1, <1>7, BranchIsSound, ReturnIsSound DEF Branch, g
<1>8. CASE CoprocessorLoadStore(i, junk)
  BY <1>1, <1>8, MiscellaneousIsSound, ReturnIsSound DEF CoprocessorLoadStore, g
<1>9. CASE SoftwareInterrupt(i, junk)
  BY <1>1, <1>9, BranchIsSound, ReturnIsSound DEF SoftwareInterrupt, g
<1> QED
  BY <1>2, <1>3, <1>4, <1>5, <1>6, <1>7, <1>8, <1>9 DEF Execute

LEMMA InitTypeOK == Init => TypeOK
<1> SUFFICES ASSUME Init PROVE TypeOK
  OBVIOUS
<1> DEFINE z == [s \in Slots |-> 0]
           g == arm_exception(z, <<>>, RESET, 0).r
<1>1. RegistersOK(z)
  BY ZeroIsWord DEF RegistersOK
<1> HIDE DEF z
<1>2. RegistersOK(g)
  BY <1>1, ExceptionIsSound
<1> HIDE DEF g
<1>3. RegistersOK(arm_write_register(g, 13, MemSize))
  <2>1. MemSize \in Word /\ 13 \in Reg
    BY CpuAssumption
  <2> QED
    BY <1>2, <2>1, RegisterTypes
<1>4. mem \in [Cells -> Byte]
  BY CpuAssumption DEF Init
<1>5. result \in 0..255
  BY DEF Init
<1> QED
  BY <1>3, <1>4, <1>5 DEF Init, TypeOK, RegistersOK, arm_create, g, z

LEMMA NextTypeOK == TypeOK /\ [Next]_vars => TypeOK'
<1> SUFFICES ASSUME TypeOK, [Next]_vars PROVE TypeOK'
  OBVIOUS
<1>1. RegistersOK(r) /\ MemoryOK(mem) /\ RegistersOK(AfterFetch)
  BY FetchIsSound DEF TypeOK, RegistersOK, MemoryOK
<1>2. CASE FetchFails
  <2>1. Sound(Outcome(AfterFetch, mem, Minus1))
    BY <1>1, SoundIsRegistersOK, ResultsAre
  <2> QED
    BY <1>2, <2>1, ReturnIsSound DEF FetchFails
<1>3. ASSUME NEW junk \in Junk, Skip(junk) PROVE TypeOK'
  <2>1. Sound(Outcome(AfterFetch, mem, 0))
    BY <1>1, SoundIsRegistersOK, ResultsAre
  <2> QED
    BY <1>3, <2>1, ReturnIsSound DEF Skip
<1>4. ASSUME NEW junk \in Junk, Execute(Instruction(junk), junk) PROVE TypeOK'
  <2>1. junk \in Word /\ InstructionOK(Instruction(junk))
    BY CpuAssumption, InstructionBits DEF InstructionOK
  <2> QED
    BY <1>1, <1>4, <2>1, ExecuteIsSound
<1>5. CASE Interrupt
  <2>1. PICK e \in Interrupts, junk \in Junk : r' = arm_exception(r, mem, e, junk).r
    BY <1>5 DEF Interrupt
  <2>2. RegistersOK(r')
    BY <1>1, <2>1, ExceptionIsSound
  <2> QED
    BY <1>5, <2>2 DEF Interrupt, TypeOK, RegistersOK
<1>6. CASE PokeRegister
  <2>1. PICK p \in RegisterPokes : r' = arm_write_register(r, p[1], p[2])
    BY <1>6 DEF PokeRegister
  <2>2. RegistersOK(r')
    BY <1>1, <2>1, CpuAssumption, RegisterTypes
  <2> QED
    BY <1>6, <2>2 DEF PokeRegister, TypeOK, RegistersOK
<1>7. CASE PokeCpsr
  <2>1. PICK w \in CpsrPokes : r' = registers_write_cpsr(r, w)
    BY <1>7 DEF PokeCpsr
  <2>2. RegistersOK(r')
    <3>1. w \in Word /\ 0 \in Reg
      BY CpuAssumption
    <3> QED
      BY <1>1, <2>1, <3>1, RegisterTypes
  <2> QED
    BY <1>7, <2>2 DEF PokeCpsr, TypeOK, RegistersOK
<1>8. CASE PokeByte
  <2>1. PICK p \in BytePokes : mem' = Store(mem, p[1], 1, p[2])
    BY <1>8 DEF PokeByte
  <2>2. p[1] \in Nat /\ p[2] \in Word
    BY CpuAssumption, WordSizes, MemSizeType DEF Cells, Byte, Word
  <2>3. MemoryOK(mem')
    BY <1>1, <2>1, <2>2, StoreKeepsBytes
  <2> QED
    BY <1>8, <2>3 DEF PokeByte, TypeOK, MemoryOK
<1>9. CASE UNCHANGED vars
  BY <1>9 DEF vars, TypeOK
<1> QED
  BY <1>2, <1>3, <1>4, <1>5, <1>6, <1>7, <1>8, <1>9 DEF Next, arm_step

\* Registers hold words and memory cells bytes, whatever is executed: no handler
\* leaves a value out of range, and arm_step hands over a uint8_t.
THEOREM TypesAlways == Spec => []TypeOK
BY InitTypeOK, NextTypeOK, PTL DEF Spec

--------------------------------------------------------------------------------
(* The control bits of CPSR.                                               *)

\* The instruction has 28 bits, so that it has one of the eight types.
LEMMA InstructionTypes ==
    ASSUME NEW i, i.bits \in 0..(2^28 - 1)
    PROVE  InsType(i) \in 0..7
<1> DEFINE b == i.bits
           M == 2^28
           D == 33554432
           q == b \div D
<1>1. M = D * 8 /\ D \in Nat \ {0}
  BY Power28, SMT
<1>2. b \in 0..(M - 1)
  OBVIOUS
<1> HIDE DEF b, M, D
<1>3. b \in Int /\ b >= 0 /\ b < D * 8
  BY <1>1, <1>2
<1>4. q < 8
  BY <1>1, <1>3, DivisionIsMonotonic
<1>5. q >= 0 /\ q \in Int
  BY <1>1, <1>3
<1> HIDE DEF q
<1>6. q \in 0..7
  BY <1>4, <1>5
<1>7. InsType(i) = q
  BY SMT DEF InsType, q, b, D
<1> QED
  BY <1>6, <1>7

LEMMA Classes ==
    ASSUME NEW i, InsType(i) \in 0..7
    PROVE  /\ Class(i) = "load_store_multiple" => InsType(i) = 4
           /\ Class(i) = "data_processing_shift" => InsType(i) = 0
           /\ Class(i) = "data_processing_immediate" => InsType(i) = 1
           /\ Class(i) = "swi" => InsType(i) = 7
<1> DEFINE type == InsType(i)
           low == IF On(i, 24) /\ ~ On(i, 23) /\ ~ On(i, 20) THEN "miscellaneous"
                  ELSE IF On(i, 7) /\ On(i, 4) THEN "load_store"
                  ELSE "data_processing_shift"
<1>1. low \in {"miscellaneous", "load_store", "data_processing_shift"}
  OBVIOUS
<1>2. Class(i) = CASE type = 0 -> low
                   [] type = 1 -> "data_processing_immediate"
                   [] type \in {2, 3} -> "load_store"
                   [] type = 4 -> "load_store_multiple"
                   [] type = 5 -> "branch"
                   [] type = 6 -> "coprocessor_load_store"
                   [] type = 7 -> "swi"
  BY DEF Class
<1>3. type \in 0..7
  OBVIOUS
<1> HIDE DEF low
<1>4. /\ type = 0 => Class(i) = low
      /\ type = 1 => Class(i) = "data_processing_immediate"
      /\ type \in {2, 3} => Class(i) = "load_store"
      /\ type = 4 => Class(i) = "load_store_multiple"
      /\ type = 5 => Class(i) = "branch"
      /\ type = 6 => Class(i) = "coprocessor_load_store"
      /\ type = 7 => Class(i) = "swi"
  <2> HIDE DEF type
  <2> QED
    BY <1>2, <1>3
<1> HIDE DEF type
<1>5. /\ Class(i) = "load_store_multiple" => type = 4
      /\ Class(i) = "data_processing_shift" => type = 0
      /\ Class(i) = "data_processing_immediate" => type = 1
      /\ Class(i) = "swi" => type = 7
  BY <1>1, <1>3, <1>4
<1> QED
  BY <1>5 DEF type

LEMMA InstructionsAre28Bits ==
    \A junk : Instruction(junk).bits \in 0..(2^28 - 1) /\ InsType(Instruction(junk)) \in 0..7
<1> TAKE junk
<1>1. \A w \in Encodings : Ins(w).bits \in 0..(2^28 - 1)
  BY CpuAssumption
<1>2. 0 \in 0..(2^28 - 1)
  BY Power28, SMT
<1>3. \A w : Decode(w).bits \in 0..(2^28 - 1)
  BY <1>1, <1>2 DEF Decode
<1> QED
  BY <1>3, InstructionTypes DEF Instruction

\* From f to g, the control bits stay.
KeepsControl(f, g) == ControlBits(g) = ControlBits(f)

LEMMA KeepingKeepsControl ==
    ASSUME NEW f, NEW g, Keeps(f, g)
    PROVE  KeepsControl(f, g)
BY DEF Keeps, KeepsControl, ControlBits, registers_read_cpsr

\* Only a flag-setting write to the PC restores CPSR.
LEMMA DataProcessingKeepsControl ==
    ASSUME NEW f, RegistersOK(f), NEW m, NEW i, InstructionOK(i), NEW operand,
           ~ (On(i, 20) /\ Rd(i) = 15)
    PROVE  KeepsControl(f, DataProcessing(f, m, i, operand).r)
<1> DEFINE op == Opcode(i)
           cpsr == registers_read_cpsr(f)
           c == Flag(cpsr, "C")
           rn == arm_read_register(f, Rn(i))
           out == AluOut(op, rn, operand[1], c)
           g == arm_write_register(f, Rd(i), out)
           back == arm_read_register(g, Rd(i))
           flags(n, d) == Flags(op, cpsr, n, d, rn, operand[1], c, operand[2])
<1>1. IsArray(f) /\ cpsr \in Word /\ Rd(i) \in Reg
  BY FieldTypes DEF IsArray, RegistersOK, registers_read_cpsr
<1>2. Keeps(f, g)
  BY <1>1, WriteKeeps
<1>3. IsArray(g)
  BY <1>2 DEF Keeps, Touches
<1>4. \A n, d : Control(flags(n, d)) = Control(cpsr)
  BY <1>1, FlagsKeepControl
<1>5. DataProcessing(f, m, i, operand).r =
          IF op \in OnlyFlags
          THEN registers_write_cpsr(f, flags(out, arm_read_register(f, Rd(i))))
          ELSE IF ~ SetsFlags(i) THEN g
          ELSE registers_write_cpsr(g, flags(back, back))
  BY DEF DataProcessing, op, cpsr, c, rn, out, g, back, flags, Outcome, SetsFlags
<1> HIDE DEF g, flags, op, c, rn, out, back
<1>6. \A h, n, d : IsArray(h) => KeepsControl(f, registers_write_cpsr(h, flags(n, d)))
  <2> TAKE h, n, d
  <2> HAVE IsArray(h)
  <2>1. registers_write_cpsr(h, flags(n, d))[CpsrSlot] = flags(n, d)
    BY DEF registers_write_cpsr, IsArray
  <2>2. Control(flags(n, d)) = Control(cpsr)
    BY <1>4
  <2> QED
    BY <2>1, <2>2 DEF KeepsControl, ControlBits, registers_read_cpsr, Control, cpsr
<1>7. KeepsControl(f, g)
  BY <1>2, KeepingKeepsControl
<1> QED
  BY <1>1, <1>3, <1>5, <1>6, <1>7

\* Only a load of the PC writes CPSR.
LEMMA LoadStoreMultipleKeepsControl ==
    ASSUME NEW f, RegistersOK(f), NEW m, NEW i, InstructionOK(i), NEW junk,
           ~ (On(i, 20) /\ On(i, 15))
    PROVE  KeepsControl(f, arm_load_store_multiple(f, m, i, junk).r)
<1> DEFINE addr == addr_ls_multiple(f, i)
           g == LoadedRegisters(addr.r, m, addr.start, i, junk)
<1>1. IsArray(f) /\ i.bits \in Nat
  BY DEF IsArray, RegistersOK, InstructionOK
<1>2. Keeps(f, addr.r) /\ Keeps(f, f)
  BY <1>1, LoadMultipleTouches, KeepsItself
<1> HIDE DEF addr
<1>3. Keeps(f, g)
  <2>1. IsArray(addr.r)
    BY <1>2 DEF Keeps, Touches
  <2> HIDE DEF g
  <2>2. Keeps(addr.r, g)
    BY <2>1, LoadedRegistersKeep DEF g
  <2> QED
    BY <1>2, <2>2, KeepsThenKeeps
<1> HIDE DEF g
<1>4. 15 \notin RegisterList(i) => instruction_ldm1(f, m, i, junk) = g
  BY DEF instruction_ldm1, addr, g
<1>5. 15 \in RegisterList(i) => On(i, 15)
  BY DEF RegisterList
<1>6. arm_load_store_multiple(f, m, i, junk).r \in {f, g, addr.r}
  BY <1>4, <1>5 DEF arm_load_store_multiple, Outcome, addr
<1> QED
  BY <1>2, <1>3, <1>6, KeepingKeepsControl

LEMMA ReturnKeepsControl ==
    ASSUME NEW outcome, Sound(outcome), NEW junk, Return(outcome, junk),
           KeepsControl(r, outcome.r)
    PROVE  ControlBits(r') = ControlBits(r)
<1>1. r' = outcome.r
  BY ExceptionIsSound DEF Return, Sound
<1> QED
  BY <1>1 DEF KeepsControl

LEMMA ExecuteKeepsControl ==
    ASSUME NEW i, InstructionOK(i), InsType(i) \in 0..7, NEW junk \in Word,
           RegistersOK(r), MemoryOK(mem), Execute(i, junk),
           ~ LoadsPC(i), ~ ReturnsFromException(i)
    PROVE  ControlBits(r') = ControlBits(r)
<1> DEFINE g == AfterFetch
<1>1. RegistersOK(g) /\ IsArray(g) /\ i.bits \in Nat
  BY FetchIsSound DEF RegistersOK, IsArray, InstructionOK
<1>2. KeepsControl(r, g)
  <2>1. IsArray(r)
    BY DEF RegistersOK, IsArray
  <2> QED
    BY <2>1, AfterFetchKeeps, KeepingKeepsControl
<1>3. \A h : KeepsControl(g, h) => KeepsControl(r, h)
  BY <1>2 DEF KeepsControl
<1> HIDE DEF g
<1>4. CASE Miscellaneous(i, junk)
  <2>1. KeepsControl(r, arm_miscellaneous(g, mem, i).r)
    BY <1>1, <1>3, MiscellaneousKeeps, KeepingKeepsControl
  <2> QED
    BY <1>1, <1>4, <2>1, MiscellaneousIsSound, ReturnKeepsControl DEF Miscellaneous, g
<1>5. CASE DataProcessingShift(i, junk)
  <2>1. ~ (On(i, 20) /\ Rd(i) = 15)
    BY <1>5, Classes DEF ReturnsFromException, DataProcessingShift
  <2>2. KeepsControl(r, arm_data_processing_shift(g, mem, i).r)
    BY <1>1, <1>3, <2>1, DataProcessingKeepsControl DEF arm_data_processing_shift
  <2> QED
    BY <1>1, <1>5, <2>2, DataProcessingsAreSound, ReturnKeepsControl
       DEF DataProcessingShift, g
<1>6. CASE DataProcessingImmediate(i, junk)
  <2>1. ~ (On(i, 20) /\ Rd(i) = 15)
    BY <1>6, Classes DEF ReturnsFromException, DataProcessingImmediate
  <2>2. KeepsControl(r, arm_data_processing_immediate_msr(g, mem, i).r)
    BY <1>1, <1>3, <2>1, DataProcessingKeepsControl DEF arm_data_processing_immediate_msr
  <2> QED
    BY <1>1, <1>6, <2>2, DataProcessingsAreSound, ReturnKeepsControl
       DEF DataProcessingImmediate, g
<1>7. CASE LoadStore(i, junk)
  <2>1. KeepsControl(r, arm_load_store(g, mem, i, junk).r)
    BY <1>1, <1>3, LoadStoreKeeps, KeepingKeepsControl
  <2> QED
    BY <1>1, <1>7, <2>1, LoadStoreIsSound, ReturnKeepsControl DEF LoadStore, g
<1>8. CASE LoadStoreMultiple(i, junk)
  <2>1. ~ (On(i, 20) /\ On(i, 15))
    BY <1>8, Classes DEF LoadsPC, LoadStoreMultiple
  <2>2. KeepsControl(r, arm_load_store_multiple(g, mem, i, junk).r)
    BY <1>1, <1>3, <2>1, LoadStoreMultipleKeepsControl
  <2> QED
    BY <1>1, <1>8, <2>2, LoadStoreMultipleIsSound, ReturnKeepsControl
       DEF LoadStoreMultiple, g
<1>9. CASE Branch(i, junk)
  <2>1. KeepsControl(r, arm_branch(g, mem, i).r)
    BY <1>1, <1>3, BranchKeeps, KeepingKeepsControl
  <2> QED
    BY <1>1, <1>9, <2>1, BranchIsSound, ReturnKeepsControl DEF Branch, g
<1>10. CASE CoprocessorLoadStore(i, junk)
  <2>1. KeepsControl(r, arm_coprocessor_load_store(g, mem, i).r)
    BY <1>2 DEF arm_coprocessor_load_store, Outcome
  <2> QED
    BY <1>1, <1>10, <2>1, MiscellaneousIsSound, ReturnKeepsControl
       DEF CoprocessorLoadStore, g
<1>11. CASE SoftwareInterrupt(i, junk)
  <2>1. KeepsControl(r, arm_coprocessor_others_swi(g, mem, i).r)
    BY <1>1, <1>3, SwiKeeps, KeepingKeepsControl
  <2> QED
    BY <1>1, <1>11, <2>1, BranchIsSound, ReturnKeepsControl DEF SoftwareInterrupt, g
<1> QED
  BY <1>4, <1>5, <1>6, <1>7, <1>8, <1>9, <1>10, <1>11 DEF Execute

\* An instruction that is neither an LDM of the PC nor a flag-setting write to the
\* PC leaves mode, masks and state bits of CPSR as they were: flag updates touch
\* the four flags alone, and no handler returns RESET.
THEOREM ControlBitsKeptAlways == Spec => ControlBitsKept
<1> DEFINE Restores == \E junk \in Junk : LoadsPC(Instruction(junk))
                                          \/ ReturnsFromException(Instruction(junk))
<1>1. ASSUME TypeOK, [Next]_vars, Steps, ControlBits(r') # ControlBits(r) PROVE Restores
  <2>1. RegistersOK(r) /\ MemoryOK(mem) /\ RegistersOK(AfterFetch)
    BY <1>1, FetchIsSound DEF TypeOK, RegistersOK, MemoryOK
  <2>2. KeepsControl(r, AfterFetch)
    <3>1. IsArray(r)
      BY <2>1 DEF RegistersOK, IsArray
    <3> QED
      BY <3>1, AfterFetchKeeps, KeepingKeepsControl
  <2>3. \A x \in Results : Sound(Outcome(AfterFetch, mem, x))
                           /\ KeepsControl(r, Outcome(AfterFetch, mem, x).r)
    BY <2>1, <2>2, SoundIsRegistersOK DEF Outcome
  <2>4. ~ FetchFails
    BY <1>1, <2>3, ReturnKeepsControl, ResultsAre DEF FetchFails
  <2>5. \A junk : ~ Skip(junk)
    BY <1>1, <2>3, ReturnKeepsControl, ResultsAre DEF Skip
  <2>6. ~ (Interrupt \/ PokeRegister \/ PokeCpsr \/ PokeByte \/ UNCHANGED vars)
    BY <1>1 DEF Interrupt, PokeRegister, PokeCpsr, PokeByte, vars, Steps
  <2>7. PICK junk \in Junk : Execute(Instruction(junk), junk)
    BY <1>1, <2>4, <2>5, <2>6 DEF Next, arm_step
  <2>8. junk \in Word /\ InstructionOK(Instruction(junk)) /\ InsType(Instruction(junk)) \in 0..7
    BY CpuAssumption, InstructionBits, InstructionsAre28Bits DEF InstructionOK
  <2>9. LoadsPC(Instruction(junk)) \/ ReturnsFromException(Instruction(junk))
    BY <1>1, <2>1, <2>7, <2>8, ExecuteKeepsControl
  <2> QED
    BY <2>9
<1>2. TypeOK /\ [Next]_vars => [Steps /\ ControlBits(r') # ControlBits(r) => Restores]_vars
  BY <1>1
<1> QED
  BY <1>2, TypesAlways, PTL DEF Spec, ControlBitsKept

--------------------------------------------------------------------------------
(* The PC at an aligned address.                                           *)

\* An aligned address stays aligned when it wraps, and its bit 1 is 0.
LEMMA AlignedAddress ==
    ASSUME NEW v \in Int, v % 4 = 0
    PROVE  Wrap(v) % 4 = 0 /\ clr_bit(Wrap(v), 1) = Wrap(v)
<1> DEFINE M == 2^W
           k == W - 2
           K == 2^k
           q == (v \div 4) % K
           x == v % M
<1>1. M = 4 * K /\ K \in Nat \ {0} /\ 4 \in Nat \ {0}
  <2>1. k \in Nat /\ 2 \in Nat /\ W = 2 + k
    BY WordSizes
  <2> HIDE DEF k
  <2>2. 2^W = 2^2 * 2^k
    BY <2>1, PowerOfSum
  <2> QED
    BY <2>1, <2>2, SmallPowers, PowerIsPositive
<1> HIDE DEF M, K
<1>2. x = 4 * q + (v % 4)
  <2>1. IsProduct(M, 4, K)
    BY <1>1 DEF IsProduct
  <2> QED
    BY <1>1, <2>1, DivisionByProduct
<1>3. q \in Int
  <2>1. v \div 4 \in Int
    OBVIOUS
  <2> QED
    BY <1>1, <2>1, Division
<1> HIDE DEF q, x
<1>4. x = 2 * (2 * q) + 0
  BY <1>2, <1>3
<1>5. x \div 2 = 2 * q
  <2> DEFINE p == 2 * q
  <2>1. x = 2 * p + 0 /\ p \in Int /\ 2 \in Nat \ {0} /\ 0 \in 0..(2 - 1)
    BY <1>3, <1>4
  <2> HIDE DEF p
  <2>2. x \div 2 = p
    BY <2>1, DivisionOf
  <2> QED
    BY <2>2 DEF p
<1>6. (2 * q) % 2 = 0
  BY <1>3
<1>7. get_bit(x, 1) = 0
  BY <1>5, <1>6, SmallPowers DEF get_bit
<1>8. clr_bit(x, 1) = x
  BY <1>7 DEF clr_bit
<1>9. x % 4 = 0
  <2>1. x = 4 * q + 0 /\ 0 \in 0..(4 - 1)
    BY <1>4, <1>3
  <2> QED
    BY <1>1, <1>3, <2>1, DivisionOf
<1> QED
  BY <1>8, <1>9 DEF Wrap, x, M

\* What r15 reads as in a handler that starts at an aligned address.
LEMMA ReadOfPC ==
    ASSUME NEW f, RegistersOK(f), f[15] % 4 = 0
    PROVE  f[15] \in Word /\ arm_read_register(f, 15) = Wrap(f[15] + 4)
<1> DEFINE v == f[15]
           n == v + 4
<1>1. v \in Word
  BY DEF RegistersOK
<1> HIDE DEF v
<1>0. v \in Int
  BY <1>1, WordsAreIntegers
<1>2. n \in Int /\ n % 4 = v % 4
  <2>1. n = v + 4 * 1 /\ 4 \in Nat \ {0}
    BY <1>0
  <2> HIDE DEF n
  <2>2. n \in Int
    BY <1>0, <2>1
  <2> QED
    BY <1>0, <2>1, <2>2, AddMultiple
<1>3. v % 4 = 0
  BY DEF v
<1> HIDE DEF n
<1>4. clr_bit(Wrap(n), 1) = Wrap(n)
  BY <1>2, <1>3, AlignedAddress
<1> QED
  BY <1>1, <1>4, PCSlot DEF arm_read_register, registers_read, v, n

\* Back by n from an address wrapped after n.
LEMMA BackAgain ==
    ASSUME NEW v \in Word, NEW n \in Int
    PROVE  Wrap(Wrap(v + n) - n) = v
<1> DEFINE s == v + n
           d == 0 - n
<1>1. s \in Int /\ d \in Int /\ s + d = v /\ \A x \in Int : x + d = x - n
  BY WordsAreIntegers
<1> HIDE DEF s, d
<1>2. Wrap(Wrap(s) + d) = Wrap(s + d)
  BY <1>1, WrapOfWrap
<1>3. Wrap(s) \in Int
  <2> DEFINE x == Wrap(s)
  <2>1. x \in Word
    BY <1>1, WrapIsWord
  <2> HIDE DEF x
  <2>2. x \in Int
    BY <2>1, WordsAreIntegers
  <2> QED
    BY <2>2 DEF x
<1>4. Wrap(s) + d = Wrap(s) - n
  BY <1>1, <1>3
<1> QED
  BY <1>1, <1>2, <1>4, WrapOfWord DEF s

\* The handler and arm_exception look up the number of the very instruction fetched.
LEMMA SwiNumberIsItsOwn ==
    ASSUME RegistersOK(r), PC % 4 = 0, NEW i, NEW junk
    PROVE  SwiNumber(arm_coprocessor_others_swi(AfterFetch, mem, i).r, mem, junk)
           = Instruction(junk).bits % 2^24
<1> DEFINE g == AfterFetch
           w == Wrap(arm_read_register(g, 15) - 4)
           h == arm_write_register(g, 14, w)
<1>1. RegistersOK(g) /\ PC \in Word
  BY FetchIsSound
<1>2. g[15] = Wrap(PC + 4)
  <2>1. AfterFetch = [r EXCEPT ![15] = Wrap(PC + 4)]
    BY PCSlot DEF AfterFetch, registers_write
  <2>2. 15 \in DOMAIN r
    BY DEF RegistersOK
  <2> QED
    BY <2>1, <2>2
<1>3. RegistersOK(h)
  <2>1. arm_read_register(g, 15) \in Int
    <3>1. 15 \in Reg
      OBVIOUS
    <3> QED
      BY <1>1, <3>1, ReadIsWord
  <2>2. arm_read_register(g, 15) - 4 \in Int /\ 14 \in Reg
    BY <2>1
  <2> HIDE DEF g
  <2> QED
    BY <1>1, <2>2, WrittenRegister
<1>4. h[15] = g[15]
  <2>1. Slot(14, Mode(g)) # 15
    BY DEF Slot, BankOffset
  <2> HIDE DEF w, g
  <2> QED
    BY <2>1 DEF arm_write_register, registers_write
<1> DEFINE v == Wrap(PC + 4)
<1>5. v \in Word /\ v % 4 = 0 /\ Wrap(v + 4) = Wrap(PC + 8)
  <2>1. PC \in Int /\ PC + 4 \in Int
    BY <1>1, WordsAreIntegers
  <2> DEFINE pc == PC
             n == pc + 4
  <2>2. pc \in Int /\ n \in Int /\ pc % 4 = 0
    BY <2>1
  <2>3. n % 4 = 0
    <3>1. n = pc + 4 * 1 /\ 4 \in Nat \ {0}
      BY <2>2
    <3> HIDE DEF n, pc
    <3> QED
      BY <2>2, <3>1, AddMultiple
  <2>4. n + 4 = pc + 8 /\ v = Wrap(n)
    BY <2>2
  <2> HIDE DEF pc, n, v
  <2>5. v % 4 = 0
    BY <2>2, <2>3, <2>4, AlignedAddress
  <2>6. v \in Word
    BY <2>2, <2>4, WrapIsWord
  <2>7. Wrap(v + 4) = Wrap(pc + 8)
    <3>1. 4 \in Int
      OBVIOUS
    <3>2. Wrap(Wrap(n) + 4) = Wrap(n + 4)
      BY <2>2, <3>1, WrapOfWrap
    <3> QED
      BY <2>4, <3>2
  <2> QED
    BY <2>5, <2>6, <2>7 DEF pc
<1>6. arm_read_register(h, 15) = Wrap(PC + 8)
  <2> HIDE DEF h, g
  <2>1. h[15] = v
    BY <1>2, <1>4
  <2> HIDE DEF v
  <2> QED
    BY <1>3, <1>5, <2>1, ReadOfPC
<1>7. Wrap(arm_read_register(h, 15) - 8) = PC
  <2> HIDE DEF h
  <2>1. 8 \in Int
    OBVIOUS
  <2>2. Wrap(Wrap(PC + 8) - 8) = PC
    BY <1>1, <2>1, BackAgain
  <2> QED
    BY <1>6, <2>2
<1>8. arm_coprocessor_others_swi(g, mem, i).r = h
  BY DEF arm_coprocessor_others_swi, Outcome
<1> HIDE DEF h, g
<1> QED
  BY <1>7, <1>8 DEF SwiNumber, Instruction, g

\* At an aligned address, an SWI ends the simulation exactly when it is number
\* 0x123456 and is silent exactly when it is number 1: arm_exception reads again the
\* instruction that was executed, and not its neighbour.
THEOREM SwiServesItsOwnNumberAlways == Spec => SwiServesItsOwnNumber
<1> USE DEF END_SIMULATION, SOFTWARE_INTERRUPT, RESET
<1> DEFINE Number(junk) == Instruction(junk).bits % 2^24
           Served(junk) == Fetches(Instruction(junk)) /\ Class(Instruction(junk)) = "swi" =>
                              /\ (result' = END_SIMULATION) <=> (Number(junk) = 1193046)
                              /\ (result' = 0) <=> (Number(junk) = 1)
<1>1. ASSUME TypeOK, [Next]_vars, Steps, PC % 4 = 0 PROVE \E junk \in Junk : Served(junk)
  <2>1. RegistersOK(r)
    BY <1>1 DEF TypeOK, RegistersOK
  <2>2. PICK any \in Junk : TRUE
    BY CpuAssumption
  <2>3. CASE FetchFails
    <3>1. ~ Fetches(Instruction(any))
      BY <2>3 DEF FetchFails, Fetches
    <3> QED
      BY <2>2, <3>1
  <2>4. ASSUME NEW junk \in Junk, Skip(junk) PROVE Served(junk)
    <3>1. ~ Fetches(Instruction(junk))
      BY <2>4 DEF Skip, Fetches
    <3> QED
      BY <3>1
  <2>5. ASSUME NEW junk \in Junk, Execute(Instruction(junk), junk),
               Class(Instruction(junk)) = "swi"
        PROVE  Served(junk)
    <3> DEFINE i == Instruction(junk)
               n == Number(junk)
               outcome == arm_coprocessor_others_swi(AfterFetch, mem, i)
    <3>1. Return(outcome, junk)
      BY <2>5 DEF Execute, Miscellaneous, DataProcessingShift, DataProcessingImmediate,
                  LoadStore, LoadStoreMultiple, Branch, CoprocessorLoadStore,
                  SoftwareInterrupt
    <3>2. SwiNumber(outcome.r, mem, junk) = n
      BY <1>1, <2>1, SwiNumberIsItsOwn
    <3>3. outcome.result = SOFTWARE_INTERRUPT /\ outcome.mem = mem
      BY DEF arm_coprocessor_others_swi, Outcome
    <3> HIDE DEF outcome, n, i
    <3>4. result' = CASE n = 1193046 -> END_SIMULATION
                      [] n = 1       -> 0
                      [] OTHER       -> SOFTWARE_INTERRUPT
      BY <3>1, <3>2, <3>3, SMT DEF Return, arm_exception, Outcome
    <3>5. /\ (result' = END_SIMULATION) <=> (n = 1193046)
          /\ (result' = 0) <=> (n = 1)
      BY <3>4, SMT
    <3> QED
      BY <3>5, SMT DEF n
  <2>6. ~ (Interrupt \/ PokeRegister \/ PokeCpsr \/ PokeByte \/ UNCHANGED vars)
    BY <1>1 DEF Interrupt, PokeRegister, PokeCpsr, PokeByte, vars, Steps
  <2>7. ASSUME NEW junk \in Junk, Execute(Instruction(junk), junk) PROVE Served(junk)
    BY <2>5, <2>7
  <2> HIDE DEF Served
  <2> QED
    BY <1>1, <2>3, <2>4, <2>6, <2>7 DEF Next, arm_step
<1>2. TypeOK /\ [Next]_vars =>
          [Steps /\ PC % 4 = 0 =>
           \E junk \in Junk :
               LET i == Instruction(junk)
               IN  Fetches(i) /\ Class(i) = "swi" =>
                       /\ (result' = END_SIMULATION) <=> (i.bits % 2^24 = 1193046)
                       /\ (result' = 0) <=> (i.bits % 2^24 = 1)]_vars
  BY <1>1, SMT
<1> HIDE DEF Served
<1> QED
  BY <1>2, TypesAlways, PTL DEF Spec, SwiServesItsOwnNumber

--------------------------------------------------------------------------------
(* Calls.                                                                  *)

\* The fields of MOV pc, lr.
LEMMA MovPcLrFields ==
    /\ Opcode(MovPcLr) = MOV /\ ~ On(MovPcLr, 20) /\ ~ On(MovPcLr, 4)
    /\ Rd(MovPcLr) = 15 /\ Rm(MovPcLr) = 14
    /\ (MovPcLr.bits \div 32) % 4 = 0 /\ ((MovPcLr.bits \div 128) % 32) % W = 0
<1>1. 2^20 = 1048576 /\ 2^4 = 16
  BY SmallPowers, Power16, PowerFrom
<1>2. MovPcLr.bits = 27324430
  BY SMT DEF MovPcLr
<1>3. /\ 27324430 \div 2097152 = 13 /\ 27324430 \div 1048576 = 26 /\ 27324430 \div 16 = 1707776
      /\ 27324430 \div 4096 = 6671 /\ 27324430 % 16 = 14
      /\ 27324430 \div 32 = 853888 /\ 27324430 \div 128 = 213472
  BY SMT
<1>4. /\ 13 % 16 = 13 /\ 26 % 2 = 0 /\ 1707776 % 2 = 0 /\ 6671 % 16 = 15
      /\ 853888 % 4 = 0 /\ 213472 % 32 = 0
  BY SMT
<1>5. 0 % W = 0
  BY WordSizes
<1> QED
  BY <1>1, <1>2, <1>3, <1>4, <1>5, SMT DEF Opcode, MOV, On, Bit, Rd, Rm

\* MOV pc, lr copies the link register of the current mode.
LEMMA MovPcLrReturns ==
    ASSUME NEW f, RegistersOK(f), NEW m
    PROVE  LET back == arm_data_processing_shift(f, m, MovPcLr)
           IN  back.r[15] = f[Slot(14, Mode(f))]
<1> DEFINE i == MovPcLr
           lr == arm_read_register(f, 14)
           c == Flag(registers_read_cpsr(f), "C")
           back == arm_data_processing_shift(f, m, i)
<1> HIDE DEF i
<1>1. /\ Opcode(i) = MOV /\ ~ On(i, 20) /\ ~ On(i, 4) /\ Rd(i) = 15 /\ Rm(i) = 14
      /\ (i.bits \div 32) % 4 = 0 /\ ((i.bits \div 128) % 32) % W = 0
  BY MovPcLrFields DEF i
<1>2. ShiftedOperand(f, i)[1] = lr
  <2>1. ShiftByImm("LSL", lr, 0, c)[1] = lr
    BY DEF ShiftByImm, ShiftLslImm
  <2>2. <<"LSL", "LSR", "ASR", "ROR">>[1 + 0] = "LSL"
    OBVIOUS
  <2> QED
    BY <1>1, <2>1, <2>2 DEF ShiftedOperand
<1>3. \A rn, d : AluOut(Opcode(i), rn, lr, d) = lr
  BY <1>1 DEF AluOut, LogicalOut, MOV, Logical, AND, EOR, TST, TEQ, ORR, BIC, MVN
<1>4. Opcode(i) \notin OnlyFlags
  BY <1>1 DEF OnlyFlags, MOV, TST, TEQ, CMP, CMN
<1>5. back.r = arm_write_register(f, 15, lr)
  <2> DEFINE operand == ShiftedOperand(f, i)
             out == AluOut(Opcode(i), arm_read_register(f, Rn(i)), operand[1], c)
  <2>1. out = lr
    BY <1>2, <1>3
  <2> HIDE DEF operand, lr, out
  <2>2. DataProcessing(f, m, i, operand).r = arm_write_register(f, Rd(i), out)
    BY <1>1, <1>4 DEF DataProcessing, Outcome, SetsFlags, out
  <2> QED
    BY <1>1, <2>1, <2>2 DEF arm_data_processing_shift, operand
<1>6. lr = f[Slot(14, Mode(f))]
  BY DEF arm_read_register, registers_read
<1>7. back.r[15] = lr
  <2>1. arm_write_register(f, 15, lr) = [f EXCEPT ![15] = lr]
    BY PCSlot DEF arm_write_register, registers_write
  <2>2. 15 \in DOMAIN f
    BY DEF RegistersOK
  <2> HIDE DEF lr, back
  <2> QED
    BY <1>5, <2>1, <2>2
<1> QED
  BY <1>6, <1>7 DEF i

\* The offsets that sign_extend_30 leaves alone: forwards, and 2^22 words backwards.
NearOffsets == 0..(2^23 - 1) \cup (2^24 - 2^22)..(2^24 - 1)

\* The three powers in terms of the smallest.
LEMMA OffsetSizes ==
    2^22 \in Nat \ {0} /\ 2^23 = 2 * 2^22 /\ 2^24 = 4 * 2^22
<1>1. 2^22 \in Nat \ {0}
  BY PowerIsPositive
<1>2. 2^(22 + 1) = 2 * 2^22 /\ 2^(23 + 1) = 2 * 2^23
  BY PowerOfNext, Zenon
<1>3. 22 + 1 = 23 /\ 23 + 1 = 24
  OBVIOUS
<1> DEFINE A == 2^22
           B == 2^23
           C == 2^24
<1>4. B = 2 * A /\ C = 2 * B
  BY <1>2, <1>3
<1> HIDE DEF A, B, C
<1>5. A \in Nat \ {0}
  BY <1>1 DEF A
<1>6. B = 2 * A /\ C = 4 * A
  BY <1>4, <1>5
<1> QED
  BY <1>1, <1>6 DEF A, B, C

LEMMA NearOffsetsExtend ==
    ASSUME NEW offset \in NearOffsets
    PROVE  /\ offset \in 0..(2^24 - 1)
           /\ sign_extend_30(offset) = SignedOffset(offset)
<1> DEFINE A == 2^22
           B == 2^23
           C == 2^24
<1>1. A \in Nat \ {0} /\ B = 2 * A /\ C = 4 * A /\ B \in Nat \ {0}
  <2>1. A \in Nat \ {0} /\ B = 2 * A /\ C = 4 * A
    BY OffsetSizes
  <2> HIDE DEF A, B, C
  <2> QED
    BY <2>1
<1>2. offset \in 0..(B - 1) \/ offset \in (C - A)..(C - 1)
  BY DEF NearOffsets
<1>3. /\ sign_extend_30(offset) =
            IF (offset \div B) % 2 = 0 THEN offset
            ELSE offset - C + (IF (offset \div A) % 2 = 1 THEN 0 ELSE A)
      /\ SignedOffset(offset) = IF offset < B THEN offset ELSE offset - C
  BY DEF sign_extend_30, SignedOffset
<1> HIDE DEF A, B, C
<1>4. offset \in 0..(C - 1)
  BY <1>1, <1>2
<1>5. CASE offset \in 0..(B - 1)
  <2>1. offset \div B = 0
    BY <1>1, <1>5, DivisionOfSmall
  <2> QED
    BY <1>1, <1>3, <1>4, <1>5, <2>1 DEF C
<1>6. CASE offset \in (C - A)..(C - 1)
  <2>1. /\ offset = B * 1 + (offset - B) /\ offset - B \in 0..(B - 1)
        /\ offset = A * 3 + (offset - 3 * A) /\ offset - 3 * A \in 0..(A - 1)
    BY <1>1, <1>6
  <2>2. offset \div B = 1 /\ offset \div A = 3
    <3>1. offset \div B = 1
      BY <1>1, <2>1, DivisionOf
    <3>2. offset \div A = 3
      BY <1>1, <2>1, DivisionOf
    <3> QED
      BY <3>1, <3>2
  <2>3. sign_extend_30(offset) = offset - C + 0 /\ ~ (offset < B)
    BY <1>1, <1>3, <1>6, <2>2
  <2> QED
    BY <1>1, <1>3, <1>4, <1>6, <2>3 DEF C
<1> QED
  BY <1>2, <1>5, <1>6

\* The encoding of a BL: its L bit is set and its number is the offset.
LEMMA BranchBits ==
    ASSUME NEW offset \in 0..(2^24 - 1)
    PROVE  /\ BLOf(offset).bits \in Nat
           /\ On(BLOf(offset), 24)
           /\ BLOf(offset).bits % 2^24 = offset
<1> DEFINE M == 2^24
           b == BLOf(offset).bits
           q == 11
           n == 184549376
<1>1. M = 16777216
  BY Power24
<1>2. b = n + offset
  BY SMT DEF BLOf
<1>3. offset \in 0..(M - 1)
  OBVIOUS
<1> HIDE DEF b, M
<1>4. M \in Nat \ {0} /\ q \in Int /\ n \in Nat /\ n = M * q
  BY <1>1, SMT
<1> HIDE DEF q, n
<1>5. b \in Nat /\ b = M * q + offset
  <2>1. b \in Nat
    BY <1>2, <1>3, <1>4, SMT
  <2> QED
    BY <1>2, <1>4, <2>1, Zenon
<1>6. b \div M = q /\ b % M = offset
  BY <1>3, <1>4, <1>5, DivisionOf, Zenon
<1>7. q % 2 = 1
  BY DEF q
<1> QED
  BY <1>5, <1>6, <1>7, Zenon DEF On, Bit, b, M

\* BL leaves the address after it in the link register of the current mode, and the
\* extended offset past what the PC reads as in the PC.
LEMMA BranchLinks ==
    ASSUME RegistersOK(r), PC % 4 = 0, NEW offset \in 0..(2^24 - 1)
    PROVE  LET call == arm_branch(r, mem, BLOf(offset))
           IN  /\ RegistersOK(call.r)
               /\ Mode(call.r) = Mode(r)
               /\ call.r[Slot(14, Mode(r))] = PC
               /\ call.r[15] = Wrap(PC + 4 + 4 * sign_extend_30(offset))
<1> DEFINE i == BLOf(offset)
           call == arm_branch(r, mem, i)
           pc == arm_read_register(r, 15)
           number == i.bits % 2^24
           jump == 4 * sign_extend_30(number)
           g == arm_write_register(r, 14, Wrap(pc - 4))
           h == arm_write_register(g, 15, Wrap(pc + jump))
<1>1. i.bits \in Nat /\ On(i, 24) /\ number = offset
  BY BranchBits
<1> HIDE DEF i
<1>2. call.r = h
  BY <1>1 DEF arm_branch, Outcome
<1>3. RegistersOK(call.r)
  <2>1. InstructionOK(i)
    BY <1>1 DEF InstructionOK
  <2> DEFINE m == [c \in Cells |-> 0]
  <2>2. MemoryOK(m)
    BY WordSizes DEF MemoryOK, Byte
  <2>3. Sound(arm_branch(r, m, i))
    BY <2>1, <2>2, BranchIsSound
  <2>4. arm_branch(r, m, i).r = call.r
    BY DEF arm_branch, Outcome
  <2> QED
    BY <2>3, <2>4 DEF Sound
<1>4. PC = r[15] /\ PC \in Word
  BY FetchIsSound, PCSlot DEF PC, registers_read
<1>5. Wrap(pc - 4) = PC
  <2>1. pc = Wrap(PC + 4)
    BY <1>4, ReadOfPC
  <2>2. 4 \in Int
    OBVIOUS
  <2> HIDE DEF pc
  <2> QED
    BY <1>4, <2>1, <2>2, BackAgain
<1>6. g = [r EXCEPT ![Slot(14, Mode(r))] = PC]
  <2> HIDE DEF pc
  <2> QED
    BY <1>5 DEF arm_write_register, registers_write
<1>7. \A w : arm_write_register(g, 15, w) = [g EXCEPT ![15] = w]
  BY PCSlot DEF arm_write_register, registers_write
<1>8. Slot(14, Mode(r)) \in 0..30 /\ Slot(14, Mode(r)) # 15
  <2>1. Slot(14, Mode(r)) # 15
    BY DEF Slot, BankOffset
  <2>2. 14 \in Reg
    OBVIOUS
  <2> QED
    BY <2>1, <2>2, SlotBelowCpsr
<1> HIDE DEF g
<1>9. h[Slot(14, Mode(r))] = PC /\ h[CpsrSlot] = r[CpsrSlot]
  <2> DEFINE s == Slot(14, Mode(r))
             w == Wrap(pc + jump)
  <2>1. s \in 0..30 /\ s # 15 /\ g = [r EXCEPT ![s] = PC] /\ h = [g EXCEPT ![15] = w]
    BY <1>6, <1>7, <1>8
  <2>2. r \in [Slots -> Word]
    BY DEF RegistersOK
  <2> HIDE DEF s, w, h
  <2>3. h[s] = PC /\ h[CpsrSlot] = r[CpsrSlot]
    BY <2>1, <2>2
  <2> QED
    BY <2>3 DEF s
<1>10. h[15] = Wrap(PC + 4 + 4 * sign_extend_30(offset))
  <2>1. h[15] = Wrap(pc + jump)
    <3> DEFINE s == Slot(14, Mode(r))
               w == Wrap(pc + jump)
    <3>0. 15 \in Slots
      BY DEF Slots
    <3>1. g = [r EXCEPT ![s] = PC] /\ h = [g EXCEPT ![15] = w]
      BY <1>6, <1>7
    <3>2. r \in [Slots -> Word]
      BY DEF RegistersOK
    <3> HIDE DEF s, w, h
    <3>3. h[15] = w
      BY <3>0, <3>1, <3>2
    <3> QED
      BY <3>3 DEF w
  <2>2. pc = Wrap(PC + 4)
    BY <1>4, ReadOfPC
  <2>3. jump = 4 * sign_extend_30(offset) /\ sign_extend_30(offset) \in Int
    BY <1>1, SignExtend30Type
  <2> HIDE DEF pc, jump, h
  <2>4. PC + 4 \in Int /\ jump \in Int
    BY <1>4, <2>3, WordsAreIntegers
  <2>5. Wrap(Wrap(PC + 4) + jump) = Wrap((PC + 4) + jump)
    BY <2>4, WrapOfWrap, Zenon
  <2> QED
    BY <2>1, <2>2, <2>3, <2>5
<1> HIDE DEF h
<1> QED
  BY <1>2, <1>3, <1>9, <1>10 DEF call, i, Mode, registers_get_mode

\* BL with any offset but those from -2^23 up to -2^22 lands that many words past
\* what the PC reads as, and MOV pc, lr resumes after the BL, in every mode and for
\* every state of the registers, when the address is aligned.
THEOREM NearBranchesLand ==
    Spec => [](PC % 4 = 0 => \A offset \in NearOffsets : LandsAndReturns(offset))
<1>1. TypeOK => (PC % 4 = 0 => \A offset \in NearOffsets : LandsAndReturns(offset))
  <2> SUFFICES ASSUME TypeOK, NEW offset \in NearOffsets, PC % 4 = 0
               PROVE  LandsAndReturns(offset)
    OBVIOUS
  <2> DEFINE call == arm_branch(r, mem, BLOf(offset))
             back == arm_data_processing_shift(call.r, mem, MovPcLr)
  <2>1. RegistersOK(r)
    BY DEF TypeOK, RegistersOK
  <2>2. offset \in 0..(2^24 - 1) /\ sign_extend_30(offset) = SignedOffset(offset)
    BY NearOffsetsExtend
  <2>3. /\ RegistersOK(call.r) /\ Mode(call.r) = Mode(r) /\ call.r[Slot(14, Mode(r))] = PC
        /\ call.r[15] = Wrap(PC + 4 + 4 * SignedOffset(offset))
    BY <2>1, <2>2, BranchLinks
  <2> HIDE DEF call
  <2>4. back.r[15] = PC
    BY <2>3, MovPcLrReturns
  <2> HIDE DEF back
  <2>5. \A f : registers_read(f, 15, Mode(f)) = f[15]
    BY PCSlot DEF registers_read
  <2> QED
    BY <2>3, <2>4, <2>5 DEF call, back, LandsAndReturns
<1> QED
  BY <1>1, TypesAlways, PTL

\* So the five offsets that the run checks land and return in every reachable state.
THEOREM BranchesLandAlways == Spec => []BranchesLand
<1>1. {0, 1, 2^23 - 1, 2^24 - 2^22, 2^24 - 3} \subseteq NearOffsets
  <2> DEFINE A == 2^22
             B == 2^23
             C == 2^24
  <2>1. A \in Nat \ {0} /\ B = 2 * A /\ C = 4 * A
    BY OffsetSizes
  <2>2. C >= 12
    BY Power24, SMT
  <2> HIDE DEF A, B, C
  <2>3. {0, 1, B - 1, C - A, C - 3} \subseteq 0..(B - 1) \cup (C - A)..(C - 1)
    BY <2>1, <2>2
  <2> QED
    BY <2>3 DEF A, B, C, NearOffsets
<1>2. (PC % 4 = 0 => \A offset \in NearOffsets : LandsAndReturns(offset)) => BranchesLand
  BY <1>1, Zenon DEF BranchesLand
<1> QED
  BY <1>2, NearBranchesLand, PTL

--------------------------------------------------------------------------------
(* Pushing and popping.                                                    *)

\* A word that was stored inside the memory is read back.
LEMMA LoadAfterStore ==
    ASSUME NEW m, MemoryOK(m), NEW a \in Nat, a + 4 <= MemSize, NEW w \in Word, NEW junk
    PROVE  Load(Store(m, a, 4, w), a, 4, junk) = w
<1> DEFINE v == ToBytes(w, 4)
           n == Store(m, a, 4, w)
           u == memory_read(n, a, 4, TRUE, ToBytes(junk, 4))
<1>1. v \in [0..3 -> Byte]
  <2>1. 4 \in Nat /\ 4 - 1 = 3 /\ w \in Int
    BY WordsAreIntegers
  <2> QED
    BY <2>1, BytesAreBytes
<1> HIDE DEF v
<1>2. n = [c \in Cells |-> IF c \in a..(a + 3)
                           THEN v[IF Swaps(TRUE) THEN 3 - (c - a) ELSE c - a]
                           ELSE m[c]]
  <2>1. Succeeds(a)
    BY MemSizeType DEF Succeeds
  <2>2. a + 4 - 1 = a + 3 /\ 4 - 1 = 3
    OBVIOUS
  <2> QED
    BY <2>1, <2>2 DEF Store, memory_write, v
<1> HIDE DEF n
<1>3. ASSUME NEW x \in 0..3
      PROVE  CellOf(a, 4, TRUE, x) < MemSize /\ n[CellOf(a, 4, TRUE, x)] = v[x]
  <2>1. CASE Swaps(TRUE)
    <3> DEFINE c == a + (3 - x)
    <3>1. CellOf(a, 4, TRUE, x) = c
      <4>1. 4 - 1 - x = 3 - x
        OBVIOUS
      <4> QED
        BY <2>1, <4>1 DEF CellOf
    <3>2. c \in Cells /\ c \in a..(a + 3) /\ 3 - (c - a) = x /\ c < MemSize
      BY MemSizeType DEF Cells
    <3> HIDE DEF c
    <3> QED
      BY <1>2, <2>1, <3>1, <3>2
  <2>2. CASE ~ Swaps(TRUE)
    <3> DEFINE c == a + x
    <3>1. CellOf(a, 4, TRUE, x) = c
      BY <2>2 DEF CellOf
    <3>2. c \in Cells /\ c \in a..(a + 3) /\ c - a = x /\ c < MemSize
      BY MemSizeType DEF Cells
    <3> HIDE DEF c
    <3> QED
      BY <1>2, <2>2, <3>1, <3>2
  <2> QED
    BY <2>1, <2>2
<1>4. u = v
  <2>1. 4 - 1 = 3
    OBVIOUS
  <2>2. u = [x \in 0..3 |-> v[x]]
    BY <1>3, <2>1 DEF memory_read
  <2> HIDE DEF u
  <2> QED
    BY <1>1, <2>2
<1>5. Load(n, a, 4, junk) = FromBytes(v, 4)
  <2>1. Succeeds(a)
    BY MemSizeType DEF Succeeds
  <2> QED
    BY <1>4, <2>1 DEF Load
<1>6. FromBytes(v, 4) = IF HostBigEndian THEN Value4(v[3], v[2], v[1], v[0])
                        ELSE Value4(v[0], v[1], v[2], v[3])
  BY <1>1, FromFourBytes
<1> DEFINE B == 2^ByteBits
           b0 == w % B
           b1 == (w \div B) % B
           b2 == (w \div 2^(ByteBits * 2)) % B
           b3 == (w \div 2^(ByteBits * 3)) % B
<1>7. Value4(b0, b1, b2, b3) = w
  BY Value4OfWord
<1>8. /\ ~ HostBigEndian => v[0] = b0 /\ v[1] = b1 /\ v[2] = b2 /\ v[3] = b3
      /\ HostBigEndian => v[3] = b0 /\ v[2] = b1 /\ v[1] = b2 /\ v[0] = b3
  <2>1. 2^(ByteBits * 0) = 1 /\ 2^(ByteBits * 1) = B
    BY BytePowers
  <2>2. 4 - 1 - 0 = 3 /\ 4 - 1 - 1 = 2 /\ 4 - 1 - 2 = 1 /\ 4 - 1 - 3 = 0
    OBVIOUS
  <2>3. w \div 1 = w
    BY WordsAreIntegers
  <2>4. \A x \in 0..3 : v[x] = (w \div Weight(x, 4)) % B
    BY DEF v, ToBytes
  <2>5. v[0] = (w \div Weight(0, 4)) % B /\ v[1] = (w \div Weight(1, 4)) % B
        /\ v[2] = (w \div Weight(2, 4)) % B /\ v[3] = (w \div Weight(3, 4)) % B
    BY <2>4
  <2> HIDE DEF B
  <2> QED
    BY <2>1, <2>2, <2>3, <2>5 DEF Weight
<1> HIDE DEF b0, b1, b2, b3
<1> QED
  BY <1>5, <1>6, <1>7, <1>8 DEF n

\* And a store elsewhere does not change it.
LEMMA LoadAfterOtherStore ==
    ASSUME NEW m, MemoryOK(m), NEW a \in Nat, a + 4 <= MemSize, NEW w,
           NEW b \in Nat, b + 4 <= MemSize, b + 4 <= a \/ a + 4 <= b, NEW junk
    PROVE  Load(Store(m, a, 4, w), b, 4, junk) = Load(m, b, 4, junk)
<1> DEFINE n == Store(m, a, 4, w)
<1>1. \A c \in Cells : c \notin a..(a + 3) => n[c] = m[c]
  <2>1. a + 4 - 1 = a + 3
    OBVIOUS
  <2> QED
    BY <2>1 DEF Store, memory_write
<1> HIDE DEF n
<1>2. ASSUME NEW x \in 0..3 PROVE n[CellOf(b, 4, TRUE, x)] = m[CellOf(b, 4, TRUE, x)]
  <2> DEFINE c == CellOf(b, 4, TRUE, x)
  <2>1. c = b + (3 - x) \/ c = b + x
    <3>1. 4 - 1 - x = 3 - x
      OBVIOUS
    <3> QED
      BY <3>1 DEF CellOf
  <2> HIDE DEF c
  <2>2. c \in Cells /\ c \notin a..(a + 3)
    BY <2>1, MemSizeType DEF Cells
  <2> QED
    BY <1>1, <2>2 DEF c
<1>3. memory_read(n, b, 4, TRUE, ToBytes(junk, 4)) = memory_read(m, b, 4, TRUE, ToBytes(junk, 4))
  <2>1. 4 - 1 = 3
    OBVIOUS
  <2> QED
    BY <1>2, <2>1 DEF memory_read
<1> QED
  BY <1>3 DEF Load, n

\* How many registers of the list come before register k.
Rank(R, k) == Cardinality({j \in R : j < k})

LEMMA Ranks ==
    ASSUME NEW R \in SUBSET (0..15)
    PROVE  /\ Cardinality(R) \in Nat
           /\ \A k \in R : Rank(R, k) \in Nat /\ Rank(R, k) + 1 <= Cardinality(R)
           /\ \A j, k \in R : j < k => Rank(R, j) + 1 <= Rank(R, k)
<1>1. IsFiniteSet(R) /\ \A S \in SUBSET R : IsFiniteSet(S)
  <2>1. IsFiniteSet(0..15)
    <3>1. 0 \in Int /\ 15 \in Int
      OBVIOUS
    <3> QED
      BY <3>1, FS_Interval
  <2> QED
    BY <2>1, FS_Subset
<1>2. \A S \in SUBSET R : Cardinality(S) \in Nat
  BY <1>1, FS_CardinalityType
<1>3. ASSUME NEW k \in R, NEW S \in SUBSET R, k \in S, \A j \in R : j < k => j \in S
      PROVE  Rank(R, k) \in Nat /\ Rank(R, k) + 1 <= Cardinality(S)
  <2> DEFINE T == {j \in R : j < k}
  <2>1. T \in SUBSET R /\ k \notin T /\ T \cup {k} \in SUBSET S
    <3>1. k \in Nat
      OBVIOUS
    <3>2. ~ (k < k)
      BY <3>1
    <3>3. T \subseteq S /\ T \subseteq R
      BY <1>3
    <3>4. k \notin T
      BY <3>2
    <3> HIDE DEF T
    <3> QED
      BY <1>3, <3>3, <3>4
  <2> HIDE DEF T
  <2>2. IsFiniteSet(T) /\ IsFiniteSet(S)
    BY <1>1, <2>1
  <2>3. Cardinality(T \cup {k}) = Cardinality(T) + 1
    BY <2>1, <2>2, FS_AddElement
  <2>4. Cardinality(T \cup {k}) <= Cardinality(S)
    BY <2>1, <2>2, FS_Subset
  <2> QED
    BY <1>2, <2>1, <2>3, <2>4 DEF Rank, T
<1>4. \A k \in R : Rank(R, k) \in Nat /\ Rank(R, k) + 1 <= Cardinality(R)
  BY <1>3
<1>5. ASSUME NEW j \in R, NEW k \in R, j < k PROVE Rank(R, j) + 1 <= Rank(R, k)
  <2> DEFINE S == {l \in R : l < k}
  <2>1. S \in SUBSET R /\ j \in S /\ \A l \in R : l < j => l \in S
    BY <1>5
  <2> HIDE DEF S
  <2>2. Rank(R, j) + 1 <= Cardinality(S)
    BY <1>3, <2>1
  <2> QED
    BY <2>2 DEF Rank, S
<1> QED
  BY <1>2, <1>4, <1>5

\* The words of a list of n registers from lo on, none across the end of the memory
\* or on another.
LEMMA TransferAddresses ==
    ASSUME NEW i, NEW lo \in Nat,
           lo + 4 * Cardinality(RegisterList(i)) <= MemSize
    PROVE  LET a(k) == TransferAddress(lo, i, k)
           IN  /\ \A k \in RegisterList(i) : a(k) \in Nat /\ a(k) + 4 <= MemSize
               /\ \A j, k \in RegisterList(i) : j < k => a(j) + 4 <= a(k)
<1> DEFINE R == RegisterList(i)
           n == Cardinality(R)
           a(k) == TransferAddress(lo, i, k)
<1>1. R \in SUBSET (0..15)
  BY DEF RegisterList
<1>2. MemSize \in Nat /\ MemSize <= 2^W - 1 /\ 2^W \in Nat
  BY CpuAssumption, WordSizes DEF Word
<1>3. ASSUME NEW k \in R PROVE a(k) = lo + 4 * Rank(R, k) /\ a(k) \in Nat /\ a(k) + 4 <= MemSize
  <2> DEFINE p == Rank(R, k)
             M == 2^W
  <2>1. p \in Nat /\ p + 1 <= n /\ n \in Nat
    BY <1>1, Ranks
  <2>4. a(k) = Wrap(lo + 4 * p)
    BY DEF TransferAddress, Rank
  <2>5. lo + 4 * n <= MemSize /\ MemSize \in Nat /\ MemSize <= M - 1 /\ M \in Nat
    BY <1>2
  <2> HIDE DEF p, n, M
  <2>2. lo + 4 * p \in 0..(M - 1) /\ lo + 4 * p + 4 <= MemSize
    BY <2>1, <2>5
  <2>3. Wrap(lo + 4 * p) = lo + 4 * p
    BY <2>2, WrapOfWord DEF Word, M
  <2> HIDE DEF a
  <2> QED
    BY <2>1, <2>2, <2>3, <2>4 DEF p
<1>4. ASSUME NEW j \in R, NEW k \in R, j < k PROVE a(j) + 4 <= a(k)
  <2>1. Rank(R, j) \in Nat /\ Rank(R, k) \in Nat /\ Rank(R, j) + 1 <= Rank(R, k)
    BY <1>1, <1>4, Ranks
  <2>2. a(j) = lo + 4 * Rank(R, j) /\ a(k) = lo + 4 * Rank(R, k)
    BY <1>3
  <2> HIDE DEF a
  <2> QED
    BY <2>1, <2>2
<1> QED
  BY <1>3, <1>4

\* The memory after a push: at the address of every register of the list, its word.
LEMMA PushStores ==
    ASSUME NEW g, RegistersOK(g), NEW m, MemoryOK(m), NEW i, NEW lo \in Word,
           lo + 4 * Cardinality(RegisterList(i)) <= MemSize
    PROVE  LET n == instruction_stm1(g, m, i, lo)
           IN  /\ MemoryOK(n)
               /\ \A k \in RegisterList(i) : \A junk :
                      Load(n, TransferAddress(lo, i, k), 4, junk) = arm_read_register(g, k)
<1> DEFINE R == RegisterList(i)
           a(k) == TransferAddress(lo, i, k)
           w(k) == arm_read_register(g, k)
           n == instruction_stm1(g, m, i, lo)
<1>1. PICK stored \in [0..16 -> [Cells -> Byte]] :
          /\ n = stored[16]
          /\ \A k \in 0..15 : stored[k + 1] = IF k \in R THEN Store(stored[k], a(k), 4, w(k))
                                              ELSE stored[k]
  BY StoredOneByOne
<1>2. /\ \A k \in R : a(k) \in Nat /\ a(k) + 4 <= MemSize
      /\ \A j, k \in R : j < k => a(j) + 4 <= a(k)
  <2>1. lo \in Nat
    BY WordsAreIntegers
  <2> QED
    BY <2>1, TransferAddresses
<1>3. \A k \in R : k \in 0..15 /\ w(k) \in Word
  <2>1. \A k \in R : k \in Reg
    BY DEF RegisterList
  <2> QED
    BY <2>1, ReadIsWord
<1> HIDE DEF a, w, R, n
<1>4. \A k \in 0..16 : MemoryOK(stored[k])
  BY DEF MemoryOK
<1> DEFINE Done(x) == \A k \in R : \A junk : k < x => Load(stored[x], a(k), 4, junk) = w(k)
           S == {x \in Nat : x <= 16 => Done(x)}
<1>5. 0 \in S
  BY <1>3
<1>6. ASSUME NEW x \in Nat, x \in S PROVE x + 1 \in S
  <2> SUFFICES ASSUME x + 1 <= 16, NEW k \in R, NEW junk, k < x + 1
               PROVE  Load(stored[x + 1], a(k), 4, junk) = w(k)
    OBVIOUS
  <2>1. x \in 0..15 /\ x \in 0..16 /\ k \in 0..15
    BY <1>3
  <2>2. k < x => Load(stored[x], a(k), 4, junk) = w(k)
    BY <1>6, <2>1
  <2>3. k = x \/ k < x
    BY <2>1
  <2>4. MemoryOK(stored[x])
    BY <1>4, <2>1
  <2>5. stored[x + 1] = IF x \in R THEN Store(stored[x], a(x), 4, w(x)) ELSE stored[x]
    BY <1>1, <2>1
  <2> HIDE DEF S
  <2>6. CASE k = x
    <3>1. Load(Store(stored[x], a(k), 4, w(k)), a(k), 4, junk) = w(k)
      BY <1>2, <1>3, <2>4, LoadAfterStore
    <3> QED
      BY <2>5, <2>6, <3>1
  <2>7. CASE k < x /\ x \in R
    <3>1. a(x) \in Nat /\ a(x) + 4 <= MemSize /\ a(k) \in Nat /\ a(k) + 4 <= MemSize
          /\ a(k) + 4 <= a(x)
      BY <1>2, <2>7
    <3>2. Load(Store(stored[x], a(x), 4, w(x)), a(k), 4, junk) = Load(stored[x], a(k), 4, junk)
      BY <2>4, <3>1, LoadAfterOtherStore
    <3> QED
      BY <2>2, <2>5, <2>7, <3>2
  <2>8. CASE k < x /\ x \notin R
    BY <2>2, <2>5, <2>8
  <2> QED
    BY <2>3, <2>6, <2>7, <2>8
<1> HIDE DEF S
<1>7. 16 \in S
  <2>1. \A x \in Nat : x \in S
    BY <1>5, <1>6, Induction
  <2> QED
    BY <2>1
<1>8. Done(16)
  BY <1>7 DEF S
<1>9. \A k \in R : k < 16
  BY <1>3
<1>10. \A k \in R : \A junk : Load(n, a(k), 4, junk) = w(k)
  BY <1>1, <1>8, <1>9
<1>11. MemoryOK(n)
  <2>1. 16 \in 0..16
    OBVIOUS
  <2> QED
    BY <1>1, <1>4, <2>1
<1> QED
  BY <1>10, <1>11 DEF n, a, w, R

\* A pop from where the words of the registers of g were pushed.
LEMMA PopLoads ==
    ASSUME NEW g, RegistersOK(g), NEW n, NEW j, NEW lo \in Word, NEW junk,
           lo + 4 * Cardinality(RegisterList(j)) <= MemSize,
           \A k \in RegisterList(j) :
               Load(n, TransferAddress(lo, j, k), 4, junk) = g[Slot(k, Mode(g))]
    PROVE  LoadedRegisters(g, n, lo, j, junk) = g
<1> DEFINE R == RegisterList(j)
           a(k) == TransferAddress(lo, j, k)
<1>1. \A k \in R : k \in 0..15 /\ a(k) < MemSize
  <2>1. \A k \in R : a(k) \in Nat /\ a(k) + 4 <= MemSize
    <3>1. lo \in Nat
      BY WordsAreIntegers
    <3> QED
      BY <3>1, TransferAddresses
  <2>2. \A k \in R : k \in 0..15
    BY DEF RegisterList
  <2> HIDE DEF a, R
  <2> QED
    BY <2>1, <2>2, MemSizeType
<1>2. ASSUME NEW k \in R PROVE WordOf(n, lo, j, k, junk) = g[Slot(k, Mode(g))]
  <2> DEFINE good == {l \in R : l <= k /\ Succeeds(a(l))}
             from == CHOOSE l \in good : \A x \in good : x <= l
  <2>1. k \in good /\ \A l \in good : l \in 0..15 /\ l <= k /\ k \in 0..15
    BY <1>1 DEF Succeeds
  <2> HIDE DEF good
  <2>2. from = k
    <3>1. from \in good /\ \A x \in good : x <= from
      BY <2>1
    <3> HIDE DEF from
    <3> QED
      BY <2>1, <3>1
  <2>3. WordOf(n, lo, j, k, junk) = Load(n, a(k), 4, junk)
    BY <2>1, <2>2 DEF WordOf, good
  <2> QED
    BY <2>3
<1>3. ASSUME NEW s \in Slots
      PROVE  (IF \E k \in R \ {15} : Slot(k, Mode(g)) = s
              THEN WordOf(n, lo, j, CHOOSE k \in R \ {15} : Slot(k, Mode(g)) = s, junk)
              ELSE g[s]) = g[s]
  <2> DEFINE k == CHOOSE k \in R \ {15} : Slot(k, Mode(g)) = s
  <2>1. CASE \E x \in R \ {15} : Slot(x, Mode(g)) = s
    <3>1. k \in R /\ Slot(k, Mode(g)) = s
      BY <2>1
    <3> HIDE DEF k, R
    <3>2. WordOf(n, lo, j, k, junk) = g[s]
      BY <1>2, <3>1
    <3> QED
      BY <3>2 DEF k
  <2>2. CASE ~ \E x \in R \ {15} : Slot(x, Mode(g)) = s
    BY <2>2
  <2> QED
    BY <2>1, <2>2
<1>4. DOMAIN g = Slots /\ g = [s \in Slots |-> g[s]]
  <2>1. g \in [Slots -> Word]
    BY DEF RegistersOK
  <2> QED
    BY <2>1, Zenon
<1>5. LoadedRegisters(g, n, lo, j, junk) = [s \in Slots |-> g[s]]
  BY <1>3, <1>4 DEF LoadedRegisters
<1> QED
  BY <1>4, <1>5

\* Registers of a mode have slots of their own.
LEMMA SlotsDiffer ==
    ASSUME NEW mode, NEW j \in Reg, NEW k \in Reg, Slot(j, mode) = Slot(k, mode)
    PROVE  j = k
BY DEF Slot, BankOffset

\* STMDB sp!, {R} and then LDMIA sp!, {R}, for any instructions that encode them.
IsPush(i) == Rn(i) = 13 /\ On(i, 24) /\ ~ On(i, 23) /\ ~ On(i, 22) /\ On(i, 21) /\ ~ On(i, 20)
IsPop(j) == Rn(j) = 13 /\ ~ On(j, 24) /\ On(j, 23) /\ ~ On(j, 22) /\ On(j, 21) /\ On(j, 20)

LEMMA PushThenPop ==
    ASSUME NEW f, RegistersOK(f), NEW m, MemoryOK(m),
           NEW i, IsPush(i), NEW j, IsPop(j), RegisterList(j) = RegisterList(i),
           13 \notin RegisterList(i), 15 \notin RegisterList(i),
           arm_read_register(f, 13) <= MemSize,
           arm_read_register(f, 13) >= 4 * Number_of_Set_Bits_In(i)
    PROVE  LET push == arm_load_store_multiple(f, m, i, 0)
               pop  == arm_load_store_multiple(push.r, push.mem, j, 0)
           IN  pop.r = f
<1> DEFINE R == RegisterList(i)
           n == Cardinality(R)
           size == 4 * n
           sp == arm_read_register(f, 13)
           lo == sp - size
           s == Slot(13, Mode(f))
           g == [f EXCEPT ![s] = lo]
           mm == instruction_stm1(g, m, i, lo)
           push == arm_load_store_multiple(f, m, i, 0)
<1>1. /\ s \in 0..30 /\ sp = f[s] /\ sp \in Word /\ sp \in Nat
  <2>1. 13 \in Reg
    OBVIOUS
  <2>2. s \in 0..30
    BY <2>1, SlotBelowCpsr
  <2>3. sp = f[s]
    BY DEF arm_read_register, registers_read
  <2>4. sp \in Word /\ sp \in Nat
    BY <2>1, ReadIsWord
  <2> QED
    BY <2>2, <2>3, <2>4
<1>2. n \in Nat /\ n = Number_of_Set_Bits_In(i) /\ n = Number_of_Set_Bits_In(j)
  BY Transferred DEF Number_of_Set_Bits_In
<1> HIDE DEF n, sp, s
<1>3. size \in Nat /\ lo \in Word /\ lo + size = sp /\ lo \in Nat
  <2>1. size \in Nat /\ sp >= size
    BY <1>2 DEF sp
  <2>2. lo \in Nat /\ lo <= sp /\ lo + size = sp
    BY <1>1, <2>1
  <2> HIDE DEF lo, size
  <2>3. lo \in Word
    <3> DEFINE M == 2^W
    <3>1. sp \in 0..(M - 1) /\ M \in Nat
      BY <1>1, WordSizes DEF Word
    <3> HIDE DEF M
    <3>2. lo \in 0..(M - 1)
      BY <1>1, <2>2, <3>1
    <3> QED
      BY <3>2 DEF Word, M
  <2> QED
    BY <2>1, <2>2, <2>3
<1>4. Wrap(lo) = lo /\ Wrap(lo + size) = sp
  <2> HIDE DEF lo, size
  <2> QED
    BY <1>1, <1>3, WrapOfWord
<1> HIDE DEF lo, size
<1>5. /\ RegistersOK(g) /\ Mode(g) = Mode(f) /\ g[s] = lo
      /\ g[CpsrSlot] = f[CpsrSlot]
      /\ \A x \in Slots \ {s} : g[x] = f[x]
      /\ [g EXCEPT ![s] = sp] = f
  <2>1. f \in [Slots -> Word] /\ s \in Slots /\ s # CpsrSlot
    BY <1>1 DEF RegistersOK
  <2>2. g \in [Slots -> Word] /\ g[s] = lo /\ \A x \in Slots \ {s} : g[x] = f[x]
    BY <1>3, <2>1
  <2>3. [g EXCEPT ![s] = sp] = f
    BY <1>1, <2>1
  <2> HIDE DEF g
  <2>4. g[CpsrSlot] = f[CpsrSlot]
    BY <2>1, <2>2
  <2> QED
    BY <2>2, <2>3, <2>4 DEF RegistersOK, Mode, registers_get_mode
<1>6. push.r = g /\ push.mem = mm
  <2> DEFINE addr == addr_ls_multiple(f, i)
  <2>1. Wrap(IF On(i, 23) THEN sp + size ELSE sp - size) = lo
    BY <1>4 DEF IsPush, lo
  <2>2. addr.start = lo /\ addr.r = arm_write_register(f, 13, lo)
    <3>1. Rn(i) = 13 /\ On(i, 24) /\ ~ On(i, 23) /\ On(i, 21)
      BY DEF IsPush
    <3>2. size = 4 * Number_of_Set_Bits_In(i)
      BY <1>2 DEF size
    <3>3. Wrap(sp - size) = lo
      BY <1>4 DEF lo
    <3> HIDE DEF lo, size
    <3>4. /\ addr.start = Wrap(sp - size)
          /\ addr.r = arm_write_register(f, 13, Wrap(sp - size))
      BY <3>1, <3>2 DEF addr_ls_multiple, sp
    <3> QED
      BY <3>3, <3>4
  <2>3. arm_write_register(f, 13, lo) = g
    BY DEF arm_write_register, registers_write, s
  <2>4. ~ On(i, 22) /\ ~ On(i, 20)
    BY DEF IsPush
  <2> HIDE DEF g, addr
  <2> QED
    BY <2>2, <2>3, <2>4 DEF arm_load_store_multiple, Outcome, addr
<1>7. \A k \in R : Load(mm, TransferAddress(lo, i, k), 4, 0) = f[Slot(k, Mode(f))]
  <2> TAKE k \in R
  <2> HIDE DEF g
  <2>1. lo + 4 * Cardinality(RegisterList(i)) <= MemSize
    BY <1>3 DEF size, n, sp
  <2>2. Load(mm, TransferAddress(lo, i, k), 4, 0) = arm_read_register(g, k)
    BY <1>3, <1>5, <2>1, PushStores
  <2>3. k \in Reg /\ k # 13 /\ k # 15
    BY DEF RegisterList
  <2>4. arm_read_register(g, k) = g[Slot(k, Mode(f))]
    BY <1>5, <2>3 DEF arm_read_register, registers_read
  <2>5. Slot(k, Mode(f)) # s
    <3>1. 13 \in Reg
      OBVIOUS
    <3> QED
      BY <2>3, <3>1, SlotsDiffer DEF s
  <2>6. Slot(k, Mode(f)) \in Slots
    BY <2>3, SlotBelowCpsr
  <2> QED
    BY <1>5, <2>2, <2>4, <2>5, <2>6
<1> HIDE DEF mm
<1> DEFINE addr == addr_ls_multiple(g, j)
<1>8. addr.start = lo /\ addr.r = f
  <2>1. Rn(j) = 13 /\ ~ On(j, 24) /\ On(j, 23) /\ On(j, 21)
    BY DEF IsPop
  <2>2. arm_read_register(g, 13) = lo
    BY <1>5 DEF arm_read_register, registers_read, s
  <2>3. size = 4 * Number_of_Set_Bits_In(j)
    BY <1>2 DEF size
  <2> HIDE DEF g
  <2>4. addr.start = Wrap(lo) /\ addr.r = arm_write_register(g, 13, Wrap(lo + size))
    BY <2>1, <2>2, <2>3 DEF addr_ls_multiple
  <2>5. arm_write_register(g, 13, sp) = f
    BY <1>5 DEF arm_write_register, registers_write, s
  <2> QED
    BY <1>4, <2>4, <2>5
<1> HIDE DEF addr, g
<1>9. LoadedRegisters(f, mm, lo, j, 0) = f
  <2>1. lo + 4 * Cardinality(RegisterList(j)) <= MemSize
    BY <1>3 DEF size, n, sp
  <2>2. \A k : TransferAddress(lo, j, k) = TransferAddress(lo, i, k)
    BY DEF TransferAddress
  <2>3. \A k \in RegisterList(j) : Load(mm, TransferAddress(lo, j, k), 4, 0) = f[Slot(k, Mode(f))]
    BY <1>7, <2>2
  <2> QED
    BY <1>3, <2>1, <2>3, PopLoads
<1>10. arm_load_store_multiple(g, mm, j, 0).r = f
  <2>1. ~ On(j, 22) /\ On(j, 20) /\ 15 \notin RegisterList(j)
    BY DEF IsPop
  <2>2. instruction_ldm1(g, mm, j, 0) = LoadedRegisters(f, mm, lo, j, 0)
    BY <1>8, <2>1 DEF instruction_ldm1, addr
  <2> QED
    BY <1>9, <2>1, <2>2 DEF arm_load_store_multiple, Outcome
<1> QED
  BY <1>6, <1>10 DEF push

--------------------------------------------------------------------------------
(* The encodings: A is the upper half of the instruction, list the mask.   *)

LEMMA SomePowers ==
    2^4 = 16 /\ 2^5 = 32 /\ 2^6 = 64 /\ 2^7 = 128 /\ 2^8 = 256 /\ 2^13 = 8192 /\ 2^15 = 32768
<1>1. 2^6 = 64
  BY SmallPowers, PowerFrom
<1>2. 2^7 = 128
  BY <1>1, SmallPowers, PowerFrom
<1>3. 2^13 = 8192
  BY SmallPowers, PowerFrom
<1>4. 2^15 = 32768
  BY <1>2, SmallPowers, PowerFrom
<1> QED
  BY <1>1, <1>2, <1>3, <1>4, SmallPowers

\* b holds A above its h lowest bits, and list in them.
Joined(b, h, A, list) == b = 2^h * A + list /\ list \in 0..(2^h - 1)

\* A is b without its h lowest bits, and so the bits of A are those of b.
IsUpper(b, h, A) == \A t \in Nat : b \div 2^h = A /\ b \div 2^(h + t) = A \div 2^t

LEMMA UpperBits ==
    ASSUME NEW h \in Nat, NEW A \in Nat, NEW list, NEW b, Joined(b, h, A, list)
    PROVE  IsUpper(b, h, A)
<1> SUFFICES ASSUME NEW t \in Nat PROVE b \div 2^h = A /\ b \div 2^(h + t) = A \div 2^t
  BY DEF IsUpper
<1> DEFINE n == h + t
           H == 2^h
           P == 2^n
           T == 2^t
<1>1. H \in Nat \ {0} /\ T \in Nat \ {0} /\ A \in Int
  BY PowerIsPositive
<1>2. P = H * T
  BY PowerOfSum
<1>3. b = H * A + list /\ list \in 0..(H - 1)
  BY DEF Joined
<1> HIDE DEF H, P, T
<1>4. b \div H = A
  BY <1>1, <1>3, DivisionOf
<1>5. b \in Int
  BY <1>1, <1>3
<1>6. IsProduct(P, H, T)
  BY <1>2 DEF IsProduct
<1>7. (b \div H) \div T = b \div P
  BY <1>1, <1>5, <1>6, DivisionByProduct
<1> QED
  BY <1>4, <1>7 DEF H, P, T

LEMMA LowerBits ==
    ASSUME NEW h \in Nat, NEW A \in Nat, NEW list, NEW b, Joined(b, h, A, list),
           NEW k \in 0..(h - 1)
    PROVE  (b \div 2^k) % 2 = (list \div 2^k) % 2
<1> DEFINE H == 2^h
           t == h - 1 - k
           s == t + 1
           K == 2^k
           T == 2^t
           c == A * T
           d == 2 * c
<1>1. H = K * (2 * T) /\ K \in Nat \ {0} /\ T \in Nat \ {0}
  <2>1. t \in Nat /\ k \in Nat /\ s \in Nat /\ h = k + s /\ s = t + 1
    OBVIOUS
  <2> HIDE DEF t, s
  <2>2. 2^h = 2^k * 2^s
    BY <2>1, PowerOfSum
  <2>3. 2^s = 2 * 2^t
    BY <2>1, PowerOfNext
  <2>4. K \in Nat \ {0} /\ T \in Nat \ {0}
    BY <2>1, PowerIsPositive
  <2> QED
    BY <2>2, <2>3, <2>4
<1>2. b = H * A + list /\ list \in Int
  <2> HIDE DEF K, T
  <2>1. b = H * A + list /\ list \in 0..(H - 1)
    BY DEF Joined
  <2> HIDE DEF H
  <2> QED
    BY <2>1
<1> HIDE DEF H, K, T
<1>3. c \in Int /\ d \in Int
  BY <1>1
<1>4. K * (2 * T) * A = K * (2 * (A * T))
  BY <1>1
<1>5. H * A = K * d
  BY <1>1, <1>4
<1> HIDE DEF c, d
<1>6. b = list + K * d
  <2>1. K * d \in Int
    BY <1>1, <1>3
  <2> QED
    BY <1>2, <1>5, <2>1
<1> DEFINE q == list \div K
           y == b \div K
<1>7. y = q + d
  BY <1>1, <1>2, <1>3, <1>6, AddMultiple
<1>8. q \in Int
  BY <1>1, <1>2, Division
<1> HIDE DEF q, y
<1>9. y = q + 2 * c /\ 2 \in Nat \ {0}
  BY <1>7 DEF d
<1>10. y % 2 = q % 2
  BY <1>3, <1>8, <1>9, AddMultiple
<1> QED
  BY <1>10 DEF y, q, K

\* The registers of a mask.
Listed(list) == {k \in 0..15 : (list \div 2^k) % 2 = 1}

LEMMA EncodedList ==
    ASSUME NEW h \in Nat, h - 1 = 15, NEW A \in Nat, NEW list,
           NEW b, Joined(b, h, A, list), NEW i, i.bits = b
    PROVE  RegisterList(i) = Listed(list)
<1>1. ASSUME NEW k \in 0..(h - 1) PROVE (b \div 2^k) % 2 = (list \div 2^k) % 2
  BY LowerBits
<1>2. \A k \in 0..15 : (b \div 2^k) % 2 = (list \div 2^k) % 2
  BY <1>1
<1> QED
  BY <1>2 DEF RegisterList, Listed, On, Bit

\* The upper half of the bits of an instruction.
LEMMA FieldsOf ==
    ASSUME NEW h \in Nat, h - 1 = 15, NEW A \in Nat, NEW b,
           IsUpper(b, h, A)
    PROVE  /\ (b \div 65536) % 16 = A % 16
           /\ (b \div 2^20) % 2 = (A \div 16) % 2 /\ (b \div 2^21) % 2 = (A \div 32) % 2
           /\ (b \div 2^22) % 2 = (A \div 64) % 2 /\ (b \div 2^23) % 2 = (A \div 128) % 2
           /\ (b \div 2^24) % 2 = (A \div 256) % 2
<1>1. \A t \in Nat : b \div 2^h = A /\ b \div 2^(h + t) = A \div 2^t
  BY DEF IsUpper
<1>2. /\ 20 = h + 4 /\ 21 = h + 5 /\ 22 = h + 6 /\ 23 = h + 7 /\ 24 = h + 8
      /\ 4 \in Nat /\ 5 \in Nat /\ 6 \in Nat /\ 7 \in Nat /\ 8 \in Nat
  OBVIOUS
<1>3. b \div 2^20 = A \div 2^4 /\ b \div 2^h = A
  BY <1>1, <1>2
<1>4. b \div 2^21 = A \div 2^5 /\ b \div 2^22 = A \div 2^6
  BY <1>1, <1>2
<1>5. b \div 2^23 = A \div 2^7 /\ b \div 2^24 = A \div 2^8
  BY <1>1, <1>2
<1>6. 2^4 = 16 /\ 2^5 = 32 /\ 2^6 = 64 /\ 2^7 = 128 /\ 2^8 = 256
  BY SomePowers
<1>7. /\ b \div 2^20 = A \div 16 /\ b \div 2^21 = A \div 32 /\ b \div 2^22 = A \div 64
      /\ b \div 2^23 = A \div 128 /\ b \div 2^24 = A \div 256
  BY <1>3, <1>4, <1>5, <1>6
<1>8. b \div 65536 = A
  <2>1. h = 16
    OBVIOUS
  <2>2. 2^h = 65536
    BY <2>1, Power16, SMT
  <2> QED
    BY <1>3, <2>2
<1> QED
  BY <1>7, <1>8

LEMMA EncodedFields ==
    ASSUME NEW h \in Nat, h - 1 = 15, NEW A \in Nat,
           NEW b, IsUpper(b, h, A),
           NEW i, i.bits = b
    PROVE  /\ Rn(i) = A % 16
           /\ Bit(i, 20) = (A \div 16) % 2 /\ Bit(i, 21) = (A \div 32) % 2
           /\ Bit(i, 22) = (A \div 64) % 2 /\ Bit(i, 23) = (A \div 128) % 2
           /\ Bit(i, 24) = (A \div 256) % 2
BY FieldsOf DEF Rn, Bit

LEMMA PushEncoded ==
    ASSUME NEW list \in 0..(2^16 - 1)
    PROVE  IsPush(PushOf(list)) /\ RegisterList(PushOf(list)) = Listed(list)
<1> DEFINE i == PushOf(list)
           A == 2349
           h == 16
           b == i.bits
<1>1. list \in 0..(2^h - 1)
  OBVIOUS
<1>0. h \in Nat /\ h = 16 /\ h - 1 = 15 /\ i.bits = b /\ A \in Nat
  OBVIOUS
<1>2. /\ A % 16 = 13 /\ (A \div 16) % 2 = 0 /\ (A \div 32) % 2 = 1
      /\ (A \div 64) % 2 = 0 /\ (A \div 128) % 2 = 0 /\ (A \div 256) % 2 = 1
  BY SMT
<1>3. Joined(b, h, A, list)
  <2> DEFINE H == 2^h
  <2>1. H = 65536
    BY Power16, SMT
  <2>2. list \in 0..(H - 1)
    BY <1>1, Zenon
  <2> HIDE DEF H
  <2>3. b = H * A + list
    <3>1. list \in Int
      OBVIOUS
    <3> QED
      BY <2>1, <3>1, SMT DEF PushOf
  <2> HIDE DEF i, A, h, b
  <2> QED
    BY <2>2, <2>3, Zenon DEF H, Joined
<1> HIDE DEF i, A, h, b
<1>4. RegisterList(i) = Listed(list)
  BY <1>0, <1>3, EncodedList
<1>5. /\ Rn(i) = A % 16
      /\ Bit(i, 20) = (A \div 16) % 2 /\ Bit(i, 21) = (A \div 32) % 2
      /\ Bit(i, 22) = (A \div 64) % 2 /\ Bit(i, 23) = (A \div 128) % 2
      /\ Bit(i, 24) = (A \div 256) % 2
  <2>1. h \in Nat /\ A \in Nat
    BY <1>0
  <2>2. IsUpper(b, h, A)
    BY <1>3, <2>1, UpperBits
  <2> QED
    BY <1>0, <2>2, EncodedFields
<1>6. IsPush(i)
  BY <1>2, <1>5 DEF IsPush, On
<1> QED
  BY <1>4, <1>6 DEF i

LEMMA PopEncoded ==
    ASSUME NEW list \in 0..(2^16 - 1)
    PROVE  IsPop(PopOf(list)) /\ RegisterList(PopOf(list)) = Listed(list)
<1> DEFINE i == PopOf(list)
           A == 2237
           h == 16
           b == i.bits
<1>1. list \in 0..(2^h - 1)
  OBVIOUS
<1>0. h \in Nat /\ h = 16 /\ h - 1 = 15 /\ i.bits = b /\ A \in Nat
  OBVIOUS
<1>2. /\ A % 16 = 13 /\ (A \div 16) % 2 = 1 /\ (A \div 32) % 2 = 1
      /\ (A \div 64) % 2 = 0 /\ (A \div 128) % 2 = 1 /\ (A \div 256) % 2 = 0
  BY SMT
<1>3. Joined(b, h, A, list)
  <2> DEFINE H == 2^h
  <2>1. H = 65536
    BY Power16, SMT
  <2>2. list \in 0..(H - 1)
    BY <1>1, Zenon
  <2> HIDE DEF H
  <2>3. b = H * A + list
    <3>1. list \in Int
      OBVIOUS
    <3> QED
      BY <2>1, <3>1, SMT DEF PopOf
  <2> HIDE DEF i, A, h, b
  <2> QED
    BY <2>2, <2>3, Zenon DEF H, Joined
<1> HIDE DEF i, A, h, b
<1>4. RegisterList(i) = Listed(list)
  BY <1>0, <1>3, EncodedList
<1>5. /\ Rn(i) = A % 16
      /\ Bit(i, 20) = (A \div 16) % 2 /\ Bit(i, 21) = (A \div 32) % 2
      /\ Bit(i, 22) = (A \div 64) % 2 /\ Bit(i, 23) = (A \div 128) % 2
      /\ Bit(i, 24) = (A \div 256) % 2
  <2>1. h \in Nat /\ A \in Nat
    BY <1>0
  <2>2. IsUpper(b, h, A)
    BY <1>3, <2>1, UpperBits
  <2> QED
    BY <1>0, <2>2, EncodedFields
<1>6. IsPop(i)
  BY <1>2, <1>5 DEF IsPop, On
<1> QED
  BY <1>4, <1>6 DEF i

\* A list of registers but sp and pc; pushing it, the stack has room in the memory;
\* pushing and popping it restores every register.
Pushable(list) ==
    list \in 0..(2^16 - 1) /\ 13 \notin Listed(list) /\ 15 \notin Listed(list)

HasRoom(list) ==
    LET sp == arm_read_register(r, 13)
    IN  sp <= MemSize /\ sp >= 4 * Number_of_Set_Bits_In(PushOf(list))

Restores(list) ==
    LET push == arm_load_store_multiple(r, mem, PushOf(list), 0)
        pop  == arm_load_store_multiple(push.r, push.mem, PopOf(list), 0)
    IN  pop.r = r

LEMMA PushableList ==
    ASSUME NEW list, Pushable(list)
    PROVE  list \in 0..(2^16 - 1) /\ 13 \notin Listed(list) /\ 15 \notin Listed(list)
BY DEF Pushable

\* Pushing any registers but sp and pc, and popping them, restores every register,
\* when the stack has room in the memory: in every mode, for every content, in either
\* order of the bytes.
THEOREM PushThenPopRestores ==
    ASSUME TypeOK, NEW list, Pushable(list), HasRoom(list) PROVE Restores(list)
<1>1. RegistersOK(r) /\ MemoryOK(mem)
  BY DEF TypeOK, RegistersOK, MemoryOK
<1>2. list \in 0..(2^16 - 1) /\ 13 \notin Listed(list) /\ 15 \notin Listed(list)
  BY PushableList
<1> DEFINE i == PushOf(list)
           j == PopOf(list)
<1>3. /\ IsPush(i) /\ IsPop(j) /\ RegisterList(i) = Listed(list)
      /\ RegisterList(j) = RegisterList(i)
  BY <1>2, PushEncoded, PopEncoded
<1>4. arm_read_register(r, 13) <= MemSize /\ arm_read_register(r, 13) >= 4 * Number_of_Set_Bits_In(i)
  BY DEF HasRoom
<1> HIDE DEF i, j
<1>5. 13 \notin RegisterList(i) /\ 15 \notin RegisterList(i)
  BY <1>2, <1>3
<1>6. LET push == arm_load_store_multiple(r, mem, i, 0)
          pop  == arm_load_store_multiple(push.r, push.mem, j, 0)
      IN  pop.r = r
  BY <1>1, <1>3, <1>4, <1>5, PushThenPop
<1> QED
  BY <1>6 DEF i, j, Restores

\* So PushPop holds in every state.
THEOREM PushPopAlways == Spec => []PushPop
<1> DEFINE H == 2^16
<1>0. H = 65536
  BY Power16, SMT
<1> HIDE DEF H
<1>1. ASSUME NEW list \in {16386, 17151} PROVE Pushable(list)
  <2> DEFINE P == 2^13
             Q == 2^15
  <2>1. P = 8192 /\ Q = 32768
    BY SomePowers, SMT
  <2> HIDE DEF P, Q
  <2>2. (list \div P) % 2 = 0 /\ (list \div Q) % 2 = 0
    BY <2>1, SMT
  <2>3. list \in 0..(2^16 - 1)
    <3>0. /\ list \in Int /\ H \in Int
          /\ 0 <= list /\ list <= H - 1
      BY <1>0, SMT
    <3>1. list \in 0..(H - 1)
      BY <3>0, SMT
    <3> QED
      BY <3>1 DEF H
  <2>4. (list \div 2^13) % 2 # 1 /\ (list \div 2^15) % 2 # 1
    BY <2>2 DEF P, Q
  <2> QED
    BY <2>3, <2>4 DEF Listed, Pushable
<1>2. TypeOK => \A list \in {16386, 17151} : HasRoom(list) => Restores(list)
  BY <1>1, PushThenPopRestores
<1>3. TypeOK => PushPop
  BY <1>2 DEF PushPop, HasRoom, Restores
<1> QED
  BY <1>3, TypesAlways, PTL
================================================================================
