------------------------------ MODULE StorageProofs ----------------------------
(***************************************************************************)
(* Proofs about Registers and Memory. For any set of words and any mode    *)
(* numbers: the slot computations never leave the array, never meet, and   *)
(* the array implements the banked registers of the architecture. For any  *)
(* size of the memory, any bytes, any addresses and either host: what is   *)
(* stored within the array reads back, whatever the endianness, the sizes  *)
(* agree, and nothing else is touched.                                     *)
(***************************************************************************)
EXTENDS Registers, Memory, TLAPS

--------------------------------------------------------------------------------
(* The registers.                                                          *)

USE DEF USR, FIQ, IRQ, SVC, ABT, UND, SYS, Reg, Slots, CpsrSlot, SpsrModes

\* Slot computation stays inside the 31 general registers of the array.
LEMMA SlotRange ==
    ASSUME NEW reg \in Reg, NEW mode \in 0..31
    PROVE  Slot(reg, mode) \in 0..30
BY DEF Slot, BankOffset

\* The SPSRs have slots of their own, beyond CPSR, one per mode.
LEMMA SpsrSlotRange ==
    /\ \A m \in SpsrModes : SpsrSlot(m) \in 32..36
    /\ \A m, n \in SpsrModes : SpsrSlot(m) = SpsrSlot(n) => m = n
<1>1. /\ SpsrSlot(17) = 36
      /\ SpsrSlot(18) = 35
      /\ SpsrSlot(19) = 32
      /\ SpsrSlot(23) = 33
      /\ SpsrSlot(27) = 34
  BY DEF SpsrSlot
<1> QED
  BY <1>1

\* A pair (register, mode) and the copy the architecture gives it share a slot.
LEMMA SlotOfBank ==
    ASSUME NEW reg \in Reg, NEW mode \in 0..31
    PROVE  /\ <<reg, Banked!Bank(reg, mode)>> \in Copies
           /\ Slot(reg, mode) = Slot(reg, Banked!Bank(reg, mode))
BY DEF Slot, BankOffset, Copies, Banked!Bank, Banked!ExceptionModes,
       Banked!USR, Banked!FIQ, Banked!IRQ, Banked!SVC, Banked!ABT, Banked!UND

\* Two copies never share a slot.
LEMMA SlotInjective ==
    ASSUME NEW p \in Copies, NEW q \in Copies, Slot(p[1], p[2]) = Slot(q[1], q[2])
    PROVE  p = q
<1>1. /\ p = <<p[1], p[2]>> /\ p[1] \in Reg /\ p[2] \in {USR} \cup SpsrModes
      /\ q = <<q[1], q[2]>> /\ q[1] \in Reg /\ q[2] \in {USR} \cup SpsrModes
      /\ p[2] = USR \/ p[1] \in 13..14 \/ (p[1] \in 8..12 /\ p[2] = FIQ)
      /\ q[2] = USR \/ q[1] \in 13..14 \/ (q[1] \in 8..12 /\ q[2] = FIQ)
  BY DEF Copies
<1>2. p[1] = q[1] /\ p[2] = q[2]
  BY <1>1 DEF Slot, BankOffset
<1> QED
  BY <1>1, <1>2

LEMMA CopiesArePhysical == Copies = Banked!Physical
BY DEF Copies, Banked!Physical, Banked!Bank, Banked!Reg, Banked!ExceptionModes,
       Banked!USR, Banked!FIQ, Banked!IRQ, Banked!SVC, Banked!ABT, Banked!UND

--------------------------------------------------------------------------------
\* The register file keeps its 37 words whatever is written, in whatever mode.
THEOREM TypeCorrect == Spec => []TypeOK
<1>1. Init => TypeOK
  BY RegistersAssumption DEF Init, TypeOK
<1>2. TypeOK /\ [Next]_vars => TypeOK'
  <2> SUFFICES ASSUME TypeOK, [Next]_vars PROVE TypeOK'
    OBVIOUS
  <2>1. CASE \E value \in RegisterValue : WriteCpsr(value)
    BY <2>1 DEF TypeOK, WriteCpsr, registers_write_cpsr
  <2>2. CASE \E value \in RegisterValue, mode \in ModeArg : WriteSpsr(mode, value)
    BY <2>2, SpsrSlotRange DEF TypeOK, WriteSpsr, registers_write_spsr
  <2>3. CASE \E value \in RegisterValue, mode \in ModeArg, reg \in Reg : Write(reg, mode, value)
    BY <2>3, RegistersAssumption, SlotRange DEF TypeOK, Write, registers_write
  <2>4. CASE UNCHANGED vars
    BY <2>4 DEF TypeOK, vars
  <2> QED
    BY <2>1, <2>2, <2>3, <2>4 DEF Next
<1> QED
  BY <1>1, <1>2, PTL DEF Spec

\* registers_read reaches the copy the architecture prescribes for the mode.
THEOREM ReadsItsBankAlways == Spec => []ReadsItsBank
<1>1. ReadsItsBank
  BY RegistersAssumption, SlotOfBank, ZenonT(60) DEF ReadsItsBank, registers_read
<1> QED
  BY <1>1, PTL

--------------------------------------------------------------------------------
\* One write of a general register, seen through the mapping.
LEMMA WriteImplements ==
    ASSUME TypeOK, NEW value \in RegisterValue, NEW mode \in ModeArg, NEW reg \in Reg,
           Write(reg, mode, value)
    PROVE  Banked!Write(reg, mode, value)
<1> DEFINE view(f) == [p \in Copies |-> registers_read(f, p[1], p[2])]
           b == Banked!Bank(reg, mode)
<1>1. /\ mode \in 0..31
      /\ <<reg, b>> \in Copies
      /\ Slot(reg, mode) = Slot(reg, b)
      /\ Slot(reg, mode) \in 0..30
  <2>1. mode \in 0..31
    BY RegistersAssumption
  <2> QED
    BY <2>1, SlotOfBank, SlotRange, ZenonT(60)
<1>2. r' = [r EXCEPT ![Slot(reg, b)] = value] /\ r \in [Slots -> RegisterValue]
  BY <1>1 DEF Write, registers_write, TypeOK
<1>3. ASSUME NEW p \in Copies
      PROVE  registers_read(r', p[1], p[2])
                = IF p = <<reg, b>> THEN value ELSE registers_read(r, p[1], p[2])
  <2>1. p[1] \in Reg /\ p[2] \in 0..31
    BY DEF Copies
  <2>2. Slot(p[1], p[2]) \in 0..30
    BY <2>1, SlotRange
  <2>3. (Slot(p[1], p[2]) = Slot(reg, b)) <=> (p = <<reg, b>>)
    BY <1>1, SlotInjective
  <2> HIDE DEF b
  <2> QED
    BY <1>1, <1>2, <2>2, <2>3 DEF registers_read
<1> HIDE DEF b
<1>4. view(r') = [view(r) EXCEPT ![<<reg, b>>] = value]
  BY <1>1, <1>3
<1>5. registers_read_cpsr(r') = registers_read_cpsr(r)
  BY <1>1, <1>2 DEF registers_read_cpsr
<1>6. \A m \in SpsrModes : registers_read_spsr(r', m) = registers_read_spsr(r, m)
  BY <1>1, <1>2, SpsrSlotRange DEF registers_read_spsr
<1>7. call' = <<"write", reg, mode, value>>
  BY DEF Write
<1>8. registers_read_cpsr(r)' = registers_read_cpsr(r')
  BY DEF registers_read_cpsr
<1>9. [m \in SpsrModes |-> registers_read_spsr(r, m)]'
         = [m \in SpsrModes |-> registers_read_spsr(r, m)]
  BY <1>6
<1> QED
  BY <1>4, <1>5, <1>7, <1>8, <1>9 DEF Banked!Write, b

\* A write of CPSR, seen through the mapping.
LEMMA WriteCpsrImplements ==
    ASSUME TypeOK, NEW value \in RegisterValue, WriteCpsr(value)
    PROVE  Banked!WriteCpsr(value)
<1>1. r' = [r EXCEPT ![31] = value] /\ r \in [Slots -> RegisterValue]
  BY DEF WriteCpsr, registers_write_cpsr, TypeOK
<1>2. \A p \in Copies : registers_read(r', p[1], p[2]) = registers_read(r, p[1], p[2])
  <2> TAKE p \in Copies
  <2>1. Slot(p[1], p[2]) \in 0..30
    BY SlotRange DEF Copies
  <2> QED
    BY <1>1, <2>1 DEF registers_read
<1>3. \A m \in SpsrModes : registers_read_spsr(r', m) = registers_read_spsr(r, m)
  BY <1>1, SpsrSlotRange DEF registers_read_spsr
<1>4. registers_read_cpsr(r') = value
  BY <1>1 DEF registers_read_cpsr
<1>5. registers_read_cpsr(r)' = registers_read_cpsr(r')
  BY DEF registers_read_cpsr
<1>6. call' = <<"write_cpsr", value>>
  BY DEF WriteCpsr
<1> QED
  BY <1>2, <1>3, <1>4, <1>5, <1>6 DEF Banked!WriteCpsr

\* A write of an SPSR, seen through the mapping; other modes have none to write.
LEMMA WriteSpsrImplements ==
    ASSUME TypeOK, NEW value \in RegisterValue, NEW mode \in ModeArg, WriteSpsr(mode, value)
    PROVE  Banked!WriteSpsr(mode, value)
<1>1. /\ r \in [Slots -> RegisterValue]
      /\ mode \in SpsrModes => r' = [r EXCEPT ![SpsrSlot(mode)] = value]
      /\ mode \notin SpsrModes => r' = r
  BY DEF WriteSpsr, registers_write_spsr, TypeOK
<1>2. \A p \in Copies : registers_read(r', p[1], p[2]) = registers_read(r, p[1], p[2])
  <2> TAKE p \in Copies
  <2>1. Slot(p[1], p[2]) \in 0..30
    BY SlotRange DEF Copies
  <2> QED
    BY <1>1, <2>1, SpsrSlotRange DEF registers_read
<1>3. registers_read_cpsr(r)' = registers_read_cpsr(r)
  BY <1>1, SpsrSlotRange DEF registers_read_cpsr
<1>4. ASSUME NEW m \in SpsrModes
      PROVE  registers_read_spsr(r', m)
                = IF m = mode THEN value ELSE registers_read_spsr(r, m)
  <2>1. SpsrSlot(m) \in Slots
    BY SpsrSlotRange
  <2>2. mode \in SpsrModes => (SpsrSlot(m) = SpsrSlot(mode) <=> m = mode)
    BY SpsrSlotRange
  <2> QED
    BY <1>1, <2>1, <2>2 DEF registers_read_spsr
<1>5. [m \in SpsrModes |-> registers_read_spsr(r, m)]'
         = [m \in SpsrModes |-> IF m = mode THEN value ELSE registers_read_spsr(r, m)]
  BY <1>4
<1>6. [p \in Copies |-> registers_read(r, p[1], p[2])]'
         = [p \in Copies |-> registers_read(r, p[1], p[2])]
  BY <1>2
<1>7. call' = <<"write_spsr", mode, value>>
  BY DEF WriteSpsr
<1>8. Banked!ExceptionModes = SpsrModes
  BY DEF Banked!ExceptionModes,
         Banked!FIQ, Banked!IRQ, Banked!SVC, Banked!ABT, Banked!UND
<1>9. [m \in SpsrModes |-> IF m = mode THEN value
                           ELSE [n \in SpsrModes |-> registers_read_spsr(r, n)][m]]
         = [m \in SpsrModes |-> IF m = mode THEN value ELSE registers_read_spsr(r, m)]
  OBVIOUS
<1> QED
  BY <1>3, <1>5, <1>6, <1>7, <1>8, <1>9 DEF Banked!WriteSpsr

\* The array of 37 slots implements the banked register file.
THEOREM RegistersImplementBanked == Spec => ImplementsBanked
<1>1. Init => Banked!Init
  <2> SUFFICES ASSUME Init PROVE Banked!Init
    OBVIOUS
  <2>1. \A p \in Copies : registers_read(r, p[1], p[2]) = 0
    <3> TAKE p \in Copies
    <3>1. Slot(p[1], p[2]) \in 0..30
      BY SlotRange DEF Copies
    <3> QED
      BY <3>1 DEF Init, registers_read
  <2>2. \A m \in SpsrModes : registers_read_spsr(r, m) = 0
    BY SpsrSlotRange DEF Init, registers_read_spsr
  <2> QED
    BY <2>1, <2>2, CopiesArePhysical
    DEF Init, Banked!Init, registers_read_cpsr, Banked!ExceptionModes,
        Banked!FIQ, Banked!IRQ, Banked!SVC, Banked!ABT, Banked!UND
<1>2. TypeOK /\ [Next]_vars => [Banked!Next]_(Banked!vars)
  <2> SUFFICES ASSUME TypeOK, [Next]_vars PROVE [Banked!Next]_(Banked!vars)
    OBVIOUS
  <2>1. CASE \E value \in RegisterValue : WriteCpsr(value)
    BY <2>1, WriteCpsrImplements DEF Banked!Next
  <2>2. CASE \E value \in RegisterValue, mode \in ModeArg : WriteSpsr(mode, value)
    BY <2>2, WriteSpsrImplements DEF Banked!Next
  <2>3. CASE \E value \in RegisterValue, mode \in ModeArg, reg \in Reg : Write(reg, mode, value)
    BY <2>3, WriteImplements DEF Banked!Next, Banked!Reg
  <2>4. CASE UNCHANGED vars
    <3>1. r' = r /\ call' = call
      BY <2>4 DEF vars
    <3> QED
      BY <3>1 DEF Banked!vars, registers_read, registers_read_cpsr, registers_read_spsr
  <2> QED
    BY <2>1, <2>2, <2>3, <2>4 DEF Next
<1> QED
  BY <1>1, <1>2, TypeCorrect, PTL DEF Spec, ImplementsBanked, Banked!Spec

--------------------------------------------------------------------------------
(* The memory.                                                             *)

HIDE DEF USR, FIQ, IRQ, SVC, ABT, UND, SYS, Reg, Slots, CpsrSlot, SpsrModes
USE DEF Cells, Sizes, Value

\* A store keeps the shape of the array, even past its end.
LEMMA WriteTyped ==
    ASSUME NEW m \in [Cells -> ByteValue], NEW address \in Nat, NEW k \in Sizes,
           NEW be \in BOOLEAN, NEW value \in Value(k)
    PROVE  memory_write(m, address, k, be, value) \in [Cells -> ByteValue]
<1>1. ASSUME NEW c \in Cells, c \in address..(address + k - 1)
      PROVE  /\ value[k - 1 - (c - address)] \in ByteValue
             /\ value[c - address] \in ByteValue
  BY <1>1, MemoryAssumption
<1> QED
  BY <1>1, MemoryAssumption DEF memory_write

\* What was stored within the array is what is read from it.
LEMMA ReadAfterWrite ==
    ASSUME NEW m \in [Cells -> ByteValue], NEW address \in Nat, NEW k \in Sizes,
           NEW be \in BOOLEAN, NEW value \in Value(k), NEW junk, Fits(address, k)
    PROVE  /\ memory_read(memory_write(m, address, k, be, value), address, k, be, junk)
                  = value
           /\ memory_read(memory_write(m, address, k, be, value), address, k, ~ be, junk)
                  = [i \in 0..(k - 1) |-> value[k - 1 - i]]
<1> DEFINE stored == memory_write(m, address, k, be, value)
           cell(b, i) == CellOf(address, k, b, i)
<1>1. ASSUME NEW c \in address..(address + k - 1)
      PROVE  /\ c \in Cells /\ c < MemSize
             /\ stored[c] = value[IF Swaps(be) THEN k - 1 - (c - address) ELSE c - address]
  BY <1>1, MemoryAssumption DEF memory_write, Succeeds, Fits
<1>2. ASSUME NEW b \in BOOLEAN, NEW i \in 0..(k - 1)
      PROVE  /\ cell(b, i) \in address..(address + k - 1)
             /\ k - 1 - i \in 0..(k - 1)
             /\ Swaps(b) => k - 1 - (cell(b, i) - address) = i
                            /\ cell(b, i) - address = k - 1 - i
             /\ ~ Swaps(b) => cell(b, i) - address = i
                              /\ k - 1 - (cell(b, i) - address) = k - 1 - i
  BY <1>2 DEF CellOf
<1>3. Swaps(~ be) <=> ~ Swaps(be)
  BY MemoryAssumption DEF Swaps
<1> HIDE DEF stored, cell
<1>4. ASSUME NEW i \in 0..(k - 1)
      PROVE  stored[cell(be, i)] = value[i]
  <2>1. stored[cell(be, i)] = value[IF Swaps(be) THEN k - 1 - (cell(be, i) - address)
                                                ELSE cell(be, i) - address]
    BY <1>1, <1>2
  <2>2. CASE Swaps(be)
    BY <2>1, <2>2, <1>2
  <2>3. CASE ~ Swaps(be)
    BY <2>1, <2>3, <1>2
  <2> QED
    BY <2>2, <2>3
<1>5. ASSUME NEW i \in 0..(k - 1)
      PROVE  stored[cell(~ be, i)] = value[k - 1 - i]
  <2>1. stored[cell(~ be, i)]
           = value[IF Swaps(be) THEN k - 1 - (cell(~ be, i) - address)
                                ELSE cell(~ be, i) - address]
    BY <1>1, <1>2
  <2>2. CASE Swaps(be)
    BY <2>1, <2>2, <1>2, <1>3
  <2>3. CASE ~ Swaps(be)
    BY <2>1, <2>3, <1>2, <1>3
  <2> QED
    BY <2>2, <2>3
<1>6. memory_read(stored, address, k, be, junk) = [i \in 0..(k - 1) |-> stored[cell(be, i)]]
  BY <1>1, <1>2 DEF memory_read, cell
<1>7. memory_read(stored, address, k, ~ be, junk)
         = [i \in 0..(k - 1) |-> stored[cell(~ be, i)]]
  BY <1>1, <1>2 DEF memory_read, cell
<1>8. value = [i \in 0..(k - 1) |-> value[i]]
  OBVIOUS
<1>9. /\ [i \in 0..(k - 1) |-> stored[cell(be, i)]] = value
      /\ [i \in 0..(k - 1) |-> stored[cell(~ be, i)]] = [i \in 0..(k - 1) |-> value[k - 1 - i]]
  BY <1>4, <1>5, <1>8
<1>10. /\ memory_read(stored, address, k, be, junk) = value
       /\ memory_read(stored, address, k, ~ be, junk) = [i \in 0..(k - 1) |-> value[k - 1 - i]]
  BY <1>6, <1>7, <1>9
<1> QED
  BY <1>10 DEF stored

--------------------------------------------------------------------------------
\* The array keeps its size and holds bytes.
THEOREM MemoryTypeCorrect == MemorySpec => []MemoryTypeOK
<1>1. MemoryInit => MemoryTypeOK
  BY DEF MemoryInit, MemoryTypeOK
<1>2. MemoryTypeOK /\ [MemoryNext]_memory_vars => MemoryTypeOK'
  <2> SUFFICES ASSUME MemoryTypeOK, [MemoryNext]_memory_vars PROVE MemoryTypeOK'
    OBVIOUS
  <2>1. ASSUME NEW address \in Address, NEW k \in Sizes, NEW be \in BOOLEAN,
               NEW value \in Value(k), WriteBytes(address, k, be, value)
        PROVE  MemoryTypeOK'
    BY <2>1, WriteTyped, MemoryAssumption DEF WriteBytes, MemoryTypeOK
  <2>2. ASSUME NEW address \in Address, NEW k \in Sizes, NEW be \in BOOLEAN,
               NEW value \in Value(k), ReadBytes(address, k, be, value)
        PROVE  MemoryTypeOK'
    BY <2>2 DEF ReadBytes, MemoryTypeOK
  <2>3. CASE UNCHANGED memory_vars
    BY <2>3 DEF memory_vars, MemoryTypeOK
  <2> QED
    BY <2>1, <2>2, <2>3 DEF MemoryNext
<1> QED
  BY <1>1, <1>2, PTL DEF MemorySpec

\* Stores within the array read back in both endiannesses.
THEOREM WritesReadBackAlways == MemorySpec => []WritesReadBack
<1>1. MemoryInit => WritesReadBack
  BY DEF MemoryInit, WritesReadBack, NoAccess
<1>2. MemoryTypeOK /\ WritesReadBack /\ [MemoryNext]_memory_vars => WritesReadBack'
  <2> SUFFICES ASSUME MemoryTypeOK, WritesReadBack, [MemoryNext]_memory_vars PROVE WritesReadBack'
    OBVIOUS
  <2>1. ASSUME NEW address \in Address, NEW k \in Sizes, NEW be \in BOOLEAN,
               NEW value \in Value(k), WriteBytes(address, k, be, value)
        PROVE  WritesReadBack'
    <3>1. /\ last'.address = address /\ last'.size = k
          /\ last'.be = be /\ last'.value = value
          /\ mem' = memory_write(mem, address, k, be, value)
      BY <2>1 DEF WriteBytes
    <3>2. address \in Nat /\ mem \in [Cells -> ByteValue]
      BY MemoryAssumption DEF MemoryTypeOK
    <3>3. ASSUME Fits(address, k), NEW junk \in Value(k)
          PROVE  /\ memory_read(mem', address, k, be, junk) = value
                 /\ memory_read(mem', address, k, ~ be, junk)
                        = [i \in 0..(k - 1) |-> value[k - 1 - i]]
      <4> DEFINE stored == memory_write(mem, address, k, be, value)
      <4>0. /\ mem \in [Cells -> ByteValue] /\ address \in Nat /\ k \in Sizes
            /\ be \in BOOLEAN /\ value \in Value(k) /\ Fits(address, k)
        BY <3>2, <3>3
      <4>1. /\ memory_read(stored, address, k, be, junk) = value
            /\ memory_read(stored, address, k, ~ be, junk)
                        = [i \in 0..(k - 1) |-> value[k - 1 - i]]
        <5> HIDE DEF Sizes, Value, Cells
        <5> QED
          BY <4>0, ReadAfterWrite
      <4>2. mem' = stored
        BY <3>1
      <4> HIDE DEF stored
      <4> QED
        BY <4>1, <4>2
    <3> QED
      BY <3>1, <3>3 DEF WritesReadBack, Fits, memory_read, CellOf, Swaps
  <2>2. ASSUME NEW address \in Address, NEW k \in Sizes, NEW be \in BOOLEAN,
               NEW value \in Value(k), ReadBytes(address, k, be, value)
        PROVE  WritesReadBack'
    BY <2>2 DEF ReadBytes, WritesReadBack
  <2>3. CASE UNCHANGED memory_vars
    <3>1. mem' = mem /\ last' = last
      BY <2>3 DEF memory_vars
    <3> HIDE DEF Value
    <3> QED
      BY <3>1 DEF WritesReadBack, Fits, memory_read, CellOf, Swaps
  <2> QED
    BY <2>1, <2>2, <2>3 DEF MemoryNext
<1> QED
  BY <1>1, <1>2, MemoryTypeCorrect, PTL DEF MemorySpec

\* Words and halves are two views of the same bytes.
THEOREM SizesAgreeAlways == MemorySpec => []SizesAgree
<1>1. MemoryTypeOK => SizesAgree
  <2> SUFFICES ASSUME MemoryTypeOK, NEW address \in Cells, NEW be \in BOOLEAN,
                      Fits(address, 4), NEW junk \in Value(4)
               PROVE  LET word == memory_read(mem, address, 4, be, junk)
                          near == memory_read(mem, address, 2, be, junk)
                          far  == memory_read(mem, address + 2, 2, be, junk)
                          half == IF Swaps(be) THEN [low |-> far, high |-> near]
                                               ELSE [low |-> near, high |-> far]
                      IN  word = [i \in 0..3 |-> IF i < 2 THEN half.low[i]
                                                 ELSE half.high[i - 2]]
    BY DEF SizesAgree
  <2>1. address \in Nat /\ address + 3 < MemSize
    BY MemoryAssumption DEF Fits
  <2>2. \A i \in 0..3 : memory_read(mem, address, 4, be, junk)[i]
                           = mem[IF Swaps(be) THEN address + 3 - i ELSE address + i]
    BY <2>1, MemoryAssumption DEF memory_read, CellOf
  <2>3. \A i \in 0..1 : memory_read(mem, address, 2, be, junk)[i]
                           = mem[IF Swaps(be) THEN address + 1 - i ELSE address + i]
    BY <2>1, MemoryAssumption DEF memory_read, CellOf
  <2>4. \A i \in 0..1 : memory_read(mem, address + 2, 2, be, junk)[i]
                           = mem[IF Swaps(be) THEN address + 3 - i ELSE address + 2 + i]
    BY <2>1, MemoryAssumption DEF memory_read, CellOf
  <2>5. memory_read(mem, address, 4, be, junk)
           = [i \in 0..3 |-> memory_read(mem, address, 4, be, junk)[i]]
    BY DEF memory_read
  <2>6. CASE Swaps(be)
    BY <2>1, <2>2, <2>3, <2>4, <2>5, <2>6
  <2>7. CASE ~ Swaps(be)
    BY <2>1, <2>2, <2>3, <2>4, <2>5, <2>7
  <2> QED
    BY <2>6, <2>7
<1> QED
  BY <1>1, MemoryTypeCorrect, PTL

\* Every store stays within the bytes it addresses.
THEOREM OnlyAddressedBytesAlways == MemorySpec => OnlyAddressedBytes
<1> DEFINE Addressed ==
        \A c \in Cells :
            mem'[c] # mem[c] =>
                /\ last'.op = "write"
                /\ last'.ok
                /\ c \in last'.address..(last'.address + last'.size - 1)
<1>1. MemoryTypeOK /\ [MemoryNext]_memory_vars => [Addressed]_memory_vars
  <2> SUFFICES ASSUME MemoryTypeOK, MemoryNext PROVE Addressed
    OBVIOUS
  <2>1. ASSUME NEW address \in Address, NEW k \in Sizes, NEW be \in BOOLEAN,
               NEW value \in Value(k), WriteBytes(address, k, be, value)
        PROVE  Addressed
    BY <2>1 DEF WriteBytes, memory_write, MemoryTypeOK
  <2>2. ASSUME NEW address \in Address, NEW k \in Sizes, NEW be \in BOOLEAN,
               NEW value \in Value(k), ReadBytes(address, k, be, value)
        PROVE  Addressed
    BY <2>2 DEF ReadBytes
  <2> QED
    BY <2>1, <2>2 DEF MemoryNext
<1> QED
  BY <1>1, MemoryTypeCorrect, PTL DEF MemorySpec, OnlyAddressedBytes
================================================================================
