------------------------------ MODULE RegisterFile -----------------------------
(***************************************************************************)
(* The access functions of registers.c on the array f of 37 words.  Slots  *)
(* 0..15 are the user registers, 16..30 the banked ones, 31 is CPSR and    *)
(* 32..36 are the SPSRs; every access computes its slot from the register  *)
(* number and the mode.                                                    *)
(***************************************************************************)
EXTENDS Integers

USR == 16
FIQ == 17
IRQ == 18
SVC == 19
ABT == 23
UND == 27
SYS == 31

Reg == 0..15
Slots == 0..36
CpsrSlot == 31
SpsrModes == {FIQ, IRQ, SVC, ABT, UND}

\* Distance from r13 and r14 to the copies of the mode.
BankOffset(mode) ==
    CASE mode = FIQ -> 16
      [] mode = IRQ -> 9
      [] mode = SVC -> 3
      [] mode = ABT -> 5
      [] mode = UND -> 7
      [] OTHER -> 0

\* The slot both registers_read and registers_write select.
Slot(reg, mode) ==
    IF reg \in 8..12 /\ mode = FIQ THEN reg + 16
    ELSE IF reg \in 13..14 THEN reg + BankOffset(mode)
    ELSE reg

SpsrSlot(mode) ==
    CASE mode = FIQ -> 36
      [] mode = IRQ -> 35
      [] mode = SVC -> 32
      [] mode = ABT -> 33
      [] mode = UND -> 34

\* A bug to detect: r8..r12 are banked for every exception mode.
registers_readAllBanked(f, reg, mode) ==
    f[IF reg \in 8..12 /\ mode \in SpsrModes THEN reg + 16 ELSE Slot(reg, mode)]

registers_read(f, reg, mode) == f[Slot(reg, mode)]

\* A bug to detect: stores of r13 and r14 in IRQ mode use the distance of SVC's.
registers_writeWrongBank(f, reg, mode, value) ==
    [f EXCEPT ![IF reg \in 13..14 /\ mode = IRQ THEN reg + BankOffset(SVC)
                ELSE Slot(reg, mode)] = value]

registers_write(f, reg, mode, value) == [f EXCEPT ![Slot(reg, mode)] = value]

registers_read_cpsr(f) == f[CpsrSlot]

registers_write_cpsr(f, value) == [f EXCEPT ![CpsrSlot] = value]

registers_read_spsr(f, mode) == IF mode \in SpsrModes THEN f[SpsrSlot(mode)] ELSE 0

registers_write_spsr(f, mode, value) ==
    IF mode \in SpsrModes THEN [f EXCEPT ![SpsrSlot(mode)] = value] ELSE f

registers_get_mode(f) == f[CpsrSlot] % 32

\* True of every mode but USR and SYS, the undefined mode numbers included.
registers_current_mode_has_spsr(f) == registers_get_mode(f) \notin {USR, SYS}

registers_in_a_privileged_mode(f) == registers_get_mode(f) # USR
================================================================================
