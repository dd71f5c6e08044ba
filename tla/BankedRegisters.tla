---------------------------- MODULE BankedRegisters ----------------------------
(***************************************************************************)
(* What the register file promises: the ARM programmer's model.  A general *)
(* register is named by its number and by the mode that owns the copy (its *)
(* bank); r0..r7 and r15 have one copy, r8..r12 a second one for FIQ, r13  *)
(* and r14 one for each exception mode.  CPSR is unique, and each of the   *)
(* five exception modes has an SPSR.                                       *)
(***************************************************************************)
EXTENDS Integers

CONSTANTS Word,     \* the values a register can hold
          ModeArg   \* the five-bit mode numbers given to the operations

USR == 16
FIQ == 17
IRQ == 18
SVC == 19
ABT == 23
UND == 27
SYS == 31

ExceptionModes == {FIQ, IRQ, SVC, ABT, UND}
Reg == 0..15

\* The mode owning the copy of register reg that mode reaches.
Bank(reg, mode) ==
    IF \/ reg \in 13..14 /\ mode \in ExceptionModes
       \/ reg \in 8..12 /\ mode = FIQ
    THEN mode
    ELSE USR

\* The general registers there really are: 31 of them.
Physical == {p \in Reg \X ({USR} \cup ExceptionModes) : Bank(p[1], p[2]) = p[2]}

VARIABLES general, cpsr, spsr,
          call      \* the last call, with its arguments

vars == <<general, cpsr, spsr, call>>

Init ==
    /\ general = [p \in Physical |-> 0]
    /\ cpsr = 0
    /\ spsr = [m \in ExceptionModes |-> 0]
    /\ call = <<"create">>

Write(reg, mode, value) ==
    /\ call' = <<"write", reg, mode, value>>
    /\ general' = [general EXCEPT ![<<reg, Bank(reg, mode)>>] = value]
    /\ UNCHANGED <<cpsr, spsr>>

WriteCpsr(value) ==
    /\ call' = <<"write_cpsr", value>>
    /\ cpsr' = value
    /\ UNCHANGED <<general, spsr>>

\* A mode without SPSR has nothing to write.
WriteSpsr(mode, value) ==
    /\ call' = <<"write_spsr", mode, value>>
    /\ spsr' = [m \in ExceptionModes |-> IF m = mode THEN value ELSE spsr[m]]
    /\ UNCHANGED <<general, cpsr>>

Next ==
    \E value \in Word :
        \/ WriteCpsr(value)
        \/ \E mode \in ModeArg :
               \/ WriteSpsr(mode, value)
               \/ \E reg \in Reg : Write(reg, mode, value)

Spec == Init /\ [][Next]_vars
================================================================================
