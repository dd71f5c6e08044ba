------------------------------- MODULE Registers -------------------------------
(***************************************************************************)
(* registers.c as a component: any sequence of calls of its three write    *)
(* operations, and what the register file looks like from outside.         *)
(***************************************************************************)
EXTENDS RegisterFile

CONSTANTS RegisterValue,     \* the values a register can hold (uint32_t)
          ModeArg            \* the mode numbers the callers give

ASSUME RegistersAssumption ==
    /\ RegisterValue \subseteq Nat
    /\ 0 \in RegisterValue
    /\ ModeArg \subseteq 0..31     \* a mode is a five-bit field of CPSR

VARIABLES r,        \* the array
          call      \* the last call, with the arguments of its caller

vars == <<r, call>>

Init ==
    /\ r = [s \in Slots |-> 0]                \* registers_create: calloc
    /\ call = <<"create">>

Write(reg, mode, value) ==
    /\ r' = registers_write(r, reg, mode, value)
    /\ call' = <<"write", reg, mode, value>>

WriteCpsr(value) ==
    /\ r' = registers_write_cpsr(r, value)
    /\ call' = <<"write_cpsr", value>>

WriteSpsr(mode, value) ==
    /\ r' = registers_write_spsr(r, mode, value)
    /\ call' = <<"write_spsr", mode, value>>

Next ==
    \E value \in RegisterValue :
        \/ WriteCpsr(value)
        \/ \E mode \in ModeArg :
               \/ WriteSpsr(mode, value)
               \/ \E reg \in Reg : Write(reg, mode, value)

Spec == Init /\ [][Next]_vars

--------------------------------------------------------------------------------
\* The register file always holds 37 words.
TypeOK == r \in [Slots -> RegisterValue]

\* The general registers of the programmer's model: <<number, owning mode>>.
Copies ==
    {p \in Reg \X ({USR} \cup SpsrModes) :
        p[2] = USR \/ p[1] \in 13..14 \/ (p[1] \in 8..12 /\ p[2] = FIQ)}

\* What the read operations return is what the programmer's model would hold
\* after the same calls with the same arguments: a write through a (register,
\* mode) pair changes the copy that pair names and no other copy, CPSR or SPSR.
Banked == INSTANCE BankedRegisters WITH
    Word    <- RegisterValue,
    general <- [p \in Copies |-> registers_read(r, p[1], p[2])],
    cpsr    <- registers_read_cpsr(r),
    spsr    <- [m \in SpsrModes |-> registers_read_spsr(r, m)]

ImplementsBanked == Banked!Spec

\* registers_read and the architecture agree on which copy every pair names.
ReadsItsBank ==
    \A reg \in Reg, mode \in ModeArg :
        registers_read(r, reg, mode) = registers_read(r, reg, Banked!Bank(reg, mode))
================================================================================
