-------------------------------- MODULE MCParts --------------------------------
(* The three components without control flow side by side: the register file,  *)
(* the memory and the arithmetic.  They share nothing, so one moves while the  *)
(* other two are at rest: the run explores each of them, not their product.    *)
(* An access depends on the bytes of the memory alone and every contents is an  *)
(* initial one, so one access from each of them is all there is to see.        *)
EXTENDS Registers, Memory, AluContract, FiniteSets

\* Every defined mode and an undefined one.
MCModeArg == {0, 16, 17, 18, 19, 23, 27, 31}

\* Each branch of the shifts at its limits, ROR going round four times, and far
\* beyond the width.
MCShiftAmount == 0..17 \cup {64}

RegistersRest == r = [s \in Slots |-> 0]
MemoryRest == mem = [c \in Cells |-> 0] /\ last = NoAccess
AluRest == job = Nothing /\ done = Nothing

MCInit ==
    /\ Init
    /\ MemoryInit
    /\ \/ MemoryRest /\ AluInit
       \/ AluRest

MCNext ==
    \/ /\ MemoryRest /\ AluRest
       /\ Next
       /\ UNCHANGED <<memory_vars, alu_vars>>
    \/ /\ RegistersRest /\ AluRest
       /\ last = NoAccess
       /\ MemoryNext
       /\ UNCHANGED <<vars, alu_vars>>
    \/ /\ RegistersRest /\ MemoryRest
       /\ AluNext
       /\ UNCHANGED <<vars, memory_vars>>

MCSpec == MCInit /\ [][MCNext]_<<vars, memory_vars, alu_vars>>

\* At most two slots that are not 0 before a write.
FewWritten == Cardinality({s \in Slots : r[s] # 0}) <= 2

\* The last call is in the state for the refinement only, so states that differ
\* in it alone are one.
WithoutCall == <<r, memory_vars, alu_vars>>
================================================================================
