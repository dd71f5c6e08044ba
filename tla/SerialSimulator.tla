----------------------------- MODULE SerialSimulator ---------------------------
(***************************************************************************)
(* Simulator with a history variable, the machine when the lock was last   *)
(* free: it shows the threads serve packets and interrupts one at a time.  *)
(***************************************************************************)
EXTENDS Simulator

CONSTANT Lengths        \* the numbers of steps that cont may take in Serial

ASSUME SerialAssumption == Lengths \subseteq Nat \ {0}

VARIABLE before

Now == [pc |-> pc, cpsr |-> cpsr, target_exception |-> target_exception,
        breakpoints |-> breakpoints]

HistoryInit == Init /\ before = Now

HistoryNext == Next /\ before' = IF lock' = "free" THEN Now' ELSE before

HistorySpec == HistoryInit /\ [][HistoryNext]_<<vars, before>> /\ Fairness

Promise == INSTANCE Serial WITH shared <- before

\* Whatever the two threads interleave, the machine the next holder of the lock finds
\* is the one a single handler or a single interrupt has left: cont in one piece from
\* its first instruction to its stop, both halves of a G packet, both of a RESET.
ServedOneByOne == Promise!SerialSpec
================================================================================
