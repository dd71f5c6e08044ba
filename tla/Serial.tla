--------------------------------- MODULE Serial --------------------------------
(***************************************************************************)
(* What the lock promises: the handlers of the debugger's packets and the  *)
(* interrupts are served one after the other, each at once.                *)
(***************************************************************************)
EXTENDS Integers

CONSTANTS PCs, Program, Packets, Irqs,
          RESET,        \* the interrupt that does something
          Lengths       \* how many steps c may take: any number but 0, of which TLC
                        \* needs those within which its program stops

VARIABLE shared         \* the machine: [pc, cpsr, target_exception, breakpoints]

Stopped(m) == m.pc \in m.breakpoints \/ m.target_exception # 0

Stepped(m) == [m EXCEPT !.pc = Program[@].next, !.target_exception = Program[m.pc].result]

SerialInit ==
    shared = [pc |-> 0, cpsr |-> "reset", target_exception |-> 0, breakpoints |-> {}]

Packet(kind) == \E p \in Packets : p.kind = kind

Step == Packet("s") /\ shared' = Stepped(shared)

\* To the first stop after at least one step.
Continue ==
    /\ Packet("c")
    /\ \E n \in Lengths :
           LET run[k \in 0..n] == IF k = 0 THEN shared ELSE Stepped(run[k - 1])
           IN  /\ shared' = run[n] /\ Stopped(run[n])
               /\ \A k \in 1..(n - 1) : ~ Stopped(run[k])

WriteRegisters ==
    \E p \in Packets :
        p.kind = "G" /\ shared' = [shared EXCEPT !.pc = p.address, !.cpsr = "set"]

SetBreakpoint ==
    \E p \in Packets :
        p.kind = "Z" /\ shared' = [shared EXCEPT !.breakpoints = @ \cup {p.address}]

RemoveBreakpoint ==
    \E p \in Packets :
        p.kind = "z" /\ shared' = [shared EXCEPT !.breakpoints = @ \ {p.address}]

Reset == RESET \in Irqs /\ shared' = [shared EXCEPT !.pc = 0, !.cpsr = "reset"]

SerialNext ==
    Step \/ Continue \/ WriteRegisters \/ SetBreakpoint \/ RemoveBreakpoint \/ Reset

SerialSpec == SerialInit /\ [][SerialNext]_shared
================================================================================
