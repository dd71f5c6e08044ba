------------------------------- MODULE Simulator -------------------------------
(***************************************************************************)
(* The process: the thread that serves the debugger (gdb_listener, the     *)
(* scanner and the handlers of gdb_protocol.c), the thread that takes      *)
(* interrupts (irq_listener) and main, which waits for the first.  They    *)
(* share one machine, here the PC, CPSR and a program, under one lock.     *)
(***************************************************************************)
EXTENDS Integers

CONSTANTS PCs,           \* addresses of instructions, and what G writes to the PC
          Program,       \* PCs -> [next : PCs, result : 0..255], what arm_step does
          Packets,       \* what the debugger may send; a packet has its content
                         \* when it is scanned
          Irqs,          \* the bytes the interrupt sender may send
          MaxPackets,    \* bounds on how much it sends, and
          MaxIrqs        \* on how many bytes the interrupt sender does

ASSUME SimulatorAssumption ==
    /\ PCs \subseteq Int /\ 0 \in PCs
    /\ MaxPackets \in Nat /\ MaxIrqs \in Nat
    /\ Program \in [PCs -> [next : PCs, result : 0..255]]
    /\ Packets \subseteq [kind : {"c", "s", "g", "G", "Z", "z", "?", "k",
                                  "unsupported", "corrupt"}, address : PCs]

RESET == 1      \* the interrupt that does something

VARIABLES main,            \* "join", "destroyed" (the machine is freed), "exited"
          gdb, packet,     \* where the gdb thread is, and the packet it serves
          local,           \* the PC it has read
          again,           \* cont is past its first instruction
          irq, byte,       \* where the irq thread is, and the byte it has read
          lock,            \* who holds shared.lock
          pc, cpsr, target_exception, breakpoints,
          incoming, sent,  \* how many packets are in the socket, and were sent
          writable,        \* kill_request has not shut the connection down
          debugger, sender, \* the two clients: "away", "connected", "gone"; "broken"
          irqs, signals    \* how many bytes are in the socket, and were sent

machine == <<pc, cpsr, target_exception, breakpoints>>
clients == <<incoming, sent, debugger, sender, irqs, signals>>
gdbThread == <<gdb, packet, local, again, writable>>
irqThread == <<irq, byte>>
vars == <<main, lock, machine, clients, gdbThread, irqThread>>

NoPacket == [kind |-> "none", address |-> 0]

Init ==
    /\ main = "join" /\ lock = "free"
    /\ gdb = "accept" /\ packet = NoPacket
    /\ local = 0 /\ again = FALSE /\ writable = TRUE
    /\ irq = "accept" /\ byte = 0
    /\ pc = 0 /\ cpsr = "reset" /\ target_exception = 0 /\ breakpoints = {}
    /\ incoming = 0 /\ sent = 0 /\ debugger = "away"
    /\ sender = "away" /\ irqs = 0 /\ signals = 0

Running == main # "exited"

\* exit, or a signal that ends the process: everything stops where it is.
Exit == main' = "exited" /\ UNCHANGED <<lock, machine, clients, gdbThread, irqThread>>

--------------------------------------------------------------------------------
(* The clients.                                                            *)

DebuggerConnects == debugger = "away" /\ debugger' = "connected" /\ UNCHANGED <<incoming, sent>>

\* It does not wait for an answer before it sends the next packet.
DebuggerSends ==
    /\ debugger = "connected" /\ sent < MaxPackets
    /\ incoming' = incoming + 1 /\ sent' = sent + 1
    /\ UNCHANGED debugger

DebuggerLeaves == debugger = "connected" /\ debugger' = "gone" /\ UNCHANGED <<incoming, sent>>

Debugger ==
    /\ DebuggerConnects \/ DebuggerSends \/ DebuggerLeaves
    /\ UNCHANGED <<main, lock, machine, sender, irqs, signals, gdbThread, irqThread>>

SenderConnects == sender = "away" /\ sender' = "connected" /\ UNCHANGED <<irqs, signals>>

SenderSends ==
    /\ sender = "connected" /\ signals < MaxIrqs
    /\ irqs' = irqs + 1 /\ signals' = signals + 1
    /\ UNCHANGED sender

\* It closes the connection, or the connection is reset.
SenderLeaves ==
    sender = "connected" /\ sender' \in {"gone", "broken"} /\ UNCHANGED <<irqs, signals>>

Sender ==
    /\ SenderConnects \/ SenderSends \/ SenderLeaves
    /\ UNCHANGED <<main, lock, machine, incoming, sent, debugger, gdbThread, irqThread>>

--------------------------------------------------------------------------------
(* The gdb thread.                                                         *)

\* Rio_writen: it works while both ends are open, may still work when the debugger
\* has left, and otherwise ends the process (Exit).
CanWriteAlways == TRUE        \* a bug to detect: failures to write are ignored

CanWrite == writable

MayFail == ~ writable \/ debugger = "gone"

Accepts ==
    /\ gdb = "accept" /\ debugger # "away"
    /\ gdb' = "scan"
    /\ UNCHANGED <<main, lock, machine, clients, packet, local, again, writable, irqThread>>

\* gdb_packet_analysis: the acknowledgement, or the request to send again, and for
\* an unsupported packet the empty answer, are written before the lock is taken.
Scans ==
    /\ gdb = "scan" /\ incoming > 0 /\ CanWrite
    /\ incoming' = incoming - 1
    /\ \E p \in Packets :
           \/ p.kind \in {"corrupt", "unsupported"} /\ UNCHANGED <<gdb, packet>>
           \/ p.kind \notin {"corrupt", "unsupported"} /\ gdb' = "lock" /\ packet' = p
    /\ UNCHANGED <<main, lock, machine, sent, debugger, sender, irqs, signals, local, again,
                   writable, irqThread>>

EndOfFile ==
    /\ gdb = "scan" /\ incoming = 0 /\ debugger = "gone"
    /\ gdb' = "ended"
    /\ UNCHANGED <<main, lock, machine, clients, packet, local, again, writable, irqThread>>

\* Where the handler of a packet starts.
Entry(kind) ==
    IF kind \in {"c", "s"} THEN "fetch"
    ELSE IF kind = "g" THEN "readPC"
    ELSE IF kind = "G" THEN "writePC"
    ELSE "handle"

Locks ==
    /\ gdb = "lock" /\ lock = "free"
    /\ lock' = "gdb"
    /\ gdb' = Entry(packet.kind)
    /\ UNCHANGED <<main, machine, clients, packet, local, again, writable, irqThread>>

\* arm_step: the fetch moves the PC on, then the instruction is executed.
Fetches ==
    /\ gdb = "fetch"
    /\ local' = pc /\ pc' = pc + 4
    /\ gdb' = "execute"
    /\ UNCHANGED <<main, lock, cpsr, target_exception, breakpoints, clients, packet, again,
                   writable, irqThread>>

Executes ==
    /\ gdb = "execute"
    /\ pc' = Program[local].next
    /\ target_exception' = Program[local].result
    /\ gdb' = IF packet.kind = "c" THEN "check" ELSE "answer"
    /\ UNCHANGED <<main, lock, cpsr, breakpoints, clients, packet, local, again, writable,
                   irqThread>>

\* A bug to detect: cont looks up the instruction it has just executed.
StopsBefore == local \in breakpoints \/ target_exception # 0

Stops == pc \in breakpoints \/ target_exception # 0

\* The test at the end of cont's loop, which never lets go of the lock.
Checks ==
    /\ gdb = "check"
    /\ gdb' = IF Stops THEN "answer" ELSE "fetch"
    /\ again' = TRUE
    /\ UNCHANGED <<main, lock, machine, clients, packet, local, writable, irqThread>>

\* g reads the registers, then CPSR; G writes them in that order.
ReadsPC ==
    /\ gdb = "readPC"
    /\ local' = pc
    /\ gdb' = "readCpsr"
    /\ UNCHANGED <<main, lock, machine, clients, packet, again, writable, irqThread>>

ReadsCpsr ==
    /\ gdb = "readCpsr"
    /\ gdb' = "answer"
    /\ UNCHANGED <<main, lock, machine, clients, packet, local, again, writable, irqThread>>

\* A bug to detect: the lock is given back between the registers and CPSR.
WritesPCAlone ==
    /\ gdb = "writePC"
    /\ pc' = packet.address
    /\ gdb' = "writeCpsr"
    /\ lock' = "free"
    /\ UNCHANGED <<main, cpsr, target_exception, breakpoints, clients, packet, local,
                   again, writable, irqThread>>

WritesPC ==
    /\ gdb = "writePC"
    /\ pc' = packet.address
    /\ gdb' = "writeCpsr"
    /\ UNCHANGED <<main, lock, cpsr, target_exception, breakpoints, clients, packet, local,
                   again, writable, irqThread>>

WritesCpsr ==
    /\ gdb = "writeCpsr"
    /\ cpsr' = "set"
    /\ gdb' = "answer"
    /\ UNCHANGED <<main, lock, pc, target_exception, breakpoints, clients, packet, local,
                   again, writable, irqThread>>

\* Z, z, ? and k; k shuts the connection down for writing and answers nothing.
Handles ==
    /\ gdb = "handle"
    /\ breakpoints' = IF packet.kind = "Z" THEN breakpoints \cup {packet.address}
                       ELSE IF packet.kind = "z" THEN breakpoints \ {packet.address}
                       ELSE breakpoints
    /\ writable' = (writable /\ packet.kind # "k")
    /\ gdb' = IF packet.kind = "k" THEN "unlock" ELSE "answer"
    /\ UNCHANGED <<main, lock, pc, cpsr, target_exception, clients, packet, local, again,
                   irqThread>>

Answers ==
    /\ gdb = "answer" /\ CanWrite
    /\ gdb' = "unlock"
    /\ UNCHANGED <<main, lock, machine, clients, packet, local, again, writable, irqThread>>

WriteFails ==
    /\ \/ gdb = "scan" /\ incoming > 0
       \/ gdb = "answer"
    /\ MayFail
    /\ Exit

Unlocks ==
    /\ gdb = "unlock"
    /\ lock' = "free"
    /\ gdb' = "scan" /\ packet' = NoPacket /\ local' = 0 /\ again' = FALSE
    /\ UNCHANGED <<main, machine, clients, writable, irqThread>>

GdbStep ==
    \/ Accepts \/ Scans \/ EndOfFile \/ Locks \/ Fetches \/ Executes \/ Checks
    \/ ReadsPC \/ ReadsCpsr \/ WritesPC \/ WritesCpsr \/ Handles \/ Answers \/ Unlocks

--------------------------------------------------------------------------------
(* The irq thread.                                                         *)

IrqAccepts ==
    /\ irq = "accept" /\ sender # "away"
    /\ irq' = "read"
    /\ UNCHANGED <<main, lock, machine, clients, gdbThread, byte>>

IrqReads ==
    /\ irq = "read" /\ irqs > 0 /\ sender # "broken"
    /\ byte' \in Irqs /\ irqs' = irqs - 1
    /\ irq' = "lock"
    /\ UNCHANGED <<main, lock, machine, incoming, sent, debugger, sender, signals, gdbThread>>

IrqEndOfFile ==
    /\ irq = "read" /\ irqs = 0 /\ sender = "gone"
    /\ irq' = "accept" /\ sender' = "away"
    /\ UNCHANGED <<main, lock, machine, incoming, sent, debugger, irqs, signals, gdbThread, byte>>

\* Read ends the process when the connection is reset.
IrqReadFails == irq = "read" /\ sender = "broken" /\ Exit

\* A bug to detect: the irq thread does not wait for the lock.
IrqDoesNotWait == TRUE

IrqMayLock == lock = "free"

IrqLocks ==
    /\ irq = "lock" /\ IrqMayLock
    /\ lock' = "irq"
    /\ irq' = IF byte = RESET THEN "resetCpsr" ELSE "unlock"
    /\ UNCHANGED <<main, machine, clients, gdbThread, byte>>

\* arm_exception writes CPSR, then the PC.
ResetsCpsr ==
    /\ irq = "resetCpsr"
    /\ cpsr' = "reset"
    /\ irq' = "resetPC"
    /\ UNCHANGED <<main, lock, pc, target_exception, breakpoints, clients, gdbThread, byte>>

ResetsPC ==
    /\ irq = "resetPC"
    /\ pc' = 0
    /\ irq' = "unlock"
    /\ UNCHANGED <<main, lock, cpsr, target_exception, breakpoints, clients, gdbThread, byte>>

\* A bug to detect: the lock is kept.
AfterIrqKept == lock

AfterIrq == "free"

IrqUnlocks ==
    /\ irq = "unlock"
    /\ lock' = AfterIrq
    /\ irq' = "read" /\ byte' = 0
    /\ UNCHANGED <<main, machine, clients, gdbThread>>

\* After main has freed the machine, using it may end the process.
UsesFreedMachine == main = "destroyed" /\ irq \in {"resetCpsr", "resetPC"} /\ Exit

IrqStep ==
    IrqAccepts \/ IrqReads \/ IrqEndOfFile \/ IrqLocks \/ ResetsCpsr \/ ResetsPC \/ IrqUnlocks

--------------------------------------------------------------------------------
(* main joins the gdb thread only.                                         *)

\* A bug to detect: main joins the irq thread as well, which never ends.
JoinedBoth == gdb = "ended" /\ irq = "ended"

Joined == gdb = "ended"

Destroys ==
    /\ main = "join" /\ Joined
    /\ main' = "destroyed"
    /\ UNCHANGED <<lock, machine, clients, gdbThread, irqThread>>

Returns == main = "destroyed" /\ Exit

Next ==
    /\ Running
    /\ \/ Debugger \/ Sender
       \/ GdbStep \/ WriteFails
       \/ IrqStep \/ IrqReadFails \/ UsesFreedMachine
       \/ Destroys \/ Returns

\* The scheduler runs every thread that can run; nothing is assumed of the clients,
\* nor of the order in which the threads get the lock.
Fairness ==
    /\ WF_vars(Running /\ (GdbStep \/ WriteFails))
    /\ WF_vars(Running /\ (IrqStep \/ IrqReadFails))
    /\ WF_vars(Running /\ (Destroys \/ Returns))

Spec == Init /\ [][Next]_vars /\ Fairness

--------------------------------------------------------------------------------
TypeOK ==
    /\ main \in {"join", "destroyed", "exited"}
    /\ lock \in {"free", "gdb", "irq"}
    /\ gdb \in {"accept", "scan", "lock", "ended", "fetch", "execute", "check", "readPC",
                "readCpsr", "writePC", "writeCpsr", "handle", "answer", "unlock"}
    /\ irq \in {"accept", "read", "lock", "resetCpsr", "resetPC", "unlock"}
    /\ packet \in Packets \cup {NoPacket}
    /\ pc \in Int /\ local \in Int /\ breakpoints \subseteq Int
    /\ incoming \in 0..MaxPackets /\ irqs \in 0..MaxIrqs

\* The gdb thread is in a handler; the irq thread is in arm_exception.
GdbInside ==
    gdb \in {"fetch", "execute", "check", "readPC", "readCpsr", "writePC", "writeCpsr",
             "handle", "answer", "unlock"}
IrqInside == irq \in {"resetCpsr", "resetPC", "unlock"}

\* A thread is inside exactly when it holds the lock: no handler runs while an
\* interrupt is taken and sees half of a RESET, and nobody leaves with the lock.
Exclusive == (lock = "gdb" <=> GdbInside) /\ (lock = "irq" <=> IrqInside)

\* The PC a handler has read is still the machine's when it uses it: arm_step goes
\* on with the instruction the PC points after, cont looks up the PC the instruction
\* left, and the registers g answers are those of one instant.
LocalsAreCurrent ==
    /\ gdb = "execute" => pc = local + 4
    /\ gdb = "check" => pc = Program[local].next /\ target_exception = Program[local].result
    /\ gdb = "readCpsr" => pc = local

\* After its first instruction, cont executes none that has a breakpoint, nor any
\* after an exception; and when it answers, it is for one of the two.
StopsAtBreakpoints ==
    /\ gdb = "fetch" /\ again => pc \notin breakpoints /\ target_exception = 0
    /\ gdb = "answer" /\ packet.kind = "c" => pc \in breakpoints \/ target_exception # 0

\* After a kill packet no handler runs any more: the next packet cannot even be
\* acknowledged, and the process ends there.
KilledIsDeaf == ~ writable => gdb \in {"unlock", "scan", "ended"}

\* A packet the gdb thread serves is served to the end, unless the process ends.
Served == (gdb = "lock") ~> (gdb = "scan" \/ ~ Running)

\* An interrupt the irq thread has read is taken, unless the process ends.  The
\* usage text says that the simulator "can receive interrupts".
InterruptsTaken == (irq = "lock") ~> (irq # "lock" \/ ~ Running)

\* When the debugger has left, the process ends.
EndsWithDebugger == (debugger = "gone") ~> ~ Running
================================================================================
