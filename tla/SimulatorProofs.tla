----------------------------- MODULE SimulatorProofs ---------------------------
(***************************************************************************)
(* Proofs about Simulator, for any program, packets and number of          *)
(* messages: what the lock protects.                                       *)
(***************************************************************************)
EXTENDS SerialSimulator, WordsProofs

\* What a handler knows of the packet it serves.
HandlerInv ==
    /\ gdb \in {"accept", "scan", "lock", "ended"} => ~ again
    /\ gdb \in {"readPC", "readCpsr", "writePC", "writeCpsr", "handle"} => packet.kind # "c"

\* Exclusive carries the others: the irq thread changes the PC only while the gdb
\* thread is at none of the places they speak of.
IInv == Exclusive /\ HandlerInv /\ LocalsAreCurrent /\ StopsAtBreakpoints /\ KilledIsDeaf

USE DEF IInv, Exclusive, GdbInside, IrqInside, HandlerInv, LocalsAreCurrent,
        StopsAtBreakpoints, KilledIsDeaf, machine, clients, gdbThread, irqThread

LEMMA InitIInv == Init => IInv
BY DEF Init

\* The clients, and main, touch nothing the invariant speaks of.
LEMMA OthersIInv ==
    ASSUME IInv, UNCHANGED <<lock, machine, gdbThread, irqThread>>
    PROVE  IInv'
OBVIOUS

LEMMA OutsideIInv ==
    ASSUME IInv, Accepts \/ Scans \/ EndOfFile \/ Locks \/ Unlocks
    PROVE  IInv'
<1>1. CASE Accepts
  BY <1>1 DEF Accepts
<1>2. CASE Scans
  <2>1. gdb = "scan" /\ gdb' \in {"scan", "lock"}
    BY <1>2 DEF Scans
  <2>2. UNCHANGED <<lock, machine, irqThread, local, again, writable>> /\ writable
    BY <1>2 DEF Scans, CanWrite
  <2> QED
    BY <2>1, <2>2
<1>3. CASE EndOfFile
  BY <1>3 DEF EndOfFile
<1>4. CASE Locks
  BY <1>4 DEF Locks, Entry
<1>5. CASE Unlocks
  BY <1>5 DEF Unlocks
<1> QED
  BY <1>1, <1>2, <1>3, <1>4, <1>5

LEMMA HandlersIInv ==
    ASSUME IInv,
           Fetches \/ Executes \/ Checks \/ ReadsPC \/ ReadsCpsr \/ WritesPC \/ WritesCpsr
               \/ Handles \/ Answers
    PROVE  IInv'
<1>1. CASE Fetches
  BY <1>1 DEF Fetches
<1>2. CASE Executes
  BY <1>2 DEF Executes
<1>3. CASE Checks
  BY <1>3 DEF Checks, Stops
<1>4. CASE ReadsPC
  BY <1>4 DEF ReadsPC
<1>5. CASE ReadsCpsr
  BY <1>5 DEF ReadsCpsr
<1>6. CASE WritesPC
  BY <1>6 DEF WritesPC
<1>7. CASE WritesCpsr
  BY <1>7 DEF WritesCpsr
<1>8. CASE Handles
  BY <1>8 DEF Handles
<1>9. CASE Answers
  BY <1>9 DEF Answers
<1> QED
  BY <1>1, <1>2, <1>3, <1>4, <1>5, <1>6, <1>7, <1>8, <1>9

LEMMA IrqIInv ==
    ASSUME IInv, IrqStep
    PROVE  IInv'
<1>1. CASE IrqAccepts
  BY <1>1 DEF IrqAccepts
<1>2. CASE IrqReads
  BY <1>2 DEF IrqReads
<1>3. CASE IrqEndOfFile
  BY <1>3 DEF IrqEndOfFile
<1>4. CASE IrqLocks
  BY <1>4 DEF IrqLocks, IrqMayLock
<1>5. CASE ResetsCpsr
  BY <1>5 DEF ResetsCpsr
<1>6. CASE ResetsPC
  BY <1>6 DEF ResetsPC
<1>7. CASE IrqUnlocks
  BY <1>7 DEF IrqUnlocks, AfterIrq
<1> QED
  BY <1>1, <1>2, <1>3, <1>4, <1>5, <1>6, <1>7 DEF IrqStep

LEMMA NextIInv == IInv /\ [Next]_vars => IInv'
<1> SUFFICES ASSUME IInv, [Next]_vars PROVE IInv'
  OBVIOUS
<1>1. CASE GdbStep
  BY <1>1, OutsideIInv, HandlersIInv DEF GdbStep
<1>2. CASE IrqStep
  BY <1>2, IrqIInv
<1>3. CASE \/ Debugger \/ Sender \/ WriteFails \/ IrqReadFails \/ UsesFreedMachine
           \/ Destroys \/ Returns \/ UNCHANGED vars
  <2>1. UNCHANGED <<lock, machine, gdbThread, irqThread>>
    BY <1>3 DEF Debugger, Sender, WriteFails, IrqReadFails, UsesFreedMachine, Destroys,
                Returns, Exit, vars
  <2> QED
    BY <2>1, OthersIInv
<1> QED
  BY <1>1, <1>2, <1>3 DEF Next

HIDE DEF IInv, Exclusive, LocalsAreCurrent, StopsAtBreakpoints, KilledIsDeaf

\* A handler and an interrupt never overlap and the lock is always given back.
THEOREM ExclusiveAlways == Spec => []Exclusive
<1>1. IInv => Exclusive
  BY DEF IInv
<1> QED
  BY <1>1, InitIInv, NextIInv, PTL DEF Spec

\* What a handler has read of the machine is current when it is used.
THEOREM LocalsAreCurrentAlways == Spec => []LocalsAreCurrent
<1>1. IInv => LocalsAreCurrent
  BY DEF IInv
<1> QED
  BY <1>1, InitIInv, NextIInv, PTL DEF Spec

\* cont runs past no breakpoint and no exception, whatever the program.
THEOREM StopsAtBreakpointsAlways == Spec => []StopsAtBreakpoints
<1>1. IInv => StopsAtBreakpoints
  BY DEF IInv
<1> QED
  BY <1>1, InitIInv, NextIInv, PTL DEF Spec

\* After a kill packet no handler runs.
THEOREM KilledIsDeafAlways == Spec => []KilledIsDeaf
<1>1. IInv => KilledIsDeaf
  BY DEF IInv
<1> QED
  BY <1>1, InitIInv, NextIInv, PTL DEF Spec

--------------------------------------------------------------------------------
(* Types, for programs, packets and numbers of messages of any size.       *)

\* arm_step and cont only meet addresses of the program: the PC is one but between the
\* fetch and the execution, when the one that was fetched is.
InProgram ==
    /\ gdb \in {"execute", "check"} => local \in PCs
    /\ gdb # "execute" => pc \in PCs

\* The sockets hold no more than was sent.
Counted ==
    /\ sent \in 0..MaxPackets /\ incoming \in 0..sent
    /\ signals \in 0..MaxIrqs /\ irqs \in 0..signals

TypeInv == TypeOK /\ InProgram /\ Counted

USE SimulatorAssumption

LEMMA InitTypeInv == Init => TypeInv
BY DEF Init, TypeInv, TypeOK, InProgram, Counted, NoPacket

LEMMA ClientsTypeInv ==
    ASSUME TypeInv, Debugger \/ Sender
    PROVE  TypeInv'
<1>1. UNCHANGED <<main, lock, pc, cpsr, target_exception, breakpoints, gdb, packet, local, irq>>
  BY DEF Debugger, Sender, machine, gdbThread, irqThread
<1>2. TypeOK /\ Counted
  BY DEF TypeInv
<1>3. Counted'
  BY <1>2 DEF Counted, Debugger, DebuggerConnects, DebuggerSends, DebuggerLeaves,
              Sender, SenderConnects, SenderSends, SenderLeaves
<1>4. incoming' \in 0..MaxPackets /\ irqs' \in 0..MaxIrqs
  BY <1>3 DEF Counted
<1> QED
  BY <1>1, <1>3, <1>4 DEF TypeInv, TypeOK, InProgram

\* What is sent is not changed by those who receive it.
LEMMA OutsideTypeInv ==
    ASSUME TypeInv, Accepts \/ Scans \/ EndOfFile \/ Locks \/ Unlocks
    PROVE  TypeInv'
<1>1. TypeOK /\ InProgram /\ Counted
  BY DEF TypeInv
<1>2. UNCHANGED <<main, pc, cpsr, target_exception, breakpoints, irq, sent, irqs, signals>>
  BY DEF Accepts, Scans, EndOfFile, Locks, Unlocks, machine, clients, irqThread
<1>3. incoming' \in 0..sent
  BY <1>1 DEF Accepts, Scans, EndOfFile, Locks, Unlocks, clients, Counted
<1>4. Counted'
  BY <1>1, <1>2, <1>3 DEF Counted
<1>5. /\ lock' \in {"free", "gdb", "irq"}
      /\ gdb' \in {"scan", "lock", "ended", "fetch", "readPC", "writePC", "handle"}
      /\ packet' \in Packets \cup {NoPacket}
      /\ local' \in Int
  <2>1. CASE Accepts \/ EndOfFile
    BY <1>1, <2>1 DEF Accepts, EndOfFile, TypeOK
  <2>2. CASE Scans
    BY <1>1, <2>2 DEF Scans, TypeOK
  <2>3. CASE Locks
    BY <1>1, <2>3 DEF Locks, Entry, TypeOK
  <2>4. CASE Unlocks
    BY <1>1, <2>4 DEF Unlocks, TypeOK
  <2> QED
    BY <2>1, <2>2, <2>3, <2>4
<1>6. gdb # "execute"
  BY DEF Accepts, Scans, EndOfFile, Locks, Unlocks
<1>7. InProgram'
  BY <1>1, <1>2, <1>5, <1>6 DEF InProgram
<1>8. incoming' \in 0..MaxPackets
  BY <1>4 DEF Counted
<1> QED
  BY <1>1, <1>2, <1>4, <1>5, <1>7, <1>8 DEF TypeInv, TypeOK

LEMMA HandlersTypeInv ==
    ASSUME TypeInv,
           Fetches \/ Executes \/ Checks \/ ReadsPC \/ ReadsCpsr \/ WritesPC \/ WritesCpsr
               \/ Handles \/ Answers
    PROVE  TypeInv'
<1>1. TypeOK /\ InProgram /\ Counted
  BY DEF TypeInv
<1>2. UNCHANGED <<main, lock, packet, irq, incoming, sent, irqs, signals>>
  BY DEF Fetches, Executes, Checks, ReadsPC, ReadsCpsr, WritesPC, WritesCpsr, Handles, Answers,
         clients, irqThread
<1>3. packet.address \in PCs
  BY <1>1 DEF TypeOK, NoPacket
<1>4. gdb' \in {"fetch", "execute", "check", "readCpsr", "writeCpsr", "answer", "unlock"}
  BY DEF Fetches, Executes, Checks, ReadsPC, ReadsCpsr, WritesPC, WritesCpsr, Handles, Answers
<1>5. InProgram' /\ pc' \in Int /\ local' \in Int /\ breakpoints' \subseteq Int
  <2>1. CASE Fetches
    BY <1>1, <2>1 DEF Fetches, InProgram, TypeOK
  <2>2. CASE Executes
    BY <1>1, <2>2 DEF Executes, InProgram, TypeOK
  <2>3. CASE Checks \/ ReadsPC \/ ReadsCpsr \/ Answers
    <3>1. gdb \in {"check", "readPC", "readCpsr", "answer"}
          /\ UNCHANGED <<pc, breakpoints>> /\ local' \in {local, pc}
          /\ gdb' \in {"fetch", "readCpsr", "answer", "unlock"}
      BY <2>3 DEF Checks, ReadsPC, ReadsCpsr, Answers, machine
    <3> QED
      BY <1>1, <3>1 DEF InProgram, TypeOK
  <2>4. CASE WritesPC \/ WritesCpsr
    BY <1>1, <1>3, <2>4 DEF WritesPC, WritesCpsr, InProgram, TypeOK
  <2>5. CASE Handles
    BY <1>1, <1>3, <2>5 DEF Handles, InProgram, TypeOK
  <2> QED
    BY <2>1, <2>2, <2>3, <2>4, <2>5
<1>6. Counted'
  BY <1>1, <1>2 DEF Counted
<1> QED
  BY <1>1, <1>2, <1>4, <1>5, <1>6 DEF TypeInv, TypeOK

LEMMA IrqTypeInv ==
    ASSUME TypeInv, IrqStep
    PROVE  TypeInv'
<1>1. TypeOK /\ InProgram /\ Counted
  BY DEF TypeInv
<1>2. UNCHANGED <<main, breakpoints, gdb, packet, local, incoming, sent, signals>>
  BY DEF IrqStep, IrqAccepts, IrqReads, IrqEndOfFile, IrqLocks, ResetsCpsr, ResetsPC, IrqUnlocks,
         machine, clients, gdbThread
<1>3. pc' \in {pc, 0}
  BY DEF IrqStep, IrqAccepts, IrqReads, IrqEndOfFile, IrqLocks, ResetsCpsr, ResetsPC, IrqUnlocks,
         machine
<1>4. irqs' \in 0..signals
  BY <1>1 DEF IrqStep, IrqAccepts, IrqReads, IrqEndOfFile, IrqLocks, ResetsCpsr, ResetsPC,
              IrqUnlocks, clients, Counted
<1>5. /\ lock' \in {"free", "irq", lock}
      /\ irq' \in {"accept", "read", "lock", "resetCpsr", "resetPC", "unlock"}
  BY DEF IrqStep, IrqAccepts, IrqReads, IrqEndOfFile, IrqLocks, ResetsCpsr, ResetsPC, IrqUnlocks,
         AfterIrq
<1>6. Counted'
  BY <1>1, <1>2, <1>4 DEF Counted
<1>7. InProgram'
  BY <1>1, <1>2, <1>3 DEF InProgram
<1>8. irqs' \in 0..MaxIrqs
  BY <1>6 DEF Counted
<1> QED
  BY <1>1, <1>2, <1>3, <1>5, <1>6, <1>7, <1>8 DEF TypeInv, TypeOK

LEMMA NextTypeInv == TypeInv /\ [Next]_vars => TypeInv'
<1> SUFFICES ASSUME TypeInv, [Next]_vars PROVE TypeInv'
  OBVIOUS
<1>1. CASE GdbStep
  BY <1>1, OutsideTypeInv, HandlersTypeInv DEF GdbStep
<1>2. CASE IrqStep
  BY <1>2, IrqTypeInv
<1>3. CASE Debugger \/ Sender
  BY <1>3, ClientsTypeInv
<1>4. CASE \/ WriteFails \/ IrqReadFails \/ UsesFreedMachine \/ Destroys \/ Returns
           \/ UNCHANGED vars
  <2>1. /\ UNCHANGED <<lock, machine, clients, gdbThread, irqThread>>
        /\ main' \in {main, "destroyed", "exited"}
    BY <1>4 DEF WriteFails, IrqReadFails, UsesFreedMachine, Destroys, Returns, Exit, vars
  <2> QED
    BY <2>1 DEF TypeInv, TypeOK, InProgram, Counted
<1> QED
  BY <1>1, <1>2, <1>3, <1>4 DEF Next

HIDE SimulatorAssumption

\* The process never steps on an address outside the program, whatever the debugger
\* writes to the PC and whenever an interrupt resets it.
THEOREM TypesAlways == Spec => [](TypeOK /\ InProgram)
<1>1. TypeInv => TypeOK /\ InProgram
  BY DEF TypeInv
<1> QED
  BY <1>1, InitTypeInv, NextTypeInv, PTL DEF Spec

--------------------------------------------------------------------------------
(* One at a time: HistorySpec implements Serial.                           *)

\* The machine arm_step had before it fetched.
Fetched == [Now EXCEPT !.pc = local]

IsRun(run, n, m) ==
    run[0] = m /\ \A k \in 1..n : run[k] = Promise!Stepped(run[k - 1])

\* Steps from m lead to x, and none has led to a stop.
GoesTo(m, x) ==
    \E n \in Nat : \E run :
        IsRun(run, n, m) /\ run[n] = x /\ \A k \in 1..n : ~ Promise!Stopped(run[k])

\* One step more leads to y.
StepsTo(m, y) == \E x : GoesTo(m, x) /\ y = Promise!Stepped(x)

\* What the handler of the packet has made of the machine when it is done.
Executed ==
    CASE packet.kind = "c" -> StepsTo(before, Now) /\ Promise!Stopped(Now)
      [] packet.kind = "s" -> Now = Promise!Stepped(before)
      [] packet.kind = "G" -> Now = [before EXCEPT !.pc = packet.address, !.cpsr = "set"]
      [] packet.kind = "Z" -> Now = [before EXCEPT !.breakpoints = @ \cup {packet.address}]
      [] packet.kind = "z" -> Now = [before EXCEPT !.breakpoints = @ \ {packet.address}]
      [] OTHER -> Now = before

\* What arm_step, called by s or by c, starts from.
StartsFrom(m) ==
    \/ packet.kind = "s" /\ m = before
    \/ packet.kind = "c" /\ GoesTo(before, m)

\* How far the holder of the lock has come.
InHandler ==
    /\ gdb = "fetch" => StartsFrom(Now)
    /\ gdb = "execute" => StartsFrom(Fetched)
    /\ gdb = "check" => packet.kind = "c" /\ StepsTo(before, Now)
    /\ gdb \in {"readPC", "readCpsr"} => packet.kind = "g" /\ Now = before
    /\ gdb = "writePC" => packet.kind = "G" /\ Now = before
    /\ gdb = "writeCpsr" => packet.kind = "G" /\ Now = [before EXCEPT !.pc = packet.address]
    /\ gdb = "handle" => packet.kind \in {"Z", "z", "?", "k"} /\ Now = before
    /\ gdb \in {"answer", "unlock"} => Executed

InException ==
    /\ irq = "resetCpsr" => byte = RESET /\ Now = before
    /\ irq = "resetPC" => byte = RESET /\ Now = [before EXCEPT !.cpsr = "reset"]
    /\ irq = "unlock" =>
           Now = IF byte = RESET THEN [before EXCEPT !.pc = 0, !.cpsr = "reset"] ELSE before

Handled == {"c", "s", "g", "G", "Z", "z", "?", "k"}

\* before is what Serial sees: the machine itself while nobody holds the lock, else what
\* the holder found, from which it has come as far as its place in the code says.
SerialInv ==
    /\ before = [pc |-> before.pc, cpsr |-> before.cpsr,
                 target_exception |-> before.target_exception,
                 breakpoints |-> before.breakpoints]
    /\ lock \in {"free", "gdb", "irq"}
    /\ (gdb = "lock" \/ lock = "gdb") => packet \in Packets /\ packet.kind \in Handled
    /\ (irq = "lock" \/ lock = "irq") => byte \in Irqs
    /\ lock = "free" => Now = before
    /\ lock = "gdb" => InHandler
    /\ lock = "irq" => InException

\* The runs of a program.

LEMMA GoesNowhere == ASSUME NEW m PROVE GoesTo(m, m)
<1> DEFINE run == [k \in 0..0 |-> m]
<1>1. IsRun(run, 0, m) /\ run[0] = m
  BY DEF IsRun
<1> QED
  BY <1>1 DEF GoesTo

\* A run of n steps from m to y, of which y is the first that may be a stop.
FirstStop(run, n, m, y) ==
    /\ IsRun(run, n, m) /\ run[n] = y
    /\ run = [k \in 0..n |-> run[k]]
    /\ \A k \in 1..(n - 1) : ~ Promise!Stopped(run[k])

\* One step more, as a run.
LEMMA LongerRun ==
    ASSUME NEW m, NEW y, StepsTo(m, y)
    PROVE  \E n \in Nat \ {0} : \E run : FirstStop(run, n, m, y)
<1>1. PICK x : GoesTo(m, x) /\ y = Promise!Stepped(x)
  BY DEF StepsTo
<1>2. PICK n \in Nat : \E run :
          IsRun(run, n, m) /\ run[n] = x /\ \A k \in 1..n : ~ Promise!Stopped(run[k])
  BY <1>1 DEF GoesTo
<1>3. PICK g : IsRun(g, n, m) /\ g[n] = x /\ \A k \in 1..n : ~ Promise!Stopped(g[k])
  BY <1>2
<1> DEFINE run == [k \in 0..(n + 1) |-> IF k = n + 1 THEN y ELSE g[k]]
<1>4. run[n + 1] = y /\ \A k \in 0..n : run[k] = g[k]
  OBVIOUS
<1>5. run = [k \in 0..(n + 1) |-> run[k]]
  OBVIOUS
<1> HIDE DEF run
<1>6. IsRun(run, n + 1, m)
  <2>1. run[0] = m
    BY <1>3, <1>4 DEF IsRun
  <2>2. ASSUME NEW k \in 1..(n + 1) PROVE run[k] = Promise!Stepped(run[k - 1])
    <3>1. CASE k = n + 1
      <4>1. run[k] = y /\ run[k - 1] = x
        BY <1>3, <1>4, <3>1
      <4> QED
        BY <1>1, <4>1
    <3>2. CASE k # n + 1
      <4>1. k \in 1..n /\ run[k] = g[k] /\ run[k - 1] = g[k - 1]
        BY <1>4, <3>2
      <4>2. g[k] = Promise!Stepped(g[k - 1])
        BY <1>3, <4>1 DEF IsRun
      <4> QED
        BY <4>1, <4>2
    <3> QED
      BY <3>1, <3>2
  <2> QED
    BY <2>1, <2>2 DEF IsRun
<1>7. \A k \in 1..((n + 1) - 1) : ~ Promise!Stopped(run[k])
  BY <1>3, <1>4
<1>8. FirstStop(run, n + 1, m, y)
  BY <1>4, <1>5, <1>6, <1>7 DEF FirstStop
<1>9. n + 1 \in Nat \ {0}
  OBVIOUS
<1> QED
  BY <1>8, <1>9

\* The step led to no stop: cont goes round its loop.
LEMMA GoesOn ==
    ASSUME NEW m, NEW y, StepsTo(m, y), ~ Promise!Stopped(y) PROVE GoesTo(m, y)
<1>1. PICK n \in Nat \ {0} : \E run : FirstStop(run, n, m, y)
  BY LongerRun
<1>2. PICK run : FirstStop(run, n, m, y)
  BY <1>1
<1>3. run[n] = y /\ \A k \in 1..(n - 1) : ~ Promise!Stopped(run[k])
  BY <1>2 DEF FirstStop
<1>4. \A k \in 1..n : k = n \/ k \in 1..(n - 1)
  OBVIOUS
<1>5. \A k \in 1..n : ~ Promise!Stopped(run[k])
  BY <1>3, <1>4, ZenonT(60)
<1>6. n \in Nat /\ IsRun(run, n, m)
  BY <1>2 DEF FirstStop
<1> QED
  BY <1>3, <1>5, <1>6, ZenonT(60) DEF GoesTo

\* The recursive function of Serial is that run.
LEMMA ContinueStep ==
    ASSUME NEW y, StepsTo(before, y), Promise!Stopped(y), before' = y, Promise!Packet("c"),
           Lengths = Nat \ {0}
    PROVE  Promise!Continue
<1>1. PICK n \in Nat \ {0} : \E h : FirstStop(h, n, before, y)
  BY LongerRun
<1>2. PICK h : FirstStop(h, n, before, y)
  BY <1>1
<1> DEFINE Step(f) ==
               f = [k \in 0..n |-> IF k = 0 THEN before ELSE Promise!Stepped(f[k - 1])]
           run[k \in 0..n] == IF k = 0 THEN before ELSE Promise!Stepped(run[k - 1])
<1>3. run = CHOOSE f : Step(f)
  OBVIOUS
<1>4. Step(h)
  <2>1. ASSUME NEW k \in 0..n
        PROVE  h[k] = IF k = 0 THEN before ELSE Promise!Stepped(h[k - 1])
    <3>1. CASE k = 0
      BY <1>2, <3>1 DEF FirstStop, IsRun
    <3>2. CASE k # 0
      <4>1. k \in 1..n
        BY <3>2
      <4> QED
        BY <1>2, <3>2, <4>1 DEF FirstStop, IsRun
    <3> QED
      BY <3>1, <3>2
  <2>2. h = [k \in 0..n |-> h[k]]
    BY <1>2 DEF FirstStop
  <2> QED
    BY <2>1, <2>2
<1> HIDE DEF run
<1>5. Step(run)
  <2> HIDE DEF Step
  <2> QED
    BY <1>3, <1>4
<1>6. run[0] = before /\ \A k \in 1..n : run[k] = Promise!Stepped(run[k - 1])
  BY <1>5
<1>7. h[0] = before /\ \A k \in 1..n : h[k] = Promise!Stepped(h[k - 1])
  BY <1>2 DEF FirstStop, IsRun
<1> HIDE DEF Step
<1> DEFINE S == {k \in Nat : k <= n => run[k] = h[k]}
<1>8. 0 \in S
  BY <1>6, <1>7
<1>9. ASSUME NEW k \in Nat, k \in S PROVE k + 1 \in S
  <2> SUFFICES ASSUME k + 1 <= n PROVE run[k + 1] = h[k + 1]
    OBVIOUS
  <2>1. run[k] = h[k] /\ k + 1 \in 1..n /\ (k + 1) - 1 = k
    BY <1>9
  <2>2. run[k + 1] = Promise!Stepped(run[k]) /\ h[k + 1] = Promise!Stepped(h[k])
    BY <1>6, <1>7, <2>1
  <2> QED
    BY <2>1, <2>2
<1>10. \A k \in Nat : k \in S
  <2> HIDE DEF S
  <2> QED
    BY <1>8, <1>9, Induction
<1>11. \A k \in 0..n : run[k] = h[k]
  BY <1>10
<1>12. /\ before' = run[n] /\ Promise!Stopped(run[n])
       /\ \A k \in 1..(n - 1) : ~ Promise!Stopped(run[k])
  BY <1>2, <1>11 DEF FirstStop
<1>13. n \in Lengths
  OBVIOUS
<1> QED
  BY <1>12, <1>13 DEF Promise!Continue, run

--------------------------------------------------------------------------------
(* The gdb thread.                                                         *)

\* While nobody holds the lock, a step leaves the machine alone.
LEMMA FreeStep ==
    ASSUME SerialInv, IInv, lock = "free", lock' = "free", UNCHANGED machine, before' = Now',
           gdb' = "lock" => packet' \in Packets /\ packet'.kind \in Handled,
           irq' = "lock" => byte' \in Irqs
    PROVE  SerialInv' /\ before' = before
BY DEF SerialInv, Now, machine

\* A handler starts: it finds the machine Serial has.
LEMMA LocksSerial ==
    ASSUME SerialInv, IInv, Locks, before' = before PROVE SerialInv'
<1>1. /\ lock = "free" /\ lock' = "gdb" /\ gdb = "lock" /\ gdb' = Entry(packet.kind)
      /\ UNCHANGED <<machine, packet, irq, byte>>
  BY DEF Locks, irqThread
<1>2. packet \in Packets /\ packet.kind \in Handled /\ Now = before /\ Now' = before
  BY <1>1 DEF SerialInv, Now, machine
<1>3. InHandler'
  <2>1. packet.kind = "c" => GoesTo(before, Now)
    BY <1>2, GoesNowhere
  <2>2. (packet.kind \in {"c", "s"} => gdb' = "fetch")
    BY <1>1 DEF Entry
  <2>3. CASE packet.kind \in {"c", "s"}
    <3>1. StartsFrom(Now)'
      BY <1>1, <1>2, <2>1, <2>3 DEF StartsFrom
    <3> QED
      BY <1>1, <2>2, <2>3, <3>1 DEF InHandler
  <2>4. CASE packet.kind \notin {"c", "s"}
    BY <1>1, <1>2, <2>4 DEF InHandler, Entry, Handled
  <2> QED
    BY <2>3, <2>4
<1> QED
  BY <1>1, <1>2, <1>3 DEF SerialInv, IInv, Exclusive, IrqInside

\* A step of a handler changes nothing else of SerialInv.
LEMMA InsideStep ==
    ASSUME SerialInv, lock = "gdb", lock' = "gdb", before' = before, packet' = packet,
           UNCHANGED irqThread, InHandler'
    PROVE  SerialInv'
BY DEF SerialInv, irqThread

\* What is known inside a handler.
LEMMA Inside ==
    ASSUME SerialInv, IInv, GdbInside
    PROVE  lock = "gdb" /\ InHandler /\ packet.kind \in Handled
BY DEF SerialInv, IInv, Exclusive

\* The fetch moves the PC on: Fetched remembers where it was.
LEMMA FetchesSerial ==
    ASSUME SerialInv, IInv, Fetches, before' = before PROVE SerialInv'
<1>1. /\ gdb = "fetch" /\ gdb' = "execute" /\ local' = pc /\ pc' = pc + 4
      /\ UNCHANGED <<lock, cpsr, target_exception, breakpoints, packet, irqThread>>
  BY DEF Fetches
<1>2. lock = "gdb" /\ StartsFrom(Now)
  BY <1>1, Inside DEF InHandler
<1>3. Fetched' = Now
  BY <1>1 DEF Fetched, Now
<1>4. InHandler'
  BY <1>1, <1>2, <1>3 DEF InHandler, StartsFrom
<1> QED
  BY <1>1, <1>2, <1>4, InsideStep

\* With the fetch before it, one step of Serial.
LEMMA ExecutesSerial ==
    ASSUME SerialInv, IInv, Executes, before' = before PROVE SerialInv'
<1>1. /\ gdb = "execute" /\ gdb' = IF packet.kind = "c" THEN "check" ELSE "answer"
      /\ pc' = Program[local].next /\ target_exception' = Program[local].result
      /\ UNCHANGED <<lock, cpsr, breakpoints, packet, irqThread>>
  BY DEF Executes
<1>2. lock = "gdb" /\ StartsFrom(Fetched)
  BY <1>1, Inside DEF InHandler
<1>3. Now' = Promise!Stepped(Fetched)
  <2>1. Now' = [pc |-> Program[local].next, cpsr |-> cpsr,
                target_exception |-> Program[local].result, breakpoints |-> breakpoints]
    BY <1>1 DEF Now
  <2> DEFINE after == Program[local].next
             result == Program[local].result
  <2>2. Fetched = [pc |-> local, cpsr |-> cpsr, target_exception |-> target_exception,
                   breakpoints |-> breakpoints]
    BY DEF Fetched, Now
  <2>3. Promise!Stepped(Fetched)
          = [Fetched EXCEPT !.pc = after, !.target_exception = result]
    <3>1. Fetched.pc = local
      BY <2>2
    <3> QED
      BY <3>1 DEF Promise!Stepped
  <2> HIDE DEF after, result
  <2>4. Promise!Stepped(Fetched)
          = [pc |-> after, cpsr |-> cpsr, target_exception |-> result,
             breakpoints |-> breakpoints]
    BY <2>2, <2>3
  <2> QED
    BY <2>1, <2>4 DEF after, result
<1>4. CASE packet.kind = "c" /\ GoesTo(before, Fetched)
  <2>1. StepsTo(before, Now)'
    BY <1>3, <1>4 DEF StepsTo
  <2>2. InHandler'
    BY <1>1, <1>4, <2>1 DEF InHandler
  <2> QED
    BY <1>1, <1>2, <2>2, InsideStep
<1>5. CASE packet.kind = "s" /\ Fetched = before
  <2>1. Executed'
    BY <1>1, <1>3, <1>5 DEF Executed
  <2>2. InHandler'
    BY <1>1, <1>5, <2>1 DEF InHandler
  <2> QED
    BY <1>1, <1>2, <2>2, InsideStep
<1> QED
  BY <1>2, <1>4, <1>5 DEF StartsFrom

\* cont goes on or has come to its first stop.
LEMMA ChecksSerial ==
    ASSUME SerialInv, IInv, Checks, before' = before PROVE SerialInv'
<1>1. /\ gdb = "check" /\ gdb' = IF Stops THEN "answer" ELSE "fetch"
      /\ UNCHANGED <<lock, machine, packet, irqThread>>
  BY DEF Checks
<1>2. lock = "gdb" /\ packet.kind = "c" /\ StepsTo(before, Now)
  BY <1>1, Inside DEF InHandler
<1>3. Now' = Now
  BY <1>1 DEF Now, machine
<1>4. Stops <=> Promise!Stopped(Now)
  BY DEF Stops, Now, Promise!Stopped
<1>5. CASE Stops
  <2>1. Executed'
    BY <1>1, <1>2, <1>3, <1>4, <1>5 DEF Executed
  <2>2. InHandler'
    BY <1>1, <1>5, <2>1 DEF InHandler
  <2> QED
    BY <1>1, <1>2, <2>2, InsideStep
<1>6. CASE ~ Stops
  <2>1. GoesTo(before, Now)
    BY <1>2, <1>4, <1>6, GoesOn
  <2>2. StartsFrom(Now)'
    BY <1>1, <1>2, <1>3, <2>1 DEF StartsFrom
  <2>3. InHandler'
    BY <1>1, <1>6, <2>2 DEF InHandler
  <2> QED
    BY <1>1, <1>2, <2>3, InsideStep
<1> QED
  BY <1>5, <1>6

\* The halves of g and of G.
LEMMA RegistersSerial ==
    ASSUME SerialInv, IInv, ReadsPC \/ ReadsCpsr \/ WritesPC \/ WritesCpsr, before' = before
    PROVE  SerialInv'
<1>1. /\ GdbInside /\ lock' = lock /\ UNCHANGED <<packet, irqThread>>
  BY DEF ReadsPC, ReadsCpsr, WritesPC, WritesCpsr, GdbInside
<1>2. lock = "gdb" /\ InHandler
  BY <1>1, Inside
<1>3. CASE ReadsPC
  BY <1>1, <1>2, <1>3, InsideStep DEF ReadsPC, InHandler, Now, machine
<1>4. CASE ReadsCpsr
  <2>1. gdb' = "answer" /\ packet.kind = "g" /\ Now = before /\ Now' = Now
    BY <1>2, <1>4 DEF ReadsCpsr, InHandler, Now, machine
  <2>2. Executed'
    BY <1>1, <2>1 DEF Executed
  <2> QED
    BY <1>1, <1>2, <2>1, <2>2, InsideStep DEF InHandler
<1>5. CASE WritesPC
  <2>1. gdb' = "writeCpsr" /\ packet.kind = "G" /\ Now = before
    BY <1>2, <1>5 DEF WritesPC, InHandler
  <2>2. Now' = [Now EXCEPT !.pc = packet.address]
    BY <1>5 DEF WritesPC, Now
  <2> QED
    BY <1>1, <1>2, <2>1, <2>2, InsideStep DEF InHandler
<1>6. CASE WritesCpsr
  <2>1. gdb' = "answer" /\ packet.kind = "G" /\ Now = [before EXCEPT !.pc = packet.address]
    BY <1>2, <1>6 DEF WritesCpsr, InHandler
  <2>2. Now' = [Now EXCEPT !.cpsr = "set"]
    BY <1>6 DEF WritesCpsr, Now
  <2>3. Now' = [before EXCEPT !.pc = packet.address, !.cpsr = "set"]
    BY <2>1, <2>2 DEF SerialInv
  <2>4. Executed'
    BY <1>1, <2>1, <2>3 DEF Executed
  <2> QED
    BY <1>1, <1>2, <2>1, <2>4, InsideStep DEF InHandler
<1> QED
  BY <1>3, <1>4, <1>5, <1>6

\* Z, z, ?, k and the answers.
LEMMA HandlesSerial ==
    ASSUME SerialInv, IInv, Handles \/ Answers, before' = before PROVE SerialInv'
<1>1. /\ GdbInside /\ lock' = lock /\ UNCHANGED <<packet, irqThread>>
  BY DEF Handles, Answers, GdbInside
<1>2. lock = "gdb" /\ InHandler
  BY <1>1, Inside
<1>3. CASE Handles
  <2>1. packet.kind \in {"Z", "z", "?", "k"} /\ Now = before /\ gdb' \in {"answer", "unlock"}
    BY <1>2, <1>3 DEF Handles, InHandler
  <2>2. Now' = [Now EXCEPT !.breakpoints =
                   IF packet.kind = "Z" THEN breakpoints \cup {packet.address}
                   ELSE IF packet.kind = "z" THEN breakpoints \ {packet.address}
                   ELSE breakpoints]
    BY <1>3 DEF Handles, Now
  <2>3. Now.breakpoints = breakpoints /\ Now = [Now EXCEPT !.breakpoints = breakpoints]
    BY DEF Now
  <2>4. Executed'
    BY <1>1, <2>1, <2>2, <2>3 DEF Executed
  <2> QED
    BY <1>1, <1>2, <2>1, <2>4, InsideStep DEF InHandler
<1>4. CASE Answers
  <2>1. gdb' = "unlock" /\ Executed /\ Now' = Now
    BY <1>2, <1>4 DEF Answers, InHandler, Now, machine
  <2>2. Executed'
    BY <1>1, <2>1 DEF Executed
  <2> QED
    BY <1>1, <1>2, <2>1, <2>2, InsideStep DEF InHandler
<1> QED
  BY <1>3, <1>4

\* The handler ends: the machine it leaves is one step of Serial away.
LEMMA UnlocksSerial ==
    ASSUME SerialInv, IInv, Unlocks, before' = Now', Lengths = Nat \ {0}
    PROVE  SerialInv' /\ [Promise!SerialNext]_before
<1>1. /\ gdb = "unlock" /\ gdb' = "scan" /\ lock' = "free" /\ UNCHANGED <<machine, irqThread>>
  BY DEF Unlocks
<1>2. lock = "gdb" /\ Executed /\ packet.kind \in Handled /\ packet \in Packets
  <2>1. GdbInside
    BY <1>1 DEF GdbInside
  <2>2. lock = "gdb" /\ InHandler
    BY <2>1, Inside
  <2> QED
    BY <1>1, <2>2 DEF SerialInv, InHandler
<1>3. before' = Now /\ Now' = Now
  BY <1>1 DEF Now, machine
<1>4. SerialInv'
  BY <1>1, <1>3 DEF SerialInv, IInv, Exclusive, irqThread, Now
<1>5. CASE packet.kind = "c"
  <2>1. StepsTo(before, Now) /\ Promise!Stopped(Now)
    BY <1>2, <1>5 DEF Executed
  <2>2. Promise!Packet("c")
    BY <1>2, <1>5 DEF Promise!Packet
  <2>3. Promise!Continue
    BY <1>3, <2>1, <2>2, ContinueStep
  <2> QED
    BY <1>4, <2>3 DEF Promise!SerialNext
<1>6. CASE packet.kind = "s"
  BY <1>2, <1>3, <1>4, <1>6
  DEF Executed, Promise!Step, Promise!Packet, Promise!SerialNext
<1>7. CASE packet.kind = "G"
  <2>1. Promise!WriteRegisters
    BY <1>2, <1>3, <1>7 DEF Executed, Promise!WriteRegisters
  <2> QED
    BY <1>4, <2>1 DEF Promise!SerialNext
<1>8. CASE packet.kind = "Z"
  <2>1. Promise!SetBreakpoint
    BY <1>2, <1>3, <1>8 DEF Executed, Promise!SetBreakpoint
  <2> QED
    BY <1>4, <2>1 DEF Promise!SerialNext
<1>9. CASE packet.kind = "z"
  <2>1. Promise!RemoveBreakpoint
    BY <1>2, <1>3, <1>9 DEF Executed, Promise!RemoveBreakpoint
  <2> QED
    BY <1>4, <2>1 DEF Promise!SerialNext
<1>10. CASE packet.kind \in {"g", "?", "k"}
  BY <1>2, <1>3, <1>4, <1>10 DEF Executed
<1> QED
  BY <1>2, <1>5, <1>6, <1>7, <1>8, <1>9, <1>10 DEF Handled

--------------------------------------------------------------------------------
(* The irq thread.                                                         *)

\* An interrupt starts.
LEMMA IrqLocksSerial ==
    ASSUME SerialInv, IInv, IrqLocks, before' = before PROVE SerialInv'
<1>1. /\ lock = "free" /\ lock' = "irq" /\ irq = "lock"
      /\ irq' = IF byte = RESET THEN "resetCpsr" ELSE "unlock"
      /\ UNCHANGED <<machine, gdb, packet, byte>>
  BY DEF IrqLocks, IrqMayLock, gdbThread
<1>2. byte \in Irqs /\ Now = before /\ Now' = before
  BY <1>1 DEF SerialInv, Now, machine
<1>3. InException'
  BY <1>1, <1>2 DEF InException
<1> QED
  BY <1>1, <1>2, <1>3 DEF SerialInv, IInv, Exclusive, GdbInside

\* A step of arm_exception changes nothing else of SerialInv.
LEMMA ExceptionStep ==
    ASSUME SerialInv, lock = "irq", lock' = "irq", before' = before, byte' = byte,
           UNCHANGED gdbThread, InException'
    PROVE  SerialInv'
BY DEF SerialInv, gdbThread

\* The two writes of arm_exception.
LEMMA ResetsSerial ==
    ASSUME SerialInv, IInv, ResetsCpsr \/ ResetsPC, before' = before PROVE SerialInv'
<1>1. /\ irq \in {"resetCpsr", "resetPC"} /\ lock' = lock
      /\ UNCHANGED <<gdbThread, byte>>
  BY DEF ResetsCpsr, ResetsPC
<1>2. lock = "irq" /\ InException
  BY <1>1 DEF SerialInv, IInv, Exclusive, IrqInside
<1>3. CASE ResetsCpsr
  <2>1. irq' = "resetPC" /\ byte = RESET /\ Now = before
    BY <1>2, <1>3 DEF ResetsCpsr, InException
  <2>2. Now' = [Now EXCEPT !.cpsr = "reset"]
    BY <1>3 DEF ResetsCpsr, Now
  <2> QED
    BY <1>1, <1>2, <2>1, <2>2, ExceptionStep DEF InException
<1>4. CASE ResetsPC
  <2>1. irq' = "unlock" /\ byte = RESET /\ Now = [before EXCEPT !.cpsr = "reset"]
    BY <1>2, <1>4 DEF ResetsPC, InException
  <2>2. Now' = [Now EXCEPT !.pc = 0]
    BY <1>4 DEF ResetsPC, Now
  <2>3. Now' = [before EXCEPT !.pc = 0, !.cpsr = "reset"]
    BY <2>1, <2>2 DEF SerialInv
  <2> QED
    BY <1>1, <1>2, <2>1, <2>3, ExceptionStep DEF InException
<1> QED
  BY <1>3, <1>4

\* The interrupt ends: RESET has changed the machine, any other byte has not.
LEMMA IrqUnlocksSerial ==
    ASSUME SerialInv, IInv, IrqUnlocks, before' = Now'
    PROVE  SerialInv' /\ [Promise!SerialNext]_before
<1>1. irq = "unlock" /\ irq' = "read" /\ lock' = "free" /\ UNCHANGED <<machine, gdbThread>>
  BY DEF IrqUnlocks, AfterIrq
<1>2. lock = "irq" /\ InException /\ byte \in Irqs
  BY <1>1 DEF SerialInv, IInv, Exclusive, IrqInside
<1>3. before' = Now /\ Now' = Now
  BY <1>1 DEF Now, machine
<1>4. SerialInv'
  BY <1>1, <1>3 DEF SerialInv, gdbThread, Now
<1>5. CASE byte = RESET
  <2>1. Promise!Reset
    BY <1>1, <1>2, <1>3, <1>5 DEF InException, Promise!Reset
  <2> QED
    BY <1>4, <2>1 DEF Promise!SerialNext
<1>6. CASE byte # RESET
  BY <1>1, <1>2, <1>3, <1>4, <1>6 DEF InException
<1> QED
  BY <1>5, <1>6

--------------------------------------------------------------------------------
(* The steps that touch neither the lock nor the machine.                  *)

\* Such a step of a thread without the lock, or of a client.
Elsewhere ==
    /\ lock' = lock /\ UNCHANGED machine
    /\ lock = "gdb" => UNCHANGED <<gdb, packet, local>>
    /\ lock = "irq" => UNCHANGED irqThread
    /\ gdb' = "lock" => packet' \in Packets /\ packet'.kind \in Handled
    /\ irq' = "lock" => byte' \in Irqs

\* Serial does not see such a step.
LEMMA ElsewhereSerial ==
    ASSUME SerialInv, IInv, Elsewhere, before' = IF lock' = "free" THEN Now' ELSE before
    PROVE  SerialInv' /\ before' = before
<1>1. lock' = lock /\ Now' = Now
  BY DEF Elsewhere, Now, machine
<1>2. CASE lock = "free"
  BY <1>1, <1>2, FreeStep DEF Elsewhere
<1>3. CASE lock = "gdb"
  <2>1. gdb' = gdb /\ packet' = packet /\ before' = before /\ Fetched' = Fetched
    BY <1>1, <1>3 DEF Elsewhere, Fetched
  <2>2. InHandler
    BY <1>3 DEF SerialInv
  <2>3. InHandler'
    BY <1>1, <2>1, <2>2 DEF InHandler, StartsFrom, Executed
  <2> QED
    BY <1>1, <1>3, <2>1, <2>3 DEF SerialInv, Elsewhere
<1>4. CASE lock = "irq"
  <2>1. irq' = irq /\ byte' = byte /\ before' = before
    BY <1>1, <1>4 DEF Elsewhere, irqThread
  <2>2. InException'
    BY <1>1, <1>4, <2>1 DEF SerialInv, InException
  <2> QED
    BY <1>1, <1>4, <2>1, <2>2 DEF SerialInv, Elsewhere
<1> QED
  BY <1>2, <1>3, <1>4 DEF SerialInv

\* The clients, main and the ends of the process, and what the threads do before they ask
\* for the lock.
LEMMA StepsElsewhere ==
    ASSUME SerialInv, IInv,
           \/ Debugger \/ Sender \/ WriteFails \/ IrqReadFails \/ UsesFreedMachine
           \/ Accepts \/ Scans \/ EndOfFile \/ IrqAccepts \/ IrqReads \/ IrqEndOfFile
           \/ Destroys \/ Returns
    PROVE  Elsewhere
<1>1. /\ gdb = "lock" => packet \in Packets /\ packet.kind \in Handled
      /\ irq = "lock" => byte \in Irqs
  BY DEF SerialInv
<1>2. CASE Debugger \/ Sender \/ WriteFails \/ IrqReadFails \/ UsesFreedMachine
           \/ Destroys \/ Returns
  <2>1. UNCHANGED <<lock, machine, gdb, packet, local, irq, byte>>
    BY <1>2 DEF Debugger, Sender, WriteFails, IrqReadFails, UsesFreedMachine, Destroys,
                Returns, Exit, gdbThread, irqThread
  <2> QED
    BY <1>1, <2>1 DEF Elsewhere, irqThread
<1>3. CASE Accepts \/ EndOfFile
  <2>1. /\ gdb \in {"accept", "scan"} /\ gdb' \in {"scan", "ended"}
        /\ UNCHANGED <<lock, machine, packet, irq, byte>>
    BY <1>3 DEF Accepts, EndOfFile, irqThread
  <2> QED
    BY <1>1, <2>1 DEF Elsewhere, irqThread, IInv, Exclusive, GdbInside
<1>4. CASE Scans
  <2>1. gdb = "scan" /\ UNCHANGED <<lock, machine, irq, byte>>
    BY <1>4 DEF Scans, irqThread
  <2>2. PICK p \in Packets :
           \/ p.kind \in {"corrupt", "unsupported"} /\ UNCHANGED <<gdb, packet>>
           \/ p.kind \notin {"corrupt", "unsupported"} /\ gdb' = "lock" /\ packet' = p
    BY <1>4 DEF Scans
  <2>3. p.kind \in Handled \cup {"corrupt", "unsupported"}
    BY SimulatorAssumption DEF SimulatorAssumption, Handled
  <2>4. lock # "gdb"
    BY <2>1 DEF IInv, Exclusive, GdbInside
  <2> QED
    BY <1>1, <2>1, <2>2, <2>3, <2>4 DEF Elsewhere, irqThread
<1>5. CASE IrqAccepts \/ IrqReads \/ IrqEndOfFile
  <2>1. /\ irq' = "lock" => byte' \in Irqs
        /\ UNCHANGED <<lock, machine, gdb, packet, local>>
    BY <1>5 DEF IrqAccepts, IrqReads, IrqEndOfFile, gdbThread
  <2>2. irq \in {"accept", "read"}
    BY <1>5 DEF IrqAccepts, IrqReads, IrqEndOfFile
  <2>3. lock # "irq"
    BY <2>2 DEF IInv, Exclusive, IrqInside
  <2> QED
    BY <1>1, <2>1, <2>3 DEF Elsewhere
<1> QED
  BY <1>2, <1>3, <1>4, <1>5

--------------------------------------------------------------------------------
(* All steps.                                                              *)

\* Both start with the machine as it is created.
LEMMA InitSerial == HistoryInit => SerialInv /\ Promise!SerialInit
<1> SUFFICES ASSUME HistoryInit PROVE SerialInv /\ Promise!SerialInit
  OBVIOUS
<1>1. before = Now /\ lock = "free" /\ gdb = "accept" /\ irq = "accept"
  BY DEF HistoryInit, Init
<1>2. SerialInv
  BY <1>1 DEF SerialInv, Now
<1>3. Promise!SerialInit
  BY DEF HistoryInit, Init, Now, Promise!SerialInit
<1> QED
  BY <1>2, <1>3

\* Every step is a step of Serial, or none.
LEMMA NextSerial ==
    ASSUME SerialInv, IInv, [HistoryNext]_<<vars, before>>, Lengths = Nat \ {0}
    PROVE  SerialInv' /\ [Promise!SerialNext]_before
<1>1. CASE UNCHANGED <<vars, before>>
  <2>1. UNCHANGED <<lock, machine, gdb, packet, local, irq, byte, before>>
    BY <1>1 DEF vars, gdbThread, irqThread
  <2>2. Elsewhere
    BY <2>1 DEF Elsewhere, irqThread, SerialInv
  <2>3. before' = IF lock' = "free" THEN Now' ELSE before
    BY <2>1 DEF SerialInv, Now, machine
  <2> QED
    BY <2>2, <2>3, ElsewhereSerial
<1>2. CASE HistoryNext
  <2>1. Next /\ before' = IF lock' = "free" THEN Now' ELSE before
    BY <1>2 DEF HistoryNext
  <2>2. CASE \/ Debugger \/ Sender \/ WriteFails \/ IrqReadFails \/ UsesFreedMachine
             \/ Accepts \/ Scans \/ EndOfFile \/ IrqAccepts \/ IrqReads \/ IrqEndOfFile
             \/ Destroys \/ Returns
    <3>1. Elsewhere
      BY <2>2, StepsElsewhere
    <3> QED
      BY <2>1, <3>1, ElsewhereSerial
  <2>3. CASE Locks
    <3>1. before' = before
      BY <2>1, <2>3 DEF Locks
    <3> QED
      BY <2>3, <3>1, LocksSerial
  <2>4. CASE Fetches \/ Executes \/ Checks \/ ReadsPC \/ ReadsCpsr \/ WritesPC \/ WritesCpsr
             \/ Handles \/ Answers
    <3>1. GdbInside /\ lock' = lock
      BY <2>4 DEF Fetches, Executes, Checks, ReadsPC, ReadsCpsr, WritesPC, WritesCpsr,
                  Handles, Answers, GdbInside
    <3>2. lock = "gdb"
      BY <3>1, Inside
    <3>3. before' = before
      BY <2>1, <3>1, <3>2
    <3> QED
      BY <2>4, <3>3, FetchesSerial, ExecutesSerial, ChecksSerial, RegistersSerial,
         HandlesSerial
  <2>5. CASE Unlocks
    <3>1. before' = Now'
      BY <2>1, <2>5 DEF Unlocks
    <3> QED
      BY <2>5, <3>1, UnlocksSerial
  <2>6. CASE IrqLocks
    <3>1. before' = before
      BY <2>1, <2>6 DEF IrqLocks
    <3> QED
      BY <2>6, <3>1, IrqLocksSerial
  <2>7. CASE ResetsCpsr \/ ResetsPC
    <3>1. irq \in {"resetCpsr", "resetPC"} /\ lock' = lock
      BY <2>7 DEF ResetsCpsr, ResetsPC
    <3>2. lock = "irq"
      BY <3>1 DEF IInv, Exclusive, IrqInside
    <3>3. before' = before
      BY <2>1, <3>1, <3>2
    <3> QED
      BY <2>7, <3>3, ResetsSerial
  <2>8. CASE IrqUnlocks
    <3>1. before' = Now'
      BY <2>1, <2>8 DEF IrqUnlocks, AfterIrq
    <3> QED
      BY <2>8, <3>1, IrqUnlocksSerial
  <2> QED
    BY <2>1, <2>2, <2>3, <2>4, <2>5, <2>6, <2>7, <2>8 DEF Next, GdbStep, IrqStep
<1> QED
  BY <1>1, <1>2

\* Whatever the threads interleave, packets and interrupts are served one at a time,
\* each at once, however many steps cont takes.
THEOREM OneByOne == ASSUME Lengths = Nat \ {0} PROVE HistorySpec => ServedOneByOne
<1>1. HistoryInit => IInv /\ SerialInv /\ Promise!SerialInit
  BY InitIInv, InitSerial DEF HistoryInit
<1>2. IInv /\ [HistoryNext]_<<vars, before>> => IInv'
  BY NextIInv DEF HistoryNext, vars
<1>3. IInv /\ SerialInv /\ [HistoryNext]_<<vars, before>>
        => SerialInv' /\ [Promise!SerialNext]_before
  BY NextSerial
<1> QED
  BY <1>1, <1>2, <1>3, PTL DEF HistorySpec, ServedOneByOne, Promise!SerialSpec
================================================================================
