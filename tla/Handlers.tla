-------------------------------- MODULE Handlers -------------------------------
(***************************************************************************)
(* The packets of gdb_protocol.c as functions of the machine they are      *)
(* served on: its registers, memory, last exception and breakpoints.  A    *)
(* packet is a tuple <<letter, argument, ...>>, an answer a tuple <<form,  *)
(* value>>, where the form is that of the text sent.                       *)
(***************************************************************************)
EXTENDS RegisterFile, FiniteSets, Sequences

CONSTANTS PCs,          \* addresses of instructions
          Program,      \* PCs -> what arm_step does with the instruction there
          MemSize,      \* the size of the memory
          Capacity,     \* MAX_BREAKPOINTS_NUMBER
          MaxSteps      \* within how many steps the program stops

Bytes == 0..255

Cells == 0..(MemSize - 1)

\* An instruction: where it goes, the CPSR it leaves, the bytes it stores and what
\* arm_step returns.
Instructions == [next : PCs, cpsr : {USR, SVC}, stores : UNION {[D -> Bytes] : D \in SUBSET Cells},
                 result : 0..255]

Machines == [f : [Slots -> Int], mem : [Cells -> Bytes], exception : 0..255,
             breakpoints : SUBSET PCs]

Text(string) == <<"text", string>>

UNDEFINED_INSTRUCTION == 7
PREFETCH_ABORT == 6
DATA_ABORT == 2
END_SIMULATION == 9

Mode(M) == registers_get_mode(M.f)

Register(M, n) == registers_read(M.f, n, Mode(M))

\* A bug to detect: writes go to the user's copy.
WithUserRegister(M, n, value) == [M EXCEPT !.f = registers_write(@, n, USR, value)]

\* write_register
WithRegister(M, n, value) == [M EXCEPT !.f = registers_write(@, n, Mode(M), value)]

--------------------------------------------------------------------------------
(* Execution: s, S, c and C. *)

\* single_step: arm_step, whose value is the exception the debugger is told.
SingleStep(M) ==
    LET i == Program[Register(M, 15)] IN
    [M EXCEPT !.f = registers_write_cpsr(registers_write(@, 15, Mode(M), i.next), i.cpsr),
              !.mem = [c \in Cells |-> IF c \in DOMAIN i.stores THEN i.stores[c] ELSE @[c]],
              !.exception = i.result]

Stopped(M) == Register(M, 15) \in M.breakpoints \/ M.exception # 0

Steps(M) ==
    LET run[n \in 0..MaxSteps] == IF n = 0 THEN M ELSE SingleStep(run[n - 1]) IN run

\* The steps touch no breakpoint.
After(M, last) ==
    [M EXCEPT !.f = [s \in Slots |-> last.f[s]], !.mem = [c \in Cells |-> last.mem[c]],
              !.exception = last.exception]

\* cont: at least one step, until one stops (a set of one, so that TLC follows the run
\* once).
Continued(M) ==
    LET run == Steps(M)
        first == CHOOSE n \in 1..MaxSteps :
                     Stopped(run[n]) /\ \A k \in 1..(n - 1) : ~ Stopped(run[k])
    IN CHOOSE m \in {After(M, last) : last \in {run[first]}} : TRUE

\* gdb_send_stop_reason
StopReason(exception) ==
    Text(CASE exception = UNDEFINED_INSTRUCTION -> "S04"
           [] exception = PREFETCH_ABORT -> "S0A"
           [] exception = DATA_ABORT -> "S0B"
           [] exception = END_SIMULATION -> "X05"
           [] OTHER -> "S05")

--------------------------------------------------------------------------------
(* Registers: g, G, p and P. *)

\* atoi of the hexadecimal text of n, which has one or two characters: it stops at
\* the first letter.
Atoi(n) ==
    LET unit == n % 16
        sixteens == n \div 16
    IN IF n < 16 THEN (IF unit < 10 THEN unit ELSE 0)
       ELSE IF sixteens >= 10 THEN 0
       ELSE IF unit < 10 THEN 10 * sixteens + unit ELSE sixteens

GeneralRegisters(M) ==
    <<"registers", [n \in Reg |-> Register(M, n)], registers_read_cpsr(M.f)>>

\* write_general_registers: the registers, one after the other, in the mode of the
\* machine, then CPSR.  The mode does not change in between.
WithGeneralRegisters(M, values, cpsr) ==
    [M EXCEPT !.f = registers_write_cpsr(
        [s \in Slots |->
            IF \E n \in Reg : Slot(n, Mode(M)) = s
            THEN values[CHOOSE n \in Reg : Slot(n, Mode(M)) = s]
            ELSE @[s]], cpsr)]

--------------------------------------------------------------------------------
(* Memory: m and X. *)

\* The bytes an m may ask for: two characters each, after the $ and before the
\* #, the checksum and the NUL, in the 4096 of gdb->packet.
MaxRead == 2045

\* read_memory: the bytes up to the end of the memory.  Nothing in the code keeps
\* size within MaxRead, and beyond it the text overruns the buffer.
ReadMemory(M, address, size) ==
    IF address < MemSize
    THEN <<"bytes", [i \in 1..(IF address + size < MemSize THEN size ELSE MemSize - address)
                        |-> M.mem[address + i - 1]]>>
    ELSE Text("E0E")

Escape == 125   \* 0x7d

\* b ^ 0x20
Toggled(b) == IF (b \div 32) % 2 = 1 THEN b - 32 ELSE b + 32

\* The bytes an X packet stands for; the byte after an escape is toggled.
Decoded[content \in Seq(Bytes)] ==
    IF content = <<>> THEN <<>>
    ELSE IF Head(content) = Escape /\ Len(content) > 1
         THEN <<Toggled(content[2])>> \o Decoded[Tail(Tail(content))]
         ELSE <<Head(content)>> \o Decoded[Tail(content)]

\* A bug to detect: ++address for address++.
WriteMemoryPreIncrement(M, address, data) ==
    [M EXCEPT !.mem = [c \in Cells |-> IF c - address \in 1..Len(data)
                                       THEN data[c - address] ELSE @[c]]]

\* write_memory_binary: the bytes before the first one outside are written even when
\* the packet is refused.
WriteMemory(M, address, data) ==
    [M EXCEPT !.mem = [c \in Cells |-> IF c - address \in 0..(Len(data) - 1)
                                       THEN data[c - address + 1] ELSE @[c]]]

WriteAnswer(address, size) ==
    IF address < MemSize /\ address + size <= MemSize THEN Text("OK") ELSE Text("E02")

--------------------------------------------------------------------------------
(* Breakpoints, Z and z; and the packets that touch nothing, H and q. *)

Refused(type) == type # 0

SetAnswer(M, type) ==
    Text(IF Refused(type) THEN "E03"
         ELSE IF Cardinality(M.breakpoints) < Capacity THEN "OK" ELSE "E04")

WithBreakpoint(M, type, address) ==
    IF SetAnswer(M, type) = Text("OK")
    THEN [M EXCEPT !.breakpoints = @ \cup {address}] ELSE M

RemoveAnswer(M, type, address) ==
    Text(IF Refused(type) THEN "E03" ELSE IF address \in M.breakpoints THEN "OK" ELSE "E05")

\* A bug to detect: the type counts for the answer only.
WithoutBreakpointOfAnyType(M, type, address) == [M EXCEPT !.breakpoints = @ \ {address}]

WithoutBreakpoint(M, type, address) ==
    IF Refused(type) THEN M ELSE [M EXCEPT !.breakpoints = @ \ {address}]

\* set_thread: any or all threads
ThreadAnswer(type, value) ==
    Text(IF type \in {"c", "g"} /\ value \in {-1, 0} THEN "OK" ELSE "E01")

QueryAnswer(name) ==
    Text(CASE name = "Offsets" -> "Text=0;Data=0;Bss=0"
           [] name = "Supported" -> "PacketSize=400"
           [] name = "TStatus" -> "T0;tnotrun:0"
           [] OTHER -> "")

--------------------------------------------------------------------------------
(* The table of handlers. *)

\* The assertion of read_register or write_register fails: the process is aborted.
Aborts(r) == \/ r[1] = "p" /\ Atoi(r[2]) >= 16
             \/ r[1] = "P" /\ r[2] >= 16

\* kill_request only shuts the connection down for writing.
Kills(r) == r[1] = "k"

Answers(r) == ~ Aborts(r) /\ ~ Kills(r)

\* The machine after packet r.
Effect(M, r) ==
    CASE r[1] \in {"s", "S"} -> SingleStep(M)
      [] r[1] \in {"c", "C"} -> Continued(M)
      [] r[1] = "G" -> WithGeneralRegisters(M, r[2], r[3])
      [] r[1] = "P" -> WithRegister(M, r[2], r[3])
      [] r[1] = "X" -> WriteMemory(M, r[2], Decoded[r[3]])
      [] r[1] = "Z" -> WithBreakpoint(M, r[2], r[3])
      [] r[1] = "z" -> WithoutBreakpoint(M, r[2], r[3])
      [] OTHER -> M

\* The answer to packet r on machine M; one that has no handler gets the empty text.
Reply(M, r) ==
    CASE r[1] \in {"s", "S", "c", "C", "?"} -> StopReason(Effect(M, r).exception)
      [] r[1] = "g" -> GeneralRegisters(M)
      [] r[1] = "p" -> <<"word", Register(M, Atoi(r[2]))>>
      [] r[1] \in {"G", "P"} -> Text("OK")
      [] r[1] = "m" -> ReadMemory(M, r[2], r[3])
      [] r[1] = "X" -> WriteAnswer(r[2], Len(Decoded[r[3]]))
      [] r[1] = "Z" -> SetAnswer(M, r[2])
      [] r[1] = "z" -> RemoveAnswer(M, r[2], r[3])
      [] r[1] = "H" -> ThreadAnswer(r[2], r[3])
      [] r[1] = "q" -> QueryAnswer(r[2])
      [] OTHER -> Text("")
================================================================================
