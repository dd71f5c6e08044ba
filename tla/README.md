# A verification of the ARM simulator in TLA+

The repository is an ARMv5 instruction-set simulator written in C that gdb drives over a
socket, and that takes interrupts over another.  This directory models it in TLA+, checks
the models with TLC and proves theorems about them with TLAPS.  Paths below are relative to
the repository (`src/`); `PROJECT.json` gives, for every definition, the lines it models.

## 1. The system

| part | source | state | operations | who calls it |
|---|---|---|---|---|
| register file | `registers.c` | 37 words: r0..r15, the copies of FIQ, IRQ, SVC, ABT and UND modes, CPSR, five SPSRs | read and write of (register, mode), CPSR, SPSR | core, protocol |
| memory | `memory.c` | an array of bytes | read and write of 1, 2, 4 bytes, either endianness | core, protocol |
| core | `arm_core.c` | the cycle counter | creation, register and memory accesses of the current mode, fetch | instructions |
| instructions | `arm_instruction.c`, `arm_data_processing.c`, `arm_load_store.c`, `arm_branch_other.c` | none | `arm_step`: fetch, condition, one of eight handlers, exception | protocol |
| exceptions | `arm_exception.c` | none | RESET; SWI numbers the simulator serves; the others are handed back | `arm_step`, irq thread |
| debugger protocol | `gdb_protocol.c` | breakpoints, last exception, one packet buffer | a handler per packet, under the lock; `cont` is a loop of `arm_step` | scanner |
| scanner | `scanner.l`, `scanner.c` generated by flex | input buffer, state of the automaton, error buffer | packets, acknowledgements, requests to send again, garbage | gdb thread |
| threads | `arm_simulator.c` | one lock, the connections | `gdb_listener`, `irq_listener`, `main` | |
| interrupt sender | `send_irq.c` | none | connects, sends a byte, leaves | |
| trace, debug | `trace.c`, `debug.c` | a stack of source locations, a sorted list of file names | output | everywhere |

The gdb thread reads packets, answers them, and runs the simulated program inside the
handlers of `c` and `s`.  The irq thread calls `arm_exception` for each byte it reads.  Both
use the same machine, so both take `shared.lock` first.  `main` joins the gdb thread only,
frees the machine and returns.

What is hard in this code, and hard to test:

- **Interleaving.**  An interrupt may come between any two steps of a handler.
- **Liveness.**  `cont` runs inside the lock, and its end depends on the simulated program.
- **Retries.**  A damaged packet, acknowledgement or answer is sent again, from one buffer of
  the last answer; a packet must still be executed once.
- **Streams.**  read() cuts the packets anywhere, and the scanner must neither wait for a
  character too many nor lose its place in its buffer.
- **Failure.**  Errors of the memory are ignored by their callers, which then use a variable
  nobody set; failing reads and writes of a socket end the process.
- **Banks and modes.**  Sixteen registers share 37 words; a mode may be any five-bit number.
- **Width.**  Carries, borrows and shifts at the edges of a word; addresses at the end of the
  memory.
- **Arrays with an order.**  The breakpoints are sorted in place and searched by bisection,
  in an array whose tail was never initialised.

`hazards` in `PROJECT.json` lists these at their lines, with the properties that watch each.

## 2. The modules

```
RegisterFile ── Registers                                     (implements BankedRegisters)
MemoryArray ─── Memory
Registers + Memory ── StorageProofs
Registers + Memory + AluContract ── MCParts
Words ── Alu ── AluContract ── AluProofs
Words ── WordsProofs          (cited by AluProofs, CpuProofs, ScannerProofs, SimulatorProofs)
RegisterFile + MemoryArray + Alu ── Core ── Cpu ── MCCpu, CpuProofs
Breakpoints ── BreakpointsProofs                              (implements BreakpointSet)
Simulator ── SerialSimulator ── MCSimulator, SimulatorProofs  (implements Serial)
Scanner ── ScannerProofs                                      (implements PacketRules)
RegisterFile ── Handlers ── Protocol ── MCProtocol            (implements Session)
Protocol ── ProtocolProofs
```

The machine is split in two layers: functions of the array they work on (`RegisterFile`,
`MemoryArray`, `Words`, `Alu`, `Core`), and components that own the arrays (`Registers`,
`Memory`, `Cpu`).  The operators keep the names of the C functions.

**RegisterFile, Registers, BankedRegisters.**  `Slot` is the position both switch statements
of `registers.c` compute.  `Registers` calls the three writes in any order.
`BankedRegisters` is the programmer's model: one cell per (register, owning mode), and a mode
without a copy of its own uses the user's.  The mapping in `Registers` reads the cells
through `registers_read`, so the refinement says that writes and reads agree about every
pair, the undefined modes included.

**MemoryArray, Memory.**  A value is a function from the position of a byte in the host's
variable to the byte.  `HostBigEndian` is `is_big_endian()`; `be` is the argument.  Bytes past
the end are dropped by a store and arbitrary in a load, as in the C code.  The specification
is `MemorySpec`, and that of `AluContract` `AluSpec`, so that one module can prove about the
registers and the memory, and one run check the three.

**Words, Alu, AluContract.**  Words of `4 * ByteBits` bits; `ByteBits = 8` is the program's.
`Alu` has the shifter (eight cases), the sixteen results and the flags exactly as coded,
with the places where they differ from the architecture.  `AluContract` performs one
operation, shift (by any `ShiftAmount` that eight bits of a register hold) or two-word
subtraction and states what a programmer relies on.  `OnePlace` shifts by one place, ASR
arithmetically; `ShiftsCompose` says where the code agrees with it and names the words that
do not: ASR of a negative word, which is a finding, and LSL by a register that holds the
width, which returns Rm and of which no comment says what it should be.

**Core, Cpu.**  Each handler is a function from (registers, memory, instruction) to (registers,
memory, returned value).  A word of memory stands for an encoding: `Ins` gives the condition
and the other 28 bits of it, so programs are data, self-modifying ones included, and a small
word can name any instruction.  `arm_branch` takes its offset through `sign_extend_30`, whose
mask changes the offsets from 0x800000 to 0xBFFFFF.  `Cpu` has one action per case of
`arm_execute_instruction`, one for an instruction whose condition fails, one for a failing
fetch, and one for each outside influence: an interrupt, and the debugger's writes of a
register, CPSR or a byte.  `Junk` is what a variable the code never set may hold.

**Breakpoints, BreakpointSet.**  `gdb_find_breakpoint`, `gdb_add_breakpoint` and
`gdb_remove_breakpoint`, a step per loop iteration, on an array whose initial contents are
arbitrary.  `BreakpointSet` is what gdb sees: a bounded set, with the five answers.  An
address enters the set when its insertion has been decided and leaves it when its removal
ends; `Positions` are the entries that count meanwhile.

**Simulator.**  `gdb_listener`, `irq_listener` and `main`, with the lock.  Here the machine
is its PC, CPSR and a program that says where each instruction goes and what `arm_step`
returns.  A handler is several steps: `arm_step` is a fetch and an execution, `g` and `G`
touch the PC and then CPSR, and RESET writes CPSR and then the PC.  The packets stay a
number until the scanner takes one, when its content is chosen: the debugger does not choose
earlier, and the state space is smaller.  The clients connect, send and leave when they like;
the interrupt connection may also be reset.  A write works while both ends are open, may work
when the debugger has left, and never after `kill_request`, which shut it down.  A failing
write or read ends the process, like `unix_error` and SIGPIPE do.

**Serial, SerialSimulator.**  `Serial` serves packets and interrupts one at a time, `cont` in
one step from its first instruction to its stop.  `SerialSimulator` adds a history variable,
`before`, the machine when the lock was last free, and `HistorySpec` is `Spec` with it: every
change of `before` must be one step of `Serial`.  `Lengths` are the numbers of steps that
`cont` may take: every one in the theorem, those of the short program in the run.

**Scanner, PacketRules.**  The match loop of `yylex` over the tables of `scanner.c`, with the
backing up to the last match, the NULs that end the buffer and the ones that were received,
`yy_get_next_buffer` with its growth, and the rules with the buffer of invalid characters.
Characters are the eight classes of `yy_ec`; positions count from the start of the token, so
that the move of the text to the front of the buffer does not show.  `PacketRules` cuts the
stream as the patterns of `scanner.l` say, and demands a report before whatever follows
invalid characters.

**Handlers, Protocol, Session.**  `Handlers` has every packet as two functions of the machine,
`Effect` and `Reply`: all the branches and error answers, the partial write of an X that
crosses the end, the decimal reading of p, the order of the registers and CPSR in G, the
assertions that end the process (`Aborts`).  `Protocol` puts them behind the rules of the
scanner and `gdb_packet_analysis`: checksum, acknowledgement, handler, answer, and
`gdb_transmit_packet`, which sends the buffer of the last answer whatever it is.  A debugger
(modelled from what the code expects of it) sends a packet, sends it again on a `-`, waits for
the answer, and refuses a damaged one.  The connection damages packets, answers and the `+` of
the debugger, or inserts garbage.  `told` is what the debugger may conclude from the answers.
`Session` is the promise: asked, executed once, answered with the answer of that execution.
A handler is one step here; what happens inside it is the subject of `Simulator`.

Definitions preceded by "A bug to detect" are not part of the models: they are variants of
the definition that follows them, with the bug that `mutants` in `PROJECT.json` shows each
property to detect.

## 3. What is checked

| run | shows |
|---|---|
| `parts` | The slot array implements the banked registers. Stores within the memory read back in both endiannesses, the sizes agree, and no access changes a byte it does not address. `rn - so` is `rn + NOT so + 1` for all the subtractions; C after CMP is unsigned order; V of additions is signed overflow; SUBS and SBC subtract two-word numbers; shifts by n are n shifts by one with the last bit out as the carry, but for the words named above. |
| `memory_straddle` (violated) | A store across the end reports success although it dropped bytes; `memory.h` says 0 is a success. |
| `alu_carry` (violated) | The carry of an addition is never set: `carryFrom` compares a sum that has wrapped. |
| `alu_overflow` (violated) | V after SUBS and CMP is not the overflow of the subtraction: the rule is that of additions. |
| `alu_asr` (violated) | ASR of a negative word loses its sign, in both forms. |
| `cpu` | SPSRs stay 0, steps stay in the bank of their mode, failing instructions leave the memory alone, flag updates leave the control bits alone, an SWI is served by its own number, push and pop restore every register, near branches land at their target, BL and MOV pc, lr come back. |
| `cpu_branch` (violated) | A branch of more than 2^22 words backwards lands 2^22 words too high. |
| `breakpoints` | The table stays in bounds and sorted in the middle of its loops, implements the set, and answers every request. |
| `simulator` | Handlers and interrupts exclude each other, what a handler has read is current when it uses it, `cont` misses no breakpoint, a killed connection serves nothing, packets and interrupts are served, the process ends when the debugger leaves, and the whole is as if packets and interrupts were served one at a time. |
| `simulator_loop` (violated) | With a program that never stops, a received interrupt is never taken: `cont` keeps the lock. |
| `scanner` | On every stream, cut by read() anywhere, the generated automaton delivers the tokens of `scanner.l`, blocks only where no token is complete, stays inside its buffers, and returns when the connection closes. |
| `protocol` | Every packet is executed once and its answer reaches the debugger, whatever was damaged and sent again; what the debugger was told of memory, registers, breakpoints and the stop reason is so. |

The six violated runs are disagreements between the code and a comment, a header or the
usage text, quoted in `findings`.

### Bounds

- `parts` puts three components that share nothing side by side; one moves while the others
  are at rest, so that their states add up and do not multiply.  Registers: two word values;
  all modes but the ones that behave alike (`MCModeArg` keeps an undefined mode); states are
  cut when three slots are written.  A wrong slot needs one write and one read, or two writes,
  to show.  Memory: five bytes of two values, addresses before, at and after the end, all
  sizes and both endiannesses; every contents is an initial one, so one access from each is
  enough.  A word fits at two addresses and straddles at the others.  Arithmetic: four-bit
  words (`ByteBits = 1`), every operand, carry and opcode, and shifts of 0 to 17 places, ROR
  going round four times, and of 64 (`MCShiftAmount`; the theorem has all of 0 to 255).  The
  code uses the width only in the position of the top bits and as the limit of shifts.
- `cpu`: 28-bit words, in bytes of 7 bits, so that a branch of 24 bits (26 in bytes) still has
  to be sign-extended; 40 bytes of memory: three data words that are addresses with and
  without the T bit, 44 encodings covering every handler and every branch in it, and every pair
  of one of them and one of 17 whose outcome depends on what came before; four cycles.
  Interrupts and the debugger's writes happen in four programs, before the first step or after
  the third (`FewPokes`): a change of mode or of the code shows in the next two instructions.
- `breakpoints`: capacity 4 and five addresses, so that the table fills, refuses, and every
  order of insertion and removal happens.  The contents of the tail are one value, which is
  also an address, so that a search that reaches it finds it.
- `simulator`: three packets of ten kinds, two interrupts, a program with a normal
  instruction, one that ends the simulation and one undefined.  Three packets set a
  breakpoint, run to it and run on, or kill and send again.
- `scanner`: a first buffer of 2 characters, reads of at most 3, tokens of up to 5 characters
  and an error buffer of 3.  A packet is 4 characters or 5, so the buffer grows, a read ends at
  every place of a packet, and the error buffer fills.  The longest path of the automaton that
  does not repeat a state is `$`, `#` and two digits.
- `protocol`: 25 packets, at least one per handler (S and C do what s and c do) and for every
  error answer but the E01 of H; two bytes of memory, one breakpoint, a program that stores,
  changes the mode and stops; three packets and one fault.  Three packets read, change and
  read again; one fault is damage to any one item at any moment.  More of both are left to the
  proofs, which hold for any `MaxAsked` and `MaxFaults`.
- `Lengths`: 1 to 4 in `simulator`, and `MaxSteps`: 3 in `protocol`, more steps than the
  programs run without a stop.
- `simulator_loop`: one packet and one interrupt are enough for the lasso.

Deadlock is not checked where the system stops: after the one access, operation or shift of
`parts` and at its `CONSTRAINT`, and when the process
has ended or waits for its clients in `simulator` and `protocol`.  `cpu`, `breakpoints` and
`scanner` check it.

### Fairness

`Breakpoints` has weak fairness of its loop steps: the thread that serves a packet is
running.  `Simulator` has weak fairness of each of the three threads while the process runs:
the scheduler runs whatever thread can run.  It assumes nothing of the clients, which may stop
at any point, and nothing of the order in which waiting threads get a pthread mutex.  A thread
could therefore be overtaken again and again; with the bounded number of packets and
interrupts it cannot be for ever, and `Served` and `InterruptsTaken` in the passing run say
that the lock is always given back.  With unbounded clients and this mutex they would not
hold; `simulator_loop` shows that one endless `c` is enough.

`Scanner` has weak fairness of what it does without waiting (`Run`): its thread is scheduled.
Nothing says that characters arrive.  `Protocol` has weak fairness of the simulator's step and
of the debugger's reading of what was sent to it; the debugger need not ask anything, nor
leave.  `Answered` there needs no fairness of the connection: the faults are finitely many.

## 4. What is proved

For every value of the constants that meets the assumption of the module
(`RegistersAssumption` and so on, which TLC evaluates in the runs):

| module | theorem | argument |
|---|---|---|
| `StorageProofs` | `TypeCorrect`, `ReadsItsBankAlways` | By the shape of `Slot`: a pair and the owner of its copy have one slot. |
| | `RegistersImplementBanked` | Every copy has a slot of its own (`Slot` is injective on copies, and apart from CPSR and the SPSRs), so a write to a slot is a write to one cell. |
| | `MemoryTypeCorrect`, `WritesReadBackAlways`, `SizesAgreeAlways`, `OnlyAddressedBytesAlways` | `WritesReadBack` is inductive with the type: the lemma `ReadAfterWrite` says that a store within the array is read back byte for byte. `SizesAgree` follows from the type alone, `OnlyAddressedBytes` from each step. |
| `WordsProofs` | lemmas only | Powers of two, quotients, remainders, bits, rotations, and the two tools below. |
| `AluProofs` | `SubtractionsAddComplements` | `Not(x)` is `2^W - 1 - x`, and both sides are equal modulo `2^W`. |
| | `UnsignedConditionsAreRight`, `SignedOverflowIsRight` | The flags of `Flags` read back bit by bit from CPSR; then a case for each pair of signs. |
| | `WideSubtractionIsExact` | The borrow of the low words is the complement of C, and a number is `high * 2^W + low` in one way. |
| | `ShiftsAreRepeated` | `Places` is n shifts by one in closed form, by induction on the amount: beyond the width LSL and LSR leave 0, ASR the sign, and ROR goes round again (`NextPlaceLsl` to `NextPlaceRor`). The code is then compared with it, case by case (`RegIsPlaces`, `ImmIsRepeated`). |
| `CpuProofs` | `TypesAlways` | Every handler returns words, bytes and a small value, whatever the memory holds and whatever a variable that was never set holds (`Junk`). |
| | `SpsrsAreZeroAlways` | Inductive with the type of the register array: each handler writes only general registers and CPSR. |
| | `OwnBankOnlyAlways` | Each handler is a chain of writes in one mode; the lemmas carry "differs from f only in the slots of the mode of f, and has its mode" through the chain until CPSR is written. |
| | `FailureKeepsMemoryAlways` | Only STR, STRB, STRH and STM change the memory and all of them return 0. |
| | `ControlBitsKeptAlways` | The only write of CPSR outside the two exceptions named is that of `Flags`, which sets or clears bits W-1 to W-4: the remainder by `2^(W-4)` stays. |
| | `SwiServesItsOwnNumberAlways` | The handler reads at `PC - 4` modulo `2^W` the word that the fetch read at the PC. |
| | `NearBranchesLand`, `BranchesLandAlways` | For the 24-bit numbers outside 0x800000 to 0xBFFFFF, `sign_extend_30` is the sign extension (`NearOffsetsExtend`); `BranchLinks` then gives LR and PC after a branch, and the MOV writes what it reads. The second theorem is the property of the run, which tries some of these offsets. |
| | `PushThenPopRestores`, `PushPopAlways` | The transfers of a list are at distinct addresses in the order of the registers, so that the memory after the STM, a recursive function over the sixteen registers, holds at the i-th address the i-th register; a word put together from its bytes is the word, in both byte orders. |
| `BreakpointsProofs` | `SortedAlways`, `InBoundsAlways` | The invariant adds the bisection's (entries before `begin` are smaller than the address, those from `end` on greater), and where the hole of an insertion or a removal is. |
| | `TypeCorrect` | Part of that invariant. |
| | `BreakpointsImplementSet` | The same invariant: a bisection that ends without a match means the address is not in the set, and the number of entries is the size of the set. |
| | `RequestsEnd` | `StepsLeft` counts what a request still has to do: the interval of the bisection, then the entries still to be moved. Every step lowers it, because the middle of a non-empty interval is inside it, and a turn of the bisection leaves at most half of the interval. It is the part of `Answered` that does not need fairness. |
| `SimulatorProofs` | `ExclusiveAlways` | Inductive with what each program point of the handlers implies. |
| | `LocalsAreCurrentAlways`, `StopsAtBreakpointsAlways`, `KilledIsDeafAlways` | They rest on `Exclusive`: the irq thread changes the PC only while the gdb thread is at none of the places they speak of. |
| | `OneByOne` | `SerialInv` says, for each place a handler or an exception is at, how far the machine has come from `before`; within `cont`, that some number of steps without a stop have led there (`GoesTo`). A step that keeps the lock keeps `before`; one that gives it back is a step of `Serial` or none. |
| | `TypesAlways` | With `InProgram`: every program point is one of its thread, the PC is an address of the program wherever it is read, written or restored, and the counts stay within the bounds of the model. |
| `ScannerProofs` | `RulesImplemented`, `NoNeedlessWaitAlways`, `WithinBuffersAlways` | See below. |
| `ProtocolProofs` | `Implementation` | The invariant says where the packet the debugger waits for is: on its way, refused, accepted, in its handler, or answered, and what may precede it on the connection in each of these places (old answers, signals). A step moves it from one place to the next, and only `Serve` is `Session`'s `Execute`. Garbage voids it, as it voids the promise. |
| | `MemoryIsAsTold`, `RegistersAreAsTold`, `ControlIsAsTold` | `told` agrees with the machine; while a packet is pending it says nothing of what that packet may change, and once it is executed the answer is `Reply` of a machine `told` agreed with. Three lemmas carry it: asking (`DoubtAgrees`), executing (`EffectAgrees`) and learning (`ToldAgrees`), packet by packet. |
| | `AnswerComesNearer` | The nine places of the invariant are numbered by how far the packet still has to go (`Place`). Each step of the two sides lowers the number, or keeps it and lowers `Traffic`, the characters of the past that the connection still carries: a "-" may have an answer sent again, which is why an item to the simulator counts for two. Only a fault can raise it, and faults are bounded: this is the part of `Answered` that does not need fairness. |
| | `NobodyIsStuck` | In each of these places the head of one of the queues, or the handler, gives somebody a step; the connection is open for writing as long as the debugger has not left. |

The strengthening is `IInv` in `BreakpointsProofs`, `SimulatorProofs` (with `SerialInv` for
the refinement), `ScannerProofs` and `ProtocolProofs` (`KInv` there for what the debugger
knows) and `Inv` in `CpuProofs`: initial
states satisfy it, every step keeps it, and it implies the property.  In `StorageProofs` the
type invariant is all the strengthening needed, and in `AluProofs` the one step of a job.

**The scanner.**  `Delta` is the automaton that the patterns describe, twelve states written
out; `MoveIsDelta` says that the five compressed tables, with the chain of defaults and the
template state, are that automaton (no more than a jam leaves a state where flex says that
none does).  `Reads(t, n, s)` says what the first n characters of t must be for the automaton
to be in state s, so that a state is a statement about the text: `ReadsOneState`, `ReadsOn`,
`ReadsPrefix`, `ReadsStep` and `ReadsNoMore` make it an equivalent of a run.  `AgainReads`
says that `yy_get_previous_state`, which runs the automaton over the text again, comes back to
the state and the last match of the first run.  The invariant then has one part for each label
of `yylex`.  Its difficulty is the NUL: a state of 3 means "a NUL or the end of the buffer,
which had been reached in a state from where the scan could go on", and the record of the last
match, which the jam that follows overwrites, must come back from the second run.  `Decided`
turns a stuck automaton into the promise of `PacketRules`: no packet starts here, nor ever will.

**Induction.** The prover knows neither induction nor powers. `WordsProofs` states the
induction hypothesis as membership in a set and takes induction (`Induction`) and the
existence of recursive functions (`Recursion`) from the well-foundedness of < on the
naturals, which the library has as a theorem without an operator parameter; and `2^n` from
the number of subsets of a set of n elements. What a recursive function of a model computes
(`place` of the shifts, `stored` of an STM, `sum` of the bytes of a word, `Move`, `walk` of
the scanner, `run` of `cont`) is proved that way.

**Assumptions.** `CpuAssumption` types the constants of `Cpu`: the size of the memory and the
junk are words, a program is a full memory, an encoding (`Encodings`) has a condition and 28
other bits, and the debugger writes what a packet can hold. `AmountsAssumption` keeps the
amounts of shifts to eight bits. Words have `4 * ByteBits` bits with `ByteBits` in 1..8 (4..8
in `Cpu`, where the fields of CPSR must not meet), so the theorems hold at the real width,
which TLC cannot enumerate. `OneByOne` is stated for a `cont` of any length (`Lengths = Nat \
{0}`); a program that never stops makes no step of `Serial`, and keeps the lock. `ProgramStops`
(the program of the debugger's `c` stops within `MaxSteps`) and `RequestsAssumption` (the
packets are well formed, an m asks for no more bytes than its answer has room for, `MaxRead`,
and an X carries the bytes the debugger means, escaped) are assumptions of `Protocol`,
evaluated by `protocol`.

Only model-checked: the liveness properties (`EndsAtEof`, `Answered`, `Served`,
`InterruptsTaken`, `EndsWithDebugger` and that of the breakpoints), since fairness and
`ENABLED` are out of the prover's reach.  Of the two `Answered` what is left to fairness is
that a step that can be taken is taken: that it brings the answer nearer is proved
(`RequestsEnd`, `AnswerComesNearer`, `NobodyIsStuck`).  The ends of `Simulator` and of
`Scanner` have no such measure.

## 5. What is not modelled

- The output: trace, debug messages, `putchar`.  The stack of trace locations is pushed and
  popped within one expression of each macro; the list of debugged files is filled by options
  before the threads start, and has an off-by-one at 64 names (`hazards`), which only an
  unusual command line meets.
- An m of more than 2045 bytes.  `read_memory` (`gdb_protocol.c:267`) writes two characters for
  each byte into a buffer of 4096 and looks at no size; the simulator announces PacketSize=400
  and nothing in it enforces that.  A debugger that keeps to it never asks for so much.
- The text of numbers and checksums: a packet is its letter and its arguments, and is damaged or
  not.  Where the text changes the number (p) it is modelled.  The size of an X packet is taken
  to be that of its content, and packets are complete.
- Losses on the connection: a lost item needs the timeouts of the debugger, which are not in
  the repository.  A damaged acknowledgement of the simulator is one of these.  Interrupts
  during the protocol are in `Simulator`, and the early report of 1023 invalid characters in
  `Scanner` only.
- Command-line options, the creation of the sockets (failing ends the process before the
  threads run), running out of memory.
- `arm_write_spsr`, `arm_write_usr_register`, `asr`, which nothing calls, and bits of the
  address beyond the width of a small word.
- The tests, examples and build files; the functions of `scanner.c` and `csapp.c` that the
  simulator does not call.

## 6. Plan

Done, in this order: registers, memory, ALU, processor, breakpoints, threads; scanner,
protocol, the serial specification of the threads.

What could come next:

1. Proofs: `PacketRules` and `Session` together, so that what the scanner promises is what
   `Protocol` assumes of the stream.
2. Two connections at once, if the simulator is ever made to accept more than one debugger.
3. A refinement of the handlers of `Protocol` by those of `Simulator`, so that the interrupts
   reach the debugger's knowledge (`told`), which they make old.
