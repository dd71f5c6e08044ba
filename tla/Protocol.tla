-------------------------------- MODULE Protocol -------------------------------
(***************************************************************************)
(* The dialogue of the simulator with a debugger: the rules of scanner.l,  *)
(* gdb_packet_analysis with its one buffer of the last answer, the         *)
(* handlers, and a debugger that acknowledges and asks again as the        *)
(* protocol wants.  The connection may corrupt what it carries, and insert *)
(* characters that belong to no packet.                                    *)
(***************************************************************************)
EXTENDS Handlers

CONSTANTS Requests,     \* packets the debugger may send
          Start,        \* the machine when it connects
          MaxAsked,     \* bounds of the model: packets it sends, and
          MaxFaults     \* faults of the connection

ASSUME ProtocolAssumption ==
    /\ Program \in [PCs -> Instructions]
    /\ Start \in Machines /\ Start.breakpoints = {}
    /\ MemSize \in Nat /\ MaxSteps \in Nat \ {0}

\* Wherever the program starts it soon stops: Simulator has one that does not.
ASSUME ProgramStops ==
    \A pc \in PCs :
        LET to[n \in 0..MaxSteps] == IF n = 0 THEN pc ELSE Program[to[n - 1]].next
        IN \E n \in 1..MaxSteps : Program[to[n - 1]].result # 0

VARIABLES machine,
          packet,       \* gdb->packet, the last answer, or None when len is 0
          serving,      \* the packet in its handler, or None
          garbage,      \* invalid characters were scanned and not reported
          writable,     \* the connection has not been shut down for writing
          process,      \* "runs", "ended" (the scanner has returned) or "dead"
          debugger,     \* "idle", "wait_ack", "wait_answer" or "gone"
          request,      \* the packet the debugger wants served, or None
          got,          \* the last answer it accepted
          told,         \* what it knows of the machine from the answers
          in, out,      \* what the connection carries, to and from the simulator
          asked, faults,
          executed,     \* history: request has been executed
          garbled       \* history: garbage was inserted

simulator == <<machine, packet, serving, garbage, writable, process>>
client == <<debugger, request, got, told, asked>>
vars == <<simulator, client, in, out, faults, executed, garbled>>

None == <<"none">>

\* The debugger writes well-formed packets, asks for no more memory than an answer
\* has room for, and its X packets carry the bytes it means.
ASSUME RequestsAssumption ==
    /\ None \notin Requests
    /\ \A r \in Requests :
           /\ r[1] \in {"p", "P"} => r[2] \in 0..255
           /\ r[1] = "m" => r[2] \in Nat /\ r[3] \in 0..MaxRead
           /\ r[1] = "X" => r[2] \in Nat /\ r[4] \in Seq(Bytes) /\ r[4] = Decoded[r[3]]

Item(kind, body) == [kind |-> kind, body |-> body, intact |-> TRUE]

Plus == Item("ack", None)
Minus == Item("nak", None)
Garbage == Item("garbage", None)

--------------------------------------------------------------------------------
(* What the debugger knows: a register, a byte or the stop reason it has been told *)
(* of since it last did something that may have changed it.                        *)

Unknown == -1

CPSR == 16      \* after the registers 0..15

KnowsNothing ==
    [reg |-> [n \in 0..CPSR |-> Unknown], mem |-> [c \in Cells |-> Unknown],
     stop |-> None, breakpoints |-> {}]

\* The bytes an X packet may change.
Written(r) == {c \in Cells : c - r[2] \in 0..(Len(Decoded[r[3]]) - 1)}

\* Sending r makes knowledge old.
Doubt(r) ==
    CASE r[1] \in {"s", "S", "c", "C"} ->
            [KnowsNothing EXCEPT !.breakpoints = told.breakpoints]
      [] r[1] = "G" -> [told EXCEPT !.reg = KnowsNothing.reg]
      [] r[1] = "P" -> [told EXCEPT !.reg[r[2] % 16] = Unknown]
      [] r[1] = "X" -> [told EXCEPT !.mem = [c \in Cells |->
                                                IF c \in Written(r) THEN Unknown ELSE @[c]]]
      [] OTHER -> told

\* The registers G writes whatever the mode it leaves: the copies of r8..r14 it
\* writes are those of the mode before.
Shared == (0..7) \cup {15}

\* Register n reads as itself with p below 10 only: the number is sent in hexadecimal
\* and taken as decimal.
ReadWell(n) == n < 10

\* What answer a to request says.
Told(a) ==
    LET r == request
        ok == a = Text("OK")
    IN
    CASE r[1] = "g" /\ a[1] = "registers" -> [told EXCEPT !.reg = [n \in 0..CPSR |-> IF n = CPSR THEN a[3] ELSE a[2][n]]]
      [] r[1] = "p" /\ a[1] = "word" /\ ReadWell(r[2]) -> [told EXCEPT !.reg[r[2]] = a[2]]
      [] r[1] = "P" /\ ok -> [told EXCEPT !.reg[r[2]] = r[3]]
      [] r[1] = "G" /\ ok ->
            [told EXCEPT !.reg = [n \in 0..CPSR |-> IF n = CPSR THEN r[3]
                                                    ELSE IF n \in Shared THEN r[2][n]
                                                    ELSE Unknown]]
      [] r[1] = "m" /\ a[1] = "bytes" ->
            [told EXCEPT !.mem = [c \in Cells |-> IF c - r[2] \in 0..(Len(a[2]) - 1)
                                                  THEN a[2][c - r[2] + 1] ELSE @[c]]]
      [] r[1] = "X" /\ ok ->
            [told EXCEPT !.mem = [c \in Cells |-> IF c \in Written(r) THEN r[4][c - r[2] + 1]
                                                  ELSE @[c]]]
      [] r[1] = "Z" /\ ok -> [told EXCEPT !.breakpoints = @ \cup {r[3]}]
      [] r[1] = "z" /\ ok -> [told EXCEPT !.breakpoints = @ \ {r[3]}]
      [] r[1] \in {"s", "S", "c", "C", "?"} -> [told EXCEPT !.stop = a]
      [] OTHER -> told

--------------------------------------------------------------------------------
Init ==
    /\ machine = Start
    /\ packet = None
    /\ serving = None
    /\ garbage = FALSE
    /\ writable = TRUE
    /\ process = "runs"
    /\ debugger = "idle"
    /\ request = None
    /\ got = None
    /\ told = KnowsNothing
    /\ in = <<>> /\ out = <<>>
    /\ asked = 0 /\ faults = 0
    /\ executed = FALSE /\ garbled = FALSE

(* The simulator. *)

Scanning == process = "runs" /\ serving = None /\ in # <<>>

\* A write on a connection that is shut down, or that the other side has left, ends
\* the process; in the second case it may also succeed.
MayWrite == writable
MayFail == ~ writable \/ debugger = "gone"

\* handle_error, before every token the rules of the scanner serve.
Report == IF garbage THEN <<Minus>> ELSE <<>>

\* A token is taken from the connection and the simulator writes s.
Take(kind, s) ==
    /\ Scanning
    /\ Head(in).kind = kind
    /\ MayWrite \/ s = <<>>
    /\ in' = Tail(in)
    /\ out' = out \o s
    /\ garbage' = FALSE

TakeAck ==
    /\ Take("ack", Report)
    /\ UNCHANGED <<machine, packet, serving, writable, process, client, faults, executed, garbled>>

\* A bug to detect: a request to send again is taken for an acknowledgement.
AgainNothing == <<>>

\* gdb_transmit_packet: nothing before the first answer.
Again == IF packet = None THEN <<>> ELSE <<Item("answer", packet)>>

TakeNak ==
    /\ Take("nak", Report \o Again)
    /\ UNCHANGED <<machine, packet, serving, writable, process, client, faults, executed, garbled>>

TakeGarbage ==
    /\ Scanning
    /\ Head(in).kind = "garbage"
    /\ in' = Tail(in)
    /\ garbage' = TRUE
    /\ UNCHANGED <<machine, packet, serving, writable, process, client, out, faults, executed,
                   garbled>>

\* A bug to detect: the checksum is not compared.
ChecksumAlwaysGood == TRUE

ChecksumIsGood == Head(in).intact

\* gdb_packet_analysis
TakePacket ==
    /\ Take("packet", Report \o <<IF ChecksumIsGood THEN Plus ELSE Minus>>)
    /\ serving' = IF ChecksumIsGood THEN Head(in).body ELSE None
    /\ UNCHANGED <<machine, packet, writable, process, client, faults, executed, garbled>>

Serving == process = "runs" /\ serving # None

\* A handler, which holds the lock, from its start to its answer.
Serve ==
    /\ Serving
    /\ Answers(serving)
    /\ MayWrite
    /\ machine' = Effect(machine, serving)
    /\ packet' = Reply(machine, serving)
    /\ out' = out \o <<Item("answer", packet')>>
    /\ serving' = None
    /\ executed' = TRUE
    /\ UNCHANGED <<garbage, writable, process, client, in, faults, garbled>>

\* kill_request: no answer.
ServeKill ==
    /\ Serving
    /\ Kills(serving)
    /\ writable' = FALSE
    /\ serving' = None
    /\ UNCHANGED <<machine, packet, garbage, process, client, in, out, faults, executed, garbled>>

Die ==
    /\ process' = "dead"
    /\ UNCHANGED <<machine, packet, serving, garbage, writable, client, in, out, faults, executed,
                   garbled>>

\* An assertion fails in read_register or write_register.
ServeAborts == Serving /\ Aborts(serving) /\ Die

\* Rio_writen fails in one of the actions above.
WriteFails ==
    /\ MayFail
    /\ \/ Serving /\ Answers(serving)
       \/ Scanning /\ Head(in).kind = "packet"
       \/ Scanning /\ Head(in).kind = "nak" /\ packet # None
       \/ Scanning /\ Head(in).kind \in {"ack", "nak"} /\ garbage
    /\ Die

\* The end of the connection: yylex returns.
EndOfFile ==
    /\ process = "runs" /\ serving = None
    /\ in = <<>> /\ debugger = "gone"
    /\ process' = "ended"
    /\ UNCHANGED <<machine, packet, serving, garbage, writable, client, in, out, faults, executed,
                   garbled>>

--------------------------------------------------------------------------------
(* The debugger. *)

\* It does not wait for the answer to a k packet.
Ask ==
    /\ debugger = "idle" /\ asked < MaxAsked
    /\ \E r \in Requests :
           /\ request' = IF Kills(r) THEN None ELSE r
           /\ in' = in \o <<Item("packet", r)>>
           /\ told' = Doubt(r)
           /\ debugger' = IF Kills(r) THEN "gone" ELSE "wait_ack"
    /\ asked' = asked + 1
    /\ executed' = FALSE
    /\ UNCHANGED <<simulator, got, out, faults, garbled>>

Hears(state, kind) == debugger = state /\ out # <<>> /\ Head(out).kind = kind /\ out' = Tail(out)

GetAck ==
    /\ Hears("wait_ack", "ack")
    /\ debugger' = "wait_answer"
    /\ UNCHANGED <<simulator, request, got, told, asked, in, faults, executed, garbled>>

GetNak ==
    /\ Hears("wait_ack", "nak")
    /\ in' = in \o <<Item("packet", request)>>
    /\ UNCHANGED <<simulator, client, faults, executed, garbled>>

\* An answer where it waits for an acknowledgement, or the other way round, is
\* skipped.
Skip ==
    /\ Hears("wait_ack", "answer") \/ Hears("wait_answer", "ack") \/ Hears("wait_answer", "nak")
    /\ UNCHANGED <<simulator, client, in, faults, executed, garbled>>

GetAnswer ==
    /\ Hears("wait_answer", "answer") /\ Head(out).intact
    /\ got' = Head(out).body
    /\ told' = Told(got')
    /\ in' = in \o <<Plus>>
    /\ debugger' = "idle"
    /\ request' = None
    /\ UNCHANGED <<simulator, asked, faults, executed, garbled>>

GetBadAnswer ==
    /\ Hears("wait_answer", "answer") /\ ~ Head(out).intact
    /\ in' = in \o <<Minus>>
    /\ UNCHANGED <<simulator, client, faults, executed, garbled>>

Leave ==
    /\ debugger = "idle"
    /\ debugger' = "gone"
    /\ UNCHANGED <<simulator, request, got, told, asked, in, out, faults, executed, garbled>>

--------------------------------------------------------------------------------
(* The connection. *)

\* What a damaged packet or answer says.
Mangled == <<"mangled">>

\* A damaged "+" of the debugger reads "-"; a damaged packet or answer keeps its
\* frame, and its checksum shows. Other damage looks like garbage, or is a loss, which
\* the debugger needs timeouts for.
Damaged(item) ==
    IF item.kind = "ack" THEN Minus
    ELSE [kind |-> item.kind, body |-> Mangled, intact |-> FALSE]

DamageIn ==
    /\ \E i \in 1..Len(in) :
           /\ in[i].kind \in {"ack", "packet"}
           /\ in' = [in EXCEPT ![i] = Damaged(@)]
    /\ UNCHANGED <<out, garbled>>

DamageOut ==
    /\ \E i \in 1..Len(out) :
           /\ out[i].kind = "answer"
           /\ out' = [out EXCEPT ![i] = Damaged(@)]
    /\ UNCHANGED <<in, garbled>>

Insert ==
    /\ in' = in \o <<Garbage>>
    /\ garbled' = TRUE
    /\ UNCHANGED out

Fault ==
    /\ faults < MaxFaults /\ process = "runs"
    /\ faults' = faults + 1
    /\ DamageIn \/ DamageOut \/ Insert
    /\ UNCHANGED <<simulator, client, executed>>

--------------------------------------------------------------------------------
SimulatorStep == \/ TakeAck \/ TakeNak \/ TakeGarbage \/ TakePacket
                 \/ Serve \/ ServeKill \/ ServeAborts \/ WriteFails \/ EndOfFile

Listens == GetAck \/ GetNak \/ Skip \/ GetAnswer \/ GetBadAnswer

Next == SimulatorStep \/ Listens \/ Ask \/ Leave \/ Fault

\* The thread that serves the debugger runs, and the debugger reads what it waits for.
Spec == Init /\ [][Next]_vars /\ WF_vars(SimulatorStep) /\ WF_vars(Listens)

--------------------------------------------------------------------------------
Phase ==
    IF process # "runs" \/ debugger = "gone" THEN "ended"
    ELSE IF debugger = "idle" THEN "idle"
    ELSE IF executed THEN "executed" ELSE "asked"

Promise == INSTANCE Session WITH phase <- Phase, answer <- packet

\* Whatever is damaged and sent again, each packet is executed once and the debugger
\* gets the answer of that execution. Only garbage breaks the promise: the scanner asks
\* for what follows it again, and serves it all the same.
ImplementsSession ==
    Promise!SessionInit /\ [][Promise!SessionNext \/ garbled']_(Promise!session)

\* What the debugger was told of a byte, by an m, or by the OK of an X, is what the
\* memory holds as long as it sends nothing that may change it. A refused X tells
\* nothing: its first bytes are written.
MemoryAsTold ==
    ~ garbled => \A c \in Cells : told.mem[c] \in {Unknown, machine.mem[c]}

\* What the debugger was told of a register, by g, by p below 10, or by the OK of a P or
\* of a G (r8..r14 excepted), is what the program will find in it.
RegistersAsTold ==
    ~ garbled =>
        /\ \A n \in Reg : told.reg[n] \in {Unknown, Register(machine, n)}
        /\ told.reg[CPSR] \in {Unknown, registers_read_cpsr(machine.f)}

\* The breakpoints the debugger believes in are those of the simulator, refusals
\* included, and a ? repeats the last reason to stop.
ControlAsTold ==
    ~ garbled =>
        /\ told.stop \in {None, StopReason(machine.exception)}
        /\ debugger = "idle" => told.breakpoints = machine.breakpoints

\* The debugger never waits for ever: whatever was damaged, it gets an answer, or the
\* process has ended.
Answered ==
    debugger \in {"wait_ack", "wait_answer"} ~> debugger \in {"idle", "gone"} \/ process # "runs"
================================================================================
