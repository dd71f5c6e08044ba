------------------------------ MODULE PacketRules ------------------------------
(***************************************************************************)
(* What scanner.l promises gdb_protocol.c: the characters that arrive are  *)
(* cut into acknowledgements, requests to send again, packets and invalid  *)
(* characters, each as soon as it is certain, and the invalid characters   *)
(* are reported before whatever follows them.                              *)
(***************************************************************************)
EXTENDS Integers, Sequences

\* The characters the rules tell apart, numbered as in yy_ec.
NUL     == 0
ANY     == 1
NEWLINE == 2
HASH    == 3
DOLLAR  == 4
PLUS    == 5
MINUS   == 6
HEX     == 7

Char == 0..7

VARIABLES pending,      \* the characters that have arrived and wait for their token
          closed,       \* no more will arrive
          unreported,   \* invalid characters of which gdb has not been told
          token         \* the token being handled, with the report that precedes it

rules == <<pending, closed, unreported, token>>

NoToken == [kind |-> "none", text |-> <<>>, report |-> FALSE]

RulesInit ==
    /\ pending = <<>>
    /\ closed = FALSE
    /\ unreported = FALSE
    /\ token = NoToken

\* "$"[^$#]*"#"{HEX}{HEX}
IsPacket(s) ==
    /\ Len(s) >= 4
    /\ s[1] = DOLLAR
    /\ \A i \in 2..(Len(s) - 3) : s[i] \notin {DOLLAR, HASH}
    /\ s[Len(s) - 2] = HASH
    /\ s[Len(s) - 1] = HEX
    /\ s[Len(s)] = HEX

\* A packet may still come of s: its body, or its body, "#" and one digit.
IsOpen(s) ==
    \/ s = <<>>
    \/ /\ s[1] = DOLLAR
       /\ \A i \in 2..Len(s) : s[i] \notin {DOLLAR, HASH}
    \/ IsPacket(s \o <<HEX>>)
    \/ IsPacket(s \o <<HEX, HEX>>)

KindOf(c) ==
    CASE c = PLUS -> "ack"
      [] c = MINUS -> "nak"
      [] c = NEWLINE -> "echo"
      [] OTHER -> "invalid"

\* The first n pending characters become a token. A report precedes every token
\* that ends a run of invalid characters; a run too long to keep may be reported
\* early; the newlines, of which no rule speaks, change nothing.
Emit(kind, n) ==
    /\ pending' = SubSeq(pending, n + 1, Len(pending))
    /\ token' \in [kind : {kind}, text : {SubSeq(pending, 1, n)}, report : BOOLEAN]
    /\ CASE kind = "invalid" -> (token'.report => unreported) /\ unreported' = TRUE
         [] kind = "echo" -> ~ token'.report /\ unreported' = unreported
         [] OTHER -> token'.report = unreported /\ unreported' = FALSE
    /\ UNCHANGED closed

Arrive ==
    /\ ~ closed
    /\ pending' \in Seq(Char)
    /\ Len(pending') >= Len(pending)
    /\ SubSeq(pending', 1, Len(pending)) = pending
    /\ UNCHANGED <<closed, unreported, token>>

Close == ~ closed /\ closed' = TRUE /\ UNCHANGED <<pending, unreported, token>>

Handled == token' = NoToken /\ UNCHANGED <<pending, closed, unreported>>

Packet == \E n \in 4..Len(pending) : IsPacket(SubSeq(pending, 1, n)) /\ Emit("packet", n)

\* No packet starts here, nor will one whatever arrives.
Single ==
    /\ pending # <<>>
    /\ \A n \in 4..Len(pending) : ~ IsPacket(SubSeq(pending, 1, n))
    /\ IsOpen(pending) => closed
    /\ Emit(KindOf(pending[1]), 1)

End == pending = <<>> /\ closed /\ Emit("end", 0)

Rules == Arrive \/ Close \/ Handled \/ Packet \/ Single \/ End

RulesSpec == RulesInit /\ [][Rules]_rules
================================================================================
