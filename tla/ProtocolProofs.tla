----------------------------- MODULE ProtocolProofs ----------------------------
(***************************************************************************)
(* Every packet is executed once and answered with that execution's        *)
(* answer, and what the debugger was told of the machine is so, for any    *)
(* packets, program, machine and number of faults.                         *)
(***************************************************************************)
EXTENDS Protocol, SequenceTheorems, TLAPS

--------------------------------------------------------------------------------
(* Sequences of anything. *)

IsSeq(s) == \E S : s \in Seq(S)

LEMMA AppendAny ==
    ASSUME NEW s, IsSeq(s), NEW x
    PROVE  /\ IsSeq(s \o <<x>>)
           /\ Len(s) \in Nat
           /\ Len(s \o <<x>>) = Len(s) + 1
           /\ \A i \in 1..Len(s) : (s \o <<x>>)[i] = s[i]
           /\ (s \o <<x>>)[Len(s) + 1] = x
<1>1. PICK S : s \in Seq(S)  BY DEF IsSeq
<1>2. s \in Seq(S \cup {x}) /\ <<x>> \in Seq(S \cup {x})  BY <1>1, SeqMonotonic
<1>3. s \o <<x>> \in Seq(S \cup {x}) /\ Len(<<x>>) = 1 /\ <<x>>[1] = x  BY <1>2
<1> QED  BY <1>2, <1>3 DEF IsSeq

LEMMA TailAny ==
    ASSUME NEW s, IsSeq(s), s # <<>>
    PROVE  /\ IsSeq(Tail(s))
           /\ Len(s) \in Nat \ {0}
           /\ Len(Tail(s)) = Len(s) - 1
           /\ Head(s) = s[1]
           /\ \A i \in 1..(Len(s) - 1) : Tail(s)[i] = s[i + 1]
           /\ Len(s) = 1 => Tail(s) = <<>>
<1>1. PICK S : s \in Seq(S)  BY DEF IsSeq
<1>2. Len(s) \in Nat \ {0} /\ Tail(s) \in Seq(S) /\ Len(Tail(s)) = Len(s) - 1
  BY <1>1
<1>3. Len(s) = 1 => Len(Tail(s)) = 0  BY <1>2
<1>4. Len(s) = 1 => Tail(s) = <<>>  BY <1>2, <1>3, EmptySeq
<1> QED  BY <1>1, <1>2, <1>4 DEF IsSeq

LEMMA ExceptAny ==
    ASSUME NEW s, IsSeq(s), NEW k \in 1..Len(s), NEW x
    PROVE  /\ IsSeq([s EXCEPT ![k] = x])
           /\ Len(s) \in Nat
           /\ Len([s EXCEPT ![k] = x]) = Len(s)
           /\ [s EXCEPT ![k] = x][k] = x
           /\ \A i \in 1..Len(s) : i # k => [s EXCEPT ![k] = x][i] = s[i]
<1>1. PICK S : s \in Seq(S)  BY DEF IsSeq
<1>2. s \in Seq(S \cup {x})  BY <1>1, SeqMonotonic
<1>3. [s EXCEPT ![k] = x] \in Seq(S \cup {x})  BY <1>2
<1> QED  BY <1>2, <1>3 DEF IsSeq

LEMMA LengthAny ==
    ASSUME NEW s, IsSeq(s)
    PROVE  Len(s) \in Nat /\ (Len(s) = 0 <=> s = <<>>) /\ s \o <<>> = s /\ <<>> \o s = s
<1>1. PICK S : s \in Seq(S)  BY DEF IsSeq
<1> QED  BY <1>1, EmptySeq, ConcatEmptySeq

LEMMA EmptyAny == IsSeq(<<>>) /\ Len(<<>>) = 0
BY DEF IsSeq

LEMMA OneAny ==
    ASSUME NEW x
    PROVE  IsSeq(<<x>>) /\ Len(<<x>>) = 1 /\ <<x>>[1] = x /\ <<x>> # <<>> /\ <<>> \o <<x>> = <<x>>
<1>1. <<x>> \in Seq({x}) /\ Len(<<x>>) = 1 /\ <<x>>[1] = x /\ <<x>> # <<>>  OBVIOUS
<1> QED  BY <1>1, LengthAny DEF IsSeq

LEMMA TextForm == \A string : Text(string)[1] = "text"
BY DEF Text

\* An answer is never the mark of an empty buffer.
LEMMA ReplyIsThere ==
    ASSUME NEW M, NEW r
    PROVE  Reply(M, r) # None
<1>1. None[1] = "none"  BY DEF None
<1>2. \A e : StopReason(e)[1] = "text"  BY TextForm DEF StopReason
<1>3. GeneralRegisters(M)[1] = "registers"  BY DEF GeneralRegisters
<1>4. \A v : <<"word", v>>[1] = "word"  OBVIOUS
<1>5. \A a, n : ReadMemory(M, a, n)[1] \in {"bytes", "text"}  BY TextForm DEF ReadMemory
<1>6. \A a, n : WriteAnswer(a, n)[1] = "text"  BY TextForm DEF WriteAnswer
<1>7. \A t : SetAnswer(M, t)[1] = "text"  BY TextForm DEF SetAnswer
<1>8. \A t, a : RemoveAnswer(M, t, a)[1] = "text"  BY TextForm DEF RemoveAnswer
<1>9. \A t, v : ThreadAnswer(t, v)[1] = "text"  BY TextForm DEF ThreadAnswer
<1>10. \A n : QueryAnswer(n)[1] = "text"  BY TextForm DEF QueryAnswer
<1>11. Reply(M, r)[1] \in {"text", "registers", "word", "bytes"}
  BY <1>2, <1>3, <1>4, <1>5, <1>6, <1>7, <1>8, <1>9, <1>10, TextForm DEF Reply
<1> QED  BY <1>1, <1>11

--------------------------------------------------------------------------------
(* What the connection carries: items of some kinds, and then one or two that matter. *)

Holds(x, kind, body) == x.kind = kind /\ (x.intact => x.body = body)

All(s, K) == IsSeq(s) /\ \A i \in 1..Len(s) : s[i].kind \in K

EndsIn(s, K, kind, body) ==
    /\ IsSeq(s) /\ Len(s) >= 1
    /\ \A i \in 1..(Len(s) - 1) : s[i].kind \in K
    /\ Holds(s[Len(s)], kind, body)

EndsInTwo(s, K, first, kind, body) ==
    /\ IsSeq(s) /\ Len(s) >= 2
    /\ \A i \in 1..(Len(s) - 2) : s[i].kind \in K
    /\ s[Len(s) - 1].kind = first
    /\ Holds(s[Len(s)], kind, body)

\* Nothing comes before the item that matters.
Alone == {}

LEMMA NothingCarried == ASSUME NEW K PROVE All(<<>>, K)
BY EmptyAny DEF All

LEMMA AllTail ==
    ASSUME NEW s, NEW K, All(s, K), s # <<>>
    PROVE  Head(s).kind \in K /\ All(Tail(s), K)
BY TailAny DEF All

LEMMA AllAppend ==
    ASSUME NEW s, NEW K, All(s, K), NEW x, NEW kind, NEW body
    PROVE  /\ x.kind \in K => All(s \o <<x>>, K)
           /\ Holds(x, kind, body) => EndsIn(s \o <<x>>, K, kind, body)
<1>1. /\ IsSeq(s \o <<x>>) /\ Len(s) \in Nat /\ Len(s \o <<x>>) = Len(s) + 1
      /\ \A i \in 1..Len(s) : (s \o <<x>>)[i] = s[i]
      /\ (s \o <<x>>)[Len(s) + 1] = x
  BY AppendAny DEF All
<1>2. \A i \in 1..Len(s) : (s \o <<x>>)[i].kind \in K  BY <1>1 DEF All
<1>3. 1..(Len(s) + 1) = 1..Len(s) \cup {Len(s) + 1} /\ Len(s) + 1 - 1 = Len(s) /\ Len(s) + 1 >= 1
  BY <1>1
<1>4. x.kind \in K => All(s \o <<x>>, K)  BY <1>1, <1>2, <1>3 DEF All
<1>5. Holds(x, kind, body) => EndsIn(s \o <<x>>, K, kind, body)  BY <1>1, <1>2, <1>3 DEF EndsIn
<1> QED  BY <1>4, <1>5

LEMMA EndsOne ==
    ASSUME NEW x, NEW K, NEW kind, NEW body, Holds(x, kind, body)
    PROVE  EndsIn(<<x>>, K, kind, body)
BY OneAny DEF EndsIn

LEMMA EndsTail ==
    ASSUME NEW s, NEW K, NEW kind, NEW body, EndsIn(s, K, kind, body)
    PROVE  /\ s # <<>>
           /\ \/ Holds(Head(s), kind, body) /\ Tail(s) = <<>>
              \/ Head(s).kind \in K /\ EndsIn(Tail(s), K, kind, body)
<1>1. s # <<>>  BY LengthAny DEF EndsIn
<1>2. CASE Len(s) = 1  BY <1>1, <1>2, TailAny DEF EndsIn
<1>3. CASE Len(s) # 1
  <2>0. IsSeq(s)  BY DEF EndsIn
  <2>1. Len(s) \in Nat /\ Len(s) > 1 /\ Len(Tail(s)) = Len(s) - 1 /\ IsSeq(Tail(s))
    <3>1. Len(s) \in Nat \ {0} /\ Len(Tail(s)) = Len(s) - 1 /\ IsSeq(Tail(s))
      BY <1>1, <2>0, TailAny
    <3> QED  BY <3>1, <1>3
  <2>2. \A i \in 1..(Len(s) - 1) : Tail(s)[i] = s[i + 1]  BY <1>1, TailAny DEF EndsIn
  <2>3. Tail(s)[Len(s) - 1] = s[Len(s)]  BY <2>1, <2>2
  <2>4. \A i \in 1..(Len(s) - 2) : Tail(s)[i].kind \in K  BY <2>1, <2>2 DEF EndsIn
  <2>5. Head(s).kind \in K  BY <1>1, <2>1, TailAny DEF EndsIn
  <2> QED  BY <1>1, <2>1, <2>3, <2>4, <2>5 DEF EndsIn
<1> QED  BY <1>2, <1>3

LEMMA EndsAlone ==
    ASSUME NEW s, NEW kind, NEW body, EndsIn(s, Alone, kind, body)
    PROVE  s # <<>> /\ Holds(Head(s), kind, body) /\ Tail(s) = <<>>
<1>1. /\ s # <<>>
      /\ \/ Holds(Head(s), kind, body) /\ Tail(s) = <<>>
         \/ Head(s).kind \in Alone /\ EndsIn(Tail(s), Alone, kind, body)
  BY EndsTail
<1> QED  BY <1>1 DEF Alone

LEMMA AloneIsOne ==
    ASSUME NEW s, NEW kind, NEW body, EndsIn(s, Alone, kind, body)
    PROVE  Len(s) = 1 /\ s[1].kind = kind
<1>1. Len(s) \in Nat /\ Len(s) >= 1  BY LengthAny DEF EndsIn
<1>2. \A i \in 1..(Len(s) - 1) : FALSE  BY DEF EndsIn, Alone
<1>3. Len(s) = 1
  <2>1. \A n \in Nat : n >= 1 /\ n # 1 => 1 \in 1..(n - 1)  OBVIOUS
  <2> QED  BY <1>1, <1>2, <2>1
<1> QED  BY <1>3 DEF EndsIn, Holds

LEMMA EndsAppend ==
    ASSUME NEW s, NEW K, NEW first, NEW any, EndsIn(s, K, first, any),
           NEW x, NEW kind, NEW body, Holds(x, kind, body)
    PROVE  EndsInTwo(s \o <<x>>, K, first, kind, body)
<1>1. /\ IsSeq(s \o <<x>>) /\ Len(s) \in Nat /\ Len(s \o <<x>>) = Len(s) + 1
      /\ \A i \in 1..Len(s) : (s \o <<x>>)[i] = s[i]
      /\ (s \o <<x>>)[Len(s) + 1] = x
  BY AppendAny DEF EndsIn
<1>2. Len(s) >= 1  BY DEF EndsIn
<1>3. (s \o <<x>>)[Len(s)].kind = first  BY <1>1, <1>2 DEF EndsIn, Holds
<1>4. \A i \in 1..(Len(s) - 1) : (s \o <<x>>)[i].kind \in K  BY <1>1 DEF EndsIn
<1> QED  BY <1>1, <1>2, <1>3, <1>4 DEF EndsInTwo

LEMMA TwoTail ==
    ASSUME NEW s, NEW K, NEW first, NEW kind, NEW body, EndsInTwo(s, K, first, kind, body)
    PROVE  /\ s # <<>>
           /\ \/ Head(s).kind = first /\ EndsIn(Tail(s), Alone, kind, body)
              \/ Head(s).kind \in K /\ EndsInTwo(Tail(s), K, first, kind, body)
<1>1. s # <<>>  BY LengthAny DEF EndsInTwo
<1>2. /\ Len(s) \in Nat /\ Len(s) >= 2 /\ Len(Tail(s)) = Len(s) - 1 /\ IsSeq(Tail(s))
      /\ Head(s) = s[1] /\ \A i \in 1..(Len(s) - 1) : Tail(s)[i] = s[i + 1]
  BY <1>1, TailAny DEF EndsInTwo
<1>3. Tail(s)[Len(s) - 1] = s[Len(s)]  BY <1>2
<1>4. Holds(s[Len(s)], kind, body) /\ s[Len(s) - 1].kind = first  BY DEF EndsInTwo
<1>5. CASE Len(s) = 2
  <2>1. Head(s).kind = first  BY <1>2, <1>4, <1>5
  <2>2. Len(Tail(s)) = 1 /\ Holds(Tail(s)[1], kind, body)  BY <1>2, <1>3, <1>4, <1>5
  <2>3. EndsIn(Tail(s), Alone, kind, body)  BY <1>2, <2>2 DEF EndsIn
  <2> QED  BY <1>1, <2>1, <2>3
<1>6. CASE Len(s) > 2
  <2>1. Tail(s)[Len(s) - 2] = s[Len(s) - 1]  BY <1>2, <1>6
  <2>2. \A i \in 1..(Len(s) - 3) : Tail(s)[i].kind \in K  BY <1>2, <1>6 DEF EndsInTwo
  <2>3. Head(s).kind \in K  BY <1>2, <1>6 DEF EndsInTwo
  <2>4. Len(Tail(s)) >= 2 /\ Len(Tail(s)) - 1 = Len(s) - 2 /\ Len(Tail(s)) - 2 = Len(s) - 3
    BY <1>2, <1>6
  <2>5. Holds(Tail(s)[Len(Tail(s))], kind, body)  BY <1>2, <1>3, <1>4
  <2>6. EndsInTwo(Tail(s), K, first, kind, body)
    BY <1>2, <1>4, <2>1, <2>2, <2>4, <2>5 DEF EndsInTwo
  <2> QED  BY <1>1, <2>3, <2>6
<1>7. Len(s) = 2 \/ Len(s) > 2
  <2>1. Len(s) \in Nat /\ Len(s) >= 2  BY <1>2
  <2> QED  BY <2>1
<1> QED  BY <1>5, <1>6, <1>7

\* An item becomes another that is as good.
LEMMA DamagePreserves ==
    ASSUME NEW s, NEW K, NEW first, NEW kind, NEW body, NEW k \in 1..Len(s), NEW y,
           s[k].kind \in K => y.kind \in K,
           s[k].kind = first => y.kind = first,
           Holds(s[k], kind, body) => Holds(y, kind, body)
    PROVE  /\ All(s, K) => All([s EXCEPT ![k] = y], K)
           /\ EndsIn(s, K, kind, body) => EndsIn([s EXCEPT ![k] = y], K, kind, body)
           /\ EndsInTwo(s, K, first, kind, body) =>
                  EndsInTwo([s EXCEPT ![k] = y], K, first, kind, body)
<1> DEFINE t == [s EXCEPT ![k] = y]
<1>1. ASSUME IsSeq(s)
      PROVE  /\ IsSeq(t) /\ Len(s) \in Nat /\ Len(t) = Len(s) /\ t[k] = y
             /\ \A i \in 1..Len(s) : i # k => t[i] = s[i]
  BY <1>1, ExceptAny
<1> HIDE DEF t
<1>2. All(s, K) => All(t, K)  BY <1>1 DEF All
<1>3. EndsIn(s, K, kind, body) => EndsIn(t, K, kind, body)  BY <1>1 DEF EndsIn
<1>4. EndsInTwo(s, K, first, kind, body) => EndsInTwo(t, K, first, kind, body)
  BY <1>1 DEF EndsInTwo
<1> QED  BY <1>2, <1>3, <1>4 DEF t

--------------------------------------------------------------------------------
(* Where a packet may be, from one side to the other. *)

Signals == {"ack", "nak"}

Old == {"answer"}

Idle ==
    /\ debugger = "idle" /\ process = "runs"
    /\ serving = None /\ request = None
    /\ All(in, Signals) /\ All(out, Old)

Gone ==
    /\ debugger = "gone"
    /\ serving = None \/ Kills(serving)
    /\ \/ All(in, Signals)
       \/ \E k : Kills(k) /\ EndsIn(in, Signals, "packet", k)

Waiting == request \in Requests /\ ~ Kills(request)

\* Sent, or sent again, and not taken by the scanner.
Sent ==
    /\ Waiting /\ debugger = "wait_ack" /\ process = "runs" /\ ~ executed
    /\ serving = None
    /\ EndsIn(in, Signals, "packet", request) /\ All(out, Old)

Rejected ==
    /\ Waiting /\ debugger = "wait_ack" /\ process = "runs" /\ ~ executed
    /\ serving = None
    /\ in = <<>> /\ EndsIn(out, Old, "nak", None)

BeingServed == serving = request /\ ~ executed /\ (process = "runs" \/ Aborts(request))

Accepted ==
    /\ Waiting /\ debugger = "wait_ack" /\ BeingServed
    /\ in = <<>> /\ EndsIn(out, Old, "ack", None)

\* The debugger has the acknowledgement and no answer.
Awaited ==
    /\ Waiting /\ debugger = "wait_answer" /\ BeingServed
    /\ in = <<>> /\ out = <<>>

Executed == process = "runs" /\ executed /\ serving = None /\ packet # None

Done ==
    /\ Waiting /\ debugger = "wait_ack" /\ Executed
    /\ in = <<>> /\ EndsInTwo(out, Old, "ack", "answer", packet)

Due ==
    /\ Waiting /\ debugger = "wait_answer" /\ Executed
    /\ in = <<>> /\ EndsIn(out, Alone, "answer", packet)

AskedAgain ==
    /\ Waiting /\ debugger = "wait_answer" /\ Executed
    /\ EndsIn(in, Alone, "nak", None) /\ out = <<>>

Shape == \/ Idle \/ Gone \/ Sent \/ Rejected \/ Accepted \/ Awaited \/ Done \/ Due \/ AskedAgain

Good ==
    /\ garbage = FALSE
    /\ debugger # "gone" => writable = TRUE
    /\ Shape

IInv == garbled \/ Good

--------------------------------------------------------------------------------
(* Every step keeps the invariant and the promise. *)

Keeps == Promise!SessionNext \/ UNCHANGED Promise!session

LEMMA Unnoticed ==
    UNCHANGED <<machine, packet, request, got, process, debugger, executed>> => Keeps
BY DEF Keeps, Promise!session, Phase

LEMMA NothingReported ==
    ASSUME garbage = FALSE, NEW x
    PROVE  Report = <<>> /\ Report \o <<x>> = <<x>> /\ Report \o <<>> = <<>>
BY OneAny, EmptyAny, LengthAny DEF Report

LEMMA WritesNothing == ASSUME NEW K, All(out, K) PROVE out \o <<>> = out
BY LengthAny DEF All

LEMMA TakeAckKeeps == ASSUME Good, TakeAck PROVE Good' /\ Keeps
<1>1. /\ process = "runs" /\ serving = None /\ Head(in).kind = "ack"
      /\ in # <<>> /\ in' = Tail(in) /\ out' = out \o <<>> /\ garbage' = FALSE
      /\ UNCHANGED <<machine, packet, serving, writable, process, client, executed>>
  BY NothingReported DEF TakeAck, Take, Scanning, Good
<1>2. UNCHANGED <<debugger, request, got>>  BY <1>1 DEF client
<1>3. Keeps  BY <1>1, <1>2, Unnoticed
<1> SUFFICES Good'  BY <1>3
<1>4. CASE Idle
  <2>1. All(in', Signals) /\ All(out', Old)
    BY <1>1, <1>4, AllTail, WritesNothing DEF Idle
  <2> QED  BY <1>1, <1>2, <1>4, <2>1 DEF Idle, Good, Shape
<1>5. CASE Gone
  <2>1. \/ All(in', Signals) 
        \/ \E k : Kills(k) /\ EndsIn(in', Signals, "packet", k)
    BY <1>1, <1>5, AllTail, EndsTail DEF Gone, Holds
  <2> QED  BY <1>1, <1>2, <1>5, <2>1 DEF Gone, Good, Shape
<1>6. CASE Sent
  <2>1. EndsIn(in', Signals, "packet", request) /\ All(out', Old)
    BY <1>1, <1>6, EndsTail, WritesNothing DEF Sent, Holds
  <2> QED  BY <1>1, <1>2, <1>6, <2>1 DEF Sent, Waiting, Good, Shape
<1>7. ~ AskedAgain
  <2>1. EndsIn(in, Alone, "nak", None) => Head(in).kind = "nak"  BY EndsAlone DEF Holds
  <2> QED  BY <1>1, <2>1 DEF AskedAgain
<1> QED
  BY <1>1, <1>3, <1>4, <1>5, <1>6, <1>7
  DEF Good, Shape, Rejected, Accepted, Awaited, Done, Due

LEMMA TakeNakKeeps == ASSUME Good, TakeNak PROVE Good' /\ Keeps
<1> DEFINE again == Item("answer", packet)
<1>1. /\ process = "runs" /\ serving = None /\ Head(in).kind = "nak"
      /\ in # <<>> /\ in' = Tail(in) /\ garbage' = FALSE
      /\ UNCHANGED <<machine, packet, serving, writable, process, client, executed>>
  BY DEF TakeNak, Take, Scanning
<1>2. UNCHANGED <<debugger, request, got>>  BY <1>1 DEF client
<1>3. Keeps  BY <1>1, <1>2, Unnoticed
<1> SUFFICES Good'  BY <1>3
<1>4. \/ packet = None /\ out' = out \o <<>>
      \/ packet # None /\ out' = out \o <<again>>
  BY NothingReported DEF TakeNak, Take, Good, Again
<1>5. again.kind = "answer" /\ again.body = packet  BY DEF Item
<1> HIDE DEF again
<1>6. All(out, Old) => All(out', Old)  BY <1>4, <1>5, AllAppend, WritesNothing DEF Old
<1>7. CASE Idle
  <2>1. All(in', Signals)  BY <1>1, <1>7, AllTail DEF Idle
  <2> QED  BY <1>1, <1>2, <1>6, <1>7, <2>1 DEF Idle, Good, Shape
<1>8. CASE Gone
  <2>1. \/ All(in', Signals)
        \/ \E k : Kills(k) /\ EndsIn(in', Signals, "packet", k)
    BY <1>1, <1>8, AllTail, EndsTail DEF Gone, Holds
  <2> QED  BY <1>1, <1>2, <1>8, <2>1 DEF Gone, Good, Shape
<1>9. CASE Sent
  <2>1. EndsIn(in', Signals, "packet", request)
    BY <1>1, <1>9, EndsTail DEF Sent, Holds
  <2> QED  BY <1>1, <1>2, <1>6, <1>9, <2>1 DEF Sent, Waiting, Good, Shape
<1>10. CASE AskedAgain
  <2>1. in' = <<>>  BY <1>1, <1>10, EndsAlone DEF AskedAgain
  <2>2. out' = <<again>>  BY <1>4, <1>10, OneAny DEF AskedAgain, Executed
  <2>3. EndsIn(out', Alone, "answer", packet)  BY <1>5, <2>2, EndsOne DEF Holds
  <2> QED  BY <1>1, <1>2, <1>10, <2>1, <2>3 DEF AskedAgain, Due, Executed, Waiting, Good, Shape
<1> QED
  BY <1>1, <1>7, <1>8, <1>9, <1>10 DEF Good, Shape, Rejected, Accepted, Awaited, Done, Due

LEMMA NotSignals == "packet" \notin Signals /\ "garbage" \notin Signals
BY DEF Signals

LEMMA NoGarbage == ASSUME Good, TakeGarbage PROVE FALSE
<1>1. serving = None /\ in # <<>> /\ Head(in).kind = "garbage"  BY DEF TakeGarbage, Scanning
<1>2. ASSUME NEW k, EndsIn(in, Signals, "packet", k) PROVE FALSE
  <2>1. Head(in).kind = "packet" \/ Head(in).kind \in Signals  BY <1>2, EndsTail DEF Holds
  <2> QED  BY <1>1, <2>1, NotSignals
<1>3. ~ All(in, Signals)  BY <1>1, NotSignals, AllTail
<1>4. ~ EndsIn(in, Alone, "nak", None)
  <2>1. EndsIn(in, Alone, "nak", None) => Head(in).kind = "nak"  BY EndsAlone DEF Holds
  <2> QED  BY <1>1, <2>1
<1> QED
  BY <1>1, <1>2, <1>3, <1>4
  DEF Good, Shape, Idle, Gone, Sent, Rejected, Accepted, Awaited, Done, Due, AskedAgain

LEMMA TakePacketKeeps == ASSUME Good, TakePacket PROVE Good' /\ Keeps
<1> DEFINE item == IF ChecksumIsGood THEN Plus ELSE Minus
<1>1. /\ process = "runs" /\ serving = None /\ Head(in).kind = "packet"
      /\ in # <<>> /\ in' = Tail(in) /\ garbage' = FALSE
      /\ out' = out \o <<item>>
      /\ serving' = IF Head(in).intact THEN Head(in).body ELSE None
      /\ UNCHANGED <<machine, packet, writable, process, client, executed>>
  BY NothingReported DEF TakePacket, Take, Scanning, Good, ChecksumIsGood
<1>2. UNCHANGED <<debugger, request, got>>  BY <1>1 DEF client
<1>3. Keeps  BY <1>1, <1>2, Unnoticed
<1> SUFFICES Good'  BY <1>3
<1>4. \/ Head(in).intact /\ item.kind = "ack" /\ item.body = None
      \/ ~ Head(in).intact /\ item.kind = "nak" /\ item.body = None
  BY DEF ChecksumIsGood, Plus, Minus, Item
<1> HIDE DEF item
<1>5. ~ Idle  BY <1>1, NotSignals, AllTail DEF Idle
<1>6. ~ AskedAgain
  <2>1. EndsIn(in, Alone, "nak", None) => Head(in).kind = "nak"  BY EndsAlone DEF Holds
  <2> QED  BY <1>1, <2>1 DEF AskedAgain
<1>7. CASE Gone
  <2>1. PICK k : Kills(k) /\ EndsIn(in, Signals, "packet", k)
    BY <1>1, <1>7, NotSignals, AllTail DEF Gone
  <2>2. Holds(Head(in), "packet", k) /\ in' = <<>>
    BY <1>1, <2>1, NotSignals, EndsTail DEF Holds
  <2>3. serving' = None \/ Kills(serving')  BY <1>1, <2>1, <2>2 DEF Holds
  <2> QED  BY <1>1, <1>2, <1>7, <2>2, <2>3, NothingCarried DEF Gone, Good, Shape
<1>8. CASE Sent
  <2>1. Holds(Head(in), "packet", request) /\ in' = <<>>
    BY <1>1, <1>8, NotSignals, EndsTail DEF Sent, Holds
  <2>2. CASE Head(in).intact
    <3>1. EndsIn(out', Old, "ack", None)
      BY <1>1, <1>4, <1>8, <2>2, AllAppend DEF Sent, Holds
    <3> QED
      BY <1>1, <1>2, <1>8, <2>1, <2>2, <3>1
      DEF Sent, Accepted, BeingServed, Waiting, Holds, Good, Shape
  <2>3. CASE ~ Head(in).intact
    <3>1. EndsIn(out', Old, "nak", None)
      BY <1>1, <1>4, <1>8, <2>3, AllAppend DEF Sent, Holds
    <3> QED
      BY <1>1, <1>2, <1>8, <2>1, <2>3, <3>1 DEF Sent, Rejected, Waiting, Good, Shape
  <2> QED  BY <2>2, <2>3
<1> QED
  BY <1>1, <1>5, <1>6, <1>7, <1>8 DEF Good, Shape, Rejected, Accepted, Awaited, Done, Due

LEMMA ServeKeeps == ASSUME Good, Serve PROVE Good' /\ Keeps
<1> DEFINE answer == Item("answer", packet')
<1>1. /\ process = "runs" /\ serving # None /\ Answers(serving)
      /\ machine' = Effect(machine, serving) /\ packet' = Reply(machine, serving)
      /\ out' = out \o <<answer>> /\ serving' = None /\ executed'
      /\ UNCHANGED <<garbage, writable, process, in>>
      /\ UNCHANGED <<debugger, request, got>>
  BY DEF Serve, Serving, client
<1>2. packet' # None  BY <1>1, ReplyIsThere
<1>3. Holds(answer, "answer", packet')  BY DEF Holds, Item
<1> HIDE DEF answer
<1>4. CASE Accepted
  <2>1. EndsInTwo(out', Old, "ack", "answer", packet')
    BY <1>1, <1>3, <1>4, EndsAppend DEF Accepted
  <2>2. Done'  BY <1>1, <1>2, <1>4, <2>1 DEF Accepted, Done, Waiting, Executed
  <2>3. Promise!Execute  BY <1>1, <1>4 DEF Promise!Execute, Accepted, BeingServed, Phase
  <2> QED  BY <1>1, <1>4, <2>2, <2>3 DEF Good, Shape, Keeps, Promise!SessionNext
<1>5. CASE Awaited
  <2>1. EndsIn(out', Alone, "answer", packet')
    BY <1>1, <1>3, <1>5, OneAny, EndsOne DEF Awaited
  <2>2. Due'  BY <1>1, <1>2, <1>5, <2>1 DEF Awaited, Due, Waiting, Executed
  <2>3. Promise!Execute  BY <1>1, <1>5 DEF Promise!Execute, Awaited, BeingServed, Phase
  <2> QED  BY <1>1, <1>5, <2>2, <2>3 DEF Good, Shape, Keeps, Promise!SessionNext
<1>6. ~ Gone  BY <1>1 DEF Gone, Answers
<1> QED
  BY <1>1, <1>4, <1>5, <1>6
  DEF Good, Shape, Idle, Sent, Rejected, Done, Due, AskedAgain, Executed

LEMMA ServeKillKeeps == ASSUME Good, ServeKill PROVE Good' /\ Keeps
<1>1. /\ serving # None /\ Kills(serving) /\ serving' = None
      /\ UNCHANGED <<machine, packet, garbage, process, in, executed>>
      /\ UNCHANGED <<debugger, request, got>>
  BY DEF ServeKill, Serving, client
<1>2. Keeps  BY <1>1, Unnoticed
<1>3. Gone
  BY <1>1
  DEF Good, Shape, Idle, Sent, Rejected, Accepted, Awaited, BeingServed, Waiting, Done, Due,
      AskedAgain, Executed
<1>4. Gone'  BY <1>1, <1>3 DEF Gone
<1> QED  BY <1>1, <1>2, <1>3, <1>4 DEF Good, Shape, Gone

\* A process that has ended, or that the debugger has left, makes no promise.
LEMMA EndKeeps ==
    ASSUME Good, Gone, UNCHANGED <<machine, packet, serving, garbage, client, in>>
    PROVE  Good' /\ Keeps
<1>1. UNCHANGED <<debugger, request, got>>  BY DEF client
<1>2. Keeps  BY <1>1 DEF Keeps, Promise!session, Phase, Gone
<1>3. Gone'  BY <1>1 DEF Gone
<1> QED  BY <1>1, <1>2, <1>3 DEF Good, Shape, Gone

LEMMA ServeAbortsKeeps == ASSUME Good, ServeAborts PROVE Good' /\ Keeps
<1>1. /\ process = "runs" /\ serving # None /\ Aborts(serving) /\ process' = "dead"
      /\ UNCHANGED <<machine, packet, serving, garbage, writable, client, in, out, executed>>
  BY DEF ServeAborts, Serving, Die
<1>2. UNCHANGED <<debugger, request, got>>  BY <1>1 DEF client
<1>3. CASE Gone  BY <1>1, <1>3, EndKeeps
<1>4. CASE Accepted \/ Awaited
  <2>1. Phase = "asked" /\ Phase' = "ended" /\ ~ Answers(request)
    BY <1>1, <1>4 DEF Accepted, Awaited, BeingServed, Phase, Answers
  <2>2. Promise!End  BY <1>1, <1>2, <2>1 DEF Promise!End
  <2>3. (Accepted \/ Awaited)'
    BY <1>1, <1>2, <1>4 DEF Accepted, Awaited, BeingServed, Waiting
  <2> QED  BY <1>1, <1>2, <1>4, <2>2, <2>3 DEF Good, Shape, Keeps, Promise!SessionNext
<1> QED
  BY <1>1, <1>3, <1>4 DEF Good, Shape, Idle, Sent, Rejected, Done, Due, AskedAgain, Executed

LEMMA WriteFailsKeeps == ASSUME Good, WriteFails PROVE Good' /\ Keeps
<1>1. MayFail /\ UNCHANGED <<machine, packet, serving, garbage, client, in>>
  BY DEF WriteFails, Die
<1>2. Gone
  BY <1>1
  DEF MayFail, Good, Shape, Idle, Sent, Rejected, Accepted, Awaited, Done, Due, AskedAgain
<1> QED  BY <1>1, <1>2, EndKeeps

LEMMA EndOfFileKeeps == ASSUME Good, EndOfFile PROVE Good' /\ Keeps
<1>1. debugger = "gone" /\ UNCHANGED <<machine, packet, serving, garbage, client, in>>
  BY DEF EndOfFile
<1>2. Gone
  BY <1>1 DEF Good, Shape, Idle, Sent, Rejected, Accepted, Awaited, Done, Due, AskedAgain
<1> QED  BY <1>1, <1>2, EndKeeps

LEMMA AskKeeps == ASSUME Good, Ask PROVE Good' /\ Keeps
<1>1. PICK r \in Requests :
         /\ debugger = "idle"
         /\ request' = IF Kills(r) THEN None ELSE r
         /\ in' = in \o <<Item("packet", r)>>
         /\ debugger' = IF Kills(r) THEN "gone" ELSE "wait_ack"
         /\ ~ executed'
         /\ UNCHANGED <<got, out, machine, packet, serving, garbage, writable, process>>
  BY DEF Ask, simulator
<1>2. Idle
  BY <1>1 DEF Good, Shape, Gone, Sent, Rejected, Accepted, Awaited, Done, Due, AskedAgain
<1>3. EndsIn(in', Signals, "packet", r)
  <2>1. Holds(Item("packet", r), "packet", r)  BY DEF Holds, Item
  <2> QED  BY <1>1, <1>2, <2>1, AllAppend DEF Idle
<1>4. CASE Kills(r)
  <2>1. Gone'  BY <1>1, <1>2, <1>3, <1>4 DEF Gone, Idle
  <2>2. Promise!End  BY <1>1, <1>2, <1>4 DEF Promise!End, Idle, Phase
  <2> QED  BY <1>1, <2>1, <2>2 DEF Good, Shape, Gone, Keeps, Promise!SessionNext
<1>5. CASE ~ Kills(r)
  <2>1. Sent'  BY <1>1, <1>2, <1>3, <1>5 DEF Sent, Idle, Waiting
  <2>2. Promise!Ask  BY <1>1, <1>2, <1>5 DEF Promise!Ask, Idle, Phase
  <2> QED  BY <1>1, <2>1, <2>2 DEF Good, Shape, Keeps, Promise!SessionNext
<1> QED  BY <1>4, <1>5

LEMMA GetAckKeeps == ASSUME Good, GetAck PROVE Good' /\ Keeps
<1>1. /\ debugger = "wait_ack" /\ debugger' = "wait_answer"
      /\ out # <<>> /\ Head(out).kind = "ack" /\ out' = Tail(out)
      /\ UNCHANGED <<machine, packet, serving, garbage, writable, process, request, got, in,
                     executed>>
  BY DEF GetAck, Hears, simulator
<1>2. Keeps  BY <1>1 DEF Keeps, Promise!session, Phase
<1> SUFFICES Good'  BY <1>2
<1>3. "ack" \notin Old  BY DEF Old
<1>4. ~ All(out, Old)  BY <1>1, <1>3, AllTail
<1>5. ~ EndsIn(out, Old, "nak", None)
  <2>1. EndsIn(out, Old, "nak", None) => Head(out).kind = "nak" \/ Head(out).kind \in Old
    BY EndsTail DEF Holds
  <2> QED  BY <1>1, <1>3, <2>1
<1>6. CASE Accepted
  <2>1. out' = <<>>  BY <1>1, <1>3, <1>6, EndsTail DEF Accepted
  <2> QED  BY <1>1, <1>6, <2>1 DEF Accepted, Awaited, BeingServed, Waiting, Good, Shape
<1>7. CASE Done
  <2>1. EndsIn(out', Alone, "answer", packet)  BY <1>1, <1>3, <1>7, TwoTail DEF Done
  <2> QED  BY <1>1, <1>7, <2>1 DEF Done, Due, Executed, Waiting, Good, Shape
<1> QED
  BY <1>1, <1>4, <1>5, <1>6, <1>7
  DEF Good, Shape, Idle, Gone, Sent, Rejected, Awaited, Due, AskedAgain

LEMMA GetNakKeeps == ASSUME Good, GetNak PROVE Good' /\ Keeps
<1>1. /\ debugger = "wait_ack"
      /\ out # <<>> /\ Head(out).kind = "nak" /\ out' = Tail(out)
      /\ in' = in \o <<Item("packet", request)>>
      /\ UNCHANGED <<machine, packet, serving, garbage, writable, process, debugger, request, got,
                     executed>>
  BY DEF GetNak, Hears, simulator, client
<1>2. Keeps  BY <1>1, Unnoticed
<1> SUFFICES Good'  BY <1>2
<1>3. "nak" \notin Old  BY DEF Old
<1>4. ~ All(out, Old)  BY <1>1, <1>3, AllTail
<1>5. ~ EndsIn(out, Old, "ack", None)
  <2>1. EndsIn(out, Old, "ack", None) => Head(out).kind = "ack" \/ Head(out).kind \in Old
    BY EndsTail DEF Holds
  <2> QED  BY <1>1, <1>3, <2>1
<1>6. ~ Done
  <2>1. Done => Head(out).kind = "ack" \/ Head(out).kind \in Old  BY TwoTail DEF Done
  <2> QED  BY <1>1, <1>3, <2>1
<1>7. CASE Rejected
  <2>1. out' = <<>>  BY <1>1, <1>3, <1>7, EndsTail DEF Rejected
  <2>2. in' = <<Item("packet", request)>>  BY <1>1, <1>7, OneAny DEF Rejected
  <2>3. Holds(Item("packet", request), "packet", request)  BY DEF Holds, Item
  <2>4. EndsIn(in', Signals, "packet", request)  BY <2>2, <2>3, EndsOne
  <2> QED  BY <1>1, <1>7, <2>1, <2>4, NothingCarried DEF Rejected, Sent, Waiting, Good, Shape
<1> QED
  BY <1>1, <1>4, <1>5, <1>6, <1>7
  DEF Good, Shape, Idle, Gone, Sent, Accepted, Awaited, Due, AskedAgain

LEMMA SkipKeeps == ASSUME Good, Skip PROVE Good' /\ Keeps
<1>1. /\ out # <<>> /\ out' = Tail(out)
      /\ \/ debugger = "wait_ack" /\ Head(out).kind = "answer"
         \/ debugger = "wait_answer" /\ Head(out).kind # "answer"
      /\ UNCHANGED <<machine, packet, serving, garbage, writable, process, debugger, request, got,
                     in, executed>>
  BY DEF Skip, Hears, simulator, client
<1>2. Keeps  BY <1>1, Unnoticed
<1> SUFFICES Good'  BY <1>2
<1>3. CASE Sent
  <2>1. All(out', Old)  BY <1>1, <1>3, AllTail DEF Sent
  <2> QED  BY <1>1, <1>3, <2>1 DEF Sent, Waiting, Good, Shape
<1>4. CASE Rejected
  <2>1. Head(out).kind # "nak"  BY <1>1, <1>4 DEF Rejected
  <2>2. EndsIn(out', Old, "nak", None)  BY <1>1, <1>4, <2>1, EndsTail DEF Rejected, Holds
  <2> QED  BY <1>1, <1>4, <2>2 DEF Rejected, Waiting, Good, Shape
<1>5. CASE Accepted
  <2>1. Head(out).kind # "ack"  BY <1>1, <1>5 DEF Accepted
  <2>2. EndsIn(out', Old, "ack", None)  BY <1>1, <1>5, <2>1, EndsTail DEF Accepted, Holds
  <2> QED  BY <1>1, <1>5, <2>2 DEF Accepted, BeingServed, Waiting, Good, Shape
<1>6. CASE Done
  <2>1. Head(out).kind # "ack"  BY <1>1, <1>6 DEF Done
  <2>2. EndsInTwo(out', Old, "ack", "answer", packet)  BY <1>1, <1>6, <2>1, TwoTail DEF Done
  <2> QED  BY <1>1, <1>6, <2>2 DEF Done, Executed, Waiting, Good, Shape
<1>7. ~ Due
  <2>1. EndsIn(out, Alone, "answer", packet) => Head(out).kind = "answer"
    BY EndsAlone DEF Holds
  <2> QED  BY <1>1, <2>1 DEF Due
<1> QED
  BY <1>1, <1>3, <1>4, <1>5, <1>6, <1>7 DEF Good, Shape, Idle, Gone, Awaited, AskedAgain

LEMMA GetAnswerKeeps == ASSUME Good, GetAnswer PROVE Good' /\ Keeps
<1>1. /\ debugger = "wait_answer" /\ debugger' = "idle"
      /\ out # <<>> /\ Head(out).intact /\ out' = Tail(out)
      /\ got' = Head(out).body /\ request' = None /\ in' = in \o <<Plus>>
      /\ UNCHANGED <<machine, packet, serving, garbage, writable, process, executed>>
  BY DEF GetAnswer, Hears, simulator
<1>2. Due
  BY <1>1 DEF Good, Shape, Idle, Gone, Sent, Rejected, Accepted, Awaited, Done, AskedAgain
<1>3. Head(out).body = packet /\ out' = <<>>  BY <1>1, <1>2, EndsAlone DEF Due, Holds
<1>4. Promise!Learn  BY <1>1, <1>2, <1>3 DEF Promise!Learn, Due, Executed, Phase, None, Promise!None
<1>5. Plus.kind \in Signals  BY DEF Plus, Item, Signals
<1>6. All(in', Signals)  BY <1>1, <1>2, <1>5, NothingCarried, AllAppend DEF Due
<1>7. Idle'  BY <1>1, <1>2, <1>3, <1>6, NothingCarried DEF Due, Executed, Idle
<1> QED  BY <1>1, <1>4, <1>7 DEF Good, Shape, Idle, Keeps, Promise!SessionNext

LEMMA GetBadAnswerKeeps == ASSUME Good, GetBadAnswer PROVE Good' /\ Keeps
<1>1. /\ debugger = "wait_answer"
      /\ out # <<>> /\ out' = Tail(out) /\ in' = in \o <<Minus>>
      /\ UNCHANGED <<machine, packet, serving, garbage, writable, process, debugger, request, got,
                     executed>>
  BY DEF GetBadAnswer, Hears, simulator, client
<1>2. Due
  BY <1>1 DEF Good, Shape, Idle, Gone, Sent, Rejected, Accepted, Awaited, Done, AskedAgain
<1>3. Keeps  BY <1>1, Unnoticed
<1>4. out' = <<>>  BY <1>1, <1>2, EndsAlone DEF Due
<1>5. Holds(Minus, "nak", None)  BY DEF Holds, Minus, Item
<1>6. EndsIn(in', Alone, "nak", None)  BY <1>1, <1>2, <1>5, OneAny, EndsOne DEF Due
<1>7. AskedAgain'  BY <1>1, <1>2, <1>4, <1>6 DEF Due, AskedAgain, Executed, Waiting
<1> QED  BY <1>1, <1>3, <1>7 DEF Good, Shape

LEMMA LeaveKeeps == ASSUME Good, Leave PROVE Good' /\ Keeps
<1>1. /\ debugger = "idle" /\ debugger' = "gone"
      /\ UNCHANGED <<machine, packet, serving, garbage, writable, process, request, got, in,
                     executed>>
  BY DEF Leave, simulator
<1>2. Idle
  BY <1>1 DEF Good, Shape, Gone, Sent, Rejected, Accepted, Awaited, Done, Due, AskedAgain
<1>3. Promise!End  BY <1>1, <1>2 DEF Promise!End, Idle, Phase
<1>4. Gone'  BY <1>1, <1>2 DEF Gone, Idle
<1> QED  BY <1>1, <1>3, <1>4 DEF Good, Shape, Gone, Keeps, Promise!SessionNext

LEMMA DamageInKeeps ==
    ASSUME Good, DamageIn, process = "runs",
           UNCHANGED <<simulator, client, executed>>
    PROVE  Good' /\ Keeps
<1>1. PICK i \in 1..Len(in) :
         in[i].kind \in {"ack", "packet"} /\ in' = [in EXCEPT ![i] = Damaged(in[i])]
  BY DEF DamageIn
<1>2. /\ UNCHANGED <<machine, packet, serving, garbage, writable, process, debugger, request, got,
                     executed, out>>
  BY DEF DamageIn, simulator, client
<1>3. Keeps  BY <1>2, Unnoticed
<1> SUFFICES Good'  BY <1>3
<1> DEFINE y == Damaged(in[i])
<1>4. /\ in[i].kind = "ack" => y.kind = "nak"
      /\ in[i].kind = "packet" => y.kind = "packet" /\ ~ y.intact
  BY DEF Damaged, Minus, Item
<1> HIDE DEF y
<1>5. /\ in[i].kind \in Signals => y.kind \in Signals
      /\ \A body : Holds(in[i], "packet", body) => Holds(y, "packet", body)
  BY <1>1, <1>4 DEF Signals, Holds
<1>6. All(in, Signals) => All(in', Signals)
  BY <1>1, <1>5, DamagePreserves DEF y
<1>7. ASSUME NEW body, EndsIn(in, Signals, "packet", body)
      PROVE  EndsIn(in', Signals, "packet", body)
  BY <1>1, <1>5, <1>7, DamagePreserves DEF y
<1>8. ~ AskedAgain
  <2> SUFFICES ASSUME EndsIn(in, Alone, "nak", None) PROVE FALSE  BY DEF AskedAgain
  <2>1. Len(in) = 1 /\ in[1].kind = "nak"  BY AloneIsOne
  <2> QED  BY <1>1, <2>1
<1>9. in # <<>>  BY <1>1, EmptyAny
<1>10. CASE Idle  BY <1>2, <1>6, <1>10 DEF Idle, Good, Shape
<1>11. CASE Gone  BY <1>2, <1>6, <1>7, <1>11 DEF Gone, Good, Shape
<1>12. CASE Sent  BY <1>2, <1>7, <1>12 DEF Sent, Waiting, Good, Shape
<1> QED
  BY <1>8, <1>9, <1>10, <1>11, <1>12
  DEF Good, Shape, Rejected, Accepted, Awaited, Done, Due

LEMMA DamageOutKeeps ==
    ASSUME Good, DamageOut, process = "runs",
           UNCHANGED <<simulator, client, executed>>
    PROVE  Good' /\ Keeps
<1>1. PICK i \in 1..Len(out) :
         out[i].kind = "answer" /\ out' = [out EXCEPT ![i] = Damaged(out[i])]
  BY DEF DamageOut
<1>2. /\ UNCHANGED <<machine, packet, serving, garbage, writable, process, debugger, request, got,
                     executed, in>>
  BY DEF DamageOut, simulator, client
<1>3. Keeps  BY <1>2, Unnoticed
<1> SUFFICES Good'  BY <1>3
<1> DEFINE y == Damaged(out[i])
<1>4. y.kind = "answer" /\ ~ y.intact  BY <1>1 DEF Damaged
<1> HIDE DEF y
<1>5. ASSUME NEW K, NEW first, NEW kind, NEW body
      PROVE  /\ out[i].kind \in K => y.kind \in K
             /\ out[i].kind = first => y.kind = first
             /\ Holds(out[i], kind, body) => Holds(y, kind, body)
  BY <1>1, <1>4 DEF Holds
<1>6. ASSUME NEW K, NEW first, NEW kind, NEW body
      PROVE  /\ All(out, K) => All(out', K)
             /\ EndsIn(out, K, kind, body) => EndsIn(out', K, kind, body)
             /\ EndsInTwo(out, K, first, kind, body) => EndsInTwo(out', K, first, kind, body)
  <2>1. /\ out[i].kind \in K => y.kind \in K
        /\ out[i].kind = first => y.kind = first
        /\ Holds(out[i], kind, body) => Holds(y, kind, body)
    BY <1>5
  <2> QED  BY <1>1, <2>1, DamagePreserves DEF y
<1>7. out # <<>>  BY <1>1, EmptyAny
<1>8. CASE Idle  BY <1>2, <1>6, <1>8 DEF Idle, Good, Shape
<1>9. CASE Gone  BY <1>2, <1>9 DEF Gone, Good, Shape
<1>10. CASE Sent  BY <1>2, <1>6, <1>10 DEF Sent, Waiting, Good, Shape
<1>11. CASE Rejected  BY <1>2, <1>6, <1>11 DEF Rejected, Waiting, Good, Shape
<1>12. CASE Accepted  BY <1>2, <1>6, <1>12 DEF Accepted, BeingServed, Waiting, Good, Shape
<1>13. CASE Done  BY <1>2, <1>6, <1>13 DEF Done, Executed, Waiting, Good, Shape
<1>14. CASE Due  BY <1>2, <1>6, <1>14 DEF Due, Executed, Waiting, Good, Shape
<1> QED
  BY <1>7, <1>8, <1>9, <1>10, <1>11, <1>12, <1>13, <1>14 DEF Good, Shape, Awaited, AskedAgain

LEMMA FaultKeeps == ASSUME Good, Fault PROVE garbled' \/ (Good' /\ Keeps)
BY DamageInKeeps, DamageOutKeeps DEF Fault, Insert

LEMMA StepKeeps == ASSUME Good, [Next]_vars PROVE garbled' \/ (Good' /\ Keeps)
<1>1. CASE SimulatorStep
  BY <1>1, TakeAckKeeps, TakeNakKeeps, NoGarbage, TakePacketKeeps, ServeKeeps, ServeKillKeeps,
     ServeAbortsKeeps, WriteFailsKeeps, EndOfFileKeeps
  DEF SimulatorStep
<1>2. CASE Listens
  BY <1>2, GetAckKeeps, GetNakKeeps, SkipKeeps, GetAnswerKeeps, GetBadAnswerKeeps DEF Listens
<1>3. CASE UNCHANGED vars
  <2>1. UNCHANGED <<machine, packet, serving, garbage, writable, process, debugger, request, got,
                    in, out, executed>>
    BY <1>3 DEF vars, simulator, client
  <2>2. Keeps  BY <2>1, Unnoticed
  <2>3. Good'
    BY <2>1
    DEF Good, Shape, Idle, Gone, Sent, Rejected, Accepted, Awaited, Done, Due, AskedAgain,
        BeingServed, Executed, Waiting
  <2> QED  BY <2>2, <2>3
<1> QED  BY <1>1, <1>2, <1>3, AskKeeps, LeaveKeeps, FaultKeeps DEF Next

LEMMA GarbledForEver == garbled /\ [Next]_vars => garbled'
BY DEF Next, SimulatorStep, Listens, TakeAck, TakeNak, TakeGarbage, TakePacket, Serve, ServeKill,
       ServeAborts, WriteFails, Die, EndOfFile, Ask, GetAck, GetNak, Skip, GetAnswer, GetBadAnswer,
       Leave, Fault, DamageIn, DamageOut, Insert, vars

--------------------------------------------------------------------------------
LEMMA InitGood == Init => Good /\ Promise!SessionInit
<1> SUFFICES ASSUME Init PROVE Good /\ Promise!SessionInit  OBVIOUS
<1>1. Idle  BY NothingCarried DEF Init, Idle
<1>2. Promise!SessionInit  BY DEF Init, Promise!SessionInit, Phase, None, Promise!None
<1> QED  BY <1>1, <1>2 DEF Init, Good, Shape

\* As long as no garbage has been inserted, the packet the debugger waits for is in one
\* place: on its way, in its handler, refused, or answered.
THEOREM AlwaysIInv == Spec => []IInv
<1>1. Init => IInv  BY InitGood DEF IInv
<1>2. IInv /\ [Next]_vars => IInv'  BY StepKeeps, GarbledForEver DEF IInv
<1> QED  BY <1>1, <1>2, PTL DEF Spec

\* The dialogue implements Session, for any packets, program and machine, any number of
\* packets and any number of faults: gdb_packet_analysis and gdb_transmit_packet execute
\* each packet once and give its answer, whatever is damaged.
THEOREM Implementation == Spec => ImplementsSession
<1>1. Init => Promise!SessionInit  BY InitGood
<1>2. IInv /\ [Next]_vars => [Promise!SessionNext \/ garbled']_(Promise!session)
  BY StepKeeps, GarbledForEver DEF IInv, Keeps
<1> QED  BY <1>1, <1>2, AlwaysIInv, PTL DEF Spec, ImplementsSession

--------------------------------------------------------------------------------
(* What the debugger was told.                                             *)


MachineOK(m) ==
    /\ m = [f |-> m.f, mem |-> m.mem, exception |-> m.exception, breakpoints |-> m.breakpoints]
    /\ m.f = [s \in Slots |-> m.f[s]]
    /\ m.mem = [c \in Cells |-> m.mem[c]]

KnowledgeOK(t) ==
    /\ t = [reg |-> t.reg, mem |-> t.mem, stop |-> t.stop, breakpoints |-> t.breakpoints]
    /\ t.reg = [n \in 0..CPSR |-> t.reg[n]]
    /\ t.mem = [c \in Cells |-> t.mem[c]]

\* Knowledge t is true of machine m, but for the breakpoints.
Agree(t, m) ==
    /\ t.stop \in {None, StopReason(m.exception)}
    /\ \A c \in Cells : t.mem[c] \in {Unknown, m.mem[c]}
    /\ \A n \in Reg : t.reg[n] \in {Unknown, Register(m, n)}
    /\ t.reg[CPSR] \in {Unknown, registers_read_cpsr(m.f)}

\* Knowledge t says nothing of what packet r may change.
Doubted(t, r) ==
    /\ r[1] \in {"s", "S", "c", "C"} =>
           t.stop = None /\ (\A c \in Cells : t.mem[c] = Unknown)
    /\ r[1] \in {"s", "S", "c", "C", "G"} => \A n \in 0..CPSR : t.reg[n] = Unknown
    /\ r[1] = "P" => t.reg[r[2] % 16] = Unknown
    /\ r[1] = "X" => \A c \in Written(r) : t.mem[c] = Unknown

--------------------------------------------------------------------------------
(* The registers of one mode have slots of their own. *)

LEMMA SlotInMode ==
    ASSUME NEW mode
    PROVE  /\ \A n \in Reg : Slot(n, mode) \in 0..30
           /\ \A n, k \in Reg : Slot(n, mode) = Slot(k, mode) => n = k
           /\ \A n \in Shared : Slot(n, mode) = n
BY DEF Slot, BankOffset, USR, FIQ, IRQ, SVC, ABT, UND, Reg, Shared

LEMMA WithRegisterReads ==
    ASSUME NEW m, MachineOK(m), NEW k \in Reg, NEW v
    PROVE  LET after == WithRegister(m, k, v) IN
           /\ MachineOK(after)
           /\ after.mem = m.mem /\ after.exception = m.exception /\ after.breakpoints = m.breakpoints
           /\ registers_read_cpsr(after.f) = registers_read_cpsr(m.f)
           /\ Register(after, k) = v
           /\ \A n \in Reg : n # k => Register(after, n) = Register(m, n)
<1> DEFINE slot == Slot(k, Mode(m))
           after == WithRegister(m, k, v)
<1>1. slot \in 0..30 /\ slot \in Slots /\ CpsrSlot \in Slots /\ slot # CpsrSlot
  BY SlotInMode DEF Slots, CpsrSlot
<1>2. after.f = [m.f EXCEPT ![slot] = v]
  BY DEF WithRegister, registers_write, MachineOK
<1>3. MachineOK(after) /\ after.mem = m.mem /\ after.exception = m.exception
      /\ after.breakpoints = m.breakpoints
  BY <1>2 DEF WithRegister, registers_write, MachineOK
<1>4. after.f[slot] = v /\ \A s \in Slots : s # slot => after.f[s] = m.f[s]
  BY <1>1, <1>2 DEF MachineOK
<1> HIDE DEF after
<1>5. after.f[CpsrSlot] = m.f[CpsrSlot]  BY <1>1, <1>4
<1>6. Mode(after) = Mode(m)  BY <1>5 DEF Mode, registers_get_mode
<1>7. \A n \in Reg : n # k => Slot(n, Mode(m)) \in Slots /\ Slot(n, Mode(m)) # slot
  BY SlotInMode DEF Slots
<1> QED
  BY <1>3, <1>4, <1>5, <1>6, <1>7 DEF Register, registers_read, registers_read_cpsr, after

LEMMA WithGeneralRegistersReads ==
    ASSUME NEW m, MachineOK(m), NEW values, NEW cpsr
    PROVE  LET after == WithGeneralRegisters(m, values, cpsr) IN
           /\ MachineOK(after)
           /\ after.mem = m.mem /\ after.exception = m.exception /\ after.breakpoints = m.breakpoints
           /\ registers_read_cpsr(after.f) = cpsr
           /\ \A n \in Shared : Register(after, n) = values[n]
<1> DEFINE after == WithGeneralRegisters(m, values, cpsr)
           written == [s \in Slots |->
                          IF \E n \in Reg : Slot(n, Mode(m)) = s
                          THEN values[CHOOSE n \in Reg : Slot(n, Mode(m)) = s]
                          ELSE m.f[s]]
<1>1. after.f = [written EXCEPT ![CpsrSlot] = cpsr]
  BY DEF WithGeneralRegisters, registers_write_cpsr, MachineOK
<1>2. after.mem = m.mem /\ after.exception = m.exception /\ after.breakpoints = m.breakpoints
      /\ after = [f |-> after.f, mem |-> after.mem, exception |-> after.exception,
                  breakpoints |-> after.breakpoints]
  BY DEF WithGeneralRegisters, MachineOK
<1>3. \A n \in Shared : n \in Reg /\ n \in Slots /\ n # CpsrSlot
  BY DEF Shared, Reg, Slots, CpsrSlot
<1>4. \A n \in Shared : written[n] = values[n]
  <2> SUFFICES ASSUME NEW n \in Shared PROVE written[n] = values[n]  OBVIOUS
  <2>1. n \in Reg /\ Slot(n, Mode(m)) = n  BY <1>3, SlotInMode
  <2>2. (CHOOSE k \in Reg : Slot(k, Mode(m)) = n) = n  BY <2>1, SlotInMode
  <2> QED  BY <1>3, <2>1, <2>2
<1>5. written = [s \in Slots |-> written[s]] /\ CpsrSlot \in Slots  BY DEF Slots, CpsrSlot
<1> HIDE DEF after, written
<1>6. after.f = [s \in Slots |-> after.f[s]] /\ after.f[CpsrSlot] = cpsr
      /\ \A n \in Shared : after.f[n] = values[n]
  BY <1>1, <1>3, <1>4, <1>5
<1>7. \A n \in Shared : Register(after, n) = after.f[n]
  BY SlotInMode DEF Register, registers_read
<1> QED
  BY <1>2, <1>6, <1>7 DEF MachineOK, registers_read_cpsr, after

--------------------------------------------------------------------------------
(* The packets, one by one. *)

Runs == {"s", "S", "c", "C"}

LEMMA DoubtCases ==
    ASSUME NEW r
    PROVE  /\ r[1] \in Runs => Doubt(r) = [KnowsNothing EXCEPT !.breakpoints = told.breakpoints]
           /\ r[1] = "G" => Doubt(r) = [told EXCEPT !.reg = KnowsNothing.reg]
           /\ r[1] = "P" => Doubt(r) = [told EXCEPT !.reg[r[2] % 16] = Unknown]
           /\ r[1] = "X" =>
                  Doubt(r) = [told EXCEPT !.mem = [c \in Cells |->
                                  IF c \in Written(r) THEN Unknown ELSE @[c]]]
           /\ r[1] \notin Runs \cup {"G", "P", "X"} => Doubt(r) = told
<1>1. r[1] \in Runs => Doubt(r) = [KnowsNothing EXCEPT !.breakpoints = told.breakpoints]
  BY DEF Doubt, Runs
<1>2. r[1] = "G" => Doubt(r) = [told EXCEPT !.reg = KnowsNothing.reg]
  BY DEF Doubt
<1>3. r[1] = "P" => Doubt(r) = [told EXCEPT !.reg[r[2] % 16] = Unknown]
  BY DEF Doubt
<1>4. r[1] = "X" => Doubt(r) = [told EXCEPT !.mem = [c \in Cells |->
                                    IF c \in Written(r) THEN Unknown ELSE @[c]]]
  BY DEF Doubt
<1>5. r[1] \notin Runs \cup {"G", "P", "X"} => Doubt(r) = told
  BY DEF Doubt, Runs
<1> QED  BY <1>1, <1>2, <1>3, <1>4, <1>5

LEMMA EffectCases ==
    ASSUME NEW m, NEW r
    PROVE  /\ r[1] \in {"s", "S"} => Effect(m, r) = SingleStep(m)
           /\ r[1] \in {"c", "C"} => Effect(m, r) = Continued(m)
           /\ r[1] = "G" => Effect(m, r) = WithGeneralRegisters(m, r[2], r[3])
           /\ r[1] = "P" => Effect(m, r) = WithRegister(m, r[2], r[3])
           /\ r[1] = "X" => Effect(m, r) = WriteMemory(m, r[2], Decoded[r[3]])
           /\ r[1] = "Z" => Effect(m, r) = WithBreakpoint(m, r[2], r[3])
           /\ r[1] = "z" => Effect(m, r) = WithoutBreakpoint(m, r[2], r[3])
           /\ r[1] \notin Runs \cup {"G", "P", "X", "Z", "z"} => Effect(m, r) = m
BY DEF Effect, Runs

LEMMA ReplyCases ==
    ASSUME NEW m, NEW r
    PROVE  /\ r[1] \in Runs \cup {"?"} => Reply(m, r) = StopReason(Effect(m, r).exception)
           /\ r[1] = "g" => Reply(m, r) = GeneralRegisters(m)
           /\ r[1] = "p" => Reply(m, r) = <<"word", Register(m, Atoi(r[2]))>>
           /\ r[1] \in {"G", "P"} => Reply(m, r) = Text("OK")
           /\ r[1] = "m" => Reply(m, r) = ReadMemory(m, r[2], r[3])
           /\ r[1] = "X" => Reply(m, r) = WriteAnswer(r[2], Len(Decoded[r[3]]))
           /\ r[1] = "Z" => Reply(m, r) = SetAnswer(m, r[2])
           /\ r[1] = "z" => Reply(m, r) = RemoveAnswer(m, r[2], r[3])
BY DEF Reply, Runs

\* The letters whose answers the debugger learns from.
Learned == Runs \cup {"?", "g", "p", "P", "G", "m", "X", "Z", "z"}

LEMMA ToldCases ==
    ASSUME NEW a
    PROVE  /\ request[1] = "g" /\ a[1] = "registers" =>
                  Told(a) = [told EXCEPT !.reg = [n \in 0..CPSR |->
                                                     IF n = CPSR THEN a[3] ELSE a[2][n]]]
           /\ request[1] = "p" /\ a[1] = "word" =>
                  Told(a) = IF ReadWell(request[2])
                            THEN [told EXCEPT !.reg[request[2]] = a[2]] ELSE told
           /\ request[1] = "P" /\ a = Text("OK") =>
                  Told(a) = [told EXCEPT !.reg[request[2]] = request[3]]
           /\ request[1] = "G" /\ a = Text("OK") =>
                  Told(a) = [told EXCEPT !.reg = [n \in 0..CPSR |->
                                IF n = CPSR THEN request[3]
                                ELSE IF n \in Shared THEN request[2][n]
                                ELSE Unknown]]
           /\ request[1] = "m" =>
                  Told(a) = IF a[1] = "bytes"
                            THEN [told EXCEPT !.mem = [c \in Cells |->
                                     IF c - request[2] \in 0..(Len(a[2]) - 1)
                                     THEN a[2][c - request[2] + 1] ELSE @[c]]]
                            ELSE told
           /\ request[1] = "X" =>
                  Told(a) = IF a = Text("OK")
                            THEN [told EXCEPT !.mem = [c \in Cells |->
                                     IF c \in Written(request)
                                     THEN request[4][c - request[2] + 1] ELSE @[c]]]
                            ELSE told
           /\ request[1] = "Z" =>
                  Told(a) = IF a = Text("OK")
                            THEN [told EXCEPT !.breakpoints = @ \cup {request[3]}] ELSE told
           /\ request[1] = "z" =>
                  Told(a) = IF a = Text("OK")
                            THEN [told EXCEPT !.breakpoints = @ \ {request[3]}] ELSE told
           /\ request[1] \in Runs \cup {"?"} => Told(a) = [told EXCEPT !.stop = a]
           /\ request[1] \notin Learned => Told(a) = told
BY DEF Told, Runs, Learned

--------------------------------------------------------------------------------
(* Asking, executing and learning keep the knowledge true. *)

LEMMA DoubtAgrees ==
    ASSUME KnowledgeOK(told), NEW m, Agree(told, m), NEW r \in Requests
    PROVE  /\ KnowledgeOK(Doubt(r)) /\ Agree(Doubt(r), m) /\ Doubted(Doubt(r), r)
           /\ Doubt(r).breakpoints = told.breakpoints
<1> DEFINE t == Doubt(r)
<1>0. CPSR \in 0..CPSR /\ \A n \in Reg : n \in 0..CPSR  BY DEF Reg, CPSR
<1>1. CASE r[1] \in Runs
  <2>1. t = [reg |-> [n \in 0..CPSR |-> Unknown], mem |-> [c \in Cells |-> Unknown],
             stop |-> None, breakpoints |-> told.breakpoints]
    BY <1>1, DoubtCases DEF KnowsNothing
  <2> QED  BY <1>0, <1>1, <2>1 DEF KnowledgeOK, Agree, Doubted, Runs
<1>2. CASE r[1] = "G"
  <2>1. t = [told EXCEPT !.reg = [n \in 0..CPSR |-> Unknown]]
    BY <1>2, DoubtCases DEF KnowsNothing
  <2>2. t = [reg |-> [n \in 0..CPSR |-> Unknown], mem |-> told.mem, stop |-> told.stop,
             breakpoints |-> told.breakpoints]
    BY <2>1 DEF KnowledgeOK
  <2> HIDE DEF t
  <2>3. KnowledgeOK(t)  BY <2>2 DEF KnowledgeOK
  <2>4. Agree(t, m)  BY <1>0, <2>2 DEF Agree
  <2>5. Doubted(t, r)  BY <1>2, <2>2 DEF Doubted
  <2> QED  BY <2>2, <2>3, <2>4, <2>5 DEF t
<1>3. CASE r[1] = "P"
  <2> DEFINE k == r[2] % 16
             reg == [told.reg EXCEPT ![k] = Unknown]
  <2>1. t = [told EXCEPT !.reg[k] = Unknown]  BY <1>3, DoubtCases
  <2>2. r[2] \in 0..255  BY <1>3, RequestsAssumption
  <2>3. k \in 0..CPSR  BY <2>2 DEF CPSR
  <2>4. t = [reg |-> reg, mem |-> told.mem, stop |-> told.stop,
             breakpoints |-> told.breakpoints]
    BY <2>1 DEF KnowledgeOK
  <2> HIDE DEF t, k
  <2>5. /\ reg = [n \in 0..CPSR |-> reg[n]]
        /\ reg[k] = Unknown
        /\ \A n \in 0..CPSR : reg[n] \in {Unknown, told.reg[n]}
    BY <2>3 DEF KnowledgeOK
  <2> HIDE DEF reg
  <2>6. KnowledgeOK(t)  BY <2>4, <2>5 DEF KnowledgeOK
  <2>7. Agree(t, m)  BY <1>0, <2>4, <2>5 DEF Agree
  <2>8. Doubted(t, r)  BY <1>3, <2>4, <2>5 DEF Doubted, k
  <2> QED  BY <2>4, <2>6, <2>7, <2>8 DEF t
<1>4. CASE r[1] = "X"
  <2> DEFINE mem == [c \in Cells |-> IF c \in Written(r) THEN Unknown ELSE told.mem[c]]
  <2>1. t = [told EXCEPT !.mem = mem]  BY <1>4, DoubtCases
  <2>2. t = [reg |-> told.reg, mem |-> mem, stop |-> told.stop,
             breakpoints |-> told.breakpoints]
    BY <2>1 DEF KnowledgeOK
  <2>3. \A c \in Written(r) : c \in Cells  BY DEF Written
  <2> HIDE DEF t
  <2>4. KnowledgeOK(t)  BY <2>2 DEF KnowledgeOK
  <2>5. Agree(t, m)  BY <1>0, <2>2 DEF Agree
  <2>6. Doubted(t, r)  BY <1>4, <2>2, <2>3 DEF Doubted
  <2> QED  BY <2>2, <2>4, <2>5, <2>6 DEF t
<1>5. CASE r[1] \notin Runs \cup {"G", "P", "X"}
  BY <1>5, DoubtCases DEF Doubted, Runs
<1> QED  BY <1>1, <1>2, <1>3, <1>4, <1>5

LEMMA EffectAgrees ==
    ASSUME NEW t, NEW m, MachineOK(m), Agree(t, m),
           NEW r \in Requests, Doubted(t, r), Answers(r)
    PROVE  MachineOK(Effect(m, r)) /\ Agree(t, Effect(m, r))
<1> DEFINE after == Effect(m, r)
<1>1. CASE r[1] \in Runs
  <2>1. MachineOK(after)
    <3>1. CASE r[1] \in {"s", "S"}
      <4>1. after = SingleStep(m)  BY <3>1, EffectCases
      <4> QED
        BY <4>1 DEF SingleStep, MachineOK, registers_write, registers_write_cpsr
    <3>2. CASE r[1] \in {"c", "C"}
      <4>1. after = Continued(m)  BY <3>2, EffectCases
      <4>2. \E last : after = After(m, last)  BY <4>1 DEF Continued
      <4> QED  BY <4>2 DEF After, MachineOK
    <3> QED  BY <1>1, <3>1, <3>2 DEF Runs
  <2>2. CPSR \in 0..CPSR /\ \A n \in Reg : n \in 0..CPSR  BY DEF Reg, CPSR
  <2> QED  BY <1>1, <2>1, <2>2 DEF Agree, Doubted, Runs
<1>2. CASE r[1] = "G"
  <2>1. after = WithGeneralRegisters(m, r[2], r[3])  BY <1>2, EffectCases
  <2>2. CPSR \in 0..CPSR /\ \A n \in Reg : n \in 0..CPSR  BY DEF Reg, CPSR
  <2> HIDE DEF after
  <2>3. MachineOK(after) /\ after.mem = m.mem /\ after.exception = m.exception
    BY <2>1, WithGeneralRegistersReads
  <2> QED  BY <1>2, <2>2, <2>3 DEF Agree, Doubted, after
<1>3. CASE r[1] = "P"
  <2>1. after = WithRegister(m, r[2], r[3])  BY <1>3, EffectCases
  <2>2. r[2] \in Reg /\ r[2] % 16 = r[2]
    <3>1. r[2] \in 0..255 /\ ~ r[2] >= 16  BY <1>3, RequestsAssumption DEF Answers, Aborts
    <3> QED  BY <3>1 DEF Reg
  <2> HIDE DEF after
  <2>3. /\ MachineOK(after) /\ after.mem = m.mem /\ after.exception = m.exception
        /\ registers_read_cpsr(after.f) = registers_read_cpsr(m.f)
        /\ \A n \in Reg : n # r[2] => Register(after, n) = Register(m, n)
    BY <2>1, <2>2, WithRegisterReads
  <2> QED  BY <1>3, <2>2, <2>3 DEF Agree, Doubted, after
<1>4. CASE r[1] = "X"
  <2>1. after = WriteMemory(m, r[2], Decoded[r[3]])  BY <1>4, EffectCases
  <2>2. /\ MachineOK(after) /\ after.f = m.f /\ after.exception = m.exception
        /\ \A c \in Cells : c \notin Written(r) => after.mem[c] = m.mem[c]
    <3> DEFINE w == WriteMemory(m, r[2], Decoded[r[3]])
    <3>1. w.f = m.f /\ w.exception = m.exception  BY DEF WriteMemory, MachineOK
    <3>2. MachineOK(w)
      <4> DEFINE cells == [c \in Cells |->
                             IF c - r[2] \in 0..(Len(Decoded[r[3]]) - 1)
                             THEN Decoded[r[3]][c - r[2] + 1] ELSE m.mem[c]]
      <4>1. cells = [c \in Cells |-> cells[c]]  OBVIOUS
      <4>2. w = [m EXCEPT !.mem = cells]  BY DEF WriteMemory, MachineOK
      <4> HIDE DEF cells, w
      <4> QED  BY <4>1, <4>2 DEF MachineOK
    <3>3. \A c \in Cells : c \notin Written(r) => w.mem[c] = m.mem[c]
      BY DEF WriteMemory, MachineOK, Written
    <3> HIDE DEF w
    <3>4. after = w  BY <2>1 DEF w
    <3> QED  BY <3>1, <3>2, <3>3, <3>4
  <2> HIDE DEF after
  <2>3. \A n \in Reg : Register(after, n) = Register(m, n)
    BY <2>2 DEF Register, Mode
  <2> QED  BY <1>4, <2>2, <2>3 DEF Agree, Doubted, after
<1>5. CASE r[1] \notin Runs \cup {"G", "P", "X"}
  <2>1. \/ after = m
        \/ after = WithBreakpoint(m, r[2], r[3])
        \/ after = WithoutBreakpoint(m, r[2], r[3])
    BY <1>5, EffectCases
  <2>2. /\ MachineOK(after) /\ after.f = m.f /\ after.mem = m.mem
        /\ after.exception = m.exception
    BY <2>1 DEF WithBreakpoint, WithoutBreakpoint, MachineOK
  <2> HIDE DEF after
  <2>3. \A n \in Reg : Register(after, n) = Register(m, n)
    BY <2>2 DEF Register, Mode
  <2> QED  BY <2>2, <2>3 DEF Agree, after
<1> QED  BY <1>1, <1>2, <1>3, <1>4, <1>5

LEMMA OnlyZTouchesBreakpoints ==
    ASSUME NEW m, MachineOK(m), NEW r \in Requests, Answers(r), r[1] \notin {"Z", "z"}
    PROVE  Effect(m, r).breakpoints = m.breakpoints
<1>1. CASE r[1] \in {"s", "S"}
  <2>1. Effect(m, r) = SingleStep(m)  BY <1>1, EffectCases
  <2> QED  BY <2>1 DEF SingleStep, MachineOK
<1>2. CASE r[1] \in {"c", "C"}
  <2>1. Effect(m, r) = Continued(m)  BY <1>2, EffectCases
  <2>2. PICK last : Effect(m, r) = After(m, last)  BY <2>1 DEF Continued
  <2>3. After(m, last).breakpoints = m.breakpoints  BY DEF After, MachineOK
  <2> QED  BY <2>2, <2>3
<1>3. CASE r[1] = "G"
  <2>1. Effect(m, r) = WithGeneralRegisters(m, r[2], r[3])  BY <1>3, EffectCases
  <2>2. WithGeneralRegisters(m, r[2], r[3]).breakpoints = m.breakpoints
    <3> DEFINE f == registers_write_cpsr(
                        [s \in Slots |->
                            IF \E n \in Reg : Slot(n, Mode(m)) = s
                            THEN r[2][CHOOSE n \in Reg : Slot(n, Mode(m)) = s]
                            ELSE m.f[s]], r[3])
    <3>1. WithGeneralRegisters(m, r[2], r[3]) = [m EXCEPT !.f = f]  BY DEF WithGeneralRegisters
    <3> HIDE DEF f
    <3> QED  BY <3>1 DEF MachineOK
  <2> QED  BY <2>1, <2>2
<1>4. CASE r[1] = "P"  BY <1>4, EffectCases DEF WithRegister, MachineOK
<1>5. CASE r[1] = "X"
  <2>1. Effect(m, r) = WriteMemory(m, r[2], Decoded[r[3]])  BY <1>5, EffectCases
  <2> QED  BY <2>1 DEF WriteMemory, MachineOK
<1>6. CASE r[1] \notin Runs \cup {"G", "P", "X", "Z", "z"}  BY <1>6, EffectCases
<1> QED  BY <1>1, <1>2, <1>3, <1>4, <1>5, <1>6 DEF Runs

\* What the answer to request teaches about the registers is so.
LEMMA TaughtRegisters ==
    ASSUME KnowledgeOK(told), NEW m, Agree(told, m), NEW reg,
           NEW t, t = [told EXCEPT !.reg = reg],
           reg = [n \in 0..CPSR |-> reg[n]],
           \A n \in Reg : reg[n] \in {Unknown, Register(m, n)},
           reg[CPSR] \in {Unknown, registers_read_cpsr(m.f)}
    PROVE  KnowledgeOK(t) /\ Agree(t, m) /\ t.breakpoints = told.breakpoints
<1>1. t = [reg |-> reg, mem |-> told.mem, stop |-> told.stop, breakpoints |-> told.breakpoints]
  BY DEF KnowledgeOK
<1>2. KnowledgeOK(t)  BY <1>1 DEF KnowledgeOK
<1> QED  BY <1>1, <1>2 DEF Agree

\* And one register of them.
LEMMA TaughtRegister ==
    ASSUME KnowledgeOK(told), NEW m, Agree(told, m), NEW k \in Reg, NEW v, v = Register(m, k),
           NEW t, t = [told EXCEPT !.reg[k] = v]
    PROVE  KnowledgeOK(t) /\ Agree(t, m) /\ t.breakpoints = told.breakpoints
<1> DEFINE reg == [told.reg EXCEPT ![k] = v]
<1>1. t = [told EXCEPT !.reg = reg]  OBVIOUS
<1>2. k # CPSR /\ k \in 0..CPSR /\ CPSR \in 0..CPSR /\ \A n \in Reg : n \in 0..CPSR
  BY DEF Reg, CPSR
<1>3. /\ reg = [n \in 0..CPSR |-> reg[n]] /\ reg[k] = v
      /\ \A n \in 0..CPSR : n # k => reg[n] = told.reg[n]
  BY <1>2 DEF KnowledgeOK
<1> HIDE DEF reg
<1>4. \A n \in Reg : reg[n] \in {Unknown, Register(m, n)}  BY <1>2, <1>3 DEF Agree
<1>5. reg[CPSR] \in {Unknown, registers_read_cpsr(m.f)}  BY <1>2, <1>3 DEF Agree
<1> QED  BY <1>1, <1>3, <1>4, <1>5, TaughtRegisters

LEMMA TaughtMemory ==
    ASSUME KnowledgeOK(told), NEW m, Agree(told, m), NEW mem,
           NEW t, t = [told EXCEPT !.mem = mem],
           mem = [c \in Cells |-> mem[c]],
           \A c \in Cells : mem[c] \in {Unknown, m.mem[c]}
    PROVE  KnowledgeOK(t) /\ Agree(t, m) /\ t.breakpoints = told.breakpoints
<1>1. t = [reg |-> told.reg, mem |-> mem, stop |-> told.stop, breakpoints |-> told.breakpoints]
  BY DEF KnowledgeOK
<1>2. KnowledgeOK(t)  BY <1>1 DEF KnowledgeOK
<1> QED  BY <1>1, <1>2 DEF Agree

LEMMA TaughtBreakpoints ==
    ASSUME KnowledgeOK(told), NEW m, Agree(told, m), NEW B,
           NEW t, t = [told EXCEPT !.breakpoints = B]
    PROVE  KnowledgeOK(t) /\ Agree(t, m) /\ t.breakpoints = B
<1>1. t = [reg |-> told.reg, mem |-> told.mem, stop |-> told.stop, breakpoints |-> B]
  BY DEF KnowledgeOK
<1>2. KnowledgeOK(t)  BY <1>1 DEF KnowledgeOK
<1> QED  BY <1>1, <1>2 DEF Agree

\* The bytes of the answer a are those of m at and after the address.
BytesAt(a, m, address) ==
    \A c \in Cells :
        c - address \in 0..(Len(a[2]) - 1) => a[2][c - address + 1] = m.mem[c]

\* read_memory gives them.
LEMMA BytesRead ==
    ASSUME NEW m, NEW address \in Nat, NEW size \in Nat, NEW a, a = ReadMemory(m, address, size),
           a[1] = "bytes"
    PROVE  BytesAt(a, m, address)
<1> SUFFICES ASSUME NEW c \in Cells, c - address \in 0..(Len(a[2]) - 1)
             PROVE  a[2][c - address + 1] = m.mem[c]
  BY DEF BytesAt
<1> DEFINE k == IF address + size < MemSize THEN size ELSE MemSize - address
           bytes == [i \in 1..k |-> m.mem[address + i - 1]]
<1>1. MemSize \in Nat  BY ProtocolAssumption
<1>2. Text("E0E")[1] = "text"  BY TextForm
<1>3. address < MemSize /\ a = <<"bytes", bytes>>  BY <1>2 DEF ReadMemory
<1>4. k \in Nat  BY <1>1, <1>3
<1>5. c \in Int  BY <1>1 DEF Cells
<1>6. Len(bytes) = k  BY <1>4
<1>7. a[2] = bytes  BY <1>3
<1>8. c - address + 1 \in 1..k  BY <1>4, <1>5, <1>6, <1>7
<1>9. address + (c - address + 1) - 1 = c  BY <1>5
<1> QED  BY <1>7, <1>8, <1>9

LEMMA ToldAgrees ==
    ASSUME KnowledgeOK(told), NEW m, MachineOK(m), request \in Requests, Answers(request),
           Agree(told, Effect(m, request)), told.breakpoints = m.breakpoints
    PROVE  LET t == Told(Reply(m, request)) IN
           /\ KnowledgeOK(t) /\ Agree(t, Effect(m, request))
           /\ t.breakpoints = Effect(m, request).breakpoints
<1> DEFINE r == request
           a == Reply(m, r)
           t == Told(a)
           after == Effect(m, r)
<1>0. CPSR \in 0..CPSR /\ (\A n \in Reg : n \in 0..CPSR /\ n # CPSR)  BY DEF Reg, CPSR
<1>z. r[1] \notin {"Z", "z"} => after.breakpoints = told.breakpoints
  BY OnlyZTouchesBreakpoints
<1>1. CASE r[1] = "g"
  <2> DEFINE reg == [n \in 0..CPSR |-> IF n = CPSR THEN a[3] ELSE a[2][n]]
  <2>1. after = m  BY <1>1, EffectCases DEF Runs
  <2>2. a = GeneralRegisters(m)  BY <1>1, ReplyCases
  <2>3. /\ a[1] = "registers" /\ a[3] = registers_read_cpsr(m.f)
        /\ \A n \in Reg : a[2][n] = Register(m, n)
    BY <2>2 DEF GeneralRegisters
  <2>4. t = [told EXCEPT !.reg = reg]  BY <1>1, <2>3, ToldCases
  <2>5. reg = [n \in 0..CPSR |-> reg[n]]  OBVIOUS
  <2>6. /\ \A n \in Reg : reg[n] \in {Unknown, Register(after, n)}
        /\ reg[CPSR] \in {Unknown, registers_read_cpsr(after.f)}
    BY <1>0, <2>1, <2>3
  <2> HIDE DEF reg, t, a, after
  <2>7. KnowledgeOK(t) /\ Agree(t, after) /\ t.breakpoints = told.breakpoints
    BY <2>4, <2>5, <2>6, TaughtRegisters DEF after
  <2> QED  BY <1>1, <1>z, <2>7 DEF t, a, after
<1>2. CASE r[1] = "p"
  <2>1. after = m  BY <1>2, EffectCases DEF Runs
  <2>2. a = <<"word", Register(m, Atoi(r[2]))>>  BY <1>2, ReplyCases
  <2>3. r[2] \in 0..255  BY <1>2, RequestsAssumption
  <2>4. t = IF ReadWell(r[2]) THEN [told EXCEPT !.reg[r[2]] = a[2]] ELSE told
    BY <1>2, <2>2, ToldCases
  <2>5. CASE ReadWell(r[2])
    <3>1. r[2] \in Reg /\ Atoi(r[2]) = r[2]  BY <2>3, <2>5 DEF ReadWell, Atoi, Reg
    <3>2. a[2] = Register(after, r[2])  BY <2>1, <2>2, <3>1
    <3>3. t = [told EXCEPT !.reg[r[2]] = a[2]]  BY <2>4, <2>5
    <3> HIDE DEF t, after, a
    <3>4. KnowledgeOK(t) /\ Agree(t, after) /\ t.breakpoints = told.breakpoints
      BY <3>1, <3>2, <3>3, TaughtRegister DEF after
    <3> QED  BY <1>2, <1>z, <3>4 DEF t, after, a
  <2>6. CASE ~ ReadWell(r[2])  BY <1>2, <1>z, <2>4, <2>6
  <2> QED  BY <2>5, <2>6
<1>3. CASE r[1] = "P"
  <2>1. after = WithRegister(m, r[2], r[3])  BY <1>3, EffectCases
  <2>2. r[2] \in Reg
    <3>1. r[2] \in 0..255 /\ ~ r[2] >= 16  BY <1>3, RequestsAssumption DEF Answers, Aborts
    <3> QED  BY <3>1 DEF Reg
  <2>3. r[3] = Register(after, r[2])  BY <2>1, <2>2, WithRegisterReads
  <2>4. t = [told EXCEPT !.reg[r[2]] = r[3]]  BY <1>3, ReplyCases, ToldCases
  <2> HIDE DEF t, after
  <2>5. KnowledgeOK(t) /\ Agree(t, after) /\ t.breakpoints = told.breakpoints
    BY <2>2, <2>3, <2>4, TaughtRegister DEF after
  <2> QED  BY <1>3, <1>z, <2>5 DEF t, after
<1>4. CASE r[1] = "G"
  <2> DEFINE reg == [n \in 0..CPSR |-> IF n = CPSR THEN r[3]
                                       ELSE IF n \in Shared THEN r[2][n] ELSE Unknown]
  <2>1. after = WithGeneralRegisters(m, r[2], r[3])  BY <1>4, EffectCases
  <2> HIDE DEF after
  <2>2. /\ registers_read_cpsr(after.f) = r[3]
        /\ \A n \in Shared : Register(after, n) = r[2][n]
    BY <2>1, WithGeneralRegistersReads
  <2>3. t = [told EXCEPT !.reg = reg]  BY <1>4, ReplyCases, ToldCases
  <2>4. reg = [n \in 0..CPSR |-> reg[n]]  OBVIOUS
  <2>5. /\ \A n \in Reg : reg[n] \in {Unknown, Register(after, n)}
        /\ reg[CPSR] \in {Unknown, registers_read_cpsr(after.f)}
    BY <1>0, <2>2
  <2> HIDE DEF reg, t
  <2>6. KnowledgeOK(t) /\ Agree(t, after) /\ t.breakpoints = told.breakpoints
    BY <2>3, <2>4, <2>5, TaughtRegisters DEF after
  <2> QED  BY <1>4, <1>z, <2>6 DEF t, after
<1>5. CASE r[1] = "m"
  <2> DEFINE mem == [c \in Cells |-> IF c - r[2] \in 0..(Len(a[2]) - 1)
                                     THEN a[2][c - r[2] + 1] ELSE told.mem[c]]
  <2>1. after = m  BY <1>5, EffectCases DEF Runs
  <2>2. a = ReadMemory(m, r[2], r[3])  BY <1>5, ReplyCases
  <2>3. r[2] \in Nat /\ r[3] \in Nat
    <3>1. r[2] \in Nat /\ r[3] \in 0..MaxRead  BY <1>5, RequestsAssumption
    <3>2. MaxRead \in Nat  BY DEF MaxRead
    <3> QED  BY <3>1, <3>2
  <2>4. t = IF a[1] = "bytes" THEN [told EXCEPT !.mem = mem] ELSE told  BY <1>5, ToldCases
  <2>5. CASE a[1] = "bytes"
    <3>1. \A c \in Cells : c - r[2] \in 0..(Len(a[2]) - 1) => a[2][c - r[2] + 1] = m.mem[c]
      <4> HIDE DEF a
      <4>1. BytesAt(a, m, r[2])  BY <2>2, <2>3, <2>5, BytesRead
      <4> QED  BY <4>1 DEF BytesAt
    <3>2. mem = [c \in Cells |-> mem[c]]  OBVIOUS
    <3>3. \A c \in Cells : mem[c] \in {Unknown, after.mem[c]}  BY <2>1, <3>1 DEF Agree
    <3>4. t = [told EXCEPT !.mem = mem]  BY <2>4, <2>5
    <3> HIDE DEF mem, t, after
    <3>5. KnowledgeOK(t) /\ Agree(t, after) /\ t.breakpoints = told.breakpoints
      BY <3>2, <3>3, <3>4, TaughtMemory DEF after
    <3> QED  BY <1>5, <1>z, <3>5 DEF t, after
  <2>6. CASE a[1] # "bytes"  BY <1>5, <1>z, <2>4, <2>6
  <2> QED  BY <2>5, <2>6
<1>6. CASE r[1] = "X"
  <2> DEFINE mem == [c \in Cells |-> IF c \in Written(r) THEN r[4][c - r[2] + 1]
                                     ELSE told.mem[c]]
  <2>1. after = WriteMemory(m, r[2], Decoded[r[3]])  BY <1>6, EffectCases
  <2>2. r[4] = Decoded[r[3]]  BY <1>6, RequestsAssumption
  <2>3. \A c \in Written(r) : after.mem[c] = r[4][c - r[2] + 1]
    BY <2>1, <2>2 DEF WriteMemory, MachineOK, Written
  <2>4. t = IF a = Text("OK") THEN [told EXCEPT !.mem = mem] ELSE told  BY <1>6, ToldCases
  <2>5. mem = [c \in Cells |-> mem[c]]  OBVIOUS
  <2> HIDE DEF after
  <2>6. \A c \in Cells : mem[c] \in {Unknown, after.mem[c]}  BY <2>3 DEF Agree, after
  <2> HIDE DEF mem, t
  <2>7. CASE a = Text("OK")
    <3>1. KnowledgeOK(t) /\ Agree(t, after) /\ t.breakpoints = told.breakpoints
      BY <2>4, <2>5, <2>6, <2>7, TaughtMemory DEF after
    <3> QED  BY <1>6, <1>z, <3>1 DEF t, after
  <2>8. CASE a # Text("OK")  BY <1>6, <1>z, <2>4, <2>8 DEF t, after
  <2> QED  BY <2>7, <2>8
<1>7. CASE r[1] = "Z"
  <2>1. a = SetAnswer(m, r[2]) /\ after = WithBreakpoint(m, r[2], r[3])
    BY <1>7, ReplyCases, EffectCases
  <2>2. t = IF a = Text("OK")
            THEN [told EXCEPT !.breakpoints = told.breakpoints \cup {r[3]}] ELSE told
    BY <1>7, ToldCases
  <2>3. after.breakpoints = IF a = Text("OK") THEN told.breakpoints \cup {r[3]}
                            ELSE told.breakpoints
    BY <2>1 DEF WithBreakpoint, MachineOK
  <2> HIDE DEF t, a, after
  <2> QED  BY <2>2, <2>3, TaughtBreakpoints DEF t, a, after
<1>8. CASE r[1] = "z"
  <2>1. a = RemoveAnswer(m, r[2], r[3]) /\ after = WithoutBreakpoint(m, r[2], r[3])
    BY <1>8, ReplyCases, EffectCases
  <2>2. t = IF a = Text("OK")
            THEN [told EXCEPT !.breakpoints = told.breakpoints \ {r[3]}] ELSE told
    BY <1>8, ToldCases
  <2>3. a = Text("OK") => ~ Refused(r[2])  BY <2>1 DEF RemoveAnswer, Text
  <2>4. a # Text("OK") /\ ~ Refused(r[2]) => r[3] \notin m.breakpoints
    BY <2>1 DEF RemoveAnswer
  <2>5. after.breakpoints = IF Refused(r[2]) THEN m.breakpoints ELSE m.breakpoints \ {r[3]}
    BY <2>1 DEF WithoutBreakpoint, MachineOK
  <2>6. after.breakpoints = IF a = Text("OK") THEN told.breakpoints \ {r[3]}
                            ELSE told.breakpoints
    BY <2>3, <2>4, <2>5
  <2> HIDE DEF t, a, after
  <2> QED  BY <2>2, <2>6, TaughtBreakpoints DEF t, a, after
<1>9. CASE r[1] \in Runs \cup {"?"}
  <2>1. a = StopReason(after.exception)  BY <1>9, ReplyCases
  <2>2. t = [told EXCEPT !.stop = a]  BY <1>9, ToldCases
  <2>3. t = [reg |-> told.reg, mem |-> told.mem, stop |-> a, breakpoints |-> told.breakpoints]
    BY <2>2 DEF KnowledgeOK
  <2> HIDE DEF t, a, after
  <2>4. KnowledgeOK(t) /\ t.breakpoints = told.breakpoints  BY <2>3 DEF KnowledgeOK
  <2>5. Agree(t, after)  BY <2>1, <2>3 DEF Agree, after
  <2> QED  BY <1>9, <1>z, <2>4, <2>5 DEF Runs, t, a, after
<1>10. CASE r[1] \notin Learned
  BY <1>10, <1>z, ToldCases DEF Learned
<1> QED  BY <1>1, <1>2, <1>3, <1>4, <1>5, <1>6, <1>7, <1>8, <1>9, <1>10 DEF Learned

--------------------------------------------------------------------------------
(* Along a run of the protocol. *)

Pending == debugger \in {"wait_ack", "wait_answer"}

\* The packet asked for has been executed on a machine the debugger knew of.
Answering ==
    \E m : /\ MachineOK(m) /\ told.breakpoints = m.breakpoints
          /\ machine = Effect(m, request) /\ packet = Reply(m, request)

Known ==
    /\ MachineOK(machine) /\ KnowledgeOK(told) /\ Agree(told, machine)
    /\ debugger = "idle" => told.breakpoints = machine.breakpoints
    /\ Pending /\ ~ executed =>
           Doubted(told, request) /\ told.breakpoints = machine.breakpoints
    /\ Pending /\ executed => Answers(request) /\ Answering

KInv == garbled \/ Known

LEMMA InitKnown == Init => Known
<1> SUFFICES ASSUME Init PROVE Known  OBVIOUS
<1>1. Start \in Machines /\ Start.breakpoints = {}  BY ProtocolAssumption
<1>2. MachineOK(Start)  BY <1>1 DEF Machines, MachineOK
<1>3. told = [reg |-> [n \in 0..CPSR |-> Unknown], mem |-> [c \in Cells |-> Unknown],
              stop |-> None, breakpoints |-> {}]
  BY DEF Init, KnowsNothing
<1>4. CPSR \in 0..CPSR /\ \A n \in Reg : n \in 0..CPSR  BY DEF Reg, CPSR
<1>5. KnowledgeOK(told) /\ Agree(told, machine)  BY <1>3, <1>4 DEF KnowledgeOK, Agree
<1> QED  BY <1>1, <1>2, <1>3, <1>5 DEF Init, Known, Pending

\* Most steps touch neither what the debugger knows nor what it knows it of.
LEMMA UntouchedKnown ==
    ASSUME Known, UNCHANGED <<machine, packet, told, request, executed>>,
           debugger' = debugger \/ (Pending /\ Pending') \/ debugger' = "gone"
    PROVE  Known'
BY DEF Known, Pending, Answering, Doubted

LEMMA AskKnown == ASSUME Good, Known, Ask PROVE Known'
<1>1. PICK r \in Requests :
         /\ debugger = "idle" /\ ~ executed' /\ told' = Doubt(r) /\ machine' = machine
         /\ request' = IF Kills(r) THEN None ELSE r
         /\ debugger' = IF Kills(r) THEN "gone" ELSE "wait_ack"
  BY DEF Ask, simulator
<1>2. /\ KnowledgeOK(Doubt(r)) /\ Agree(Doubt(r), machine) /\ Doubted(Doubt(r), r)
      /\ Doubt(r).breakpoints = told.breakpoints
  BY DoubtAgrees DEF Known
<1>3. KnowledgeOK(told') /\ Agree(told', machine') /\ Doubted(told', r)
      /\ told'.breakpoints = machine'.breakpoints
  BY <1>1, <1>2 DEF Known
<1>4. MachineOK(machine')  BY <1>1 DEF Known
<1> QED  BY <1>1, <1>3, <1>4 DEF Known, Pending

LEMMA ServeKnown == ASSUME Good, Known, Serve PROVE Known'
<1>1. /\ process = "runs" /\ serving # None /\ Answers(serving)
      /\ machine' = Effect(machine, serving) /\ packet' = Reply(machine, serving) /\ executed'
      /\ UNCHANGED <<told, request, debugger>>
  BY DEF Serve, Serving, client
<1>2. (Accepted \/ Awaited) /\ request \in Requests /\ Pending /\ ~ executed /\ serving = request
  BY <1>1
  DEF Good, Shape, Idle, Gone, Sent, Rejected, Accepted, Awaited, BeingServed, Done, Due,
      AskedAgain, Executed, Waiting, Pending, Answers
<1>3. MachineOK(machine') /\ Agree(told, machine')
  BY <1>1, <1>2, EffectAgrees DEF Known
<1>4. Answering'  BY <1>1, <1>2 DEF Answering, Known
<1>5. KnowledgeOK(told') /\ Agree(told', machine')  BY <1>1, <1>3 DEF Known
<1> QED  BY <1>1, <1>2, <1>3, <1>4, <1>5 DEF Known, Pending

LEMMA GetAnswerKnown == ASSUME Good, Known, GetAnswer PROVE Known'
<1>1. /\ debugger = "wait_answer" /\ debugger' = "idle"
      /\ out # <<>> /\ Head(out).intact /\ told' = Told(Head(out).body) /\ machine' = machine
  BY DEF GetAnswer, Hears, simulator
<1>2. Due
  BY <1>1 DEF Good, Shape, Idle, Gone, Sent, Rejected, Accepted, Awaited, Done, AskedAgain
<1>3. Head(out).body = packet /\ executed /\ request \in Requests
  BY <1>1, <1>2, EndsAlone DEF Due, Holds, Executed, Waiting
<1>4. PICK m : /\ MachineOK(m) /\ told.breakpoints = m.breakpoints
               /\ machine = Effect(m, request) /\ packet = Reply(m, request)
  BY <1>1, <1>3 DEF Known, Pending, Answering
<1>5. Answers(request)  BY <1>1, <1>3 DEF Known, Pending
<1>6. /\ KnowledgeOK(told') /\ Agree(told', machine)
      /\ told'.breakpoints = machine.breakpoints
  BY <1>1, <1>3, <1>4, <1>5, ToldAgrees DEF Known
<1> QED  BY <1>1, <1>6 DEF Known, Pending

LEMMA StepKnown == ASSUME Good, Known, [Next]_vars, ~ garbled' PROVE Known'
<1>1. CASE Ask  BY <1>1, AskKnown
<1>2. CASE Serve  BY <1>2, ServeKnown
<1>3. CASE GetAnswer  BY <1>3, GetAnswerKnown
<1>4. CASE TakeAck \/ TakeNak \/ TakeGarbage \/ TakePacket
  BY <1>4, UntouchedKnown DEF TakeAck, TakeNak, TakeGarbage, TakePacket, client
<1>5. CASE ServeKill \/ ServeAborts \/ WriteFails \/ EndOfFile
  BY <1>5, UntouchedKnown DEF ServeKill, ServeAborts, WriteFails, Die, EndOfFile, client
<1>6. CASE GetAck \/ GetNak \/ Skip \/ GetBadAnswer
  BY <1>6, UntouchedKnown
  DEF GetAck, GetNak, Skip, GetBadAnswer, Hears, client, simulator, Pending
<1>7. CASE Leave  BY <1>7, UntouchedKnown DEF Leave, simulator
<1>8. CASE Fault  BY <1>8, UntouchedKnown DEF Fault, client, simulator
<1>9. CASE UNCHANGED vars  BY <1>9, UntouchedKnown DEF vars, client, simulator
<1> QED
  BY <1>1, <1>2, <1>3, <1>4, <1>5, <1>6, <1>7, <1>8, <1>9 DEF Next, SimulatorStep, Listens

LEMMA AlwaysKInv == Spec => []KInv
<1>1. Init => KInv  BY InitKnown DEF KInv
<1>2. IInv /\ KInv /\ [Next]_vars => KInv'
  BY StepKnown, GarbledForEver DEF IInv, KInv
<1> QED  BY <1>1, <1>2, AlwaysIInv, PTL DEF Spec

\* What the debugger was told of the memory, by read_memory or by the OK of
\* write_memory_binary, is what it holds.
THEOREM MemoryIsAsTold == Spec => []MemoryAsTold
<1>1. KInv => MemoryAsTold  BY DEF KInv, Known, Agree, MemoryAsTold
<1> QED  BY <1>1, AlwaysKInv, PTL

\* What the debugger was told of the registers, whatever the modes the program and the
\* debugger's own packets go through, is what the program finds there.
THEOREM RegistersAreAsTold == Spec => []RegistersAsTold
<1>1. KInv => RegistersAsTold  BY DEF KInv, Known, Agree, RegistersAsTold
<1> QED  BY <1>1, AlwaysKInv, PTL

\* The debugger's breakpoints are those set_breakpoint and remove_breakpoint have made,
\* and the last reason to stop it was told stands.
THEOREM ControlIsAsTold == Spec => []ControlAsTold
<1>1. KInv => ControlAsTold  BY DEF KInv, Known, Agree, ControlAsTold
<1> QED  BY <1>1, AlwaysKInv, PTL

--------------------------------------------------------------------------------
(* The answer comes: one side or the other can act, and what it does brings the *)
(* debugger nearer to its answer.                                               *)

\* How far the packet still has to go: damaged on its way 8, refused 7, on its way 6,
\* accepted 5, its acknowledgement read 4, executed 3, its answer damaged 2, asked for
\* again 1, and there 0.
Place ==
    IF serving = request THEN IF debugger = "wait_ack" THEN 5 ELSE 4
    ELSE IF executed
    THEN IF debugger = "wait_ack" THEN 3
         ELSE IF in # <<>> THEN 1 ELSE IF Head(out).intact THEN 0 ELSE 2
    ELSE IF in = <<>> THEN 7 ELSE IF in[Len(in)].intact THEN 6 ELSE 8

\* What else is carried. A "-" of the past may have an answer sent again.
Traffic == 2 * Len(in) + Len(out)

Nears ==
    \/ Place' \in 0..(Place - 1)
    \/ Place' = Place /\ Traffic' \in 0..(Traffic - 1)

\* Faults aside, a step of the simulator or of the debugger brings the answer nearer, or
\* is the last of the process.
ComesNearer ==
    [][(SimulatorStep \/ Listens) /\ Pending /\ ~ garbled /\ process' = "runs"
       => ~ Pending' \/ Nears]_vars

\* While the debugger waits, a handler can end, the scanner can serve what it has been
\* sent, or the debugger can read.
SomeoneActs ==
    Pending /\ process = "runs" /\ ~ garbled =>
        \/ Serving /\ Answers(serving) /\ MayWrite
        \/ Serving /\ Aborts(serving)
        \/ Scanning /\ Head(in).kind \in {"ack", "nak", "packet"} /\ MayWrite
        \/ out # <<>> /\ Head(out).kind \in {"ack", "nak", "answer"}

LEMMA WaitsForSomething == Waiting => request # None
BY RequestsAssumption DEF Waiting

\* What a debugger that waits may be waiting for.
LEMMA PendingShapes ==
    ASSUME Good, Pending
    PROVE  Sent \/ Rejected \/ Accepted \/ Awaited \/ Done \/ Due \/ AskedAgain
BY DEF Good, Shape, Idle, Gone, Pending

LEMMA Carried == ASSUME Good, Pending PROVE IsSeq(in) /\ IsSeq(out)
BY PendingShapes, EmptyAny
DEF Sent, Rejected, Accepted, Awaited, Done, Due, AskedAgain, EndsIn, EndsInTwo, All

LEMMA LastOfTail ==
    ASSUME NEW s, IsSeq(s), s # <<>>, Tail(s) # <<>>
    PROVE  /\ Len(s) \in Nat \ {0} /\ Len(Tail(s)) = Len(s) - 1
           /\ Tail(s)[Len(Tail(s))] = s[Len(s)]
<1>1. /\ Len(s) \in Nat \ {0} /\ Len(Tail(s)) = Len(s) - 1 /\ Len(s) # 1
      /\ \A i \in 1..(Len(s) - 1) : Tail(s)[i] = s[i + 1]
  BY TailAny
<1>2. Len(s) - 1 \in 1..(Len(s) - 1) /\ Len(s) - 1 + 1 = Len(s)  BY <1>1
<1> QED  BY <1>1, <1>2

\* The scanner takes a signal that precedes the packet.
LEMMA SignalNears ==
    ASSUME Sent, Head(in).kind # "packet", in' = Tail(in),
           UNCHANGED <<serving, request, executed>>
    PROVE  Place' = Place /\ Len(in) \in Nat \ {0} /\ Len(in') = Len(in) - 1
<1>1. in # <<>> /\ IsSeq(in)  BY EndsTail DEF Sent, EndsIn
<1>2. EndsIn(in', Signals, "packet", request)  BY EndsTail DEF Sent, Holds
<1>3. in' # <<>>  BY <1>2, EndsTail
<1>4. Len(in) \in Nat \ {0} /\ Len(in') = Len(in) - 1 /\ in'[Len(in')] = in[Len(in)]
  BY <1>1, <1>3, LastOfTail
<1>5. serving # request /\ ~ executed  BY WaitsForSomething DEF Sent
<1> QED  BY <1>1, <1>3, <1>4, <1>5 DEF Place

LEMMA TakeAckNears == ASSUME Good, Pending, TakeAck PROVE Nears
<1>1. /\ serving = None /\ Head(in).kind = "ack" /\ in # <<>>
      /\ in' = Tail(in) /\ out' = out \o <<>>
      /\ UNCHANGED <<serving, request, executed>>
  BY NothingReported DEF TakeAck, Take, Scanning, Good, client
<1>2. ~ AskedAgain
  <2>1. EndsIn(in, Alone, "nak", None) => Head(in).kind = "nak"  BY EndsAlone DEF Holds
  <2> QED  BY <1>1, <2>1 DEF AskedAgain
<1>3. Sent  BY <1>1, <1>2, PendingShapes DEF Rejected, Accepted, Awaited, Done, Due
<1>4. Place' = Place /\ Len(in) \in Nat \ {0} /\ Len(in') = Len(in) - 1
  BY <1>1, <1>3, SignalNears
<1>5. Len(out) \in Nat /\ out' = out  BY <1>1, Carried, LengthAny
<1>6. Traffic' \in 0..(Traffic - 1)  BY <1>4, <1>5 DEF Traffic
<1> QED  BY <1>4, <1>6 DEF Nears

LEMMA TakeNakNears == ASSUME Good, Pending, TakeNak PROVE Nears
<1> DEFINE again == Item("answer", packet)
<1>1. /\ serving = None /\ Head(in).kind = "nak" /\ in # <<>> /\ in' = Tail(in)
      /\ UNCHANGED <<packet, serving, debugger, request, executed>>
  BY DEF TakeNak, Take, Scanning, client
<1>2. \/ packet = None /\ out' = out \o <<>>
      \/ packet # None /\ out' = out \o <<again>>
  BY NothingReported DEF TakeNak, Take, Good, Again
<1>3. again.intact  BY DEF Item
<1> HIDE DEF again
<1>4. CASE Sent
  <2>1. Place' = Place /\ Len(in) \in Nat \ {0} /\ Len(in') = Len(in) - 1
    BY <1>1, <1>4, SignalNears
  <2>2. Len(out) \in Nat /\ (Len(out') = Len(out) \/ Len(out') = Len(out) + 1)
    BY <1>2, Carried, LengthAny, AppendAny
  <2>3. Traffic' \in 0..(Traffic - 1)  BY <2>1, <2>2 DEF Traffic
  <2> QED  BY <2>1, <2>3 DEF Nears
<1>5. CASE AskedAgain
  <2>1. in' = <<>>  BY <1>1, <1>5, EndsAlone DEF AskedAgain
  <2>2. out' = <<again>>  BY <1>2, <1>5, OneAny DEF AskedAgain, Executed
  <2>3. Head(out').intact  BY <1>3, <2>2
  <2>4. serving # request /\ executed /\ debugger = "wait_answer"
    BY <1>5, WaitsForSomething DEF AskedAgain, Executed
  <2>5. Place = 1 /\ Place' = 0  BY <1>1, <2>1, <2>3, <2>4 DEF Place
  <2> QED  BY <2>5 DEF Nears
<1> QED  BY <1>1, <1>4, <1>5, PendingShapes DEF Rejected, Accepted, Awaited, Done, Due

LEMMA TakePacketNears == ASSUME Good, Pending, TakePacket PROVE Nears
<1>1. /\ serving = None /\ Head(in).kind = "packet" /\ in # <<>> /\ in' = Tail(in)
      /\ serving' = IF Head(in).intact THEN Head(in).body ELSE None
      /\ UNCHANGED <<debugger, request, executed>>
  BY DEF TakePacket, Take, Scanning, ChecksumIsGood, client
<1>2. ~ AskedAgain
  <2>1. EndsIn(in, Alone, "nak", None) => Head(in).kind = "nak"  BY EndsAlone DEF Holds
  <2> QED  BY <1>1, <2>1 DEF AskedAgain
<1>3. Sent  BY <1>1, <1>2, PendingShapes DEF Rejected, Accepted, Awaited, Done, Due
<1>4. Holds(Head(in), "packet", request) /\ in' = <<>>
  BY <1>1, <1>3, NotSignals, EndsTail DEF Sent, Holds
<1>5. in[Len(in)] = Head(in)
  <2>1. Len(in) \in Nat \ {0} /\ Len(in') = Len(in) - 1 /\ Head(in) = in[1]
    BY <1>1, Carried, TailAny
  <2>2. Len(in) = 1  BY <1>4, <2>1, EmptyAny
  <2> QED  BY <2>1, <2>2
<1>6. request # None /\ debugger = "wait_ack" /\ ~ executed
  BY <1>3, WaitsForSomething DEF Sent
<1>7. CASE Head(in).intact
  <2>1. Place = 6 /\ Place' = 5  BY <1>1, <1>4, <1>5, <1>6, <1>7 DEF Place, Holds
  <2> QED  BY <2>1 DEF Nears
<1>8. CASE ~ Head(in).intact
  <2>1. Place = 8 /\ Place' = 7  BY <1>1, <1>4, <1>5, <1>6, <1>8 DEF Place
  <2> QED  BY <2>1 DEF Nears
<1> QED  BY <1>7, <1>8

LEMMA ServeNears == ASSUME Good, Pending, Serve PROVE Nears
<1> DEFINE answer == Item("answer", packet')
<1>1. /\ serving # None /\ out' = out \o <<answer>> /\ serving' = None /\ executed'
      /\ UNCHANGED <<in, debugger, request>>
  BY DEF Serve, Serving, client
<1>2. answer.intact  BY DEF Item
<1> HIDE DEF answer
<1>3. CASE Accepted
  <2>1. Place = 5 /\ Place' = 3
    BY <1>1, <1>3, WaitsForSomething DEF Accepted, BeingServed, Place
  <2> QED  BY <2>1 DEF Nears
<1>4. CASE Awaited
  <2>1. out' = <<answer>>  BY <1>1, <1>4, OneAny DEF Awaited
  <2>2. Head(out').intact  BY <1>2, <2>1
  <2>3. Place = 4 /\ Place' = 0
    BY <1>1, <1>4, <2>2, WaitsForSomething DEF Awaited, BeingServed, Place
  <2> QED  BY <2>3 DEF Nears
<1> QED  BY <1>1, <1>3, <1>4, PendingShapes DEF Sent, Rejected, Done, Due, AskedAgain, Executed

LEMMA GetAckNears == ASSUME Good, Pending, GetAck PROVE Nears
<1>1. /\ debugger = "wait_ack" /\ debugger' = "wait_answer"
      /\ out # <<>> /\ Head(out).kind = "ack"
      /\ UNCHANGED <<serving, request, in, executed>>
  BY DEF GetAck, Hears, simulator
<1>2. "ack" \notin Old  BY DEF Old
<1>3. ~ All(out, Old)  BY <1>1, <1>2, AllTail
<1>4. ~ EndsIn(out, Old, "nak", None)
  <2>1. EndsIn(out, Old, "nak", None) => Head(out).kind = "nak" \/ Head(out).kind \in Old
    BY EndsTail DEF Holds
  <2> QED  BY <1>1, <1>2, <2>1
<1>5. CASE Accepted
  <2>1. Place = 5 /\ Place' = 4  BY <1>1, <1>5 DEF Accepted, BeingServed, Place
  <2> QED  BY <2>1 DEF Nears
<1>6. CASE Done
  <2>1. Place = 3 /\ Place' \in {0, 2}
    BY <1>1, <1>6, WaitsForSomething DEF Done, Executed, Place
  <2> QED  BY <2>1 DEF Nears
<1> QED
  BY <1>1, <1>3, <1>4, <1>5, <1>6, PendingShapes DEF Sent, Rejected, Awaited, Due, AskedAgain

LEMMA GetNakNears == ASSUME Good, Pending, GetNak PROVE Nears
<1> DEFINE item == Item("packet", request)
<1>1. /\ debugger = "wait_ack" /\ out # <<>> /\ Head(out).kind = "nak"
      /\ in' = in \o <<item>>
      /\ UNCHANGED <<serving, debugger, request, executed>>
  BY DEF GetNak, Hears, simulator, client
<1>2. item.intact  BY DEF Item
<1> HIDE DEF item
<1>3. "nak" \notin Old  BY DEF Old
<1>4. ~ All(out, Old)  BY <1>1, <1>3, AllTail
<1>5. ~ EndsIn(out, Old, "ack", None)
  <2>1. EndsIn(out, Old, "ack", None) => Head(out).kind = "ack" \/ Head(out).kind \in Old
    BY EndsTail DEF Holds
  <2> QED  BY <1>1, <1>3, <2>1
<1>6. ~ Done
  <2>1. Done => Head(out).kind = "ack" \/ Head(out).kind \in Old  BY TwoTail DEF Done
  <2> QED  BY <1>1, <1>3, <2>1
<1>7. Rejected
  BY <1>1, <1>4, <1>5, <1>6, PendingShapes DEF Sent, Accepted, Awaited, Due, AskedAgain
<1>8. in = <<>> /\ serving # request /\ ~ executed  BY <1>7, WaitsForSomething DEF Rejected
<1>9. in' = <<item>> /\ in'[Len(in')] = item /\ in' # <<>>  BY <1>1, <1>8, OneAny
<1>10. Place = 7 /\ Place' = 6  BY <1>1, <1>2, <1>8, <1>9 DEF Place
<1> QED  BY <1>10 DEF Nears

LEMMA SkipNears == ASSUME Good, Pending, Skip PROVE Nears
<1>1. /\ out # <<>> /\ out' = Tail(out)
      /\ \/ debugger = "wait_ack"
         \/ debugger = "wait_answer" /\ Head(out).kind # "answer"
      /\ UNCHANGED <<serving, debugger, request, in, executed>>
  BY DEF Skip, Hears, simulator, client
<1>2. ~ Due
  <2>1. EndsIn(out, Alone, "answer", packet) => Head(out).kind = "answer"
    BY EndsAlone DEF Holds
  <2> QED  BY <1>1, <2>1 DEF Due
<1>3. debugger = "wait_ack"
  BY <1>1, <1>2, PendingShapes DEF Sent, Rejected, Accepted, Awaited, Done, AskedAgain
<1>4. Place' = Place  BY <1>1, <1>3 DEF Place
<1>5. Len(in) \in Nat /\ Len(out) \in Nat \ {0} /\ Len(out') = Len(out) - 1
  BY <1>1, Carried, LengthAny, TailAny
<1>6. Traffic' \in 0..(Traffic - 1)  BY <1>1, <1>5 DEF Traffic
<1> QED  BY <1>4, <1>6 DEF Nears

LEMMA GetBadAnswerNears == ASSUME Good, Pending, GetBadAnswer PROVE Nears
<1>1. /\ debugger = "wait_answer" /\ out # <<>> /\ ~ Head(out).intact
      /\ in' = in \o <<Minus>>
      /\ UNCHANGED <<serving, debugger, request, executed>>
  BY DEF GetBadAnswer, Hears, simulator, client
<1>2. Due  BY <1>1, PendingShapes DEF Sent, Rejected, Accepted, Awaited, Done, AskedAgain
<1>3. in = <<>> /\ serving # request /\ executed  BY <1>2, WaitsForSomething DEF Due, Executed
<1>4. in' # <<>>  BY <1>1, <1>3, OneAny
<1>5. Place = 2 /\ Place' = 1  BY <1>1, <1>3, <1>4 DEF Place
<1> QED  BY <1>5 DEF Nears

\* gdb_packet_analysis and gdb_transmit_packet, with a debugger that asks again: nothing
\* that either of them does for a damaged packet or answer can go on for ever, for any
\* packets and any traffic. With the number of faults bounded, this is the safety half
\* of Answered.
THEOREM AnswerComesNearer == Spec => ComesNearer
<1>1. ASSUME Good, Pending, SimulatorStep \/ Listens, process' = "runs", Pending'
      PROVE  Nears
  <2>1. ~ ServeKill
    BY <1>1, PendingShapes
    DEF ServeKill, Serving, Sent, Rejected, Accepted, Awaited, BeingServed, Waiting, Done, Due,
        AskedAgain, Executed
  <2>2. ~ ServeAborts /\ ~ WriteFails /\ ~ EndOfFile
    BY <1>1 DEF ServeAborts, WriteFails, Die, EndOfFile
  <2>3. ~ GetAnswer  BY <1>1 DEF GetAnswer, Pending
  <2>4. CASE SimulatorStep
    BY <1>1, <2>1, <2>2, <2>4, TakeAckNears, TakeNakNears, NoGarbage, TakePacketNears, ServeNears
    DEF SimulatorStep
  <2>5. CASE Listens
    BY <1>1, <2>3, <2>5, GetAckNears, GetNakNears, SkipNears, GetBadAnswerNears DEF Listens
  <2> QED  BY <1>1, <2>4, <2>5
<1>2. IInv /\ [Next]_vars
      => [(SimulatorStep \/ Listens) /\ Pending /\ ~ garbled /\ process' = "runs"
          => ~ Pending' \/ Nears]_vars
  BY <1>1 DEF IInv
<1> QED  BY <1>2, AlwaysIInv, PTL DEF Spec, ComesNearer

\* The two sides never wait for each other, whatever has been damaged: neither the
\* scanner in Rio_readnb for a packet the debugger has given up, nor the debugger for an
\* answer the scanner does not know it owes.
THEOREM NobodyIsStuck == Spec => []SomeoneActs
<1>1. ASSUME Good, Pending, process = "runs", ~ garbled PROVE SomeoneActs
  <2>1. MayWrite  BY <1>1 DEF Good, Pending, MayWrite
  <2>2. CASE Sent
    <3>1. in # <<>> /\ (Head(in).kind = "packet" \/ Head(in).kind \in Signals)
      BY <2>2, EndsTail DEF Sent, Holds
    <3> QED  BY <1>1, <2>1, <2>2, <3>1 DEF Sent, Scanning, Signals, SomeoneActs
  <2>3. CASE Rejected
    <3>1. out # <<>> /\ (Head(out).kind = "nak" \/ Head(out).kind \in Old)
      BY <2>3, EndsTail DEF Rejected, Holds
    <3> QED  BY <3>1 DEF Old, SomeoneActs
  <2>4. CASE Accepted \/ Awaited
    <3>1. serving # None /\ ~ Kills(serving)
      BY <2>4, WaitsForSomething DEF Accepted, Awaited, BeingServed, Waiting
    <3> QED  BY <1>1, <2>1, <3>1 DEF Serving, Answers, SomeoneActs
  <2>5. CASE Done
    <3>1. out # <<>> /\ (Head(out).kind = "ack" \/ Head(out).kind \in Old)
      BY <2>5, TwoTail DEF Done
    <3> QED  BY <3>1 DEF Old, SomeoneActs
  <2>6. CASE Due
    <3>1. out # <<>> /\ Head(out).kind = "answer"  BY <2>6, EndsAlone DEF Due, Holds
    <3> QED  BY <3>1 DEF SomeoneActs
  <2>7. CASE AskedAgain
    <3>1. in # <<>> /\ Head(in).kind = "nak"  BY <2>7, EndsAlone DEF AskedAgain, Holds
    <3> QED  BY <1>1, <2>1, <2>7, <3>1 DEF AskedAgain, Executed, Scanning, SomeoneActs
  <2> QED  BY <1>1, <2>2, <2>3, <2>4, <2>5, <2>6, <2>7, PendingShapes
<1>2. IInv => SomeoneActs  BY <1>1 DEF IInv, SomeoneActs
<1> QED  BY <1>2, AlwaysIInv, PTL
================================================================================
