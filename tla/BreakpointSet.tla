----------------------------- MODULE BreakpointSet -----------------------------
(***************************************************************************)
(* What the breakpoint table promises the debugger: a set of addresses     *)
(* that at most Capacity of them fit in, and one answer per request.       *)
(***************************************************************************)
EXTENDS Integers, FiniteSets

CONSTANTS Address, Capacity

VARIABLES set,        \* the breakpoints
          request,    \* the request being served, or None
          reply       \* the last answer

vars == <<set, request, reply>>

\* Z and z packets, with their type field, and the look-up cont does at every PC.
Requests == [op : {"set", "remove", "find"}, type : {0, 1}, address : Address]

None == [op |-> "none", type |-> 0, address |-> 0]

Init == set = {} /\ request = None /\ reply = "none"

Ask == request = None /\ request' \in Requests /\ UNCHANGED <<set, reply>>

Answer(s, answer) == set' = s /\ reply' = answer /\ request' = None

\* Breakpoints of another type than 0 (software) are not supported.
Refuse ==
    request.op \in {"set", "remove"} /\ request.type # 0 /\ Answer(set, "E03")

Serves(op) == request.op = op /\ (op = "find" \/ request.type = 0)

\* A full table refuses even an address it holds.
Set ==
    /\ Serves("set")
    /\ \/ Cardinality(set) < Capacity /\ Answer(set \cup {request.address}, "OK")
       \/ Cardinality(set) = Capacity /\ Answer(set, "E04")

Remove ==
    /\ Serves("remove")
    /\ \/ request.address \in set /\ Answer(set \ {request.address}, "OK")
       \/ request.address \notin set /\ Answer(set, "E05")

Find ==
    /\ Serves("find")
    /\ Answer(set, IF request.address \in set THEN "stop" ELSE "go on")

Next == Ask \/ Refuse \/ Set \/ Remove \/ Find

Spec == Init /\ [][Next]_vars
================================================================================
