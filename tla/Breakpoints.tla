------------------------------ MODULE Breakpoints ------------------------------
(***************************************************************************)
(* The breakpoint table of gdb_protocol.c: an array kept sorted, searched  *)
(* by bisection, whose tail past breakpoints_number was never initialised. *)
(* Every iteration of a loop is a step.                                    *)
(***************************************************************************)
EXTENDS Integers

CONSTANTS Address,     \* addresses of breakpoints and values of the PC
          Capacity,    \* MAX_BREAKPOINTS_NUMBER
          Garbage      \* what malloc leaves in the array

ASSUME BreakpointsAssumption ==
    /\ Address \subseteq Int
    /\ Garbage \subseteq Int
    /\ Capacity \in Nat \ {0}

VARIABLES breakpoints, breakpoints_number,
          at,             \* where the code is: "idle", "enter" or in a loop
          request,        \* the packet, or the look-up of cont, being served
          begin, end,     \* the locals of gdb_find_breakpoint
          j,              \* the local of gdb_add_breakpoint and gdb_remove_breakpoint
          reply

vars == <<breakpoints, breakpoints_number, at, request, begin, end, j, reply>>

Requests == [op : {"set", "remove", "find"}, type : {0, 1}, address : Address]

None == [op |-> "none", type |-> 0, address |-> 0]

a == request.address

Init ==
    /\ breakpoints \in [0..(Capacity - 1) -> Garbage]
    /\ breakpoints_number = 0
    /\ at = "idle" /\ request = None /\ reply = "none"
    /\ begin = 0 /\ end = 0 /\ j = 0

\* The locals of the functions end with them.
Answer(text) ==
    /\ reply' = text /\ at' = "idle" /\ request' = None
    /\ begin' = 0 /\ end' = 0 /\ j' = 0

Receive ==
    /\ at = "idle"
    /\ request' \in Requests
    /\ at' = "enter"
    /\ UNCHANGED <<breakpoints, breakpoints_number, begin, end, j, reply>>

--------------------------------------------------------------------------------
\* A bug to detect: the table is full one entry too late.
HasRoomForOneMore == breakpoints_number <= Capacity

HasRoom == breakpoints_number < Capacity

\* A bug to detect: the search goes over the whole array.
SearchEndWholeArray == Capacity

SearchEnd == breakpoints_number

\* The tests before the search.
Enter ==
    /\ at = "enter"
    /\ UNCHANGED <<breakpoints, breakpoints_number>>
    /\ \/ request.op # "find" /\ request.type # 0 /\ Answer("E03")
       \/ request.op = "set" /\ request.type = 0 /\ ~ HasRoom /\ Answer("E04")
       \/ /\ request.op = "find" \/ request.type = 0
          /\ request.op = "set" => HasRoom
          /\ at' = "find" /\ begin' = 0 /\ end' = SearchEnd
          /\ UNCHANGED <<request, j, reply>>

Middle == (begin + end) \div 2

\* A bug to detect: the lower half keeps the middle it has just ruled out.
AfterMiddleNotAdvanced == Middle

AfterMiddle == Middle + 1

Bisect ==
    /\ at = "find" /\ begin < end
    /\ \/ breakpoints[Middle] > a /\ end' = Middle /\ begin' = begin
       \/ breakpoints[Middle] < a /\ begin' = AfterMiddle /\ end' = end
    /\ UNCHANGED <<breakpoints, breakpoints_number, at, request, j, reply>>

\* gdb_find_breakpoint returns the position.
Found ==
    /\ at = "find" /\ begin < end /\ breakpoints[Middle] = a
    /\ UNCHANGED breakpoints
    /\ \/ request.op = "set" /\ Answer("OK") /\ UNCHANGED breakpoints_number
       \/ request.op = "find" /\ Answer("stop") /\ UNCHANGED breakpoints_number
       \/ /\ request.op = "remove"
          /\ breakpoints_number' = breakpoints_number - 1
          /\ at' = "delete" /\ j' = Middle /\ begin' = 0 /\ end' = 0
          /\ UNCHANGED <<request, reply>>

\* gdb_find_breakpoint returns -1.
NotFound ==
    /\ at = "find" /\ begin >= end
    /\ UNCHANGED breakpoints
    /\ \/ request.op = "remove" /\ Answer("E05") /\ UNCHANGED breakpoints_number
       \/ request.op = "find" /\ Answer("go on") /\ UNCHANGED breakpoints_number
       \/ /\ request.op = "set"
          /\ breakpoints_number' = breakpoints_number + 1
          /\ at' = "insert" /\ j' = breakpoints_number /\ begin' = 0 /\ end' = 0
          /\ UNCHANGED <<request, reply>>

\* A bug to detect: the entry goes where the bisection met smaller addresses.
MovesUpSmaller == j > 0 /\ breakpoints[j - 1] < a

MovesUp == j > 0 /\ breakpoints[j - 1] > a

\* The loop of gdb_add_breakpoint.
Insert ==
    /\ at = "insert"
    /\ UNCHANGED breakpoints_number
    /\ \/ /\ MovesUp
          /\ breakpoints' = [breakpoints EXCEPT ![j] = breakpoints[j - 1]]
          /\ j' = j - 1
          /\ UNCHANGED <<at, request, begin, end, reply>>
       \/ ~ MovesUp /\ breakpoints' = [breakpoints EXCEPT ![j] = a] /\ Answer("OK")

\* A bug to detect: the loop stops before the last entry.
MovesDownButLast == j < breakpoints_number - 1

MovesDown == j < breakpoints_number

\* The loop of gdb_remove_breakpoint, after the number has been decremented.
Delete ==
    /\ at = "delete"
    /\ UNCHANGED breakpoints_number
    /\ \/ /\ MovesDown
          /\ breakpoints' = [breakpoints EXCEPT ![j] = breakpoints[j + 1]]
          /\ j' = j + 1
          /\ UNCHANGED <<at, request, begin, end, reply>>
       \/ ~ MovesDown /\ Answer("OK") /\ UNCHANGED breakpoints

Step == Enter \/ Bisect \/ Found \/ NotFound \/ Insert \/ Delete

Next == Receive \/ Step

\* The thread that serves a packet keeps running.
Spec == Init /\ [][Next]_vars /\ WF_vars(Step)

--------------------------------------------------------------------------------
TypeOK ==
    /\ breakpoints \in [0..(Capacity - 1) -> Int]
    /\ breakpoints_number \in 0..Capacity
    /\ at \in {"idle", "enter", "find", "insert", "delete"}
    /\ request \in IF at = "idle" THEN {None} ELSE Requests
    /\ begin \in 0..Capacity /\ end \in 0..Capacity /\ j \in 0..Capacity

\* No loop reads or writes outside the array, and none reads an entry that was
\* never written: they all lie from breakpoints_number on, or one further while an
\* entry is being removed.
InBounds ==
    /\ at = "find" /\ begin < end => Middle \in 0..(breakpoints_number - 1)
    /\ at = "insert" => j \in 0..(breakpoints_number - 1) /\ breakpoints_number <= Capacity
    /\ at = "delete" /\ MovesDown => j + 1 \in 1..breakpoints_number
                                     /\ breakpoints_number < Capacity

\* The positions in use, without the one being moved about by a loop.
Positions ==
    (0..(IF at = "delete" THEN breakpoints_number ELSE breakpoints_number - 1))
        \ (IF at \in {"insert", "delete"} THEN {j} ELSE {})

\* The array is sorted, without duplicates, in the middle of the loops too: what
\* the bisection and the check of every PC by cont rely on.
Sorted == \A m, n \in Positions : m < n => breakpoints[m] < breakpoints[n]

\* The set the array stands for: an address leaves it when its removal ends.
Held ==
    {breakpoints[n] : n \in Positions} \cup (IF at = "delete" THEN {a} ELSE {})

Set == INSTANCE BreakpointSet WITH set <- Held

\* The array implements the set: every reply is the one the set gives.
ImplementsSet == Set!Spec

\* Every request is answered: the three loops terminate.
Answered == (at # "idle") ~> (at = "idle")
================================================================================
