------------------------------- MODULE MCProtocol ------------------------------
EXTENDS Protocol

MCPCs == {0, 4, 8}

\* A store, a change of mode, and an undefined instruction.
MCProgram ==
    [pc \in MCPCs |->
        CASE pc = 0 -> [next |-> 4, cpsr |-> SVC, stores |-> [c \in {0} |-> 7], result |-> 0]
          [] pc = 4 -> [next |-> 8, cpsr |-> USR, stores |-> <<>>, result |-> 0]
          [] pc = 8 -> [next |-> 0, cpsr |-> SVC, stores |-> <<>>, result |-> 7]]

\* After the reset.
MCStart ==
    [f |-> [s \in Slots |-> IF s = CpsrSlot THEN SVC ELSE 0],
     mem |-> [c \in Cells |-> 0],
     exception |-> 0,
     breakpoints |-> {}]

Values(value, pc) == [n \in Reg |-> IF n = 15 THEN pc ELSE value]

\* X packets carry their bytes escaped and, for the debugger's own use, plain.
MCRequests ==
    {<<"s">>, <<"c">>, <<"?">>, <<"k">>, <<"v">>,
     <<"g">>, <<"G", Values(1, 4), USR>>,
     <<"p", 1>>, <<"p", 13>>, <<"p", 25>>, <<"p", 171>>, <<"P", 1, 2>>, <<"P", 13, 3>>,
     <<"m", 0, 2>>, <<"m", 1, 2>>, <<"m", 2, 1>>,
     <<"X", 0, <<Escape, 3>>, <<35>>>>, <<"X", 1, <<8, 9>>, <<8, 9>>>>,
     <<"Z", 0, 4>>, <<"Z", 0, 8>>, <<"Z", 1, 0>>, <<"z", 0, 4>>, <<"z", 1, 4>>,
     <<"H", "c", -1>>, <<"q", "Supported">>}
================================================================================
