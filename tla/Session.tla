-------------------------------- MODULE Session --------------------------------
(***************************************************************************)
(* What the protocol promises the debugger: each packet is executed once,  *)
(* and the debugger gets the answer of that execution before it sends      *)
(* another; nothing else touches the machine.                              *)
(***************************************************************************)
CONSTANTS Requests,     \* the packets the debugger sends
          Start,        \* the machine when it connects
          Effect(_, _), \* the machine after a packet,
          Reply(_, _),  \* and what the debugger is answered,
          Answers(_)    \* unless the packet kills or aborts the process

VARIABLES machine,
          phase,        \* "idle", "asked", "executed" or "ended"
          request,      \* the packet being served, or None
          answer,       \* the answer of the last execution
          got           \* the last answer the debugger has

session == <<machine, phase, request, answer, got>>

None == <<"none">>

SessionInit ==
    /\ machine = Start
    /\ phase = "idle"
    /\ request = None /\ answer = None /\ got = None

Ask ==
    /\ phase = "idle"
    /\ request' \in Requests
    /\ phase' = "asked"
    /\ UNCHANGED <<machine, answer, got>>

Execute ==
    /\ phase = "asked"
    /\ Answers(request)
    /\ machine' = Effect(machine, request)
    /\ answer' = Reply(machine, request)
    /\ phase' = "executed"
    /\ UNCHANGED <<request, got>>

Learn ==
    /\ phase = "executed"
    /\ got' = answer
    /\ request' = None
    /\ phase' = "idle"
    /\ UNCHANGED <<machine, answer>>

\* The debugger leaves, after a packet that kills or not; or a packet aborts the
\* process.
End ==
    /\ \/ phase = "idle"
       \/ phase = "asked" /\ ~ Answers(request)
    /\ phase' = "ended"
    /\ UNCHANGED <<machine, request, answer, got>>

SessionNext == Ask \/ Execute \/ Learn \/ End

SessionSpec == SessionInit /\ [][SessionNext]_session
================================================================================
