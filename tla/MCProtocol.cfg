CONSTANTS
    PCs <- MCPCs
    Program <- MCProgram
    Start <- MCStart
    Requests <- MCRequests
    MemSize = 2
    Capacity = 1
    MaxSteps = 3
    MaxAsked = 3
    MaxFaults = 1
SPECIFICATION Spec
INVARIANTS
    MemoryAsTold
    RegistersAsTold
    ControlAsTold
PROPERTIES
    ImplementsSession
    Answered
CHECK_DEADLOCK FALSE
