SPECIFICATION HistorySpec
CONSTANTS
    PCs = {0, 4, 8, 12}
    Program <- Ending
    Packets <- MCPackets
    MaxPackets = 3
    MaxIrqs = 2
    Lengths = {1, 2, 3, 4}
    Irqs = {1, 4}
INVARIANTS Exclusive LocalsAreCurrent StopsAtBreakpoints KilledIsDeaf
PROPERTIES Served InterruptsTaken EndsWithDebugger ServedOneByOne
CHECK_DEADLOCK FALSE
