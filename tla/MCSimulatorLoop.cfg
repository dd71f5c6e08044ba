SPECIFICATION HistorySpec
CONSTANTS
    PCs = {0, 4, 8, 12}
    Program <- Looping
    Packets <- MCPackets
    MaxPackets = 1
    MaxIrqs = 1
    Lengths = {1, 2, 3, 4}
    Irqs = {1, 4}
PROPERTY InterruptsTaken
CHECK_DEADLOCK FALSE
