SPECIFICATION Spec
CONSTANTS
    NumCores = 1
    PCs = {0, 4}
    BreakAddrs = {4}
    BreakSizes = {4}
    MaxSent = 2
    MaxInterrupts = 1
PROPERTY KillEndsSimulation
