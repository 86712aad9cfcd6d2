SPECIFICATION Spec
CONSTANTS
    NumCores = 1
    MaxInstrs = 5
    ISAtest = TRUE
    HasTimer = TRUE
    HasUart = TRUE
    HasDebugServer = FALSE
    AddressSpace = 48
    ResetAddress = 0
    Instrs <- SchedInstrs
    DebugPCs = {}
    UninitStatus <- ZeroStatus
    UninitPending <- NonePending
    UninitAddress = {0}
    WordBits = 1
    TimerAdvance = 1
INVARIANTS ExitStatusReportsFailure
