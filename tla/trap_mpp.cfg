SPECIFICATION Spec
CONSTANTS
    NumCores = 1
    MaxInstrs <- NoLimit
    ISAtest = FALSE
    HasTimer = FALSE
    HasUart = TRUE
    HasDebugServer = FALSE
    AddressSpace = 12
    ResetAddress = 0
    Instrs <- TrapInstrs
    DebugPCs = {4}
    UninitStatus <- ZeroStatus
    UninitPending <- NonePending
    UninitAddress = {0}
    WordBits = 1
    TimerAdvance = 1
INVARIANTS TrapSavesPrivilege
