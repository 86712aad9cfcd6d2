SPECIFICATION Spec
CONSTANTS
    NumCores = 1
    MaxInstrs <- NoLimit
    ISAtest = FALSE
    HasTimer = FALSE
    HasUart = TRUE
    HasDebugServer = TRUE
    AddressSpace = 8
    ResetAddress = 2
    Instrs <- TrapInstrs
    DebugPCs = {4}
    UninitStatus <- AnyStatus
    UninitPending <- AnyPending
    UninitAddress = {0}
    WordBits = 1
    TimerAdvance = 1
INVARIANTS TypeOK TrapReturnRestores WordAlignedWithoutC
PROPERTIES NoLostInterrupt
