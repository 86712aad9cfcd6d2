SPECIFICATION Spec
CONSTANTS
    BlockSize = 4
    NumBlocks = 2
    Values = {0, 1}
    RandomValues = {0}
    Garbage = Garbage
    Unknown = Unknown
    Accesses <- SplitAccesses
INVARIANTS MemoryTypeOK NoGarbage
PROPERTIES ImplementsByteMemory OnlyRefusedAccessesLeaveHoles
