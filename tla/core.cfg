SPECIFICATION Spec
CONSTANTS
    Bytes = {0, 1, 2, 3, 5, 255}
    Fills = {0, 255}
    Garbage = Garbage
    Malformed = Malformed
    Size = 12
    Base = 4
    Extent = 3
    DeviceRegs = {4}
    PopRegs = {4}
    Addresses <- MCAddresses
    Words <- MCWords
    XRegs = {2, 5}
    CodeSize = 4
    Handlers = {2}
    MaxOps = 3
INVARIANTS
    CoreStepTypeOK
    GarbageComesFromRefusedLoads
    DebuggerWritesStick
PROPERTY
    LoadsGetWhatWasStored
