SPECIFICATION FairSpec
CONSTANTS
    NumCores = 1
    QueueSize = 2
    StdioSize = 2
    Masks <- MCMasks
    Clears <- MCClears
    MaxTyped = 2
    MaxWritten = 0
    MaxPending = 2
PROPERTY TypedIsReceived
