SPECIFICATION FairSpec
CONSTANTS
    NumCores = 2
    QueueSize = 2
    StdioSize = 2
    Masks <- MCMasks
    Clears <- MCClears
    MaxTyped = 2
    MaxWritten = 4
    MaxPending = 2
INVARIANTS UartTypeOK NoInputLost OneDriverLosesNothing
PROPERTIES InputInOrder SentOnce OverrunInterrupts WrittenIsSent
