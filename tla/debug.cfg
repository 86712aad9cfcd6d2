SPECIFICATION FairSpec
CONSTANTS
    NumCores = 2
    PCs = {0, 4, 8}
    BreakAddrs = {4, 6}
    BreakSizes = {4}
    MaxSent = 3
    MaxInterrupts = 1
INVARIANTS DebugTypeOK BreakpointsAreExact
PROPERTIES StoppedMeansStopped BreakpointsStop RequestsAreAnswered
