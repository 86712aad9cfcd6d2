SPECIFICATION MCSpec
CONSTANTS
    WordBits = 2
    TimerAdvance = 1
    MaxWrites = 4
INVARIANTS TimerTypeOK LoThenHiPrograms
PROPERTIES ArmedTimerFires
