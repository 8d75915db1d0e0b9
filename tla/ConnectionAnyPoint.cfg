SPECIFICATION Spec
CONSTANTS
    InitialDelayMs = 10
    GuintRange = 64
    MaxSignals = 2
    InterruptPoints <- FromStartUp
INVARIANTS
    TimerTracked
    NothingCallsBack
    EndsForAReason
CHECK_DEADLOCK FALSE
