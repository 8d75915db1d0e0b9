SPECIFICATION Spec
CONSTANTS
    InitialDelayMs = 10
    GuintRange = 64
    MaxSignals = 1
    InterruptPoints <- IdleLoop
INVARIANTS
    ReconnectOnlyWhenEnabled
