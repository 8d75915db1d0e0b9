SPECIFICATION FairSpec
CONSTANTS
    InitialDelayMs = 10
    GuintRange = 64
    MaxSignals = 1
    InterruptPoints <- FromStartUp
PROPERTIES
    DeactivationStopsLoop
CHECK_DEADLOCK FALSE
