SPECIFICATION FairSpec
CONSTANTS
    InitialDelayMs = 10
    GuintRange = 64
    MaxSignals = 1
    InterruptPoints <- Quiet
    MaxAttempts = 1
    FirstDelay = 2
    MaxDelay = 3
    MaxUnconfirmed = 1
    MaxMessages = 1
PROPERTIES
    StopIsHeard
