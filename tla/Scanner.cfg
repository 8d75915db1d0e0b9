SPECIFICATION FairSpec
CONSTANTS
    InitialDelayMs = 10
    GuintRange = 64
    MaxSignals = 2
    InterruptPoints <- Quiet
    MaxAttempts = 2
    FirstDelay = 2
    MaxDelay = 3
    MaxUnconfirmed = 1
    MaxMessages = 3
INVARIANTS
    TypeOK
    ReferencesLive
    DeadObserverUnreachable
    FirstSignalIsSafe
PROPERTIES
    StopIsClean
    StopTakesEffect
    FailureExits
