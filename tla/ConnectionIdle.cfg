SPECIFICATION FairSpec
CONSTANTS
    InitialDelayMs = 10
    GuintRange = 64
    MaxSignals = 2
    InterruptPoints <- IdleLoop
INVARIANTS
    TypeOK
    NeverStranded
    ReadyIsMonitored
    StoppedStaysStopped
PROPERTIES
    BackoffNeverShrinks
    DeactivationStopsLoop
    SupervisesConnection
    ReconnectsEventually
