SPECIFICATION FairSpec
CONSTANTS
    MaxAttempts = 8
    FirstDelay = 2
    MaxDelay = 30
    MaxUnconfirmed = 2
    MaxMessages = 4
INVARIANTS
    TypeOK
    HeldInOrder
    BackoffDoubles
    LossIsReported
PROPERTIES
    ConstructionEnds
    CloseEnds
    PublishReturns
