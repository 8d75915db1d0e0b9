SPECIFICATION FairSpec
CONSTANTS
    speaker = speaker
    mic = mic
    card = card
    input = input
    Endpoints <- Desk
    FlowOf <- DeskFlow
    PnpIdOf <- DeskPnp
    NameOf <- DeskName
    RawVolumes <- OneVolume
    MaxChanges = 1
    MaxOutages = 1
    MaxTimeouts = 1
    MaxUnconfirmed = 2
    MaxFaults = 2
INVARIANTS
    TypeOK
    DeliveredFollowsMap
    InventoryRepairs
PROPERTIES
    EventuallyDelivered
