SPECIFICATION Spec
CONSTANTS
    speaker = speaker
    monitor = monitor
    mic = mic
    hdmi = hdmi
    card = card
    input = input
    Endpoints <- Desk
    FlowOf <- DeskFlow
    PnpIdOf <- DeskPnp
    NameOf <- DeskName
    RawVolumes <- TwoVolumes
    MaxChanges = 2
    MaxOutages = 1
    MaxTimeouts = 0
INVARIANTS
    TypeOK
    RepositoryMatches
    InventoryComplete
    RenderMirrored
PROPERTIES
    FlowOnlyGrows
    ReportsOneDirection
