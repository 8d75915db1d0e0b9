SPECIFICATION Spec
CONSTANTS
    speaker = speaker
    monitor = monitor
    mic = mic
    hdmi = hdmi
    card = card
    input = input
    Endpoints <- Card
    FlowOf <- CardFlow
    PnpIdOf <- CardPnp
    NameOf <- CardName
    RawVolumes <- TwoVolumes
    MaxChanges = 2
    MaxOutages = 0
    MaxTimeouts = 1
INVARIANTS
    RepositoryMatches
    InventoryComplete
PROPERTIES
    FlowOnlyGrows
    WorkShrinks
