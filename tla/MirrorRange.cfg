SPECIFICATION Spec
CONSTANTS
    speaker = speaker
    monitor = monitor
    mic = mic
    hdmi = hdmi
    card = card
    input = input
    Endpoints <- Desk
    FlowOf <- DeskFlow
    PnpIdOf <- DeskPnp
    NameOf <- DeskName
    RawVolumes <- Amplified
    MaxChanges = 1
    MaxOutages = 0
    MaxTimeouts = 0
INVARIANTS
    VolumeWithinThousand
