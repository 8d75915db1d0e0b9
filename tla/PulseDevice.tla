----------------------------- MODULE PulseDevice -----------------------------
(***************************************************************************)
(* PulseDevice (SoundLib/impl/PulseDevice.cpp) and the rule by which       *)
(* PulseDeviceCollection merges a sink and a source of one PnP id into one *)
(* device.  A name is the set of descriptions that "|" joins in the code;  *)
(* the PnP id is the key of the map that holds the device.                 *)
(***************************************************************************)
EXTENDS Integers

EndpointFlows == {"Render", "Capture"}
Flows == EndpointFlows \cup {"RenderAndCapture"}

Uint16 == {n \in Nat : n < 65536}

\* Mutant: divided by 2^9 where 2^16 is meant.
NormalizeVolumeOverflows(v) == ((v * 125) % 536870912) \div 64

\* NormalizeVolumeFromPulseAudioRangeToThousandBased: v * 1000 / 65536 in
\* uint32_t, truncated to uint16_t.  The common factor 8 of 1000, 65536 and
\* 2^32 is taken out; NormalizeVolumeIsExact proves that nothing changes.
NormalizeVolume(v) == ((v * 125) % 536870912) \div 8192

\* The volume of an endpoint as the collection stores it.
StoredVolume(volume, mute) == IF mute THEN 0 ELSE NormalizeVolume(volume)

Devices(Names) == [name          : SUBSET Names,
                   flow          : Flows,
                   renderVolume  : Uint16,
                   captureVolume : Uint16]

\* The device AddOrUpdateAndNotify builds from one endpoint.
EndpointDevice(name, flow, volume) ==
    [name          |-> {name},
     flow          |-> flow,
     renderVolume  |-> IF flow = "Render"  THEN volume ELSE 0,
     captureVolume |-> IF flow = "Capture" THEN volume ELSE 0]

\* Mutant: the last endpoint seen decides the flow.
MergeDeviceLastFlow(found, device) ==
    [device EXCEPT !.name = found.name \cup @]

\* Mutant: the volumes of the endpoint seen last are taken for both directions.
MergeDeviceLastVolumes(found, device) ==
    IF found.flow = device.flow
    THEN device
    ELSE [device EXCEPT !.name = found.name \cup @, !.flow = "RenderAndCapture"]

\* MergeDeviceWithExistingOneBasedOnPnpIdAndFlow, for a PnP id that the map
\* holds as found.
MergeDevice(found, device) ==
    IF found.flow = device.flow
    THEN device
    ELSE [name          |-> found.name \cup device.name,
          flow          |-> "RenderAndCapture",
          renderVolume  |-> IF device.flow = "Capture" THEN found.renderVolume
                                                       ELSE device.renderVolume,
          captureVolume |-> IF device.flow = "Render"  THEN found.captureVolume
                                                       ELSE device.captureVolume]

\* The endpoint flows a device stands for.
Covers(flow) == IF flow = "RenderAndCapture" THEN EndpointFlows ELSE {flow}

=============================================================================
