----------------------- MODULE MCPulseDeviceCollection -----------------------
(***************************************************************************)
(* PulseDeviceCollection for TLC: a sink with its monitor source, which    *)
(* share a PnP id and a name, and a microphone; or a card whose two sinks  *)
(* and microphone all carry its device.name.                               *)
(***************************************************************************)
EXTENDS PulseDeviceCollection

CONSTANTS speaker, monitor, mic, hdmi, card, input

Desk == {speaker, monitor, mic}

DeskFlow == [e \in Desk |-> IF e = speaker THEN "Render" ELSE "Capture"]
DeskPnp  == [e \in Desk |-> IF e = mic THEN input ELSE card]
DeskName == DeskPnp

Card == {speaker, hdmi, mic}

CardFlow == [e \in Card |-> IF e = mic THEN "Capture" ELSE "Render"]
CardPnp  == [e \in Card |-> card]
CardName == [e \in Card |-> e]

\* 100% and 50%; 150%, which the volume control of a desktop offers.
TwoVolumes  == {65536, 32768}
Amplified   == {65536, 98304}

=============================================================================
