------------------------- MODULE MCRepositoryDelivery -------------------------
(***************************************************************************)
(* RepositoryDelivery for TLC: a sink and a microphone of two devices.     *)
(***************************************************************************)
EXTENDS RepositoryDelivery

CONSTANTS speaker, mic, card, input

Desk == {speaker, mic}

DeskFlow == [e \in Desk |-> IF e = speaker THEN "Render" ELSE "Capture"]
DeskPnp  == [e \in Desk |-> IF e = speaker THEN card ELSE input]
DeskName == DeskPnp

\* 100%; the other volume is that of a muted endpoint.
OneVolume == {65536}

=============================================================================
