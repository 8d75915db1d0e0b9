------------------------- MODULE MCLinuxSoundScanner -------------------------
(***************************************************************************)
(* LinuxSoundScanner for TLC: signals find the main thread idle in the     *)
(* loop, in a send, or out of the loop.  What they do elsewhere in the     *)
(* collection is the question of the runs of PulseConnection.              *)
(***************************************************************************)
EXTENDS LinuxSoundScanner

Quiet == {"loop", "returned", "threw"}

=============================================================================
