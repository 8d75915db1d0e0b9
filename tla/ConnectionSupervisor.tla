------------------------ MODULE ConnectionSupervisor ------------------------
(***************************************************************************)
(* What the connection half of PulseDeviceCollection promises its owner:   *)
(* the link to the sound server is being started, tried, up, or waiting    *)
(* for its next try, until somebody stops it.  It gives up by itself only  *)
(* when it may not reconnect, it never waits for ever, and once stopped or *)
(* failed it stays so.  PulseConnection implements this specification.     *)
(***************************************************************************)

VARIABLES phase, mayReconnect

vars == <<phase, mayReconnect>>

Phases == {"starting", "trying", "up", "waiting", "stopped", "failed"}

TypeOK == phase \in Phases /\ mayReconnect \in BOOLEAN

Init == phase = "starting" /\ mayReconnect \in BOOLEAN

Move(from, to) == phase \in from /\ phase' = to /\ UNCHANGED mayReconnect

Try     == Move({"starting"}, "trying")
Succeed == Move({"trying"}, "up")
Lose    == Move({"starting", "trying", "up"}, "waiting")
Retry   == Move({"waiting"}, "trying")
GiveUp  == ~mayReconnect /\ Move({"starting", "trying", "up"}, "failed")
Stop    == Move({"starting", "trying", "up", "waiting"}, "stopped")

Next == Try \/ Succeed \/ Lose \/ Retry \/ GiveUp \/ Stop

SafeSpec == Init /\ [][Next]_vars

Spec == SafeSpec /\ WF_vars(Retry)

=============================================================================
