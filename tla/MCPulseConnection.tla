-------------------------- MODULE MCPulseConnection --------------------------
(***************************************************************************)
(* PulseConnection for TLC: a guint of 64 values holds five times the      *)
(* initial delay of 10, as 2^32 holds five times any sensible delay.       *)
(***************************************************************************)
EXTENDS PulseConnection

IdleLoop == {"loop"}

FromStartUp == LivePoints \cup LatePoints

=============================================================================
