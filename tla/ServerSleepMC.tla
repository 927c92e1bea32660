----------------------------- MODULE ServerSleepMC -----------------------------
(***************************************************************************)
(* ServerSleep on small instances.                                         *)
(***************************************************************************)
EXTENDS ServerSleep

NoWindow == {}
DeathAfterFailedStop == {"dieAfterFailedStop"}
=============================================================================
