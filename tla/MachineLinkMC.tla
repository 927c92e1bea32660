----------------------------- MODULE MachineLinkMC -----------------------------
(***************************************************************************)
(* MachineLink on small instances.                                         *)
(***************************************************************************)
EXTENDS MachineLink
=============================================================================
