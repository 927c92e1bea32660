---------------------------- MODULE UpdateHandoffMC ----------------------------
(***************************************************************************)
(* UpdateHandoff on small instances.                                       *)
(***************************************************************************)
EXTENDS UpdateHandoff

\* Every step of the updater.
Anywhere == Steps

\* Every step but the one between putting the binary and the databases
\* back: interrupted there, the older version starts on the newer databases
\* (OldNeverOnNewData with Anywhere).
Settled == Steps \ {"putBackDatabases"}
=============================================================================
