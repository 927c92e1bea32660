--------------------------- MODULE SavingPauseMC ---------------------------
(* Instances of SavingPause for TLC.                                       *)
EXTENDS SavingPause, TLC
=============================================================================
