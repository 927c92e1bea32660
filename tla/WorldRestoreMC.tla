---------------------------- MODULE WorldRestoreMC ----------------------------
(* Instances of WorldRestore for TLC: its restores are interchangeable.    *)
EXTENDS WorldRestore, TLC

RestoreSymmetry == Permutations(Restores)
=============================================================================
