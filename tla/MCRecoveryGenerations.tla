------------------------ MODULE MCRecoveryGenerations ------------------------
(* Instances of RecoveryGenerations for TLC.                               *)
EXTENDS RecoveryGenerations, TLC

TaskSymmetry == Permutations(Tasks)
=============================================================================
