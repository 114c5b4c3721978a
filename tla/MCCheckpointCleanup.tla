------------------------ MODULE MCCheckpointCleanup --------------------------
(* Instances of CheckpointCleanup for TLC. *)
EXTENDS CheckpointCleanup, TLC

OperatorSymmetry == Permutations(Operators)
=============================================================================
