--------------------------- MODULE MCSnapshotStore ---------------------------
(* SnapshotStore with the symmetry TLC may use: processes and commands are  *)
(* interchangeable in every safety property.                               *)
EXTENDS SnapshotStore, TLC

Symmetric == Permutations(Procs) \cup Permutations(Commands)
=============================================================================
