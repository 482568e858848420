------------------------ MODULE MCSnapshotFreshness ------------------------
(* Instances of SnapshotFreshness for TLC. *)
EXTENDS SnapshotFreshness, TLC

Symmetry == Permutations(Sources)
=============================================================================
