------------------------ MODULE MCOpenShiftRetention ------------------------
(* Instances of OpenShiftRetention for TLC. *)
EXTENDS OpenShiftRetention, TLC

Symmetry == Permutations(Lookups) \cup Permutations(Requests)
=============================================================================
