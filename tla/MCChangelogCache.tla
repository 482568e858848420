--------------------------- MODULE MCChangelogCache ---------------------------
(* Instances of ChangelogCache for TLC. *)
EXTENDS ChangelogCache, TLC
=============================================================================
