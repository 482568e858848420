----------------------------- MODULE MCConfigFile -----------------------------
(* An instance of ConfigFile for TLC. *)
EXTENDS ConfigFile, MCSourceExpansion
=============================================================================
