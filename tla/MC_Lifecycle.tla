--------------------------- MODULE MC_Lifecycle ------------------------------
(* Small instances of Lifecycle for TLC. *)
EXTENDS Lifecycle
==============================================================================
