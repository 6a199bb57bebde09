-------------------------- MODULE MC_FtraceEvents ----------------------------
(* Small instances of FtraceEvents for TLC. *)
EXTENDS FtraceEvents
==============================================================================
