-------------------------- MODULE MC_TraceRegistry --------------------------
(* Small instances of TraceRegistry for TLC. *)
EXTENDS TraceRegistry, TLC

\* Threads and addresses are interchangeable.
Symmetry == Permutations(Threads) \cup Permutations(Bufs)
=============================================================================
