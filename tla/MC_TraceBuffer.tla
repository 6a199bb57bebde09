--------------------------- MODULE MC_TraceBuffer ---------------------------
(* Small instances of TraceBuffer for TLC. *)
EXTENDS TraceBuffer

FuncFirst  == {"func_first"}
CycleFirst == {"cycle_first"}
BothOrders == {"func_first", "cycle_first"}

Zero     == {0}
Since    == {"since"}
AllKinds == {"since", "full"}
=============================================================================
