---------------------------- MODULE MC_FunCount ----------------------------
EXTENDS FunCount

\* The executable has page 0, two libraries share page 3, which is in another
\* first-level table.
MCFirst == [o \in Objects |-> IF o \in Initial THEN 0 ELSE 3]
MCLast  == [o \in Objects |-> IF o \in Initial THEN 0 ELSE 3]
=============================================================================
