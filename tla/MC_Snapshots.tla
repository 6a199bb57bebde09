---------------------------- MODULE MC_Snapshots ----------------------------
EXTENDS Snapshots, TLC

CONSTANTS t1, t2, s1, s2, a, b

MCThreads == <<t1, t2>>
MCSlots == {s1}
MCObjects == {a, b}
MCLoads == 1 .. 2
MCAll == {}
MCSecond == {1}
MCSymmetry == Permutations(MCObjects)
=============================================================================
