--------------------------- MODULE MC_CallStacks ---------------------------
EXTENDS CallStacks, TLC

CONSTANTS f, g, u  \* f and g are traced, u is not

MCFuncs == {f, g, u}
MCTraced == {f, g}
\* What follows a missing event or an untraced catcher is promised nothing.
MCBounded == odd \subseteq {"catch", "jump"} \/ odd \subseteq {"catch", "recursion"}

MCSymmetry == Permutations(MCTraced)
=============================================================================
