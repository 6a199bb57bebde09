SPECIFICATION Spec
CONSTANTS
  f = f
  g = g
  u = u
  Funcs <- MCFuncs
  Traced <- MCTraced
  Outside = Outside
  Nowhere = Nowhere
  MaxDepth = 3
  MaxNested = 1
  MaxCalls = 3
INVARIANT ListedOnce
SYMMETRY MCSymmetry
CHECK_DEADLOCK FALSE
