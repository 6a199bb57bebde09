SPECIFICATION Spec
CONSTANTS
  f = f
  g = g
  u = u
  Funcs <- MCFuncs
  Traced <- MCTraced
  Outside = Outside
  Nowhere = Nowhere
  MaxDepth = 4
  MaxNested = 1
  MaxCalls = 5
INVARIANTS ActiveKept NothingElse OrphanNamed CallsListed
CONSTRAINT MCBounded
SYMMETRY MCSymmetry
CHECK_DEADLOCK FALSE
