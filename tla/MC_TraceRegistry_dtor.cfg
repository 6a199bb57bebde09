SPECIFICATION Spec
CONSTANTS
  Threads = {t1}
  Main = main
  Gc = gc
  Bufs = {b1, b2}
  Null = Null
  NoCopy = NoCopy
  MaxAge = 1
  TlsDestructors = TRUE
  AbruptExits = FALSE
  SpuriousWakeups = FALSE
INVARIANTS
  PausedMeansPaused
SYMMETRY Symmetry
CHECK_DEADLOCK FALSE
