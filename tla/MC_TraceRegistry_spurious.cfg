SPECIFICATION Spec
CONSTANTS
  Threads = {t1}
  Main = main
  Gc = gc
  Bufs = {b1, b2}
  Null = Null
  NoCopy = NoCopy
  MaxAge = 1
  TlsDestructors = FALSE
  AbruptExits = FALSE
  SpuriousWakeups = TRUE
PROPERTIES
  OnlyOldFreed
SYMMETRY Symmetry
CHECK_DEADLOCK FALSE
