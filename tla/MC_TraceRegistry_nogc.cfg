SPECIFICATION Spec
CONSTANTS
  Threads = {t1, t2}
  Main = main
  Gc = gc
  Bufs = {b1, b2}
  Null = Null
  NoCopy = NoCopy
  MaxAge = 0
  TlsDestructors = TRUE
  AbruptExits = TRUE
  SpuriousWakeups = FALSE
INVARIANTS
  StoresIntoOwnBuffer
SYMMETRY Symmetry
CHECK_DEADLOCK FALSE
