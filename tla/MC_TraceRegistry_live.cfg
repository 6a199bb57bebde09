SPECIFICATION FairSpec
CONSTANTS
  Threads = {t1}
  Main = main
  Gc = gc
  Bufs = {b1, b2}
  Null = Null
  NoCopy = NoCopy
  MaxAge = 1
  TlsDestructors = FALSE
  AbruptExits = FALSE
  SpuriousWakeups = TRUE
PROPERTIES
  CollectedEventually
  ExitEnds
CHECK_DEADLOCK FALSE
