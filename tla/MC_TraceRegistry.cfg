SPECIFICATION Spec
CONSTANTS
  Threads = {t1, t2}
  Main = main
  Gc = gc
  Bufs = {b1, b2, b3}
  Null = Null
  NoCopy = NoCopy
  MaxAge = 1
  TlsDestructors = FALSE
  AbruptExits = FALSE
  SpuriousWakeups = FALSE
INVARIANTS
  RegistrySound
  SnapshotsReadLive
  NoBufferLeaked
  StoresIntoOwnBuffer
  PausedMeansPaused
  ResumedMeansResumed
  NothingLeftAtExit
PROPERTIES
  FrozenUnderSnapshot
  OnlyOldFreed
SYMMETRY Symmetry
CHECK_DEADLOCK FALSE
