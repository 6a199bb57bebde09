SPECIFICATION FairSpec
CONSTANTS
  Main = main
  Sig = sigtrap
  Ftrace = ftrace
  Dummy = dummy
  User = user
  Nobody = Nobody
  MaxPipe = 2
  Early = FALSE
INVARIANTS
  ThreadsUseLive
  StartedInMain
PROPERTIES
  EventsFrozen
  StartsUp
  SignalServed
  Ends
CHECK_DEADLOCK FALSE
