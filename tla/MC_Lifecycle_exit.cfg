SPECIFICATION FairSpec
CONSTANTS
  Main = main
  Sig = sigtrap
  Ftrace = ftrace
  Dummy = dummy
  User = user
  Nobody = Nobody
  MaxPipe = 2
  Early = FALSE
INVARIANT ReadsLive
CHECK_DEADLOCK FALSE
