SPECIFICATION FairSpec
CONSTANTS
  Main = main
  Sig = sigtrap
  Ftrace = ftrace
  Dummy = dummy
  User = user
  Nobody = Nobody
  MaxPipe = 2
  Early = TRUE
PROPERTY EventsFrozen
CHECK_DEADLOCK FALSE
