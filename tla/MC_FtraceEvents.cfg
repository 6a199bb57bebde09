SPECIFICATION Spec
CONSTANTS
  N = 3
  Range2w = 6
  MaxLines = 6
  NoLine = NoLine
  Zero = FALSE
  LongAges = FALSE
INVARIANTS
  TypeOK
  OnlyReceived
  CoreDumpKeepsNewest
PROPERTY KeepsWindow
CHECK_DEADLOCK FALSE
