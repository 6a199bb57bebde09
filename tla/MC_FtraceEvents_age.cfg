SPECIFICATION Spec
CONSTANTS
  N = 3
  Range2w = 5
  MaxLines = 5
  NoLine = NoLine
  Zero = FALSE
  LongAges = TRUE
PROPERTY NothingMissed
CHECK_DEADLOCK FALSE
