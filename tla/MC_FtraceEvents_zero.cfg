SPECIFICATION Spec
CONSTANTS
  N = 3
  Range2w = 5
  MaxLines = 5
  NoLine = NoLine
  Zero = TRUE
  LongAges = FALSE
INVARIANT OnlyReceived
CHECK_DEADLOCK FALSE
