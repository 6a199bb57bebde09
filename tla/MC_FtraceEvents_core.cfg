SPECIFICATION Spec
CONSTANTS
  N = 3
  Range2w = 5
  MaxLines = 5
  NoLine = NoLine
  Zero = FALSE
  LongAges = FALSE
INVARIANT CoreDumpInOrder
CHECK_DEADLOCK FALSE
