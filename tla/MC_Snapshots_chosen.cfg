CONSTANTS
  t1 = t1
  t2 = t2
  s1 = s1
  s2 = s2
  a = a
  b = b
  Nothing = Nothing
  Threads <- MCThreads
  Slots <- MCSlots
  Objects <- MCObjects
  Loads <- MCLoads
  Capacity = 2
  MaxEvents = 2
  MaxSamples = 2
  Chosen <- MCSecond
SPECIFICATION Spec
INVARIANT OnlyChosen
CHECK_DEADLOCK FALSE
