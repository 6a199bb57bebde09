SPECIFICATION Spec
CONSTANTS
  N = 4
  MaxEvents = 7
  MaxPending = 6
  StoreOrders <- BothOrders
  GarbageCycles = {0, 9}
  Ops <- Since
  None = None
INVARIANTS
  LastEventsInOrder
  AtMostOneLateEvent
  ExactWhenQuiet
  LossBounded
  StaleBounded
  NoUninitialised
CHECK_DEADLOCK FALSE
