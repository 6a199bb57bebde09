SPECIFICATION Spec
CONSTANTS
  N = 3
  MaxEvents = 4
  MaxPending = 3
  StoreOrders <- FuncFirst
  GarbageCycles = {0, 9}
  Ops <- Since
  None = None
INVARIANT LateEventsFirst
CHECK_DEADLOCK FALSE
