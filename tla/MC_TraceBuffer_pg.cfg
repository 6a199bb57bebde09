SPECIFICATION Spec
CONSTANTS
  N = 3
  MaxEvents = 4
  MaxPending = 3
  StoreOrders <- CycleFirst
  GarbageCycles = {0, 9}
  Ops <- Since
  None = None
INVARIANT NothingUnwritten
CHECK_DEADLOCK FALSE
