SPECIFICATION Spec
CONSTANTS
  N = 3
  MaxEvents = 4
  MaxPending = 3
  StoreOrders <- FuncFirst
  GarbageCycles = {0, 9}
  Ops <- AllKinds
  None = None
INVARIANT NoUninitialisedInFull
CHECK_DEADLOCK FALSE
