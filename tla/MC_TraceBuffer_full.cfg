SPECIFICATION FairSpec
CONSTANTS
  N = 3
  MaxEvents = 4
  MaxPending = 4
  StoreOrders <- BothOrders
  GarbageCycles = {0}
  Ops <- AllKinds
  None = None
INVARIANT FullKeepsPublished
PROPERTY SnapshotReturns
CHECK_DEADLOCK FALSE
