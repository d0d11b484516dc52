SPECIFICATION FairSpec
CONSTANTS
  c1 = c1
  Conns <- OneConn
  SqOutcomes <- AllOrSome
  MaxPendingOps = 2
  MaxDeferred = 1
CHECK_DEADLOCK FALSE
INVARIANTS SlotInvariant
PROPERTIES NoReuseWhileOwed ReturnsClosed ReclaimedOnceDrained DrainReturns
