SPECIFICATION FairSpec
CONSTANTS
  Callers = {c1, c2}
  MaxRequests = 4
  None = None
INVARIANTS
  NoLostWakeup
PROPERTIES
  BarrierMeansApplied
  PromiseSpec
  BarrierReturns
