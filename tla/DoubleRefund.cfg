CONSTANTS
  Second = 1
  Minute = 1
  Price = 1
  Leases = {l1}
  NoLease = NoLease
  Requests = {r1}
  SessionSeconds = 2
  Chunk = 1
  MaxTotal = 2
  FreezeGrace = 1
  GracePeriod = 1
  Faults = {}
  MaxFaults = 0
  Overlap = 2
  MaxClock = 4
SPECIFICATION Spec
INVARIANT NothingRefundedTwice
CHECK_DEADLOCK FALSE
