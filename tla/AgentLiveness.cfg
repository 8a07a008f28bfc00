CONSTANTS
  Second = 1
  Minute = 1
  Price = 1
  Leases = {l1}
  NoLease = NoLease
  Requests = {r1}
  SessionSeconds = 2
  Chunk = 1
  MaxTotal = 2
  FreezeGrace = 1
  GracePeriod = 1
  Faults = {"provision", "publish", "settle", "settleLost", "refund", "refundLost", "remove"}
  MaxFaults = 1
  Overlap = 3
  MaxClock = 3
SPECIFICATION FairSpec
PROPERTIES SlotFreed DrySessionFreezes FrozenSessionEnds
CHECK_DEADLOCK FALSE
