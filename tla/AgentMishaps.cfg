CONSTANTS
  Second = 1
  Minute = 1
  Price = 1
  Leases = {l1, l2}
  NoLease = NoLease
  Requests = {r1}
  SessionSeconds = 2
  Chunk = 1
  MaxTotal = 2
  FreezeGrace = 0
  GracePeriod = 0
  Faults = {"provision", "publish", "settle", "settleLost", "refund", "refundLost", "remove"}
  MaxFaults = 1
  Overlap = 2
  MaxClock = 1
SPECIFICATION HSpec
SYMMETRY Symmetry
INVARIANTS EveryTinybarOnce RefundedIsReturned EndedOwesNothing
  NothingLeftBehind TunnelServesTheHolder
CHECK_DEADLOCK FALSE
