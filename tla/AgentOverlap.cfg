CONSTANTS
  Second = 1
  Minute = 1
  Price = 1
  Leases = {l1, l2}
  NoLease = NoLease
  Requests = {r1, r2}
  SessionSeconds = 2
  Chunk = 1
  MaxTotal = 2
  FreezeGrace = 1
  GracePeriod = 1
  Faults = {"freeze", "thaw"}
  MaxFaults = 1
  Overlap = 2
  MaxClock = 3
SPECIFICATION Spec
SYMMETRY Symmetry
INVARIANTS TypeOK OneLiveLease LiveLeaseHasContainer RefundOnlyAfterEnd LiveBooksExact
PROPERTIES TerminalIsFinal
CHECK_DEADLOCK FALSE
