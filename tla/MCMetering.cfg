CONSTANTS
  Second = 2
  Minute = 2
  Price = 2
  MinSeconds = 2
  MaxSeconds = 6
  Chunk = 3
  MaxTotal = 6
  FreezeGrace = 1
  GracePeriod = 2
  OpenDeadline = 4
  MaxClock = 20
SPECIFICATION Spec
INVARIANTS TypeOK Conservation MeterNeverAhead NeverOversold
PROPERTIES NoFreezeBeforePaidTimeUsed ImplementsAccount
CHECK_DEADLOCK FALSE
