CONSTANTS
  Calls = {c1, c2, c3}
  None = None
  Off = Off
  Challenges <- MCChallenges
  Reports = {1, 2}
  MaxPerPayment = 2
  MaxPerDay = 2
  ConfirmAbove = 1
  TTL = 1
  DayLength = 2
  MaxClock = 2
  MaxFaults = 1
SPECIFICATION Spec
SYMMETRY CallSymmetry
INVARIANTS TypeOK PaymentsApproved HoldsBuyOnce DailyCapHolds KeysKept
CHECK_DEADLOCK FALSE
