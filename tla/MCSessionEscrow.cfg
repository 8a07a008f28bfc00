CONSTANTS
  Ids = {i1, i2}
  Accounts = {a, b}
  ZeroAddress = zero
  Prices = {0, 1, 2}
  Durations = {0, 1, 2}
  Supply = 4
  MaxDepth = 3
  MaxClock = 2
SPECIFICATION Spec
SYMMETRY Interchangeable
INVARIANTS TypeOK DepositBuysTime Solvent
PROPERTIES SettleAlwaysCommits QuoteIsMonotone ImplementsVault
CHECK_DEADLOCK FALSE
