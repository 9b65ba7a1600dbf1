\* One thread against every threshold, steering on, with grants that come, go and arrive late; and the progress of the kill.
SPECIFICATION FairSpec
CONSTANTS
  a = a
  b = b
  h1 = h1
  h2 = h2
  Poller = Poller
  Callers <- OneCaller
  Sigs <- TwoSigs
  InScope <- OneSig
  MaxRepeats = 3
  SteerAt = 2
  Window = 3
  TokenCap = 2
  CostCap = 1
  RuntimeCap = 1
  Grantable <- ClockGrants
CHECK_DEADLOCK FALSE
INVARIANTS TypeOK ScopeEnforced BudgetEnforced RepeatsBelowSteer
PROPERTIES ManualKillLands KilledSessionStops
