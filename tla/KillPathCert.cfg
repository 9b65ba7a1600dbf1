\* An operator's kill lands while the session ends.
SPECIFICATION Spec
CONSTANTS
  a = a
  b = b
  h1 = h1
  h2 = h2
  Poller = Poller
  Callers <- OneCaller
  Sigs <- OneSig
  InScope <- OneSig
  MaxRepeats = 2
  SteerAt = 2
  Window = 2
  TokenCap = 1
  CostCap = 1
  RuntimeCap = 1
  Grantable <- NoGrants
CHECK_DEADLOCK FALSE
INVARIANT ManualCertificatesCarryOperator
