\* Two threads race each other and the poller to the kill; nothing may be granted.
SPECIFICATION Spec
CONSTANTS
  a = a
  b = b
  h1 = h1
  h2 = h2
  Poller = Poller
  Callers <- TwoCallers
  Sigs <- TwoSigs
  InScope <- OneSig
  MaxRepeats = 3
  SteerAt = 3
  Window = 3
  TokenCap = 1
  CostCap = 1
  RuntimeCap = 1
  Grantable <- NoGrants
CHECK_DEADLOCK FALSE
SYMMETRY TwoCallersAlike
INVARIANTS OneAuthor HarmBounded CertificatesNameTheCause RepeatsBelowKill
PROPERTY ImplementsSwitch
