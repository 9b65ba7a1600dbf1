SPECIFICATION Spec
CONSTANTS
  h1 = h1
  h2 = h2
  s1 = s1
  s2 = s2
  Closer = Closer
  Threads <- MCThreads
  Sessions <- MCSessions
  Agents <- MCAgents
  MaxGenerations = 2
  MaxFaults = 1
INVARIANTS
  TypeOK
  RegistryAccounted
  SupervisedUnlessExcused
PROPERTIES
  NoRevival
  HooksReturn
