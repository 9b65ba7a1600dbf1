SPECIFICATION Spec
CONSTANTS
  a = a
  b = b
  x = x
  t1 = t1
  t2 = t2
  Calls <- MCCallsOne
  InScope <- MCOne
  Capability <- MCCapabilityOne
  Risk <- MCRisk
  Allowed <- MCAllowed
  ScopeGrantable = FALSE
  Ids <- MCIds
  Tasks <- MCTasks
  MaxDecisions = 2
  MaxFaults = 1
PROPERTIES
  ConsentBeforeRun
