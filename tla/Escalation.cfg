SPECIFICATION Spec
CONSTANTS
  k1 = k1
  k2 = k2
  Tasks <- MCTasks
  NoTask = NoTask
  Earlier <- MCEarlier
  MaxWrites = 2
INVARIANTS
  TypeOK
  CancelNeedsKill
  NoChildLeftBehind
  ReportIsTrue
  NoFalseFlatline
PROPERTIES
  CondemnedTaskIsCancelled
  SupervisedRunEnds
  DeadAgentIsNoticed
CHECK_DEADLOCK FALSE
