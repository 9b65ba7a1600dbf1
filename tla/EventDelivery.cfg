SPECIFICATION Spec
CONSTANTS
  BatchMax = 2
  HeadLimit = 2
  TailLimit = 2
  MaxEvents = 3
  MaxFaults = 2
INVARIANTS
  TypeOK
  CopiesBounded
  MissedOnlyBehindLateInsert
PROPERTIES
  ImplementsLog
  EventsArrive
CHECK_DEADLOCK FALSE
