\* Every back end: two openings, unplugging, more reports than are kept.
CONSTANTS
  Modes = {"poll", "timeout", "block"}
  QueueLimit = 1
  MaxReports = 5
  MaxOpens = 2
SPECIFICATION Spec
CHECK_DEADLOCK FALSE
INVARIANTS
  TypeOK
  SleeperIsWoken
  RunLoopAlive
  EventTellsRead
PROPERTIES
  DeviceSpec
