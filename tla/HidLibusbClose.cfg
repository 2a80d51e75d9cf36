\* A device that is closed while its read thread runs.
CONSTANTS
  Modes = {"poll"}
  QueueLimit = 1
  MaxReports = 2
  MaxOpens = 1
SPECIFICATION Spec
PROPERTY FreesWhatIsDone
CHECK_DEADLOCK FALSE
