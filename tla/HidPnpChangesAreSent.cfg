\* A tooltip of the window against what the application does: ChangesAreSent.
CONSTANTS
  Devices <- MCOneDevice
  AutoTx = TRUE
  Requests <- MCNoRequests
  MaxClicks = 1
  MaxFaults = 1
  QueueLimit = 2
  PollRatio = 3
  Prompt = TRUE
SPECIFICATION FairSpec
PROPERTY
  ChangesAreSent
