\* Two generators that answer promptly: what holds once user and cables rest.
CONSTANTS
  Devices <- MCDevices
  AutoTx = TRUE
  Requests <- MCWindow
  MaxClicks = 1
  MaxFaults = 1
  QueueLimit = 2
  PollRatio = 3
  Prompt = TRUE
SPECIFICATION FairSpec
PROPERTIES
  SelectionSettles
  DisplaySettles
  WindowIsTold
