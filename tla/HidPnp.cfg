\* Two generators: polls, timers, clicks, faults and late replies in any order.
CONSTANTS
  Devices <- MCDevices
  AutoTx = TRUE
  Requests <- MCRequests
  MaxClicks = 2
  MaxFaults = 1
  QueueLimit = 1
  PollRatio = 0
  Prompt = FALSE
SPECIFICATION Spec
INVARIANTS
  TypeOK
  RfIntentKept
  LinkIsSelected
  MacroIsWhole
