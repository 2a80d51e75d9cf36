\* The window of the desktop application, its timers and update_gui.
CONSTANTS
  NumSteps = 3
  MaxFreq = 3
  Sweeps <- MCSweeps
  Majors = {1, 2}
  MaxClicks = 3
  MaxPlugs = 2
  MACRO_STEPS_PER_BLOCK = 2
  TenKHz <- MCTenKHz
SPECIFICATION FairSpec
INVARIANTS
  TypeOK
  ConflictsDisabled
  StopIsOffered
  ChoiceRestored
  MacroStepIsSent
  FlashMacroIsTuned
PROPERTIES
  SweepComesRound
  MacroComesRound
  ControlsSettle
