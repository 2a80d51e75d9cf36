\* The tooltips of the controls a sweep disables against update_gui: SweepKeepsDisabled.
CONSTANTS
  NumSteps = 2
  MaxFreq = 3
  Sweeps <- MCSweeps
  Majors = {2}
  MaxClicks = 1
  MaxPlugs = 1
  MACRO_STEPS_PER_BLOCK = 2
  TenKHz <- MCTenKHz
SPECIFICATION Spec
INVARIANT
  SweepKeepsDisabled
