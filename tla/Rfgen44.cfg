\* One invocation of rfgen44.py, with cables pulled and plugged at any moment.
CONSTANTS
  Serials = {"A", "B"}
  Firmware <- MCFirmware
  Invocations <- MCInvocations
  Left <- MCLeft
  OldMacro <- MCOldMacro
  MACRO_MAX_STEPS = 4
  MACRO_STEPS_PER_BLOCK = 2
  MaxPlugs = 2
  None = None
SPECIFICATION Spec
\* The program ends.
CHECK_DEADLOCK FALSE
INVARIANTS
  TypeOK
  WordsAgree
  DoneAsAsked
PROPERTIES
  RightDevice
