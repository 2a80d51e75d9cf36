\* A comment of the firmware against what the firmware does: NextPacketIsTaken.
CONSTANTS
  NumRegs = 1
  Commands <- MCCommands
  MaxPackets = 2
  MaxBusEvents = 3
SPECIFICATION FairSpec
PROPERTY
  NextPacketIsTaken
