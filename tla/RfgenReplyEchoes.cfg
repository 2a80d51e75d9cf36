\* Two requests for different replies, and a host that reads when it likes.
CONSTANTS
  NumRegs = 1
  Commands = {"GET_REG", "READ_RF_CTRL"}
  MaxPackets = 2
  MaxBusEvents = 2
SPECIFICATION Spec
INVARIANT ReplyEchoesCommand
