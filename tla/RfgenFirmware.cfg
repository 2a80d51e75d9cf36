\* The device under every bus event, at any point of a poll.
CONSTANTS
  NumRegs = 2
  Commands <- MCCommands
  MaxPackets = 2
  MaxBusEvents = 4
SPECIFICATION FairSpec
INVARIANTS
  TypeOK
  EndpointsInStep
  ReceiveBufferOwned
  ReceivedIsSeen
  SynthHoldsOneSetting
  NewestReplyArrives
  HandledOnce
PROPERTIES
  ReceivedIsHandled
  OfferIsTaken
