\* Transfers given up, packets and handshakes lost, bus resets.
CONSTANTS
  Requests <- MCRequests
  PacketSize = 8
  Timeout = 1
  MaxTransfers = 3
  MaxFaults = 2
SPECIFICATION Spec
CHECK_DEADLOCK FALSE
INVARIANTS
  TypeOK
  ReadyForSetup
  PointersInStep
  NothingMixed
  AddressesAgree
PROPERTY
  PipeSpec
