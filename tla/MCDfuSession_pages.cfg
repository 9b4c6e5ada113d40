\* No failure, pages announced smaller than they are; a session ends.
SPECIFICATION SessionSpec
CONSTANTS
  stack = stack
  a = a
  c = c
  d = d
  old = old
  Erased = Erased
  Zeros = Zeros
  Data <- MCData
  ValidStack = {stack}
  FlashUnits <- MCFlashUnits
  PageUnits = 2
  ApplicationAddress = 2
  Commands <- MCCommands
  MaxPacketSize = 64
  NPackets = 2
  DescriptorLengths = {27}
  InitialFlash <- MCInitialFlash
  Requests <- MCRequests
  Images <- UnalignedOnly
  Segments <- HalfPages
  Addresses <- NoAddresses
  DefaultLimit = 3
  FaultKinds = {}
  MaxFaults = 0
CHECK_DEADLOCK FALSE
INVARIANT SuccessMeansProgrammed
