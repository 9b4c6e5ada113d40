\* One transfer fails; a session ends.
SPECIFICATION FairSession
CONSTANTS
  stack = stack
  a = a
  c = c
  d = d
  old = old
  Erased = Erased
  Zeros = Zeros
  Data <- MCData
  ValidStack = {stack}
  FlashUnits <- MCFlashUnits
  PageUnits = 2
  ApplicationAddress = 2
  Commands <- MCCommands
  MaxPacketSize = 64
  NPackets = 2
  DescriptorLengths = {27}
  InitialFlash <- MCInitialFlash
  Requests <- MCRequests
  Images <- LookingOnly
  Segments <- TruePages
  Addresses <- NoAddresses
  DefaultLimit = 3
  FaultKinds = {"transfer"}
  MaxFaults = 1
CHECK_DEADLOCK FALSE
PROPERTY OnlyAnnouncedChanges
