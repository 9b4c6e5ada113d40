\* Updates with up to four failures of any kind, and recovery from them; a session ends.
SPECIFICATION FairSession
CONSTANTS
  stack = stack
  a = a
  c = c
  d = d
  old = old
  Erased = Erased
  Zeros = Zeros
  Data <- MCData
  ValidStack = {stack}
  FlashUnits <- MCFlashUnits
  PageUnits = 2
  ApplicationAddress = 2
  Commands <- MCCommands
  MaxPacketSize = 64
  NPackets = 2
  DescriptorLengths = {27}
  InitialFlash <- MCInitialFlash
  Requests <- MCRequests
  Images <- AnyImage
  Segments <- TruePages
  Addresses <- AnyAddress
  DefaultLimit = 3
  FaultKinds = {"transfer", "race", "reset", "power"}
  MaxFaults = 4
CHECK_DEADLOCK FALSE
INVARIANTS
  SessionTypeOK
  SuccessMeansProgrammed
  UploadIsExact
PROPERTIES
  OtherPagesIntact
  ChunksLandOnErased
  ImplementsUpdate
  Recovers
