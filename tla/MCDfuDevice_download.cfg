\* Downloads: every interleaving of requests, packets, bus resets and power failures.
SPECIFICATION Spec
CONSTANTS
  stack = stack
  Erased = Erased
  Zeros = Zeros
  Data = {stack}
  ValidStack = {stack}
  FlashUnits <- MCFlashUnits
  PageUnits = 2
  ApplicationAddress <- MCApplicationAddress
  Commands <- DownloadCommands
  MaxPacketSize = 64
  NPackets = 2
  DescriptorLengths = {98}
  InitialFlash <- MCInitialFlash
  Requests <- DownloadRequests
INVARIANTS
  StatusConsistent
  PendingIsAccepted
  AckedBlockIsComplete
PROPERTIES
  FlashChangesOnlyWhenBusy
