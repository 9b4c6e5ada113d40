\* Every request of the class and of the control endpoint, in every state.
SPECIFICATION Spec
CONSTANTS
  stack = stack
  Erased = Erased
  Zeros = Zeros
  Data = {stack}
  ValidStack = {stack}
  FlashUnits = {0, 1}
  PageUnits = 1
  ApplicationAddress = 1
  Commands <- NoCommands
  MaxPacketSize = 64
  NPackets = 2
  DescriptorLengths = {98}
  InitialFlash <- MCInitialFlash
  Requests <- AllRequests
INVARIANTS
  TypeOK
  NextPacketAnswered
  ReplyIsCurrent
PROPERTIES
  ErrorIsSticky
