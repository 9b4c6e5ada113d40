SPECIFICATION Spec
CONSTANTS
  BlockCount = 2
  BlockSize = 4
  PacketSize = 2
  InfoLength = 1
  Word = 1024
  Commands <- Transfers
  MaxCommands = 3
  MaxFaults = 1
INVARIANTS
  PassedWriteIsOnCard
CHECK_DEADLOCK FALSE
