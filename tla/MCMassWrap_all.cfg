SPECIFICATION Spec
CONSTANTS
  BlockCount = 2
  BlockSize = 4
  PacketSize = 2
  InfoLength = 1
  Word = 1024
  Commands <- Wrapping
  MaxCommands = 2
  MaxFaults = 0
PROPERTIES
  OnlyTheCommandWrites
CHECK_DEADLOCK FALSE
