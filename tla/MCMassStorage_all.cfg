SPECIFICATION Spec
CONSTANTS
  BlockCount = 2
  BlockSize = 4
  PacketSize = 2
  InfoLength = 1
  Word = 1024
  Commands <- MCCommands
  MaxCommands = 3
  MaxFaults = 2
INVARIANTS
  TypeOK
  ReadIsExact
  WriteIsOnCard
  BlocksWhole
  ResidueIsExact
  AnsweredMeansReady
  BadWrapperStaysStalled
PROPERTIES
  OnlyTheCommandWrites
  Answered
CHECK_DEADLOCK FALSE
