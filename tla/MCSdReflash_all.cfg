\* Two failures; the board may stay switched off.
SPECIFICATION Spec
CONSTANTS
  stk = stk
  a = a
  b = b
  Erased = Erased
  Torn = Torn
  StackBytes = {stk}
  FlashSize = 32
  SectorSize = 8
  Byte <- MCByte
  InitialFlash <- MCInitialFlash
  Files <- MCFiles
  TornParts <- MCTornParts
  MaxFaults = 2
INVARIANTS
  TypeOK
  ToldMeansFlashed
  BlankBehind
PROPERTIES
  StaysInScope
  DfuModeConverges
  ImplementsUpdate
