\* The threads and the host go on for ever.
SPECIFICATION Spec
CONSTANTS
  amx = amx
  s = s
  Blank = Blank
  Zero = Zero
  PageCells = 1
  LastPage = 0
  Word <- MCWord
  Scripts = {amx}
  ScriptWords = {s}
  ScriptCells = {1}
  CodeCells = 1
  DataCells = 1
  Files <- MCFiles
  InitialFlash <- MCInitialFlash
  HeapShells = 1
INVARIANTS
  TypeOK
  StopEndsOnlyItsRun
  WriteOkMeansFlashed
  UploadLands
PROPERTIES
  StopEnds
  RunIsServed
  ShellReturns
