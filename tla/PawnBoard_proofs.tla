-------------------------- MODULE PawnBoard_proofs --------------------------
(***************************************************************************)
(* Proofs about the Pawn board, for every size of the pages, every script  *)
(* and every file.  The inductive invariant IInv adds to the types: the    *)
(* heap misses exactly the shell that exists; the hook of a thread that    *)
(* has zeroed it was set by a stop since then; while pawnWriteFlash        *)
(* programs, the flash agrees with the block up to the cell it has reached. *)
(* On it rests the invariant of an upload that nothing disturbed, Uploaded: *)
(* the block holds what was sent of a page, the flash what was written.    *)
(***************************************************************************)
EXTENDS PawnBoard, TLAPS

HeapIsExact == heap = IF shell = "none" THEN HeapShells ELSE HeapShells - 1

HookIsFresh ==
  /\ debug /\ exec \in {"cleared", "break", "statement", "cleanup"} => stopped
  /\ StopEndsOnlyItsRun

Agrees(n) == \A c \in Cells : c < n => flash[page * PageCells + c] = memblock[c]

ProgrammedSoFar ==
  /\ answer = "ok" => shell = "prompt"
  /\ shell = "erase" => cell = 0
  /\ shell = "program" /\ ~touched => Agrees(cell)
  /\ answer = "ok" /\ ~touched => Agrees(PAWN_MEM_SIZE)

IInv == TypeOK /\ HeapIsExact /\ HookIsFresh /\ ProgrammedSoFar

-----------------------------------------------------------------------------
(* Lemmas.                                                                  *)

\* The block fits behind every page that can be named.
LEMMA BlockFits ==
  ASSUME NEW p \in 0..LastPage, NEW c \in Cells
  PROVE  p * PageCells + c \in FlashCells
<1>1. PageCells \in Nat /\ LastPage \in Nat /\ p \in Nat /\ p <= LastPage
  BY PawnAssumption
<1>2. p * PageCells \in Nat /\ p * PageCells <= LastPage * PageCells
  BY <1>1
<1>3. (LastPage + 2) * PageCells = LastPage * PageCells + 2 * PageCells
  BY <1>1
<1>4. LastPage * PageCells \in Nat
  BY <1>1
<1> QED
  BY <1>1, <1>2, <1>3, <1>4 DEF FlashCells, Cells, PAWN_MEM_SIZE

\* The flash has at least two pages.
LEMMA TwoPages == \A c \in Cells : c \in FlashCells
<1>1. PageCells \in Nat /\ LastPage \in Nat
  BY PawnAssumption
<1>2. (LastPage + 2) * PageCells = LastPage * PageCells + 2 * PageCells /\ LastPage * PageCells \in Nat
  BY <1>1
<1> QED
  BY <1>1, <1>2 DEF FlashCells, Cells, PAWN_MEM_SIZE

\* What amx_Init leaves in the block are words.
LEMMA MemAfterInitType ==
  ASSUME TypeOK
  PROVE  MemAfterInit \in [Cells -> Word]
<1>1. \A c \in Cells : c < DataCells => CodeCells + c \in FlashCells
  BY PawnAssumption, TwoPages DEF Cells, PAWN_MEM_SIZE
<1> QED
  BY <1>1, PawnAssumption DEF TypeOK, MemAfterInit

\* The kinds of line.
LEMMA LineKinds ==
  ASSUME NEW l \in Line
  PROVE  /\ l.op = "setMem" => l.at \in 0..(PageCells - 1) /\ l.word \in Word
         /\ l.op = "write" => l.page \in 0..LastPage
  BY DEF Line, NoLine

\* The first page is half of the block.
LEMMA HalfBlock == 0..(PageCells - 1) \subseteq Cells
  BY PawnAssumption DEF Cells, PAWN_MEM_SIZE

-----------------------------------------------------------------------------
(* The invariant, action by action.                                         *)

LEMMA InitInv == Init => IInv
<1> SUFFICES ASSUME Init PROVE IInv
  OBVIOUS
<1>1. flash \in [FlashCells -> Word] /\ memblock \in [Cells -> Word]
  BY PawnAssumption DEF Init
<1>2. page \in 0..LastPage /\ cell \in Cells /\ heap \in 0..HeapShells
  BY PawnAssumption DEF Init, Cells, PAWN_MEM_SIZE
<1>3. line \in Line
  BY DEF Init, Line
<1>4. file \in Seq(Word) /\ pos \in 0..Len(file) /\ i \in 0..PageCells
  BY PawnAssumption DEF Init
<1>5. TypeOK
  BY <1>1, <1>2, <1>3, <1>4 DEF Init, TypeOK
<1> QED
  BY <1>5 DEF Init, IInv, HeapIsExact, HookIsFresh, StopEndsOnlyItsRun, ProgrammedSoFar

\* The execution thread.
LEMMA ExecInv ==
  ASSUME IInv, ExecThread
  PROVE  IInv'
<1> USE DEF IInv
<1>1. memblock' \in [Cells -> Word]
  BY MemAfterInitType, PawnAssumption
  DEF TypeOK, ExecThread, ExecClear, ExecInit, OpBreak, Statement, ExecEnd
<1>2. /\ exec' \in {"wait", "woken", "cleared", "break", "statement", "cleanup"}
      /\ error' \in {"none", "exit"}
      /\ {signalled', debug', isRunning', stopped'} \subseteq BOOLEAN
  BY DEF TypeOK, ExecThread, ExecClear, ExecInit, OpBreak, Statement, ExecEnd, Wait,
         HookCleared, RunningAfterEnd
<1>3. touched' \in BOOLEAN /\ spoiled' \in BOOLEAN
  BY DEF TypeOK, ExecThread, WriteInPlay, Spoils
<1>4. UNCHANGED <<flash, pgerr, shell, page, cell, answer, heap, active, line, upload,
                  file, pos, i>>
  BY DEF ExecThread, flashVars, writeVars, host
<1>5. TypeOK'
  BY <1>1, <1>2, <1>3, <1>4 DEF TypeOK
<1>6. HookIsFresh'
  BY DEF HookIsFresh, StopEndsOnlyItsRun, TypeOK, ExecThread, ExecClear, ExecInit, OpBreak,
         Statement, ExecEnd, Wait, HookCleared
<1>7. ProgrammedSoFar'
  BY <1>4 DEF ProgrammedSoFar, Agrees, ExecThread, WriteInPlay, TypeOK
<1> QED
  BY <1>4, <1>5, <1>6, <1>7 DEF HeapIsExact

\* The shell gets a line and starts to execute it.
LEMMA GetLineInv ==
  ASSUME IInv, GetLine
  PROVE  IInv'
<1> USE DEF IInv
<1>1. UNCHANGED <<flash, pgerr, isRunning, error, heap, active, upload, file, pos, i, spoiled>>
      /\ answer' = "none" /\ touched' = FALSE /\ line' = NoLine
  BY DEF GetLine, Execute, SetMem, pawnRun, pawnStop, pawnWriteFlash, Exit, flashVars, execVars
<1>2. memblock' \in [Cells -> Word] /\ page' \in 0..LastPage /\ cell' \in Cells
  <2>1. CASE line.op = "setMem" /\ SetMem(line.at, line.word)
    BY <2>1, LineKinds, HalfBlock DEF SetMem, TypeOK
  <2>2. CASE line.op = "write" /\ pawnWriteFlash(line.page)
    BY <2>2, LineKinds, PawnAssumption DEF pawnWriteFlash, TypeOK, Cells, PAWN_MEM_SIZE
  <2>3. CASE pawnRun \/ pawnStop \/ Exit
    BY <2>3 DEF pawnRun, pawnStop, Exit, TypeOK
  <2> QED
    BY <2>1, <2>2, <2>3 DEF GetLine, Execute
<1>3. /\ exec' \in {"wait", "woken", "cleared", "break", "statement", "cleanup"}
      /\ {signalled', debug', stopped'} \subseteq BOOLEAN
      /\ shell' \in {"prompt", "erase", "ended"}
  BY DEF GetLine, Execute, SetMem, pawnRun, pawnStop, pawnWriteFlash, Exit, TypeOK, execVars
<1>4. TypeOK'
  BY <1>1, <1>2, <1>3 DEF TypeOK, Line
<1>5. HookIsFresh'
  BY <1>1 DEF HookIsFresh, StopEndsOnlyItsRun, GetLine, Execute, SetMem, pawnRun, pawnStop,
         pawnWriteFlash, Exit, execVars
<1> QED
  BY <1>1, <1>3, <1>4, <1>5
  DEF HeapIsExact, ProgrammedSoFar, GetLine, Execute, SetMem, pawnRun, pawnStop,
      pawnWriteFlash, Exit

\* The erase of pawnWriteFlash.
LEMMA EraseInv ==
  ASSUME IInv, Erase
  PROVE  IInv'
<1> USE DEF IInv
<1>1. UNCHANGED <<pgerr, memblock, exec, signalled, debug, isRunning, error, stopped, page,
                  heap, active, line, upload, file, pos, i>>
  BY DEF Erase, execVars, host
<1>2. flash' \in [FlashCells -> Word] /\ cell' \in Cells
  BY PawnAssumption DEF Erase, Return, TypeOK, Cells, PAWN_MEM_SIZE
<1>3. /\ shell' \in {"prompt", "program"} /\ touched' \in BOOLEAN /\ spoiled' \in BOOLEAN
      /\ answer' = IF shell' = "prompt" THEN "erase_error" ELSE answer
  BY DEF Erase, Return, Spoils, TypeOK
<1>4. TypeOK'
  BY <1>1, <1>2, <1>3 DEF TypeOK
<1>5. HookIsFresh' /\ HeapIsExact'
  BY <1>1, <1>3 DEF HookIsFresh, StopEndsOnlyItsRun, HeapIsExact, Erase
<1> QED
  <2>1. shell' = "program" => cell' = 0
    BY DEF Erase, Return, ProgrammedSoFar
  <2>2. shell' = "program" => Agrees(cell)'
    BY <2>1 DEF Agrees, Cells
  <2>3. answer' # "ok"
    BY <1>3 DEF Erase, ProgrammedSoFar
  <2> QED
    BY <1>3, <1>4, <1>5, <2>2, <2>3 DEF ProgrammedSoFar

\* One word of pawnWriteFlash.
LEMMA ProgramWordInv ==
  ASSUME IInv, ProgramWord
  PROVE  IInv'
<1> USE DEF IInv
<1>1. UNCHANGED <<memblock, exec, signalled, debug, isRunning, error, stopped, page,
                  heap, touched, active, line, upload, file, pos, i>>
  BY DEF ProgramWord, execVars, host
<1>2. Target \in FlashCells
  BY BlockFits DEF Target, TypeOK
<1>3. flash' \in [FlashCells -> Word]
  BY <1>2 DEF ProgramWord, TypeOK
<1>4. /\ pgerr' \in BOOLEAN /\ spoiled' \in BOOLEAN
      /\ shell' \in {"prompt", "program"}
      /\ answer' \in {answer, "ok", "program_error"}
      /\ answer' # answer => shell' = "prompt"
  BY DEF ProgramWord, Return, Spoils, TypeOK
<1>5. cell' \in Cells
  BY PawnAssumption DEF ProgramWord, Return, LastCell, TypeOK, Cells, PAWN_MEM_SIZE
<1>6. TypeOK'
  BY <1>1, <1>3, <1>4, <1>5 DEF TypeOK
<1>7. HookIsFresh' /\ HeapIsExact'
  BY <1>1, <1>4 DEF HookIsFresh, StopEndsOnlyItsRun, HeapIsExact, ProgramWord
<1>8. ProgrammedSoFar'
  <2>1. answer' = "ok" => shell' = "prompt" /\ Takes(Target, memblock[cell]) /\ LastCell(cell)
    BY DEF ProgramWord, Return, ProgrammedSoFar
  <2>2. ASSUME ~touched, Takes(Target, memblock[cell])
        PROVE  \A c \in Cells : c < cell + 1 => flash'[page * PageCells + c] = memblock'[c]
    <3> SUFFICES ASSUME NEW c \in Cells, c < cell + 1
                 PROVE  flash'[page * PageCells + c] = memblock'[c]
      OBVIOUS
    <3>1. /\ flash' = [flash EXCEPT ![Target] = memblock[cell]]
          /\ flash \in [FlashCells -> Word]
          /\ page * PageCells + c \in FlashCells
          /\ shell = "program" /\ memblock' = memblock
      BY <1>1, <2>2, BlockFits DEF ProgramWord, TypeOK
    <3>2. page * PageCells \in Int /\ c \in Int /\ cell \in Int
      BY PawnAssumption DEF TypeOK, Cells, PAWN_MEM_SIZE
    <3>3. CASE c = cell
      BY <3>1, <3>3, <1>2 DEF Target
    <3>4. CASE c # cell
      <4>1. c < cell /\ page * PageCells + c # Target
        BY <3>2, <3>4 DEF Target
      <4> QED
        BY <3>1, <4>1, <2>2 DEF ProgrammedSoFar, Agrees
    <3> QED
      BY <3>3, <3>4
  <2>3. shell' = "program" => Takes(Target, memblock[cell]) /\ cell' = cell + 1
    BY DEF ProgramWord, Return
  <2>4. cell \in Int /\ (LastCell(cell) => cell + 1 = PAWN_MEM_SIZE)
    BY PawnAssumption DEF TypeOK, Cells, LastCell, PAWN_MEM_SIZE
  <2> QED
    BY <1>1, <1>4, <2>1, <2>2, <2>3, <2>4 DEF ProgrammedSoFar, Agrees
<1> QED
  BY <1>6, <1>7, <1>8

\* processShell.
LEMMA ProcessShellInv ==
  ASSUME IInv, ProcessShell
  PROVE  IInv'
<1> USE DEF IInv
<1>1. UNCHANGED <<flash, pgerr, memblock, exec, signalled, debug, isRunning, error, stopped,
                  page, cell, answer, touched, active, line, upload, file, pos, i, spoiled>>
      /\ shell' \in {"none", "prompt"}
  BY DEF ProcessShell, CreateShell, ReleaseShell, flashVars, execVars, writeVars, host
<1>2. HeapIsExact' /\ heap' \in 0..HeapShells
  BY PawnAssumption DEF HeapIsExact, ProcessShell, CreateShell, ReleaseShell, HeapReleased
<1>3. TypeOK'
  BY <1>1, <1>2 DEF TypeOK
<1>4. HookIsFresh'
  BY <1>1 DEF HookIsFresh, StopEndsOnlyItsRun
<1>5. ProgrammedSoFar'
  BY <1>1 DEF ProgrammedSoFar, Agrees, ProcessShell, CreateShell, ReleaseShell
<1> QED
  BY <1>2, <1>3, <1>4, <1>5

\* What the host does leaves the board alone.
LEMMA BoardKept ==
  ASSUME IInv, UNCHANGED board, TypeOK'
  PROVE  IInv'
  BY DEF IInv, HeapIsExact, HookIsFresh, StopEndsOnlyItsRun, ProgrammedSoFar, Agrees, board

\* A file is a sequence of words.
LEMMA FileType ==
  ASSUME TypeOK
  PROVE  /\ Len(file) \in Nat /\ \A j \in 1..Len(file) : file[j] \in Word
         /\ cnt \in 0..PageCells /\ pos + cnt <= Len(file)
  BY PawnAssumption DEF TypeOK, cnt

\* So is an empty one.
LEMMA EmptyFile == <<>> \in Seq(Word) /\ 0 \in 0..Len(<<>>) /\ 0 \in 0..PageCells
  BY PawnAssumption

\* The host.
LEMMA HostInv ==
  ASSUME IInv, SendMem \/ SendWrite \/ User
  PROVE  IInv'
<1> USE DEF IInv
<1>1. CASE SendMem
  <2>1. i \in 0..(PageCells - 1) /\ WordToSend \in Word /\ i + 1 \in 0..PageCells
    BY <1>1, FileType, PawnAssumption DEF SendMem, WordToSend, TypeOK
  <2>2. [op |-> "setMem", at |-> i, word |-> WordToSend] \in Line
    BY <2>1 DEF Line
  <2>3. UNCHANGED board /\ line' \in Line /\ spoiled' \in BOOLEAN
    BY <1>1, <2>2 DEF SendMem, Send, TypeOK
  <2>4. TypeOK'
    BY <1>1, <2>1, <2>3 DEF SendMem, Send, TypeOK, board
  <2> QED
    BY <2>3, <2>4, BoardKept
<1>2. CASE SendWrite
  <2>1. [op |-> "write", page |-> 0] \in Line
    BY PawnAssumption DEF Line
  <2>2. UNCHANGED board /\ line' \in Line /\ spoiled' \in BOOLEAN
    BY <1>2, <2>1 DEF SendWrite, Send, TypeOK
  <2>3. pos' \in 0..Len(file') /\ i' \in 0..PageCells
    BY <1>2, FileType, PawnAssumption DEF SendWrite, TypeOK
  <2>4. TypeOK'
    BY <1>2, <2>2, <2>3 DEF SendWrite, Send, TypeOK, board
  <2> QED
    BY <2>2, <2>4, BoardKept
<1>3. ASSUME NEW l \in Line, Type(l)
      PROVE  IInv'
  <2>1. UNCHANGED board
    BY <1>3 DEF Type
  <2>2. TypeOK'
    BY <1>3, <2>1, EmptyFile DEF Type, TypeOK, board
  <2> QED
    BY <2>1, <2>2, BoardKept
<1>4. ASSUME NEW f \in Files, BeginUpload(f)
      PROVE  IInv'
  <2>1. UNCHANGED board
    BY <1>4 DEF BeginUpload
  <2>2. f \in Seq(Word) /\ 0 \in 0..Len(f)
    BY PawnAssumption
  <2>3. TypeOK'
    BY <1>4, <2>1, <2>2, EmptyFile DEF BeginUpload, TypeOK, board
  <2> QED
    BY <2>1, <2>3, BoardKept
<1>5. CASE SetActive
  <2>1. UNCHANGED board
    BY <1>5 DEF SetActive
  <2>2. TypeOK'
    BY <1>5, <2>1 DEF SetActive, TypeOK, board
  <2> QED
    BY <2>1, <2>2, BoardKept
<1>6. /\ \A op \in {"run", "stop", "exit"} : [op |-> op] \in Line
      /\ \A p \in 0..LastPage : [op |-> "write", page |-> p] \in Line
  BY DEF Line
<1> QED
  BY <1>1, <1>2, <1>3, <1>4, <1>5, <1>6 DEF User

\* Power fails, the board starts again.
LEMMA PowerFailsInv ==
  ASSUME IInv, PowerFails
  PROVE  IInv'
<1> USE DEF IInv
<1>1. flash' \in [FlashCells -> Word]
  <2>1. ASSUME NEW done \in SUBSET PageOf(page)
        PROVE  [a \in FlashCells |-> IF a \in done THEN Blank ELSE flash[a]] \in [FlashCells -> Word]
    BY PawnAssumption DEF TypeOK
  <2> QED
    BY <2>1 DEF PowerFails, FlashAfterPowerFailure, TypeOK
<1>2. memblock' \in [Cells -> Word] /\ cell' \in Cells /\ page' \in 0..LastPage
      /\ heap' \in 0..HeapShells
  BY PawnAssumption DEF PowerFails, Booted, Cells, PAWN_MEM_SIZE
<1>3. TypeOK'
  BY <1>1, <1>2, EmptyFile DEF PowerFails, Booted, TypeOK, Line
<1> QED
  BY <1>3 DEF PowerFails, Booted, HeapIsExact, HookIsFresh, StopEndsOnlyItsRun, ProgrammedSoFar

\* The invariant holds in every behaviour.
LEMMA NextInv == IInv /\ [Next]_vars => IInv'
<1> SUFFICES ASSUME IInv, [Next]_vars PROVE IInv'
  OBVIOUS
<1>1. CASE UNCHANGED vars
  BY <1>1 DEF vars, board, host, IInv, TypeOK, HeapIsExact, HookIsFresh, StopEndsOnlyItsRun,
              ProgrammedSoFar, Agrees
<1> QED
  BY <1>1, ExecInv, GetLineInv, EraseInv, ProgramWordInv, ProcessShellInv, HostInv,
     PowerFailsInv DEF Next

LEMMA InvHolds == Spec => []IInv
  BY InitInv, NextInv, PTL DEF Spec

-----------------------------------------------------------------------------
(* The upload.                                                              *)

\* What an upload that nothing spoiled has left on the board.  The words of the file up to
\* pos are those of the whole chunks before this one.

\* The line on its way is the last one of the upload, or one from before it.
LineIsOfUpload ==
  \/ line = NoLine
  \/ line = [op |-> "write", page |-> 0]
  \/ /\ upload = "chunk" /\ i > 0
     /\ line = [op |-> "setMem", at |-> i - 1, word |-> file[pos + i]]

\* Cells of this chunk that the shell has put into the block.
CellsSet == IF line.op = "setMem" THEN i - 1 ELSE i

\* Those cells hold this chunk, the others of the page the chunk before.
BlockHoldsChunks ==
  \A c \in 0..(PageCells - 1) :
    /\ c < CellsSet => memblock[c] = file[pos + c + 1]
    /\ c >= CellsSet /\ pos > 0 => memblock[c] = file[pos - PageCells + c + 1]

\* Once McuCtrl::flash returned its last write is on its way, in progress, or done.
LastWriteUnderWay ==
  upload = "returned" =>
    /\ i = cnt /\ cnt < PageCells
    /\ line = NoLine =>
         /\ page = 0 /\ ~touched
         /\ shell \in {"erase", "program"} \/ (shell = "prompt" /\ answer = "ok")

Uploaded ==
  upload # "none" /\ ~spoiled =>
    /\ \E q \in Nat : pos = q * PageCells
    /\ i <= cnt
    /\ LineIsOfUpload /\ BlockHoldsChunks /\ LastWriteUnderWay

\* A step that begins an upload, or shows that it ends or is spoiled, is no concern.
LEMMA NothingSent ==
  ASSUME upload' = "none" \/ (upload' = "chunk" /\ pos' = 0 /\ i' = 0 /\ line' = NoLine
                              /\ Len(file') \in Nat)
  PROVE  Uploaded'
<1>1. PageCells \in Nat \ {0} /\ 0 \in Nat /\ 0 = 0 * PageCells
  BY PawnAssumption
<1>2. CASE upload' = "none"
  BY <1>2 DEF Uploaded
<1>3. CASE upload' # "none"
  <2>1. upload' = "chunk" /\ pos' = 0 /\ i' = 0 /\ line' = NoLine
    BY <1>3
  <2>2. CellsSet' = 0
    BY <2>1 DEF CellsSet, NoLine
  <2>3. BlockHoldsChunks' /\ LineIsOfUpload' /\ LastWriteUnderWay'
    BY <1>1, <2>1, <2>2 DEF BlockHoldsChunks, LineIsOfUpload, LastWriteUnderWay
  <2>4. i' <= cnt'
    BY <1>1, <1>3, <2>1 DEF cnt
  <2> QED
    BY <1>1, <2>1, <2>3, <2>4 DEF Uploaded
<1> QED
  BY <1>2, <1>3

\* The threads of the board, while they leave the block and the lines alone.
LEMMA UploadKept ==
  ASSUME Uploaded, UNCHANGED host,
         upload # "none" /\ ~spoiled' =>
           /\ ~spoiled /\ memblock' = memblock
           /\ upload = "returned" /\ line = NoLine =>
                /\ page' = page /\ ~touched'
                /\ shell' \in {"erase", "program"} \/ (shell' = "prompt" /\ answer' = "ok")
  PROVE  Uploaded'
  BY DEF Uploaded, host, LineIsOfUpload, BlockHoldsChunks, CellsSet, LastWriteUnderWay, cnt

LEMMA ExecUploaded == ASSUME IInv, Uploaded, ExecThread PROVE Uploaded'
<1>1. UNCHANGED <<host, shell, page, answer>>
  BY DEF ExecThread, writeVars
<1>2. upload # "none" /\ ~spoiled' => ~spoiled /\ memblock' = memblock
  BY DEF ExecThread, Spoils
<1>3. memblock' = memblock /\ ~touched => ~touched'
  BY DEF ExecThread
<1> QED
  BY <1>1, <1>2, <1>3, UploadKept DEF Uploaded, LastWriteUnderWay

\* The shell gets a line: a cell more of this chunk is in the block, or the write begins.
LEMMA GetLineUploaded == ASSUME IInv, Uploaded, GetLine PROVE Uploaded'
<1>1. line # NoLine /\ line' = NoLine /\ touched' = FALSE
      /\ UNCHANGED <<upload, file, pos, i, spoiled>>
  BY DEF GetLine
<1> SUFFICES ASSUME upload # "none", ~spoiled PROVE Uploaded'
  BY <1>1 DEF Uploaded
<1>2. cnt' = cnt /\ CellsSet' = i
  BY <1>1 DEF cnt, CellsSet, NoLine
<1>3. i \in Int /\ pos \in Int
  BY DEF IInv, TypeOK
<1>4. CASE line = [op |-> "write", page |-> 0]
  <2>1. pawnWriteFlash(0)
    BY <1>4 DEF GetLine, Execute
  <2>2. memblock' = memblock /\ page' = 0 /\ shell' = "erase" /\ CellsSet = i
    BY <1>4, <2>1 DEF pawnWriteFlash, CellsSet
  <2>3. BlockHoldsChunks' /\ LineIsOfUpload' /\ LastWriteUnderWay'
    BY <1>1, <1>2, <2>2 DEF Uploaded, BlockHoldsChunks, LineIsOfUpload, LastWriteUnderWay
  <2> QED
    BY <1>1, <1>2, <2>3 DEF Uploaded
<1>5. CASE /\ upload = "chunk" /\ i > 0
           /\ line = [op |-> "setMem", at |-> i - 1, word |-> file[pos + i]]
  <2>1. SetMem(i - 1, file[pos + i])
    BY <1>5 DEF GetLine, Execute
  <2>2. memblock' = [memblock EXCEPT ![i - 1] = file[pos + i]] /\ CellsSet = i - 1
        /\ memblock \in [Cells -> Word]
    BY <1>5, <2>1 DEF SetMem, CellsSet, IInv, TypeOK
  <2>3. BlockHoldsChunks'
    <3> SUFFICES ASSUME NEW c \in 0..(PageCells - 1)
                 PROVE  /\ c < i => memblock'[c] = file[pos + c + 1]
                        /\ c >= i /\ pos > 0 => memblock'[c] = file[pos - PageCells + c + 1]
      BY <1>1, <1>2 DEF BlockHoldsChunks
    <3>0. c \in Cells /\ c \in Int /\ PageCells \in Int
      BY HalfBlock, PawnAssumption
    <3>1. CASE c = i - 1
      BY <1>3, <2>2, <3>0, <3>1
    <3>2. CASE c # i - 1
      <4>1. memblock'[c] = memblock[c]
        BY <2>2, <3>0, <3>2
      <4>2. (c < i => c < CellsSet) /\ (c >= i => c >= CellsSet)
        BY <1>3, <2>2, <3>0, <3>2
      <4> QED
        BY <4>1, <4>2 DEF Uploaded, BlockHoldsChunks
    <3> QED
      BY <3>1, <3>2
  <2>4. LineIsOfUpload' /\ LastWriteUnderWay'
    BY <1>1, <1>5 DEF LineIsOfUpload, LastWriteUnderWay
  <2> QED
    BY <1>1, <1>2, <2>3, <2>4 DEF Uploaded
<1> QED
  BY <1>1, <1>4, <1>5 DEF Uploaded, LineIsOfUpload

\* pawnWriteFlash, and main's loop over the shell.
LEMMA ShellUploaded ==
  ASSUME IInv, Uploaded, Erase \/ ProgramWord \/ ProcessShell
  PROVE  Uploaded'
<1>1. UNCHANGED <<host, memblock, page>>
  BY DEF Erase, ProgramWord, ProcessShell, CreateShell, ReleaseShell, writeVars
<1>2. CASE Erase
  BY <1>1, <1>2, UploadKept DEF Erase, Return, Spoils
<1>3. CASE ProgramWord
  <2>1. touched' = touched
    BY <1>3 DEF ProgramWord
  <2>2. upload # "none" /\ ~spoiled' =>
          ~spoiled /\ (shell' = "program" \/ (shell' = "prompt" /\ answer' = "ok"))
    BY <1>3 DEF ProgramWord, Return, Spoils
  <2> QED
    BY <1>1, <2>1, <2>2, UploadKept DEF Uploaded, LastWriteUnderWay
<1>4. CASE ProcessShell
  <2>1. shell \notin {"prompt", "erase", "program"} /\ spoiled' = spoiled
    BY <1>4 DEF ProcessShell, CreateShell, ReleaseShell
  <2>2. ~(upload = "returned" /\ ~spoiled /\ line = NoLine)
    BY <2>1 DEF Uploaded, LastWriteUnderWay
  <2> QED
    BY <1>1, <2>1, <2>2, UploadKept
<1> QED
  BY <1>2, <1>3, <1>4

\* McuCtrl::flash.
LEMMA SendMemUploaded == ASSUME IInv, Uploaded, SendMem PROVE Uploaded'
<1>1. /\ upload = "chunk" /\ i < cnt /\ line = NoLine
      /\ i' = i + 1 /\ UNCHANGED <<upload, file, pos, memblock>>
  BY DEF SendMem, Send, board
<1> SUFFICES ASSUME ~spoiled' PROVE Uploaded'
  BY DEF Uploaded
<1>2. line' = [op |-> "setMem", at |-> i, word |-> file[pos + i + 1]] /\ ~spoiled
  BY DEF SendMem, Send, WordToSend
<1>3. i \in Nat /\ pos \in Nat /\ cnt \in Nat
  BY FileType, PawnAssumption DEF IInv, TypeOK
<1>4. CellsSet = i /\ CellsSet' = i
  BY <1>1, <1>2, <1>3 DEF CellsSet, NoLine
<1>5. BlockHoldsChunks'
  BY <1>1, <1>2, <1>4 DEF Uploaded, BlockHoldsChunks
<1>6. LineIsOfUpload'
  <2>1. i' > 0 /\ i' - 1 = i /\ pos' + i' = pos + i + 1
    BY <1>1, <1>3
  <2> QED
    BY <1>1, <1>2, <2>1 DEF LineIsOfUpload
<1>7. LastWriteUnderWay'
  BY <1>1 DEF LastWriteUnderWay
<1>8. i' <= cnt' /\ cnt' = cnt
  BY <1>1, <1>3 DEF cnt
<1> QED
  BY <1>1, <1>2, <1>5, <1>6, <1>7, <1>8 DEF Uploaded

LEMMA SendWriteUploaded == ASSUME IInv, Uploaded, SendWrite PROVE Uploaded'
<1>1. upload = "chunk" /\ i = cnt /\ line = NoLine /\ UNCHANGED <<file, memblock>>
  BY DEF SendWrite, Send, board
<1> SUFFICES ASSUME ~spoiled' PROVE Uploaded'
  BY DEF Uploaded
<1>2. line' = [op |-> "write", page |-> 0] /\ line' # NoLine /\ ~spoiled
  BY DEF SendWrite, Send, NoLine
<1>3. i \in Nat /\ pos \in Nat /\ cnt \in 0..PageCells /\ PageCells \in Nat \ {0}
      /\ Len(file) \in Nat /\ pos + cnt <= Len(file)
  BY FileType, PawnAssumption DEF IInv, TypeOK
<1>4. CellsSet = i /\ CellsSet' = i'
  BY <1>1, <1>2 DEF CellsSet, NoLine
<1>5. PICK q \in Nat : pos = q * PageCells
  BY <1>1, <1>2 DEF Uploaded
<1>6. CASE cnt = PageCells
  <2>1. pos' = pos + PageCells /\ i' = 0 /\ upload' = "chunk"
    BY <1>1, <1>6 DEF SendWrite
  <2>2. BlockHoldsChunks'
    BY <1>1, <1>2, <1>3, <1>4, <1>6, <2>1 DEF Uploaded, BlockHoldsChunks
  <2>3. pos' = (q + 1) * PageCells /\ q + 1 \in Nat
    BY <1>3, <1>5, <2>1
  <2>4. i' <= cnt'
    BY <1>1, <1>3, <1>6, <2>1 DEF cnt
  <2> QED
    BY <1>2, <2>1, <2>2, <2>3, <2>4 DEF Uploaded, LineIsOfUpload, LastWriteUnderWay
<1>7. CASE cnt # PageCells
  <2>1. pos' = pos /\ i' = i /\ upload' = "returned"
    BY <1>7 DEF SendWrite
  <2>2. BlockHoldsChunks'
    BY <1>1, <1>2, <1>4, <2>1 DEF Uploaded, BlockHoldsChunks
  <2>3. cnt' = cnt /\ i' = cnt' /\ cnt' < PageCells
    BY <1>1, <1>3, <1>7, <2>1 DEF cnt
  <2>4. LastWriteUnderWay'
    BY <1>2, <2>3 DEF LastWriteUnderWay
  <2> QED
    BY <1>1, <1>2, <1>3, <1>5, <2>1, <2>2, <2>3, <2>4 DEF Uploaded, LineIsOfUpload
<1> QED
  BY <1>6, <1>7

LEMMA UploadedStep == IInv /\ Uploaded /\ [Next]_vars => Uploaded'
<1> SUFFICES ASSUME IInv, Uploaded, [Next]_vars PROVE Uploaded'
  OBVIOUS
<1>1. CASE User
  <2>1. \A l : Type(l) => upload' = "none"
    BY DEF Type
  <2>2. ASSUME NEW f \in Files, BeginUpload(f) PROVE Uploaded'
    <3>1. Len(f) \in Nat
      BY PawnAssumption
    <3> QED
      BY <2>2, <3>1, NothingSent DEF BeginUpload
  <2>3. CASE SetActive
    BY <2>3 DEF SetActive, board, Uploaded, LineIsOfUpload, BlockHoldsChunks, CellsSet,
                LastWriteUnderWay, cnt
  <2> QED
    BY <1>1, <2>1, <2>2, <2>3, NothingSent DEF User
<1>2. CASE PowerFails
  BY <1>2, NothingSent DEF PowerFails, Booted
<1>3. CASE UNCHANGED vars
  BY <1>3 DEF vars, board, host, Uploaded, LineIsOfUpload, BlockHoldsChunks, CellsSet,
              LastWriteUnderWay, cnt
<1> QED
  BY <1>1, <1>2, <1>3, ExecUploaded, GetLineUploaded, ShellUploaded, SendMemUploaded,
     SendWriteUploaded DEF Next

\* The cell that a word of the file belongs to, from the page and the place in it.
LEMMA CellOfWord ==
  ASSUME NEW q \in Int, NEW c \in 0..(PageCells - 1)
  PROVE  (q * PageCells + c) % PageCells = c
<1>1. PageCells \in Nat \ {0}
  BY PawnAssumption
<1> DEFINE x == q * PageCells + c
           d == x \div PageCells
           r == x % PageCells
<1>2. x \in Int /\ d \in Int /\ r \in 0..(PageCells - 1) /\ x = PageCells * d + r
  BY <1>1
<1>3. PageCells * (q - d) = r - c
  BY <1>1, <1>2
<1> HIDE DEF x, d, r
<1>4. q - d >= 1 => PageCells * (q - d) >= PageCells
  BY <1>1, <1>2
<1>5. q - d <= -1 => PageCells * (q - d) <= -PageCells
  BY <1>1, <1>2
<1>6. q - d = 0
  BY <1>1, <1>2, <1>3, <1>4, <1>5
<1>7. r = c
  BY <1>1, <1>2, <1>3, <1>6
<1> QED
  BY <1>7 DEF r, x

\* Pages are in the order of their numbers.
LEMMA Between ==
  ASSUME NEW m \in Int, NEW n \in Int
  PROVE  /\ m * PageCells < n * PageCells => m < n
         /\ m * PageCells > -PageCells => m >= 0
         /\ m * PageCells <= n * PageCells /\ n * PageCells < (m + 1) * PageCells => n = m
<1>1. PageCells \in Nat \ {0}
  BY PawnAssumption
<1>2. n - m <= 0 => (n - m) * PageCells <= 0
  BY <1>1
<1>3. m <= -1 => m * PageCells <= -PageCells
  BY <1>1
<1>4. n - m <= -1 => (n - m) * PageCells <= -PageCells
  BY <1>1
<1>5. n - m >= 1 => (n - m) * PageCells >= PageCells
  BY <1>1
<1>6. (n - m) * PageCells = n * PageCells - m * PageCells
      /\ (m + 1) * PageCells = m * PageCells + PageCells
      /\ n * PageCells \in Int /\ m * PageCells \in Int
  BY <1>1
<1> QED
  BY <1>1, <1>2, <1>3, <1>4, <1>5, <1>6

\* Once the last write is done the page holds the last words of the file.
LEMMA UploadedMeansLanded == IInv /\ Uploaded => UploadLands
<1> SUFFICES ASSUME IInv, Uploaded,
                    upload = "returned", line = NoLine, shell = "prompt", ~spoiled,
                    NEW k \in 0..(PageCells - 1), NEW w \in LastSent(k)
             PROVE  w = flash[k]
  BY DEF UploadLands
<1>1. PageCells \in Nat \ {0} /\ k \in Int /\ k \in Cells /\ pos \in Int /\ Len(file) \in Nat
  BY PawnAssumption, HalfBlock, FileType DEF IInv, TypeOK
<1>2. PICK q \in Nat : pos = q * PageCells
  BY DEF Uploaded
<1>3. i = cnt /\ cnt < PageCells /\ page = 0 /\ ~touched /\ answer = "ok"
  BY DEF Uploaded, LastWriteUnderWay
<1>4. flash[k] = memblock[k]
  <2>1. Agrees(PAWN_MEM_SIZE)
    BY <1>3 DEF IInv, ProgrammedSoFar
  <2>2. k < PAWN_MEM_SIZE /\ page * PageCells + k = k
    BY <1>1, <1>3 DEF PAWN_MEM_SIZE
  <2> QED
    BY <1>1, <2>1, <2>2 DEF Agrees
<1>5. cnt = Len(file) - pos /\ CellsSet = cnt
  BY <1>1, <1>3 DEF cnt, CellsSet, NoLine
<1> DEFINE at == {j \in 1..Len(file) : (j - 1) % PageCells = k}
<1>6. PICK m \in at : w = file[m] /\ \A n \in at : n <= m
  BY DEF LastSent
<1> DEFINE e == (m - 1) \div PageCells
<1>7. m \in 1..Len(file) /\ m = e * PageCells + k + 1 /\ e \in Int
  BY <1>1
<1> HIDE DEF e
<1>8. \A f \in Int : 0 < f * PageCells + k + 1 /\ f * PageCells + k + 1 <= Len(file)
                       => f * PageCells + k + 1 <= m
  <2> SUFFICES ASSUME NEW f \in Int, 0 < f * PageCells + k + 1,
                      f * PageCells + k + 1 <= Len(file)
               PROVE  f * PageCells + k + 1 <= m
    OBVIOUS
  <2>1. f * PageCells \in Int
    BY <1>1
  <2>2. (f * PageCells + k + 1) - 1 = f * PageCells + k
    BY <1>1, <2>1
  <2>3. ((f * PageCells + k + 1) - 1) % PageCells = k
    BY <2>2, CellOfWord
  <2>4. f * PageCells + k + 1 \in at
    BY <1>1, <2>1, <2>3
  <2> QED
    BY <1>6, <2>4
<1>9. CASE k < cnt
  <2>1. pos + k + 1 <= m
    BY <1>1, <1>2, <1>5, <1>8, <1>9
  <2>2. e * PageCells < (q + 1) * PageCells
    BY <1>1, <1>2, <1>3, <1>5, <1>7, <1>9
  <2>3. q * PageCells <= e * PageCells
    BY <1>1, <1>2, <1>7, <2>1
  <2>4. e = q
    BY <1>1, <1>7, <2>2, <2>3, Between
  <2>5. m = pos + k + 1
    BY <1>2, <1>7, <2>4
  <2> QED
    BY <1>4, <1>5, <1>6, <1>9, <2>5 DEF Uploaded, BlockHoldsChunks
<1>10. CASE k >= cnt
  <2>1. e * PageCells < q * PageCells
    BY <1>1, <1>2, <1>3, <1>5, <1>7, <1>10
  <2>2. e < q
    BY <1>1, <1>7, <2>1, Between
  <2>3. e >= 0
    BY <1>1, <1>7, Between
  <2>4. q - 1 \in Int /\ (q - 1) * PageCells = pos - PageCells /\ q - 1 >= 0 /\ (q - 1) * PageCells >= 0
    BY <1>1, <1>2, <1>7, <2>2, <2>3
  <2>5. pos - PageCells + k + 1 <= m
    <3>1. (q - 1) * PageCells + k + 1 > 0 /\ (q - 1) * PageCells + k + 1 <= Len(file)
      BY <1>1, <1>3, <1>5, <2>4, FileType DEF IInv
    <3> QED
      BY <1>8, <2>4, <3>1
  <2>6. (q - 1) * PageCells <= e * PageCells
    BY <1>1, <1>7, <2>4, <2>5
  <2>7. e = q - 1
    BY <1>1, <1>7, <2>1, <2>6, Between
  <2>8. m = pos - PageCells + k + 1 /\ pos > 0
    BY <1>1, <1>7, <2>4, <2>7
  <2> QED
    BY <1>4, <1>5, <1>6, <1>10, <2>8 DEF Uploaded, BlockHoldsChunks
<1> QED
  BY <1>1, <1>5, <1>9, <1>10

-----------------------------------------------------------------------------
(* Theorems.                                                                *)

\* Every variable of the board and of the host keeps its type: no line names a
\* cell outside the page, no write a cell outside the flash, and the heap never
\* gets a working area back twice.
THEOREM TypeCorrect == Spec => []TypeOK
<1>1. IInv => TypeOK
  BY DEF IInv
<1> QED
  BY <1>1, InvHolds, PTL

\* pawnStop ends the run it was meant for and none of the later ones.
THEOREM StopsAreTheirOwn == Spec => []StopEndsOnlyItsRun
<1>1. IInv => StopEndsOnlyItsRun
  BY DEF IInv, HookIsFresh
<1> QED
  BY <1>1, InvHolds, PTL

\* A write that pawnWriteFlash reports as done is in the flash, whatever the
\* flash held, unless a script changed the block meanwhile.
THEOREM WritesAreTrue == Spec => []WriteOkMeansFlashed
<1>1. IInv => WriteOkMeansFlashed
  BY PawnAssumption
  DEF IInv, ProgrammedSoFar, Agrees, WriteOkMeansFlashed, Cells, PAWN_MEM_SIZE
<1> QED
  BY <1>1, InvHolds, PTL

\* Whatever the pages and the file: an upload of McuCtrl::flash that lost no line,
\* met no refusal and shared the block with no script has left in the first page the
\* last words of the file, in spite of the erases in between and whatever was typed,
\* run or written before.
THEOREM UploadsLand == Spec => []UploadLands
<1>1. Init => Uploaded
  BY DEF Init, Uploaded
<1> QED
  BY <1>1, InvHolds, UploadedStep, UploadedMeansLanded, PTL DEF Spec
=============================================================================
