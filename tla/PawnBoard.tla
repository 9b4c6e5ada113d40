------------------------------ MODULE PawnBoard ------------------------------
(***************************************************************************)
(* The Pawn board: firmware-pawn-dev/firmware (main.c, usb_ctrl.c,         *)
(* pawn/pawn_ctrl.c over stm32f10x_flash.c) and the host's McuCtrl::flash. *)
(* Three threads of one priority share the memory block: main watches over *)
(* the shell, the shell executes the lines that come over USB, and the     *)
(* execution thread runs the script of the flash whenever the semaphore is *)
(* signalled.  The block is at the same time the data of the running       *)
(* script and the place where an upload is put together, cell by cell,     *)
(* before it is programmed.  The power may fail at any point.              *)
(***************************************************************************)
EXTENDS Integers, Sequences

CONSTANTS
  PageCells,   \* cells of a flash page; the memory block has PAWN_MEM_SIZE, two pages
  LastPage,    \* last page a pawnWriteFlash may name; the flash goes one further
  Word,        \* values of a cell
  Blank,       \* an erased cell
  Zero,
  Scripts,     \* first words that amx_Init accepts
  ScriptWords, \* what a script stores
  ScriptCells, \* where it stores
  CodeCells,   \* cells of header and code before the data of the image
  DataCells,   \* cells of data that amx_Init copies
  Files,       \* files that the host uploads
  InitialFlash,
  HeapShells   \* working areas of a shell the heap has room for

PAWN_MEM_SIZE == 2 * PageCells
FlashCells    == 0..((LastPage + 2) * PageCells - 1)
Cells         == 0..(PAWN_MEM_SIZE - 1)
PageOf(p)     == (p * PageCells)..(p * PageCells + PageCells - 1)

ASSUME PawnAssumption ==
  /\ PageCells \in Nat \ {0} /\ LastPage \in Nat
  /\ {Blank, Zero} \cup Scripts \cup ScriptWords \subseteq Word
  /\ Blank # Zero /\ Blank \notin Scripts
  /\ ScriptCells \subseteq Cells
  /\ CodeCells \in Nat /\ DataCells \in Nat
  /\ DataCells < PAWN_MEM_SIZE /\ CodeCells + DataCells <= PAWN_MEM_SIZE
  /\ Files \subseteq Seq(Word)
  /\ InitialFlash \subseteq [FlashCells -> Word]
  /\ HeapShells \in Nat \ {0}

NoLine == [op |-> "none"]
Line ==
  {NoLine} \cup [op : {"run", "stop", "exit"}]
           \cup [op : {"write"}, page : 0..LastPage]
           \cup [op : {"setMem"}, at : 0..(PageCells - 1), word : Word]

VARIABLES
  flash,      \* the pages from PAWN_START_PAGE on
  pgerr,      \* FLASH_SR.PGERR
  memblock,
  exec,       \* where the execution thread is
  signalled,  \* the semaphore, while nobody waits at it
  debug,      \* the debug hook of amx is aux_Monitor
  isRunning,
  error,      \* what amx_Exec returned last
  shell,      \* the shell thread: none, waiting for a line, in pawnWriteFlash, ended
  page, cell, \* the arguments of the loop in pawnWriteFlash
  answer,     \* what pawnWriteFlash returned, until the next command
  heap,       \* working areas left
  active,     \* the host has configured the device
  line,       \* the line on its way to the shell
  upload,     \* McuCtrl::flash: none, the chunk in progress, returned
  file, pos, i,  \* its file, the words before this chunk, the index in it
  \* History: a script wrote to memblock since the write began; a stop came
  \* since the thread woke up; the upload lost a line, was refused, or shared
  \* the block with a script.
  touched, stopped, spoiled

board == <<flash, pgerr, memblock, exec, signalled, debug, isRunning, error,
           shell, page, cell, answer, heap, touched, stopped>>
host  == <<active, line, upload, file, pos, i>>
vars  == <<board, host, spoiled>>

execVars  == <<exec, signalled, debug, isRunning, error, stopped>>
writeVars == <<page, cell, answer>>
flashVars == <<flash, pgerr>>

\* What the history variables record, while there is something to spoil.
WriteInPlay == shell = "program" \/ answer = "ok"
Spoils(bad) == spoiled' = (upload # "none" /\ (spoiled \/ bad))

-----------------------------------------------------------------------------
(* The execution thread: chBSemWait and pawnExec.                           *)
(* Steps that no other thread can tell apart are one.                       *)

\* chBSemWait: go on with the signal that came meanwhile, or wait.  (The
\* variant waits for the next signal.)
WaitForNext == exec' = "wait" /\ signalled' = FALSE

Wait ==
  IF signalled THEN exec' = "woken" /\ signalled' = FALSE
               ELSE exec' = "wait"  /\ UNCHANGED signalled

\* All of amx is zeroed, its debug hook included.  (The variant keeps it.)
\* The code zeroes byte after byte, outside chSysLock: a pawnStop between two of
\* the four bytes of the hook would leave a part of its address, and OP_BREAK
\* would call that.  Here the machine is zeroed in one step.
HookKept    == debug
HookCleared == FALSE

ExecClear ==
  /\ exec = "woken" /\ exec' = "cleared"
  /\ isRunning' = FALSE /\ debug' = HookCleared /\ stopped' = FALSE
  /\ UNCHANGED <<signalled, error, memblock>>

\* amx_Init: an image it does not know is an error; else its data goes to the
\* block, and a zero to the top of the stack.
MemAfterInit ==
  [c \in Cells |-> IF c < DataCells THEN flash[CodeCells + c]
                   ELSE IF c = PAWN_MEM_SIZE - 1 THEN Zero ELSE memblock[c]]

ExecInit ==
  /\ exec = "cleared"
  /\ IF flash[0] \in Scripts
       THEN /\ exec' = "break" /\ isRunning' = TRUE /\ memblock' = MemAfterInit
            /\ UNCHANGED signalled
       ELSE Wait /\ UNCHANGED <<isRunning, memblock>>
  /\ UNCHANGED <<debug, error, stopped>>

\* OP_BREAK, which the compiler puts before every statement: the hook, when it
\* is set, ends the script with AMX_ERR_EXIT.  The code of a script is executed
\* from the flash: that it goes on meeting an OP_BREAK before each statement is
\* assumed even while an upload erases and programs that flash.
OpBreak ==
  /\ exec = "break"
  /\ IF debug THEN exec' = "cleanup" /\ error' = "exit"
              ELSE exec' = "statement" /\ UNCHANGED error
  /\ UNCHANGED <<signalled, debug, isRunning, stopped, memblock>>

\* A statement stores a word, or none; the script may be a loop, return, or fail
\* ("none" stands for every outcome but AMX_ERR_EXIT).
Statement ==
  /\ exec = "statement"
  /\ \/ /\ exec' = "break" /\ UNCHANGED error
        /\ \E c \in ScriptCells, w \in ScriptWords :
             memblock' = [memblock EXCEPT ![c] = w]
     \/ exec' = "break"   /\ UNCHANGED <<memblock, error>>
     \/ exec' = "cleanup" /\ error' = "none" /\ UNCHANGED memblock
  /\ UNCHANGED <<signalled, debug, isRunning, stopped>>

\* (The variant forgets to clear isRunning.)
RunningKept     == isRunning
RunningAfterEnd == FALSE

ExecEnd ==
  /\ exec = "cleanup" /\ isRunning' = RunningAfterEnd /\ Wait
  /\ UNCHANGED <<debug, error, stopped, memblock>>

ExecThread ==
  /\ ExecClear \/ ExecInit \/ OpBreak \/ Statement \/ ExecEnd
  /\ touched' = (WriteInPlay /\ (touched \/ memblock' # memblock))
  /\ Spoils(memblock' # memblock)
  /\ UNCHANGED <<flashVars, shell, writeVars, heap, host>>

-----------------------------------------------------------------------------
(* The shell thread.                                                        *)

\* pawnSetMem, one byte of the line.
SetMem(at, word) ==
  /\ memblock' = [memblock EXCEPT ![at] = word]
  /\ answer' = "none"
  /\ UNCHANGED <<flashVars, execVars, shell, page, cell>>

\* chBSemSignal: the thread that waits is woken; otherwise the signal is kept.
pawnRun ==
  /\ IF exec = "wait" THEN exec' = "woken" /\ UNCHANGED signalled
                      ELSE signalled' = TRUE /\ UNCHANGED exec
  /\ answer' = "none"
  /\ UNCHANGED <<debug, isRunning, error, stopped, flashVars, memblock, shell,
                 page, cell>>

pawnStop ==
  /\ debug' = TRUE /\ stopped' = TRUE /\ answer' = "none"
  /\ UNCHANGED <<exec, signalled, isRunning, error, flashVars, memblock, shell,
                 page, cell>>

pawnWriteFlash(p) ==
  /\ shell' = "erase" /\ page' = p /\ cell' = 0 /\ answer' = "none"
  /\ UNCHANGED <<flashVars, execVars, memblock>>

\* "exit" or ^D: the thread ends.
Exit ==
  /\ shell' = "ended" /\ answer' = "none"
  /\ UNCHANGED <<flashVars, execVars, memblock, page, cell>>

Execute(l) ==
  \/ l.op = "setMem" /\ SetMem(l.at, l.word)
  \/ l.op = "run"    /\ pawnRun
  \/ l.op = "stop"   /\ pawnStop
  \/ l.op = "write"  /\ pawnWriteFlash(l.page)
  \/ l.op = "exit"   /\ Exit

GetLine ==
  /\ shell = "prompt" /\ line # NoLine
  /\ Execute(line)
  /\ line' = NoLine /\ touched' = FALSE
  /\ UNCHANGED <<heap, active, upload, file, pos, i, spoiled>>

\* pawnWriteFlash returns with the flash locked again.
Return(result) ==
  /\ shell' = "prompt" /\ answer' = result /\ cell' = 0
  /\ Spoils(result # "ok")

\* FLASH_ErasePage waits for the last operation and gives up if it left PGERR,
\* a flag that nothing here clears.
Erase ==
  /\ shell = "erase"
  /\ IF pgerr
       THEN Return("erase_error") /\ UNCHANGED <<flash, touched>>
       ELSE /\ flash' = [a \in FlashCells |-> IF a \in PageOf(page) THEN Blank ELSE flash[a]]
            /\ shell' = "program" /\ touched' = FALSE
            /\ UNCHANGED <<cell, answer, spoiled>>
  /\ UNCHANGED <<pgerr, execVars, memblock, page, heap, host>>

\* A cell takes a word when it is erased, and 0x0000 always.
Target     == page * PageCells + cell
Takes(a, w) == flash[a] = Blank \/ w = Zero

\* The loop over the whole block, two pages from the one erased.  (The variants
\* leave out the last word, and go one further.)
LastCellShort(c) == c = PAWN_MEM_SIZE - 2
LastCellPast(c)  == c = PAWN_MEM_SIZE
LastCell(c)      == c = PAWN_MEM_SIZE - 1

\* FLASH_ProgramWord programs two halves, and gives up at the first that is
\* refused: what the cell holds then is some word of old and new halves.
ProgramWord ==
  /\ shell = "program"
  /\ IF Takes(Target, memblock[cell])
       THEN /\ flash' = [flash EXCEPT ![Target] = memblock[cell]]
            /\ IF LastCell(cell) THEN Return("ok")
                 ELSE cell' = cell + 1 /\ UNCHANGED <<shell, answer, spoiled>>
            /\ UNCHANGED pgerr
       ELSE /\ pgerr' = TRUE /\ Return("program_error")
            /\ \E w \in Word \ {Blank} : flash' = [flash EXCEPT ![Target] = w]
  /\ UNCHANGED <<execVars, memblock, page, heap, touched, host>>

-----------------------------------------------------------------------------
(* processShell in main's loop, every 250 ms.                               *)

\* shellCreate: NULL when the heap has no room.
CreateShell ==
  /\ shell = "none" /\ active /\ heap > 0
  /\ shell' = "prompt" /\ heap' = heap - 1
  /\ UNCHANGED <<flashVars, execVars, memblock, writeVars, touched, host, spoiled>>

\* chThdRelease gives the working area back.  (The variant does not.)
HeapLeaked   == heap
HeapReleased == heap + 1

ReleaseShell ==
  /\ shell = "ended"
  /\ shell' = "none" /\ heap' = HeapReleased
  /\ UNCHANGED <<flashVars, execVars, memblock, writeVars, touched, host, spoiled>>

ProcessShell == CreateShell \/ ReleaseShell

-----------------------------------------------------------------------------
(* The host.                                                                *)

\* UsbIo::write: its result is ignored, so a line may be lost.
Send(l) ==
  /\ line = NoLine /\ active
  /\ \/ line' = l /\ UNCHANGED spoiled
     \/ line' = NoLine /\ spoiled' = TRUE
  /\ UNCHANGED <<board, active>>

\* A line typed in the terminal (one that is lost changes nothing).
Type(l) ==
  /\ upload # "chunk" /\ upload' = "none"
  /\ line = NoLine /\ active /\ line' = l
  /\ spoiled' = FALSE /\ UNCHANGED <<board, active>>
  /\ file' = <<>> /\ pos' = 0 /\ i' = 0

BeginUpload(f) ==
  /\ upload # "chunk" /\ upload' = "chunk"
  /\ active /\ line = NoLine
  /\ file' = f /\ pos' = 0 /\ i' = 0 /\ spoiled' = FALSE
  /\ UNCHANGED <<board, active, line>>

\* fread: a page of the file, or what is left of it.
cnt == IF Len(file) - pos < PageCells THEN Len(file) - pos ELSE PageCells

\* (The variant takes the word of the first chunk again.)
WordOfFirst == file[i + 1]
WordToSend  == file[pos + i + 1]

SendMem ==
  /\ upload = "chunk" /\ i < cnt
  /\ Send([op |-> "setMem", at |-> i, word |-> WordToSend])
  /\ i' = i + 1
  /\ UNCHANGED <<upload, file, pos>>

\* flashPage is set to 0 for every chunk; the loop ends after a chunk that is
\* not a full page.
SendWrite ==
  /\ upload = "chunk" /\ i = cnt
  /\ Send([op |-> "write", page |-> 0])
  /\ IF cnt = PageCells THEN pos' = pos + cnt /\ i' = 0 /\ UNCHANGED upload
                        ELSE upload' = "returned" /\ UNCHANGED <<pos, i>>
  /\ UNCHANGED file

SetActive ==
  /\ active' = ~active
  /\ UNCHANGED <<board, line, upload, file, pos, i, spoiled>>

-----------------------------------------------------------------------------
(* Power.                                                                   *)

\* What an interrupted erase leaves: any part of the page erased.
FlashAfterPowerFailure ==
  IF shell = "erase" /\ ~pgerr
    THEN {[a \in FlashCells |-> IF a \in done THEN Blank ELSE flash[a]] :
            done \in SUBSET PageOf(page)}
    ELSE {flash}

\* main: pawnInit, initUsb, pawnRun; the thread has reached the semaphore long
\* before the second that initUsb waits is over.
Booted ==
  /\ pgerr' = FALSE /\ memblock' = [c \in Cells |-> Zero]
  /\ exec' = "woken" /\ signalled' = FALSE /\ debug' = FALSE /\ isRunning' = FALSE
  /\ error' = "none" /\ stopped' = FALSE /\ touched' = FALSE
  /\ shell' = "none" /\ page' = 0 /\ cell' = 0 /\ answer' = "none"
  /\ heap' = HeapShells
  /\ active' = FALSE /\ line' = NoLine /\ upload' = "none"
  /\ file' = <<>> /\ pos' = 0 /\ i' = 0 /\ spoiled' = FALSE

PowerFails == flash' \in FlashAfterPowerFailure /\ Booted

Init ==
  /\ flash \in InitialFlash
  /\ pgerr = FALSE /\ memblock = [c \in Cells |-> Zero]
  /\ exec = "woken" /\ signalled = FALSE /\ debug = FALSE /\ isRunning = FALSE
  /\ error = "none" /\ stopped = FALSE /\ touched = FALSE
  /\ shell = "none" /\ page = 0 /\ cell = 0 /\ answer = "none"
  /\ heap = HeapShells
  /\ active = FALSE /\ line = NoLine /\ upload = "none"
  /\ file = <<>> /\ pos = 0 /\ i = 0 /\ spoiled = FALSE

User ==
  \/ \E op \in {"run", "stop", "exit"} : Type([op |-> op])
  \/ \E p \in 0..LastPage : Type([op |-> "write", page |-> p])
  \/ \E f \in Files : BeginUpload(f)
  \/ SetActive

Next ==
  \/ ExecThread
  \/ GetLine \/ Erase \/ ProgramWord
  \/ ProcessShell
  \/ SendMem \/ SendWrite \/ User
  \/ PowerFails

\* The kernel takes turns between the threads of one priority.
Fairness == WF_vars(ExecThread) /\ WF_vars(ProcessShell)

Spec == Init /\ [][Next]_vars /\ Fairness

-----------------------------------------------------------------------------
(* Properties.                                                              *)

TypeOK ==
  /\ flash \in [FlashCells -> Word] /\ memblock \in [Cells -> Word]
  /\ {pgerr, signalled, debug, isRunning, active, touched, stopped, spoiled} \subseteq BOOLEAN
  /\ exec \in {"wait", "woken", "cleared", "break", "statement", "cleanup"}
  /\ error \in {"none", "exit"}
  /\ shell \in {"none", "prompt", "erase", "program", "ended"}
  /\ page \in 0..LastPage /\ cell \in Cells
  /\ answer \in {"none", "ok", "erase_error", "program_error"}
  /\ heap \in 0..HeapShells /\ line \in Line
  /\ upload \in {"none", "chunk", "returned"}
  /\ file \in Seq(Word) /\ pos \in 0..Len(file) /\ i \in 0..PageCells

\* A script is ended from outside only by a stop that came after its thread
\* had woken up for it: the stop of an earlier run, or one that came while no
\* script ran, ends none of the later runs (pawnExec zeroes the hook).
StopEndsOnlyItsRun ==
  exec = "cleanup" /\ error = "exit" => stopped

\* When pawnWriteFlash returned 0 and no script wrote to the block meanwhile,
\* the flash holds the block, from the page named on.
WriteOkMeansFlashed ==
  answer = "ok" /\ ~touched =>
    \A c \in Cells : flash[page * PageCells + c] = memblock[c]

\* When McuCtrl::flash returned and the board has done all it was sent, no line
\* was lost, no write refused and no script ran in the block, each cell of the
\* first page holds the last word of the file that belongs there: the whole
\* file, when it is no longer than a page.
LastSent(k) ==
  LET at == {j \in 1..Len(file) : (j - 1) % PageCells = k}
  IN  {file[j] : j \in {m \in at : \A n \in at : n <= m}}

UploadLands ==
  upload = "returned" /\ line = NoLine /\ shell = "prompt" /\ ~spoiled =>
    \A k \in 0..(PageCells - 1) : LastSent(k) \subseteq {flash[k]}

\* A stop that is set while a script runs ends it, even one that loops for ever.
StopEnds == (isRunning /\ debug) ~> ~isRunning

\* A run asked for while a script runs is not lost: once that script is
\* stopped, the thread starts again.
RunIsServed ==
  (signalled /\ debug /\ isRunning) ~> (exec = "cleared")

\* While the host keeps the device configured there is a shell again and again,
\* however often the user leaves it.
ShellReturns == <>[]active => []<>(shell \in {"prompt", "erase", "program"})
=============================================================================
