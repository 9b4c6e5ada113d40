------------------------------ MODULE DfuSession ------------------------------
(***************************************************************************)
(* A firmware update: the host tool dfu-cmd (src/dfu/dfu-cmd/src/main.c)   *)
(* with the DfuSe download and upload of src/dfu/libdfu/src/dfuse.c,       *)
(* against the bootloader of DfuDevice.  Every control transfer of the     *)
(* host goes through the device packet by packet.  Transfers fail, packets *)
(* overtake the interrupts that account for them, the bus is reset and the *)
(* power goes; the tool exits on the first error and the user runs it      *)
(* again.                                                                  *)
(*                                                                         *)
(* pc names the call of the tool that comes next or is under way.          *)
(***************************************************************************)
EXTENDS DfuDevice, Sequences, FiniteSets

CONSTANTS
  Images,      \* the files to download: sequences of elements
  Segments,    \* the memory layout the device announces
  Addresses,   \* where the user has the flash read from; 0 when no address is given
  DefaultLimit,  \* packets of an upload without an address
  FaultKinds,  \* which of "transfer", "race", "reset" and "power" may happen
  MaxFaults    \* bound: how many of them

Element == [addr : FlashUnits, data : Seq(Data)]
Segment == [start : Nat, end : Nat, pagesize : Nat \ {0}, writeable : BOOLEAN,
            erasable : BOOLEAN, readable : BOOLEAN]

ASSUME SessionAssumption ==
  /\ Images \subseteq Seq(Element)
  /\ \A i \in Images : \A e \in 1 .. Len(i) : Len(i[e].data) > 0
  /\ Segments \subseteq Segment
  /\ \A u \in FlashUnits : 0 .. u \subseteq FlashUnits
  /\ \A s \in Segments : s.start .. s.end \subseteq FlashUnits
  /\ \A s \in Segments : s.writeable \/ s.erasable => s.start >= ApplicationAddress
  /\ ~IsCommand(Zeros, "ERASE")
  /\ Addresses \subseteq FlashUnits /\ DefaultLimit \in Nat \ {0}
  /\ MaxFaults \in Nat

\* What the user runs the tool for.
Tasks == [op : {"download"}, addr : {0}] \cup [op : {"upload"}, addr : Addresses]

VARIABLES
  image,          \* the file to download
  task,           \* what this run of the tool is for
  file, buf,      \* the packets that an upload has written, those of the call under way
  pc,
  calling,        \* a control transfer is under way
  el, p,          \* the element, the packets of it already sent
  erase_address,  \* next address of the erase loop
  last_erased,
  cmd,            \* the special command under way
  faults

hostVars    == <<image, task, file, buf, pc, calling, el, p, erase_address, last_erased, cmd, faults>>
sessionVars == <<vars, hostVars>>

CallSites == {"status", "clear", "abort", "clear_warn", "status_warn",
              "command", "busy", "result", "leave", "idle", "chunk", "poll", "upload", "detach"}
LocalSites == {"begin", "element", "next_chunk", "erase", "set_address", "reset", "failed", "finished"}

SessionInit ==
  /\ Init
  /\ image \in Images /\ task \in Tasks /\ file = <<>> /\ buf = <<>>
  /\ pc = "status" /\ calling = FALSE
  /\ el = 1 /\ p = 0 /\ erase_address = 0 /\ last_erased = 0
  /\ cmd = CommandList
  /\ faults = 0

-----------------------------------------------------------------------------
(* The arithmetic of dfuse_dnload_element.                                  *)

find_segment(a) == {s \in Segments : s.start <= a /\ a <= s.end}

Writeable(a) == \E s \in find_segment(a) : s.writeable
Erasable(a)  == \E s \in find_segment(a) : s.erasable
Readable(a)  == \E s \in find_segment(a) : s.readable

Size       == Len(image[el].data)
address    == image[el].addr + p
chunk_size == IF p + NPackets > Size THEN Size - p ELSE NPackets

\* The last address of the chunk.  (Past: one too far.)
LastOfChunkPast == address + chunk_size
LastOfChunk     == address + chunk_size - 1

page_size == (CHOOSE s \in find_segment(address) : TRUE).pagesize

\* Not the page that was erased last.
NeedsErase(a) == a \div page_size # last_erased \div page_size

\* After the loop: the chunk wraps over to a page that is not erased yet.
WrapsOverIgnored == FALSE
WrapsOver        == NeedsErase(LastOfChunk)

\* (MoreToSendEqual: one more, empty chunk for an element of whole blocks.
\* WholeChunksOnly: the rest of an element after its whole chunks is not sent.)
MoreToSendEqual == p <= Size
WholeChunksOnly == p + NPackets <= Size
MoreToSend      == p < Size

-----------------------------------------------------------------------------
(* The arithmetic of dfuse_do_upload.                                       *)

\* To the end of the segment.
LimitFrom(a) ==
  IF a = 0 THEN DefaultLimit ELSE (CHOOSE s \in find_segment(a) : TRUE).end - a + 1
UploadLimit == LimitFrom(task.addr)

\* The blocks before the one to ask for were whole.  (From0: counted from 0.)
TransactionFrom0 == Len(file) \div NPackets
Transaction      == Len(file) \div NPackets + 2

\* The data of the call, the packet included that the device has not accounted for yet.
Got ==
  IF pc = "upload" /\ ControlState \in {"IN_DATA", "LAST_IN_DATA"}
    THEN Append(buf, tx.data) ELSE buf

\* A short block ends the upload, and so does the limit.
LastBlock == Len(Got) < NPackets \/ Len(file) + Len(Got) >= UploadLimit

-----------------------------------------------------------------------------
(* Calls: one control transfer each.                                        *)

RequestOf(site) ==
  CASE site \in {"status", "status_warn", "busy", "result", "idle", "poll"} ->
         [req |-> "GETSTATUS", blk |-> 0, len |-> 6]
    [] site \in {"clear", "clear_warn"} -> [req |-> "CLRSTATUS", blk |-> 0, len |-> 0]
    [] site \in {"abort", "leave"} -> [req |-> "ABORT", blk |-> 0, len |-> 0]
    [] site = "command" -> [req |-> "DNLOAD", blk |-> 0, len |-> 5]
    [] site = "chunk" -> [req |-> "DNLOAD", blk |-> 2, len |-> chunk_size * MaxPacketSize]
    [] site = "upload" -> [req |-> "UPLOAD", blk |-> Transaction, len |-> wTransferSize]
    [] site = "detach" -> [req |-> "DETACH", blk |-> 0, len |-> 0]

\* The device's host may make every request that the tool makes.
UploadsFrom(a) ==
  [req : {"UPLOAD"}, blk : 2 .. ((LimitFrom(a) - 1) \div NPackets + 2), len : {wTransferSize}]

ASSUME ToolAssumption ==
  /\ {[req |-> "GETSTATUS", blk |-> 0, len |-> 6], [req |-> "DNLOAD", blk |-> 0, len |-> 5]}
       \cup [req : {"CLRSTATUS", "ABORT", "DETACH"}, blk : {0}, len : {0}]
       \cup [req : {"DNLOAD"}, blk : {2}, len : {k * MaxPacketSize : k \in 1 .. NPackets}]
       \cup UploadsFrom(0) \subseteq Requests
  /\ \A a \in Addresses : a # 0 /\ Readable(a) =>
       UploadsFrom(a) \subseteq Requests /\ [op |-> "SETADDRESSPOINTER", addr |-> a] \in Commands
  /\ \A a \in FlashUnits :
       /\ Erasable(a)  => [op |-> "ERASE", addr |-> a] \in Commands
       /\ Writeable(a) => [op |-> "SETADDRESSPOINTER", addr |-> a] \in Commands

\* Where the tool goes when the call at a site returned the status s.
AfterReturn(site, s) ==
  CASE site = "status" ->
         IF s.bState = "dfuERROR" THEN "clear"
         ELSE IF s.bState \in {"dfuDNLOAD_IDLE", "dfuUPLOAD_IDLE"} THEN "abort"
         ELSE IF s.bStatus # "OK" THEN "clear_warn" ELSE "begin"
    [] site \in {"clear", "abort"} -> "status"
    [] site = "clear_warn"  -> "status_warn"
    [] site = "status_warn" -> IF s.bStatus # "OK" THEN "failed" ELSE "begin"
    [] site = "command"     -> "busy"
    [] site = "busy"        -> IF s.bState # "dfuDNBUSY" THEN "failed" ELSE "result"
    [] site = "result"      -> IF s.bStatus # "OK" THEN "failed" ELSE "leave"
    [] site = "leave"       -> "idle"
    [] site = "idle" ->
         IF s.bState # "dfuIDLE" THEN "failed"
         ELSE IF cmd.op = "ERASE" THEN "erase"
         ELSE IF task.op = "upload" THEN "upload" ELSE "chunk"
    [] site = "chunk"       -> "poll"
    [] site = "poll" ->
         IF s.bState \notin {"dfuDNLOAD_IDLE", "dfuERROR"} THEN "poll"
         ELSE IF s.bStatus # "OK" THEN "failed" ELSE "next_chunk"
    [] site = "upload"      -> IF LastBlock THEN "detach" ELSE "upload"
    [] site = "detach"      -> "reset"

\* Where it goes on an error: it exits, but for two calls whose result it does not need.
AfterError(site) ==
  CASE site = "clear_warn" -> "status_warn"
    [] site = "detach"     -> "reset"
    [] OTHER               -> "failed"

\* p advances when the chunk is done (the for loop of dfuse_dnload_element).
Goto(site) ==
  /\ pc' = site
  /\ p' = IF pc = "poll" /\ site = "next_chunk" THEN p + NPackets ELSE p
  /\ calling' = FALSE
  /\ buf' = <<>>
  /\ UNCHANGED <<image, task, el, erase_address, last_erased, cmd>>

\* What a call has read is written to the file when it has returned.
Returns(s) == Goto(AfterReturn(pc, s)) /\ file' = file \o Got
Errs       == Goto(AfterError(pc)) /\ UNCHANGED file

Call ==
  /\ pc \in CallSites /\ ~calling
  /\ Setup0_Process(RequestOf(pc))
  /\ calling' = TRUE
  /\ UNCHANGED <<image, task, file, buf, pc, el, p, erase_address, last_erased, cmd, faults>>

HostPacket ==
  IF pc = "command" THEN cmd ELSE image[el].data[p + Usb_wOffset \div MaxPacketSize + 1]

SendData ==
  /\ calling /\ OutPacket /\ ControlState \in {"OUT_DATA", "LAST_OUT_DATA"}
  /\ OutData(HostPacket)
  /\ UNCHANGED hostVars

TakeData ==
  /\ calling /\ (InData \/ InLastData)
  /\ buf' = Got
  /\ UNCHANGED <<image, task, file, pc, calling, el, p, erase_address, last_erased, cmd, faults>>

TakeStatus ==
  /\ calling /\ ControlState = "WAIT_STATUS_IN"
  /\ InStatus
  /\ Returns(DeviceStatus)
  /\ UNCHANGED faults

SendStatus ==
  /\ calling
  /\ OutStatusPlain \/ OutStatusBusy
  /\ Returns(tx.status)
  /\ UNCHANGED faults

\* The device refused the request.
CallStalled ==
  /\ calling /\ ControlState = "STALLED"
  /\ Errs
  /\ UNCHANGED <<faults, vars>>

-----------------------------------------------------------------------------
(* Between the calls.                                                       *)

\* main: the upload or the download.  An upload without an address reads from wherever
\* the device's pointer is; the file is a new one.
Begin ==
  /\ pc = "begin"
  /\ file' = <<>>
  /\ pc' = IF task.op = "download" THEN "element"
           ELSE IF task.addr = 0 THEN "upload"
           ELSE IF Readable(task.addr) THEN "set_address" ELSE "failed"
  /\ UNCHANGED <<image, task, buf, calling, el, p, erase_address, last_erased, cmd, faults, vars>>

NextElement ==
  /\ pc = "element"
  /\ IF el > Len(image) THEN pc' = "detach"
     ELSE pc' = IF Writeable(image[el].addr + Size - 1) THEN "next_chunk" ELSE "failed"
  /\ p' = 0
  /\ UNCHANGED <<image, task, file, buf, calling, el, erase_address, last_erased, cmd, faults, vars>>

NextChunk ==
  /\ pc = "next_chunk"
  /\ IF ~MoreToSend
       THEN pc' = "element" /\ el' = el + 1 /\ UNCHANGED erase_address
       ELSE /\ pc' = IF ~Writeable(address) THEN "failed"
                     ELSE IF Erasable(address) THEN "erase" ELSE "set_address"
            /\ erase_address' = address
            /\ UNCHANGED el
  /\ UNCHANGED <<image, task, file, buf, calling, p, last_erased, cmd, faults, vars>>

\* dfuse_special_command(a, ERASE_PAGE): last_erased is set before the command is sent.
Erase(a) ==
  IF Erasable(a)
    THEN /\ pc' = "command" /\ cmd' = [op |-> "ERASE", addr |-> a] /\ last_erased' = a
    ELSE /\ pc' = "failed" /\ UNCHANGED <<cmd, last_erased>>

EraseLoop ==
  /\ pc = "erase" /\ erase_address < address + chunk_size
  /\ erase_address' = erase_address + page_size
  /\ IF NeedsErase(erase_address) THEN Erase(erase_address)
     ELSE UNCHANGED <<pc, cmd, last_erased>>
  /\ UNCHANGED <<image, task, file, buf, calling, el, p, faults, vars>>

EraseTail ==
  /\ pc = "erase" /\ erase_address >= address + chunk_size
  /\ IF WrapsOver THEN Erase(LastOfChunk)
     ELSE pc' = "set_address" /\ UNCHANGED <<cmd, last_erased>>
  /\ UNCHANGED <<image, task, file, buf, calling, el, p, erase_address, faults, vars>>

SetAddress ==
  /\ pc = "set_address"
  /\ pc' = "command" /\ cmd' = [op |-> "SETADDRESSPOINTER", addr |-> IF task.op = "upload" THEN task.addr ELSE address]
  /\ UNCHANGED <<image, task, file, buf, calling, el, p, erase_address, last_erased, faults, vars>>

\* The final reset of the tool: a detach request, whatever it returns, and a bus reset.
FinalReset ==
  /\ pc = "reset"
  /\ BusReset
  /\ pc' = "finished"
  /\ UNCHANGED <<image, task, file, buf, calling, el, p, erase_address, last_erased, cmd, faults>>

\* The user runs the tool again, for the same or for another end.
Rerun ==
  /\ pc = "failed" /\ mode = "dfu"
  /\ pc' = "status" /\ calling' = FALSE
  /\ el' = 1 /\ p' = 0 /\ erase_address' = 0 /\ last_erased' = 0 /\ cmd' = CommandList
  /\ task' \in Tasks
  /\ UNCHANGED <<image, file, buf, faults, vars>>

-----------------------------------------------------------------------------
(* Failures.                                                                *)

Fault(kind) ==
  kind \in FaultKinds /\ faults < MaxFaults /\ faults' = faults + 1

\* A transfer times out or is cut by a bus error; the device does not know.
TransferFails ==
  /\ Fault("transfer") /\ calling
  /\ Errs
  /\ UNCHANGED vars

\* The host's status packet comes before the interrupt for the last IN packet was served:
\* the hardware acknowledges it, the host is satisfied, the firmware cuts the transfer.
StatusOvertakes ==
  /\ Fault("race") /\ calling /\ ControlState = "LAST_IN_DATA"
  /\ OutEarly
  /\ Returns(tx.status)

\* A bus reset or a power failure; the tool's handle to the device is dead.
HandleDies == Goto(IF pc = "finished" THEN "finished" ELSE "failed") /\ UNCHANGED file

BusGlitch  == Fault("reset") /\ BusReset /\ HandleDies
PowerFails == Fault("power") /\ (PowerCycle \/ PowerLossInOperation) /\ HandleDies

Progress ==
  \/ Call \/ SendData \/ TakeData \/ TakeStatus \/ SendStatus \/ CallStalled
  \/ Begin \/ NextElement \/ NextChunk \/ EraseLoop \/ EraseTail \/ SetAddress \/ FinalReset \/ Rerun

SessionNext == Progress \/ TransferFails \/ StatusOvertakes \/ BusGlitch \/ PowerFails

SessionSpec == SessionInit /\ [][SessionNext]_sessionVars

\* The host's controller and the device's interrupts are served, the tool runs on, and the
\* user does not give up; failures are under no obligation to happen.
FairSession == SessionSpec /\ WF_sessionVars(Progress)

-----------------------------------------------------------------------------
(* Properties.                                                              *)

UnitsOf(i) == UNION {{i[e].addr + k - 1 : k \in 1 .. Len(i[e].data)} : e \in 1 .. Len(i)}
ImageUnits == UnitsOf(image)

\* The application's pages with a part of an image.
ScopeOf(i) == {u \in FlashUnits : \E v \in UnitsOf(i) : SamePage(u, v) /\ v >= ApplicationAddress}

Programmed ==
  \A e \in 1 .. Len(image) : \A k \in 1 .. Len(image[e].data) :
    flash[image[e].addr + k - 1] = image[e].data[k]

\* Types; and the tool asks for nothing but what the device's model has a request for, so
\* the lengths and blocks of its chunks are in range.
SessionTypeOK ==
  /\ TypeOK
  /\ pc \in CallSites \cup LocalSites
  /\ calling \in BOOLEAN /\ el \in Nat /\ p \in Nat /\ erase_address \in Nat
  /\ last_erased \in FlashUnits /\ cmd \in Commands
  /\ pc \in CallSites => RequestOf(pc) \in Requests

\* When the tool reports success the flash holds the image, after any failures, any number
\* of runs, and operations left over from an earlier run.
Downloaded == task.op = "download" /\ pc \in {"detach", "reset", "finished"}
SuccessMeansProgrammed == Downloaded => Programmed

\* When the tool reports success for an upload from an address the file holds the flash
\* from there to the end of the segment (and, in blocks, beyond it), whatever runs,
\* commands and failures came before.
UploadIsExact ==
  task.op = "upload" /\ task.addr # 0 /\ pc \in {"detach", "reset", "finished"} =>
    /\ Len(file) >= UploadLimit
    /\ \A k \in 1 .. UploadLimit : file[k] = flash[task.addr + k - 1]

\* The bootloader's own pages and every page without a part of the image keep what they
\* hold, whatever is left unfinished and whatever the image asks for.
OtherPagesIntact ==
  [][\A u \in FlashUnits : flash'[u] # flash[u] => u \in ScopeOf(image)]_sessionVars

\* The promise of an update, in the words of FirmwareUpdate: done when the tool reports
\* success, in scope the pages of the application with a part of the image.
GoalPacket(u) ==
  LET e == CHOOSE e \in 1 .. Len(image) : u - image[e].addr \in 0 .. Len(image[e].data) - 1
  IN  image[e].data[u - image[e].addr + 1]

Update == INSTANCE FirmwareUpdate WITH
  content <- flash,
  goal    <- [u \in ImageUnits |-> GoalPacket(u)],
  scope   <- ScopeOf(image),
  done    <- Downloaded
ImplementsUpdate == Update!UpdateSpec

\* Whatever the device writes during a session, for the tool that waits or left over from
\* a run that failed, is programmed on erased flash, where it takes: the host's bookkeeping
\* of erased pages agrees with the device's flash, and PGERR, which would have every later
\* erase and write refused in silence, is never latched.
ChunkOnErased ==
  /\ ~pgerr'
  /\ flash' # flash => \A u \in WrittenUnits : flash[u] = Erased
ChunksLandOnErased == [][ChunkOnErased]_sessionVars

\* Once the failures end the update comes to its end, from whatever state they left the
\* device in: unless the application was started, which ends the bootloader, or the device
\* does not announce all of the image as writeable.
Recovers == 
  (\A u \in ImageUnits : Writeable(u)) /\ (\A a \in Addresses : Readable(a))
    => <>(pc = "finished" \/ mode = "app")

\* The bootloader starts the application only if user code is programmed.
AppIsWhole == mode = "app" => Programmed

\* The flash changes only where the device announces that it may be erased or written.
OnlyAnnouncedChanges ==
  [][\A u \in FlashUnits : flash'[u] # flash[u] => Writeable(u) \/ Erasable(u)]_sessionVars

-----------------------------------------------------------------------------
(* What the promises of an update depend on, and the code does not check.   *)

\* What the erase loop relies on: the pages announced are those of the flash, what is
\* writeable is erasable, and the application does not start in the first page, which
\* last_erased = 0 stands for.
LayoutRegular ==
  /\ \A s \in Segments : s.pagesize = PageUnits /\ (s.writeable => s.erasable)
  /\ ApplicationAddress >= PageUnits

\* No element starts before the end of one that comes before it.  (The run
\* session_returning shows what happens else.)
EndOf(x) == x.addr + Len(x.data)
ElementsAscend(i) ==
  \A f \in 1 .. Len(i) : \A e \in 1 .. f - 1 : Writeable(EndOf(i[f]) - 1) => EndOf(i[e]) <= i[f].addr

\* A packet of the image that begins a chunk may be in the device's buffer when a command
\* without its data is done: if it reads as an erase command it erases in scope.  (The run
\* session_stale shows what happens else.)
DataErasesInScope(i) ==
  \A e \in 1 .. Len(i) : \A k \in 1 .. Len(i[e].data) :
    Writeable(i[e].addr + k - 1) /\ IsCommand(i[e].data[k], "ERASE") =>
      \A u \in FlashUnits : SamePage(u, i[e].data[k].addr) => u \in ScopeOf(i)
===============================================================================
