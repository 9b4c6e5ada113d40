--------------------------- MODULE DfuUpdate_proofs ---------------------------
(***************************************************************************)
(* Proofs about what an update does to the flash, for every image, layout, *)
(* flash and sequence of failures.  On the invariant of DfuSession_proofs  *)
(* (where the tool is and what its call has reached) rest, in layers, what *)
(* the device is about to do for the tool (Pending), what it may do to the *)
(* flash at all (InScope), what an upload has read (FileExact) and what a  *)
(* download has erased and programmed (Progressing).                       *)
(***************************************************************************)
EXTENDS DfuSession_proofs

-----------------------------------------------------------------------------
(* The operation that the device is about to do for the tool, or has done.  *)

operation == <<DeviceState, wBlockNum, wlength, Pointer, MAL_Buffer, flash, pgerr>>

CommandWaits == wBlockNum = 0 /\ wlength = 5 /\ MAL_Buffer[0] = cmd
CommandDone  == wlength = 0 /\ Pointer = cmd.addr

\* A status stage that was overtaken leaves the command waiting in dfuDNBUSY, and the next
\* GETSTATUS does it, also the one after an ABORT that dfuDNBUSY refused.
CommandPending ==
  /\ pc = "command" /\ calling /\ ControlState # "STALLED" =>
       /\ DeviceState = "dfuDNLOAD_SYNC" /\ wBlockNum = 0 /\ wlength = 5
       /\ ControlState = "WAIT_STATUS_IN" => MAL_Buffer[0] = cmd
  /\ pc = "busy" =>
       CommandWaits /\ DeviceState = IF calling THEN "dfuDNBUSY" ELSE "dfuDNLOAD_SYNC"
  /\ pc \in {"result", "leave", "idle"} =>
       \/ CommandWaits /\ DeviceState = "dfuDNBUSY"
       \/ /\ CommandDone
          /\ pc = "result" \/ (pc = "leave" /\ ~calling)
               => DeviceState \in {"dfuDNLOAD_SYNC", "dfuDNLOAD_IDLE"}
          /\ pc = "idle" \/ (pc = "leave" /\ calling) => DeviceState = "dfuIDLE"

\* The first n bytes of the chunk are in the buffer.
HoldsChunk(n) ==
  \A k \in BufferUnits : k * MaxPacketSize < n => MAL_Buffer[k] = image[el].data[p + k + 1]

ChunkWaits == wBlockNum = 2 /\ wlength = chunk_size * MaxPacketSize

ChunkPending ==
  /\ pc \in {"chunk", "poll"} => Pointer = address
  /\ pc = "chunk" /\ ~calling => DeviceState = "dfuIDLE"
  /\ pc = "chunk" /\ calling /\ ControlState # "STALLED" =>
       /\ DeviceState = "dfuDNLOAD_SYNC" /\ ChunkWaits /\ HoldsChunk(Usb_wOffset)
       /\ ControlState = "WAIT_STATUS_IN" => Usb_wOffset = wlength
  /\ pc = "poll" =>
       \/ DeviceState \in {"dfuDNLOAD_SYNC", "dfuDNBUSY"} /\ ChunkWaits /\ HoldsChunk(wlength)
       \/ wlength = 0 /\ DeviceState \in {"dfuDNLOAD_SYNC", "dfuDNLOAD_IDLE"}

Pending == CommandPending /\ ChunkPending

-----------------------------------------------------------------------------
(* Lemmas about the steps.                                                  *)

\* GETSTATUS moves on from dfuDNLOAD_SYNC and, here, from no other state.
LEMMA GetStatusMoves ==
  ASSUME Session, Setup0_Process(GetStatusRequest)
  PROVE  /\ UNCHANGED <<wBlockNum, wlength, Pointer, MAL_Buffer, flash>>
         /\ DeviceState = "dfuDNLOAD_SYNC" /\ wlength # 0 => DeviceState' = "dfuDNBUSY"
         /\ DeviceState = "dfuDNLOAD_SYNC" /\ wlength = 0 => DeviceState' = "dfuDNLOAD_IDLE"
         /\ DeviceState \notin {"dfuDNLOAD_SYNC", "dfuMANIFEST_SYNC"}
              => DeviceState' = DeviceState
         /\ DeviceState = "dfuMANIFEST_SYNC"
              => DeviceState' \in {"dfuMANIFEST_SYNC", "dfuMANIFEST"}
<1>1. TypeOK /\ DeviceStatus.bState = DeviceState
  BY DEF Session, Device, IInv, StatusConsistent
<1>2. /\ UNCHANGED <<wBlockNum, wlength, memVars>>
      /\ DeviceState' = IF StatusAfterGet # DeviceStatus THEN StatusAfterGet.bState
                        ELSE DeviceState
  BY GetStatusCall
<1>3. \A s \in DfuStates : \A t : StatusIn(s, t).bState = s
  BY DEF StatusIn
<1>4. \/ /\ DeviceState = "dfuDNLOAD_SYNC" /\ wlength # 0
         /\ StatusAfterGet.bState = "dfuDNBUSY"
      \/ /\ DeviceState = "dfuDNLOAD_SYNC" /\ wlength = 0
         /\ StatusAfterGet.bState = "dfuDNLOAD_IDLE"
      \/ /\ DeviceState = "dfuMANIFEST_SYNC" /\ StatusAfterGet.bState = "dfuMANIFEST"
      \/ DeviceState # "dfuDNLOAD_SYNC" /\ StatusAfterGet = DeviceStatus
  BY <1>1, <1>3, StatusAfterGetCases DEF DfuStates
<1> QED
  BY <1>1, <1>2, <1>4 DEF memVars

\* DFU_Status_Out does the pending operation.
Performed ==
  /\ DeviceState = "dfuDNBUSY" /\ wlength # 0
  /\ flash' = FlashAfter(FlashUnits) /\ pgerr' = (pgerr \/ Refused # {})
  /\ Pointer' = NewPointer
  /\ wBlockNum' = 0 /\ wlength' = 0
  /\ DeviceState' = "dfuDNLOAD_SYNC"
  /\ UNCHANGED MAL_Buffer

\* A call returns the status that the device has, and does the pending operation if it is a
\* GETSTATUS whose status stage was not overtaken.
ReturnedTo(site) ==
  /\ pc' = site /\ calling' = FALSE /\ file' = file \o Got
  /\ p' = IF pc = "poll" /\ site = "next_chunk" THEN p + NPackets ELSE p
  /\ UNCHANGED <<image, task, el, erase_address, last_erased, cmd>>

LEMMA ReturnFacts ==
  ASSUME Session, \/ TakeStatus \/ SendStatus \/ StatusOvertakes
  PROVE  /\ calling /\ pc \in CallSites
         /\ \E s : /\ ReturnedTo(AfterReturn(pc, s))
                   /\ pc \in GetStatusSites => s.bState = DeviceState
         /\ UNCHANGED operation \/ (pc \in GetStatusSites /\ Performed)
         /\ pc \in {"command", "chunk"} => ControlState = "WAIT_STATUS_IN"
<1>1. /\ calling /\ Returns(IF TakeStatus THEN DeviceStatus ELSE tx.status)
      /\ pc = "upload" => Len(Got) = NPackets
  BY Returned
<1> DEFINE s == IF TakeStatus THEN DeviceStatus ELSE tx.status
<1>2. pc \in CallSites /\ setup = RequestOf(pc) /\ StageOfRequest
  BY <1>1 DEF Session, CallOpen
<1>3. ReturnedTo(AfterReturn(pc, s))
  BY <1>1 DEF Returns, Goto, ReturnedTo
<1>4. pc \in GetStatusSites => s.bState = DeviceState
  <2> SUFFICES ASSUME pc \in GetStatusSites PROVE s.bState = DeviceState
    OBVIOUS
  <2>1. setup.req = "GETSTATUS"
    BY <1>2, RequestOfSite DEF GetStatusRequest
  <2>2. ControlState \in {"LAST_IN_DATA", "WAIT_STATUS_OUT"}
    BY <1>2, <2>1 DEF StageOfRequest
  <2>3. tx = StatusReply(DeviceStatus) /\ DeviceStatus.bState = DeviceState
    BY <2>1, <2>2 DEF Session, Device, IInv, ReplyIsCurrent, StatusConsistent
  <2>4. tx.status = DeviceStatus
    BY <2>3 DEF StatusReply
  <2> QED
    BY <2>3, <2>4
<1>5. UNCHANGED operation \/ (pc \in GetStatusSites /\ Performed)
  <2>1. CASE TakeStatus \/ StatusOvertakes
    BY <2>1 DEF TakeStatus, InStatus, StatusOvertakes, OutEarly, operation, dfuVars, memVars
  <2>2. CASE SendStatus /\ OutStatusPlain
    BY <2>2 DEF OutStatusPlain, operation, dfuVars, memVars
  <2>3. CASE SendStatus /\ OutStatusBusy
    <3>1. setup.req = "GETSTATUS" /\ DeviceState = "dfuDNBUSY"
      BY <2>3 DEF OutStatusBusy, Busy
    <3>2. pc \in GetStatusSites
      BY <1>2, <3>1, RequestOfSite DEF CallSites, GetStatusSites, DnloadChunk, UploadBlock
    <3>3. wlength # 0
      BY <3>1 DEF Session, Device, IInv, StatusConsistent
    <3> QED
      BY <2>3, <3>1, <3>2, <3>3 DEF OutStatusBusy, ForgetOperation, Enter, Performed
  <2> QED
    BY <2>1, <2>2, <2>3 DEF SendStatus
<1>6. pc \in {"command", "chunk"} => ControlState = "WAIT_STATUS_IN"
  <2>1. pc \in {"command", "chunk"} => setup.req = "DNLOAD"
    BY <1>2, RequestOfSite DEF DnloadChunk
  <2>2. ControlState \in {"WAIT_STATUS_IN", "WAIT_STATUS_OUT", "LAST_IN_DATA"}
    BY DEF TakeStatus, SendStatus, StatusOvertakes, OutStatusPlain, OutStatusBusy, StatusStage
  <2> QED
    BY <1>2, <2>1, <2>2 DEF StageOfRequest
<1> QED
  BY <1>1, <1>2, <1>3, <1>4, <1>5, <1>6

\* The steps of the tool alone, a call that fails and a bus reset leave the operation alone.
LEMMA OperationKept ==
  ASSUME \/ CallStalled \/ TransferFails \/ BusGlitch
         \/ Begin \/ NextElement \/ NextChunk \/ EraseLoop \/ EraseTail \/ SetAddress
         \/ FinalReset \/ Rerun
  PROVE  UNCHANGED operation
  BY DEF CallStalled, TransferFails, BusGlitch, Begin, NextElement, NextChunk, EraseLoop,
         EraseTail, SetAddress, FinalReset, Rerun, BusReset, operation, vars, dfuVars, memVars

\* Where they lead.
LEMMA LocalMoves ==
  /\ CallStalled \/ TransferFails => pc' \in {"failed", "status_warn", "reset"}
  /\ BusGlitch \/ PowerFails      => pc' = IF pc = "finished" THEN "finished" ELSE "failed"
  /\ Begin       => pc' \in {"element", "upload", "set_address", "failed"}
  /\ NextElement => pc' \in {"detach", "next_chunk", "failed"}
  /\ NextChunk   => pc' \in {"failed", "erase", "set_address", "element"}
  /\ EraseLoop   => pc' \in {"erase", "command", "failed"}
  /\ EraseTail   => pc' \in {"command", "failed", "set_address"}
  /\ SetAddress  => pc' = "command"
  /\ FinalReset  => pc' = "finished"
  /\ Rerun       => pc' = "status"
  BY DEF CallStalled, TransferFails, Errs, AfterError, Goto, BusGlitch, PowerFails, HandleDies,
         Begin, NextElement, NextChunk, EraseLoop, EraseTail, Erase, SetAddress, FinalReset, Rerun

-----------------------------------------------------------------------------
(* Pending is inductive.                                                    *)

LEMMA PendingCall ==
  ASSUME Session, Pending, Call
  PROVE  Pending'
<1>1. /\ pc \in CallSites /\ ~calling /\ calling' = TRUE /\ Setup0_Process(RequestOf(pc))
      /\ UNCHANGED <<image, task, file, buf, pc, el, p, erase_address, last_erased, cmd>>
  BY DEF Call
<1>2. address' = address /\ chunk_size' = chunk_size
  BY <1>1, SameChunk
<1>3. CASE pc = "command"
  <2> DEFINE r == RequestOf(pc)
  <2>1. r = [req |-> "DNLOAD", blk |-> 0, len |-> 5]
    BY <1>3, RequestOfSite
  <2>2. r.req = "DNLOAD" /\ r.len \in Nat \ {0} /\ r.blk = 0 /\ r.len = 5
    BY <2>1
  <2> HIDE DEF r
  <2>3. \/ /\ ControlState' = "OUT_DATA" /\ DeviceState' = "dfuDNLOAD_SYNC"
           /\ wBlockNum' = 0 /\ wlength' = 5
        \/ ControlState' = "STALLED"
    BY <1>1, <2>2, DnloadCall DEF r
  <2> QED
    BY <1>1, <1>3, <2>3 DEF Pending, CommandPending, ChunkPending
<1>4. CASE pc \in {"busy", "result", "idle", "poll"}
  <2>1. Setup0_Process(GetStatusRequest)
    BY <1>1, <1>4, RequestOfSite DEF GetStatusSites
  <2>2. CommandWaits => wlength # 0
    BY DEF CommandWaits
  <2>3. CASE pc = "busy"
    BY <1>1, <2>1, <2>3, GetStatusMoves DEF Pending, CommandPending, ChunkPending, CommandWaits
  <2>4. CASE pc \in {"result", "idle"}
    BY <1>1, <2>1, <2>4, GetStatusMoves
       DEF Pending, CommandPending, ChunkPending, CommandWaits, CommandDone
  <2>5. CASE pc = "poll"
    BY <1>1, <1>2, <2>1, <2>5, GetStatusMoves
       DEF Pending, CommandPending, ChunkPending, ChunkWaits, HoldsChunk
  <2> QED
    BY <1>4, <2>3, <2>4, <2>5
<1>5. CASE pc = "leave"
  <2> DEFINE r == RequestOf(pc)
  <2>1. r.req = "ABORT" /\ r.len = 0
    BY <1>5, RequestOfSite
  <2> HIDE DEF r
  <2>2. /\ UNCHANGED memVars
        /\ \/ ~AbortAllowed /\ UNCHANGED <<DeviceState, wBlockNum, wlength>>
           \/ AbortAllowed /\ DeviceState' = "dfuIDLE" /\ wBlockNum' = 0 /\ wlength' = 0
    BY <1>1, <2>1, NoDataCall DEF r
  <2> QED
    BY <1>1, <1>5, <2>2
       DEF Pending, CommandPending, ChunkPending, CommandWaits, CommandDone, AbortAllowed, memVars
<1>6. CASE pc = "chunk"
  <2> DEFINE r == RequestOf(pc)
  <2>0. chunk_size \in 1 .. NPackets
    BY <1>6, ChunkType DEF Session, Tool, InDownload
  <2>1. r.req = "DNLOAD" /\ r.blk = 2 /\ r.len = chunk_size * MaxPacketSize
    BY <1>6, RequestOfSite DEF DnloadChunk
  <2>2. r.len \in Nat \ {0}
    BY <2>0, <2>1, Sizes
  <2> HIDE DEF r
  <2>3. /\ UNCHANGED memVars
        /\ \/ /\ ControlState' = "OUT_DATA" /\ DeviceState' = "dfuDNLOAD_SYNC"
              /\ wBlockNum' = 2 /\ wlength' = chunk_size * MaxPacketSize /\ Usb_wOffset' = 0
           \/ ControlState' = "STALLED"
    BY <1>1, <2>1, <2>2, DnloadCall DEF r
  <2>4. Usb_wOffset' = 0 => HoldsChunk(Usb_wOffset)'
    <3>1. \A k \in BufferUnits : ~(k * MaxPacketSize < 0)
      BY Sizes DEF BufferUnits
    <3> QED
      BY <3>1 DEF HoldsChunk
  <2> QED
    BY <1>1, <1>2, <1>6, <2>3, <2>4
       DEF Pending, CommandPending, ChunkPending, ChunkWaits, memVars
<1>7. CASE pc \notin {"command", "busy", "result", "idle", "poll", "leave", "chunk"}
  BY <1>1, <1>7 DEF Pending, CommandPending, ChunkPending
<1> QED
  BY <1>3, <1>4, <1>5, <1>6, <1>7

LEMMA PendingData ==
  ASSUME Session, Pending, SendData
  PROVE  Pending'
<1>1. /\ calling /\ UNCHANGED hostVars /\ OutData(HostPacket)
      /\ ControlState \in {"OUT_DATA", "LAST_OUT_DATA"}
  BY DEF SendData
<1> DEFINE at == {k \in BufferUnits : k * MaxPacketSize = Usb_wOffset}
<1>2. /\ MAL_Buffer' = [k \in BufferUnits |-> IF k \in at THEN HostPacket ELSE MAL_Buffer[k]]
      /\ Usb_wLength' = Usb_wLength - PacketLength(Usb_wLength)
      /\ Usb_wOffset' = Usb_wOffset + PacketLength(Usb_wLength)
      /\ ControlState' = StageAfter(Usb_wLength')
      /\ DeviceState' = "dfuDNLOAD_SYNC" /\ wBlockNum' = setup.blk /\ wlength' = setup.len
      /\ Pointer' = Pointer /\ setup' = setup
  BY <1>1 DEF OutData
<1>3. PICK j \in Nat : /\ Usb_wOffset = j * MaxPacketSize
                       /\ Usb_wOffset \div MaxPacketSize = j
                       /\ j * MaxPacketSize < setup.len
  BY <1>1, NextPacket
<1>4. pc \in {"command", "chunk"} /\ setup = RequestOf(pc)
  BY <1>1, NextPacket
<1>5. Usb_wOffset + Usb_wLength = setup.len /\ Usb_wLength \in Nat /\ Usb_wOffset \in Nat
  BY <1>1 DEF Session, Device, Filled, IInv, TypeOK
<1>6. CASE pc = "command"
  <2>1. setup.blk = 0 /\ setup.len = 5
    BY <1>4, <1>6, RequestOfSite
  <2>2. j = 0
    BY <1>3, <2>1, Sizes
  <2>3. 0 \in at
    BY <1>3, <2>2, Sizes
  <2>4. MAL_Buffer'[0] = cmd
    BY <1>2, <1>6, <2>3, Sizes DEF HostPacket
  <2> QED
    BY <1>1, <1>2, <1>6, <2>1, <2>4 DEF hostVars, Pending, CommandPending, ChunkPending
<1>7. CASE pc = "chunk"
  <2>1. setup.blk = 2 /\ setup.len = chunk_size * MaxPacketSize
    BY <1>4, <1>7, RequestOfSite DEF DnloadChunk
  <2>2. ControlState # "STALLED"
    BY <1>1
  <2>3. Pointer = address /\ HoldsChunk(Usb_wOffset)
    BY <1>1, <1>7, <2>2 DEF Pending, ChunkPending
  <2>4. address' = address /\ chunk_size' = chunk_size
    BY <1>1, SameChunk DEF hostVars
  <2>5. PacketLength(Usb_wLength) \in Nat /\ PacketLength(Usb_wLength) <= MaxPacketSize
    BY <1>5, Sizes DEF PacketLength
  <2>6. HoldsChunk(Usb_wOffset)'
    <3> SUFFICES ASSUME NEW k \in BufferUnits, k * MaxPacketSize < Usb_wOffset'
                 PROVE  MAL_Buffer'[k] = image[el].data[p + k + 1]
      BY <1>1 DEF HoldsChunk, hostVars
    <3>1. k \in Nat /\ k * MaxPacketSize \in Nat /\ j * MaxPacketSize \in Nat
      BY Sizes DEF BufferUnits
    <3>2. k * MaxPacketSize < j * MaxPacketSize + MaxPacketSize
      BY <1>2, <1>3, <2>5, <3>1, Sizes
    <3>3. k <= j
      BY <3>1, <3>2, PacketOrder
    <3>4. CASE k = j
      <4>1. k \in at
        BY <1>3, <3>4
      <4> QED
        BY <1>2, <1>3, <1>7, <3>4, <4>1 DEF HostPacket
    <3>5. CASE k # j
      <4>1. k < j
        BY <3>1, <3>3, <3>5
      <4>2. k * MaxPacketSize < j * MaxPacketSize
        <5>1. (j - k) * MaxPacketSize > 0
          BY <3>1, <4>1, Sizes
        <5> QED
          BY <3>1, <5>1, Sizes
      <4>3. k \notin at
        BY <1>3, <3>1, <4>2
      <4> QED
        BY <1>2, <1>3, <2>3, <4>2, <4>3 DEF HoldsChunk
    <3> QED
      BY <3>4, <3>5
  <2>7. ControlState' = "WAIT_STATUS_IN" => Usb_wOffset' = setup.len
    <3>1. Usb_wLength' \in Nat
      BY <1>2, <1>5, PacketLengthType
    <3>2. ControlState' = "WAIT_STATUS_IN" => Usb_wLength' = 0
      BY <1>2, <3>1 DEF StageAfter
    <3> QED
      BY <1>2, <1>5, <2>5, <3>2
  <2> QED
    BY <1>1, <1>2, <1>7, <2>1, <2>3, <2>4, <2>6, <2>7
       DEF hostVars, Pending, CommandPending, ChunkPending, ChunkWaits
<1> QED
  BY <1>4, <1>6, <1>7

\* A command that was waiting is done: the pointer is at its address.
LEMMA CommandPerformed ==
  ASSUME Session, pc \in SpecialSites, CommandWaits, Performed
  PROVE  wlength' = 0 /\ Pointer' = cmd.addr /\ DeviceState' = "dfuDNLOAD_SYNC"
<1>1. cmd \in Commands /\ cmd.op \in {"ERASE", "SETADDRESSPOINTER"}
  <2>1. task.op \in {"download", "upload"}
    BY DEF Session, Tool, HostTypeOK, Tasks
  <2> QED
    BY <2>1 DEF Session, Tool, HostTypeOK, InDownload, InUpload, OfChunk
<1> QED
  BY <1>1 DEF Performed, NewPointer, CommandWaits, IsCommand

LEMMA PendingReturn ==
  ASSUME Session, Pending, \/ TakeStatus \/ SendStatus \/ StatusOvertakes
  PROVE  Pending'
<1>1. PICK s : /\ ReturnedTo(AfterReturn(pc, s))
               /\ pc \in GetStatusSites => s.bState = DeviceState
  BY ReturnFacts
<1>2. /\ calling /\ pc \in CallSites
      /\ UNCHANGED operation \/ (pc \in GetStatusSites /\ Performed)
      /\ pc \in {"command", "chunk"} => ControlState = "WAIT_STATUS_IN"
  BY ReturnFacts
<1>3. /\ pc' = AfterReturn(pc, s) /\ calling' = FALSE
      /\ UNCHANGED <<image, el, cmd>>
      /\ pc' # "next_chunk" => p' = p
  BY <1>1 DEF ReturnedTo
<1>4. CASE pc \notin SpecialSites \cup {"chunk", "poll"}
  <2>1. pc' \notin SpecialSites \cup {"chunk", "poll"}
    BY <1>2, <1>3, <1>4 DEF AfterReturn, CallSites, SpecialSites
  <2> QED
    BY <2>1 DEF Pending, CommandPending, ChunkPending, SpecialSites
<1>5. CASE pc = "command"
  <2>1. pc' = "busy" /\ UNCHANGED operation
    BY <1>2, <1>3, <1>5 DEF AfterReturn, GetStatusSites
  <2> QED
    BY <1>2, <1>3, <1>5, <2>1
       DEF Pending, CommandPending, ChunkPending, CommandWaits, operation
<1>6. CASE pc \in {"busy", "result"}
  <2>1. pc' \in {"failed", "result", "leave"}
    BY <1>3, <1>6 DEF AfterReturn
  <2>2. \/ CommandWaits /\ DeviceState = "dfuDNBUSY"
        \/ pc = "result" /\ CommandDone /\ DeviceState \in {"dfuDNLOAD_SYNC", "dfuDNLOAD_IDLE"}
    BY <1>2, <1>6 DEF Pending, CommandPending
  <2>3. CASE UNCHANGED operation
    BY <1>3, <1>6, <2>1, <2>2, <2>3
       DEF Pending, CommandPending, ChunkPending, CommandWaits, CommandDone, operation
  <2>4. CASE Performed
    <3>1. CommandWaits
      BY <2>2, <2>4 DEF Performed
    <3>2. wlength' = 0 /\ Pointer' = cmd.addr /\ DeviceState' = "dfuDNLOAD_SYNC"
      BY <1>6, <2>4, <3>1, CommandPerformed DEF SpecialSites
    <3> QED
      BY <1>3, <2>1, <3>2 DEF Pending, CommandPending, ChunkPending, CommandDone
  <2> QED
    BY <1>2, <2>3, <2>4
<1>7. CASE pc = "leave"
  <2>1. pc' = "idle" /\ UNCHANGED operation
    BY <1>2, <1>3, <1>7 DEF AfterReturn, GetStatusSites
  <2> QED
    BY <1>2, <1>3, <1>7, <2>1
       DEF Pending, CommandPending, ChunkPending, CommandWaits, CommandDone, operation
<1>8. CASE pc = "idle"
  <2>1. /\ pc' \in {"failed", "erase", "upload", "chunk"}
        /\ pc' = "chunk" => /\ s.bState = "dfuIDLE" /\ cmd.op # "ERASE" /\ task.op # "upload"
    BY <1>3, <1>8 DEF AfterReturn
  <2>2. CASE pc' = "chunk"
    <3>1. DeviceState = "dfuIDLE"
      BY <1>1, <1>8, <2>1, <2>2 DEF GetStatusSites
    <3>2. CommandDone /\ UNCHANGED operation
      BY <1>2, <1>8, <3>1 DEF Pending, CommandPending, Performed
    <3>3. cmd = [op |-> "SETADDRESSPOINTER", addr |-> address]
      BY <1>8, <2>1, <2>2
         DEF Session, Tool, HostTypeOK, Tasks, InDownload, OfChunk, SpecialSites
    <3>4. Pointer' = address'
      BY <1>3, <1>8, <2>2, <3>2, <3>3, SameChunk DEF CommandDone, operation
    <3> QED
      BY <1>3, <2>2, <3>1, <3>2, <3>4 DEF Pending, CommandPending, ChunkPending, operation
  <2>3. CASE pc' # "chunk"
    BY <2>1, <2>3 DEF Pending, CommandPending, ChunkPending
  <2> QED
    BY <2>2, <2>3
<1>9. CASE pc = "chunk"
  <2>1. pc' = "poll" /\ UNCHANGED operation
    BY <1>2, <1>3, <1>9 DEF AfterReturn, GetStatusSites
  <2>2. /\ DeviceState = "dfuDNLOAD_SYNC" /\ ChunkWaits /\ HoldsChunk(wlength)
        /\ Pointer = address
    BY <1>2, <1>9 DEF Pending, ChunkPending
  <2>3. address' = address /\ chunk_size' = chunk_size /\ HoldsChunk(wlength)'
    BY <1>3, <2>1, <2>2, SameChunk DEF HoldsChunk, operation
  <2> QED
    BY <1>3, <2>1, <2>2, <2>3 DEF Pending, CommandPending, ChunkPending, ChunkWaits, operation
<1>10. CASE pc = "poll"
  <2>1. pc' \in {"poll", "failed", "next_chunk"}
    BY <1>3, <1>10 DEF AfterReturn
  <2>2. CASE pc' = "poll"
    <3>1. address' = address /\ chunk_size' = chunk_size
      BY <1>3, <2>2, SameChunk
    <3>2. CASE UNCHANGED operation
      <4>1. HoldsChunk(wlength)' <=> HoldsChunk(wlength)
        BY <1>3, <2>2, <3>2 DEF HoldsChunk, operation
      <4> QED
        BY <1>10, <2>2, <3>1, <3>2, <4>1
           DEF Pending, CommandPending, ChunkPending, ChunkWaits, operation
    <3>3. CASE Performed
      <4>1. ChunkWaits /\ Pointer = address
        BY <1>10, <3>3 DEF Performed, Pending, ChunkPending
      <4>2. Pointer' = Pointer
        BY <3>3, <4>1 DEF Performed, NewPointer, ChunkWaits
      <4> QED
        BY <2>2, <3>1, <3>3, <4>1, <4>2 DEF Performed, Pending, CommandPending, ChunkPending
    <3> QED
      BY <1>2, <3>2, <3>3
  <2>3. CASE pc' # "poll"
    BY <2>1, <2>3 DEF Pending, CommandPending, ChunkPending
  <2> QED
    BY <2>2, <2>3
<1> QED
  BY <1>4, <1>5, <1>6, <1>7, <1>8, <1>9, <1>10 DEF SpecialSites

\* In the other steps the tool is not at a site that awaits the device's operation.
LEMMA PendingStep == Session /\ Pending /\ [SessionNext]_sessionVars => Pending'
<1> SUFFICES ASSUME Session, Pending, [SessionNext]_sessionVars PROVE Pending'
  OBVIOUS
<1>1. CASE TakeData
  <2>1. calling /\ UNCHANGED <<image, pc, calling, el, p, cmd>>
    BY <1>1 DEF TakeData
  <2>2. ControlState \in {"IN_DATA", "LAST_IN_DATA"}
    BY <1>1 DEF TakeData, InData, InLastData
  <2>3. setup = RequestOf(pc) /\ StageOfRequest /\ pc \in CallSites
    BY <2>1 DEF Session, CallOpen
  <2>4. pc \notin {"command", "chunk", "leave"}
    BY <2>2, <2>3, RequestOfSite DEF StageOfRequest, DnloadChunk
  <2>5. CASE pc \in GetStatusSites
    <3>1. ControlState = "LAST_IN_DATA"
      BY <2>2, <2>3, <2>5, RequestOfSite DEF StageOfRequest, GetStatusRequest
    <3>2. UNCHANGED operation
      BY <1>1, <3>1 DEF TakeData, InData, InLastData, operation, dfuVars, memVars
    <3>3. address' = address /\ chunk_size' = chunk_size
      BY <2>1, SameChunk
    <3>4. HoldsChunk(wlength)' <=> HoldsChunk(wlength)
      BY <2>1, <3>2 DEF HoldsChunk, operation
    <3> QED
      BY <2>1, <2>4, <3>2, <3>3, <3>4
         DEF Pending, CommandPending, ChunkPending, CommandWaits, CommandDone, ChunkWaits, operation
  <2>6. CASE pc \notin GetStatusSites
    BY <2>1, <2>4, <2>6 DEF Pending, CommandPending, ChunkPending, GetStatusSites
  <2> QED
    BY <2>5, <2>6
<1>2. CASE \/ CallStalled \/ TransferFails \/ BusGlitch \/ PowerFails
           \/ Begin \/ NextElement \/ NextChunk \/ EraseLoop \/ EraseTail \/ SetAddress
           \/ FinalReset \/ Rerun
  <2>1. pc' \notin {"busy", "result", "leave", "idle", "chunk", "poll"}
    BY <1>2, LocalMoves
  <2>2. pc' = "command" => ~calling'
    <3>1. pc' = "command" => pc \in {"erase", "set_address"} /\ calling' = calling
      BY <1>2, LocalMoves DEF EraseLoop, EraseTail, SetAddress
    <3> QED
      BY <3>1 DEF Session, CallOpen, CallSites
  <2> QED
    BY <2>1, <2>2 DEF Pending, CommandPending, ChunkPending
<1>3. CASE UNCHANGED sessionVars
  <2>1. UNCHANGED operation /\ UNCHANGED <<ControlState, Usb_wOffset>> /\ UNCHANGED hostVars
    BY <1>3 DEF sessionVars, vars, dfuVars, memVars, ep0Vars, operation
  <2>2. address' = address /\ chunk_size' = chunk_size
    BY <2>1, SameChunk DEF hostVars
  <2>3. /\ HoldsChunk(wlength)' <=> HoldsChunk(wlength)
        /\ HoldsChunk(Usb_wOffset)' <=> HoldsChunk(Usb_wOffset)
    BY <2>1 DEF HoldsChunk, operation, hostVars
  <2> QED
    BY <2>1, <2>2, <2>3
       DEF Pending, CommandPending, ChunkPending, CommandWaits, CommandDone, ChunkWaits,
           operation, hostVars
<1> QED
  BY <1>1, <1>2, <1>3, PendingCall, PendingData, PendingReturn DEF SessionNext, Progress

LEMMA PendingStart == SessionInit => Pending
  BY DEF SessionInit, Pending, CommandPending, ChunkPending

-----------------------------------------------------------------------------
(* What the device may do to the flash lies in the scope of the update.     *)

InScope ==
  /\ IsCommand(MAL_Buffer[0], "ERASE") =>
       \A u \in FlashUnits : SamePage(u, MAL_Buffer[0].addr) => u \in ScopeOf(image)
  /\ DeviceState \in {"dfuDNLOAD_SYNC", "dfuDNBUSY"} /\ wlength # 0 /\ wBlockNum > 1
       => WrittenUnits \subseteq ScopeOf(image)

\* An address of the chunk is one of the image.
LEMMA ChunkUnits ==
  ASSUME HostTypeOK, InElement, NEW a \in Nat, address <= a, a < address + chunk_size
  PROVE  /\ a - image[el].addr + 1 \in 1 .. Size /\ a = image[el].addr + (a - image[el].addr + 1) - 1
         /\ a \in UnitsOf(image) /\ a >= ApplicationAddress
<1>1. /\ Size \in Nat /\ address \in Nat /\ chunk_size \in Nat /\ p + chunk_size <= Size
      /\ address >= ApplicationAddress /\ el \in 1 .. Len(image)
  BY ChunkType
<1>2. image[el].addr \in Nat /\ address = image[el].addr + p /\ p \in Nat
  BY <1>1, ImageType DEF HostTypeOK, address
<1> DEFINE k == a - image[el].addr + 1
<1>3. k \in 1 .. Size /\ a = image[el].addr + k - 1
  <2> DEFINE start == image[el].addr
             s == Size
             c == chunk_size
  <2>1. /\ start \in Nat /\ s \in Nat /\ c \in Nat /\ p \in Nat /\ p + c <= s
        /\ start + p <= a /\ a < start + p + c
    BY <1>1, <1>2
  <2> HIDE DEF start, s, c
  <2>2. a - start + 1 \in 1 .. s /\ a = start + (a - start + 1) - 1
    BY <2>1
  <2> QED
    BY <2>2 DEF start, s
<1>4. a \in {image[el].addr + j - 1 : j \in 1 .. Len(image[el].data)}
  BY <1>3 DEF Size
<1>5. a \in UnitsOf(image)
  BY <1>1, <1>4 DEF UnitsOf
<1> QED
  BY <1>1, <1>3, <1>5, FlashOrder

LEMMA ChunkInScope ==
  ASSUME HostTypeOK, InElement, NEW a \in Nat, address <= a, a < address + chunk_size,
         NEW u \in FlashUnits, SamePage(u, a)
  PROVE  u \in ScopeOf(image)
  BY ChunkUnits DEF ScopeOf

\* What keeps InScope: the same buffer, and no new block to write.
LEMMA InScopeKept ==
  ASSUME InScope, UNCHANGED <<image, MAL_Buffer>>,
         \/ UNCHANGED <<wBlockNum, wlength, Pointer>>
         \/ wBlockNum' = 0
         \/ DeviceState' \notin {"dfuDNLOAD_SYNC", "dfuDNBUSY"},
         DeviceState' \in {"dfuDNLOAD_SYNC", "dfuDNBUSY"} /\ wBlockNum' # 0
           => DeviceState \in {"dfuDNLOAD_SYNC", "dfuDNBUSY"}
  PROVE  InScope'
<1>1. ScopeOf(image)' = ScopeOf(image)
  BY DEF ScopeOf, UnitsOf
<1>2. CASE UNCHANGED <<wBlockNum, wlength, Pointer>>
  <2>1. WrittenUnits' = WrittenUnits
    BY <1>2 DEF WrittenUnits, BlockAddress
  <2>2. wBlockNum' > 1 => wBlockNum' # 0
    OBVIOUS
  <2> QED
    BY <1>1, <1>2, <2>1, <2>2 DEF InScope
<1>3. CASE wBlockNum' = 0 \/ DeviceState' \notin {"dfuDNLOAD_SYNC", "dfuDNBUSY"}
  <2>1. ~(DeviceState' \in {"dfuDNLOAD_SYNC", "dfuDNBUSY"} /\ wlength' # 0 /\ wBlockNum' > 1)
    BY <1>3
  <2> QED
    BY <1>1, <2>1 DEF InScope
<1> QED
  BY <1>2, <1>3

LEMMA InScopeCall ==
  ASSUME Session, Pending, InScope, Call
  PROVE  InScope'
<1>1. /\ pc \in CallSites /\ ~calling /\ Setup0_Process(RequestOf(pc))
      /\ UNCHANGED <<image, task, file, buf, pc, el, p, erase_address, last_erased, cmd>>
  BY DEF Call
<1> DEFINE r == RequestOf(pc)
<1>2. CASE pc \in GetStatusSites
  <2>1. Setup0_Process(GetStatusRequest)
    BY <1>1, <1>2, RequestOfSite
  <2>2. /\ UNCHANGED <<wBlockNum, wlength, Pointer, MAL_Buffer>>
        /\ DeviceState' \in {"dfuDNLOAD_SYNC", "dfuDNBUSY"}
             => DeviceState \in {"dfuDNLOAD_SYNC", "dfuDNBUSY"}
    BY <2>1, GetStatusMoves
  <2> QED
    BY <1>1, <2>2, InScopeKept
<1>3. CASE pc \in {"clear", "clear_warn", "abort", "leave"}
  <2>1. r.req \in {"CLRSTATUS", "ABORT"} /\ r.len = 0
    BY <1>3, RequestOfSite
  <2> HIDE DEF r
  <2>2. /\ UNCHANGED memVars
        /\ r.req = "CLRSTATUS" => DeviceState' \in {"dfuIDLE", "dfuERROR"}
        /\ r.req = "ABORT" => \/ UNCHANGED <<DeviceState, wBlockNum, wlength>>
                              \/ DeviceState' = "dfuIDLE"
    BY <1>1, <2>1, NoDataCall DEF r
  <2> QED
    BY <1>1, <2>1, <2>2, InScopeKept DEF memVars
<1>4. CASE pc = "detach"
  <2>1. r.req = "DETACH"
    BY <1>4, RequestOfSite
  <2> HIDE DEF r
  <2>2. UNCHANGED <<dfuVars, memVars>>
    BY <1>1, <2>1, DetachCall DEF r
  <2> QED
    BY <1>1, <2>2, InScopeKept DEF dfuVars, memVars
<1>5. CASE pc = "command"
  <2>1. r = [req |-> "DNLOAD", blk |-> 0, len |-> 5]
    BY <1>5, RequestOfSite
  <2>2. r.req = "DNLOAD" /\ r.len \in Nat \ {0} /\ r.blk = 0
    BY <2>1
  <2> HIDE DEF r
  <2>3. UNCHANGED memVars /\ (wBlockNum' = 0 \/ UNCHANGED dfuVars)
    BY <1>1, <2>2, DnloadCall DEF r
  <2> QED
    BY <1>1, <2>3, InScopeKept DEF dfuVars, memVars
<1>6. CASE pc = "chunk"
  <2>0. task.op = "download" /\ HostTypeOK /\ InElement /\ Pointer = address
    BY <1>6 DEF Session, Tool, InDownload, Pending, ChunkPending
  <2>1. chunk_size \in 1 .. NPackets /\ address \in Nat
    BY <2>0, ChunkType
  <2>2. r.req = "DNLOAD" /\ r.blk = 2 /\ r.len = chunk_size * MaxPacketSize
    BY <1>6, RequestOfSite DEF DnloadChunk
  <2>3. r.len \in Nat \ {0}
    BY <2>1, <2>2, Sizes
  <2> HIDE DEF r
  <2>4. /\ UNCHANGED memVars
        /\ \/ wBlockNum' = 2 /\ wlength' = chunk_size * MaxPacketSize
           \/ UNCHANGED dfuVars
    BY <1>1, <2>2, <2>3, DnloadCall DEF r
  <2>5. CASE UNCHANGED dfuVars
    BY <1>1, <2>4, <2>5, InScopeKept DEF dfuVars, memVars
  <2>6. CASE wBlockNum' = 2 /\ wlength' = chunk_size * MaxPacketSize
    <3>1. ScopeOf(image)' = ScopeOf(image)
      BY <1>1 DEF ScopeOf, UnitsOf
    <3>2. BlockAddress(wBlockNum)' = address
      BY <2>0, <2>1, <2>4, <2>6, Sizes DEF BlockAddress, memVars
    <3>3. WrittenUnits' \subseteq ScopeOf(image)
      <4> SUFFICES ASSUME NEW u \in WrittenUnits' PROVE u \in ScopeOf(image)
        OBVIOUS
      <4>1. /\ u \in FlashUnits /\ u - address \in BufferUnits
            /\ (u - address) * MaxPacketSize < chunk_size * MaxPacketSize
        BY <2>6, <3>2 DEF WrittenUnits
      <4>2. u \in Nat /\ u - address < chunk_size /\ u - address >= 0
        BY <2>1, <4>1, FactorOrder, FlashOrder, Sizes DEF BufferUnits
      <4>3. address <= u /\ u < address + chunk_size
        BY <2>1, <4>2
      <4>4. SamePage(u, u)
        BY DEF SamePage
      <4> QED
        BY <2>0, <4>1, <4>2, <4>3, <4>4, ChunkInScope
    <3> QED
      BY <2>4, <3>1, <3>3 DEF InScope, memVars
  <2> QED
    BY <2>4, <2>5, <2>6
<1>7. CASE pc = "upload"
  <2>1. r.req = "UPLOAD" /\ r.len = wTransferSize /\ r.blk \in Nat /\ r.blk > 1
    BY <1>7, RequestOfSite, TransactionType DEF UploadBlock, Session
  <2> HIDE DEF r
  <2>2. UNCHANGED memVars /\ (DeviceState' = "dfuUPLOAD_IDLE" \/ UNCHANGED dfuVars)
    BY <1>1, <2>1, UploadCall DEF r
  <2> QED
    BY <1>1, <2>2, InScopeKept DEF dfuVars, memVars
<1> QED
  BY <1>1, <1>2, <1>3, <1>4, <1>5, <1>6, <1>7 DEF CallSites, GetStatusSites

LEMMA InScopeData ==
  ASSUME Session, Pending, InScope, SendData, DataErasesInScope(image)
  PROVE  InScope'
<1>1. /\ calling /\ UNCHANGED hostVars /\ OutData(HostPacket)
      /\ ControlState \in {"OUT_DATA", "LAST_OUT_DATA"}
  BY DEF SendData
<1> DEFINE at == {k \in BufferUnits : k * MaxPacketSize = Usb_wOffset}
<1>2. /\ MAL_Buffer' = [k \in BufferUnits |-> IF k \in at THEN HostPacket ELSE MAL_Buffer[k]]
      /\ wBlockNum' = setup.blk /\ wlength' = setup.len /\ Pointer' = Pointer
  BY <1>1 DEF OutData
<1>3. /\ pc \in {"command", "chunk"} /\ setup = RequestOf(pc) /\ ControlState # "STALLED"
      /\ \E j \in Nat : /\ Usb_wOffset = j * MaxPacketSize
                       /\ Usb_wOffset \div MaxPacketSize = j
  BY <1>1, NextPacket
<1>4. ScopeOf(image)' = ScopeOf(image) /\ image' = image
  BY <1>1 DEF ScopeOf, UnitsOf, hostVars
<1>5. HostTypeOK /\ (pc = "chunk" => InElement)
  BY DEF Session, Tool, InDownload
<1>6. IsCommand(MAL_Buffer'[0], "ERASE") =>
        \A u \in FlashUnits : SamePage(u, MAL_Buffer'[0].addr) => u \in ScopeOf(image)
  <2>1. CASE 0 \notin at
    BY <1>2, <2>1, Sizes DEF InScope
  <2>2. CASE 0 \in at
    <3>1. MAL_Buffer'[0] = HostPacket /\ Usb_wOffset \div MaxPacketSize = 0
      BY <1>2, <2>2, DivExact, Sizes
    <3>2. CASE pc = "command"
      <4>1. HostPacket = cmd
        BY <3>2 DEF HostPacket
      <4>2. SUFFICES ASSUME IsCommand(cmd, "ERASE"), NEW u \in FlashUnits, SamePage(u, cmd.addr)
                     PROVE  u \in ScopeOf(image)
        BY <3>1, <4>1
      <4>3. task.op = "download" /\ InElement /\ OfChunk /\ cmd.op = "ERASE"
        BY <3>2, <4>2
           DEF IsCommand, Session, Tool, HostTypeOK, Tasks, InDownload, InUpload, SpecialSites
      <4>4. cmd.addr \in Nat
        BY <1>5, ConstantsAssumption DEF HostTypeOK, Command
      <4> QED
        BY <1>5, <4>2, <4>3, <4>4, ChunkInScope DEF OfChunk
    <3>3. CASE pc = "chunk"
      <4>1. HostPacket = image[el].data[p + 0 + 1]
        BY <3>1, <3>3 DEF HostPacket
      <4>2. /\ el \in 1 .. Len(image) /\ p + 0 + 1 \in 1 .. Len(image[el].data)
            /\ Writeable(image[el].addr + (p + 0 + 1) - 1)
        <5>1. el \in 1 .. Len(image) /\ Size \in Nat /\ p \in Nat /\ p < Size
          BY <1>5, <3>3, ChunkType DEF HostTypeOK, InElement
        <5>2. image[el].addr + (p + 0 + 1) - 1 = address
          BY <1>5, <5>1, ImageType DEF HostTypeOK, address
        <5> QED
          BY <1>5, <3>3, <5>1, <5>2 DEF InElement, Size
      <4> QED
        BY <3>1, <4>1, <4>2 DEF DataErasesInScope
    <3> QED
      BY <1>3, <3>2, <3>3
  <2> QED
    BY <2>1, <2>2
<1>7. wBlockNum' > 1 => WrittenUnits' \subseteq ScopeOf(image)
  <2>1. CASE pc = "command"
    <3>1. wBlockNum' = 0
      BY <1>2, <1>3, <2>1, RequestOfSite
    <3> QED
      BY <3>1
  <2>2. CASE pc = "chunk"
    <3>1. /\ wBlockNum = 2 /\ wlength = chunk_size * MaxPacketSize
          /\ DeviceState = "dfuDNLOAD_SYNC"
      BY <1>1, <1>3, <2>2 DEF Pending, ChunkPending, ChunkWaits
    <3>2. wBlockNum' = wBlockNum /\ wlength' = wlength
      BY <1>2, <1>3, <2>2, <3>1, RequestOfSite DEF DnloadChunk
    <3>3. WrittenUnits' = WrittenUnits
      BY <1>2, <3>2 DEF WrittenUnits, BlockAddress
    <3>4. wlength # 0
      <4>1. chunk_size \in 1 .. NPackets
        BY <1>5, <2>2, ChunkType
      <4> QED
        BY <3>1, <4>1, Sizes
    <3> QED
      BY <3>1, <3>3, <3>4 DEF InScope
  <2> QED
    BY <1>3, <2>1, <2>2
<1> QED
  BY <1>4, <1>6, <1>7 DEF InScope

LEMMA InScopeReboot ==
  ASSUME InScope, NEW f, Reboot(f), image' = image
  PROVE  InScope'
<1>1. MAL_Buffer'[0] = Zeros /\ wlength' = 0
  BY Sizes DEF Reboot
<1>2. ~IsCommand(MAL_Buffer'[0], "ERASE")
  BY <1>1, SessionAssumption
<1> QED
  BY <1>1, <1>2 DEF InScope

LEMMA InScopeStep ==
  ASSUME Session, Pending, InScope, DataErasesInScope(image), [SessionNext]_sessionVars
  PROVE  InScope'
<1>1. CASE TakeData
  <2>1. image' = image /\ setup = RequestOf(pc) /\ pc \in CallSites
    BY <1>1 DEF TakeData, Session, CallOpen
  <2>2. CASE UNCHANGED <<dfuVars, memVars>>
    BY <2>1, <2>2, InScopeKept DEF dfuVars, memVars
  <2>3. CASE InData /\ setup.req = "UPLOAD"
    <3>1. pc = "upload"
      BY <2>1, <2>3, RequestOfSite DEF CallSites, GetStatusSites, GetStatusRequest, DnloadChunk
    <3>2. setup.blk \in Nat /\ setup.blk > 1
      BY <2>1, <3>1, RequestOfSite, TransactionType DEF UploadBlock, Session
    <3>3. DeviceState' = "dfuUPLOAD_IDLE" /\ MAL_Buffer' = MAL_Buffer
      BY <2>3, <3>2 DEF InData, UploadRoutine, Enter, UploadState
    <3> QED
      BY <2>1, <3>3, InScopeKept
  <2>4. CASE InData /\ setup.req # "UPLOAD"
    BY <2>2, <2>4 DEF InData, dfuVars, memVars
  <2>5. CASE InLastData
    BY <2>2, <2>5 DEF InLastData
  <2> QED
    BY <1>1, <2>3, <2>4, <2>5 DEF TakeData
<1>2. CASE TakeStatus \/ SendStatus \/ StatusOvertakes
  <2>1. image' = image
    BY <1>2, ReturnFacts DEF ReturnedTo
  <2>2. UNCHANGED operation \/ Performed
    BY <1>2, ReturnFacts
  <2>3. CASE UNCHANGED operation
    BY <2>1, <2>3, InScopeKept DEF operation
  <2>4. CASE Performed
    BY <2>1, <2>4, InScopeKept DEF Performed
  <2> QED
    BY <2>2, <2>3, <2>4
<1>3. CASE \/ CallStalled \/ TransferFails \/ BusGlitch
           \/ Begin \/ NextElement \/ NextChunk \/ EraseLoop \/ EraseTail \/ SetAddress
           \/ FinalReset \/ Rerun
  <2>1. UNCHANGED operation
    BY <1>3, OperationKept
  <2>2. image' = image
    BY <1>3 DEF CallStalled, TransferFails, BusGlitch, HandleDies, Errs, Goto,
                Begin, NextElement, NextChunk, EraseLoop, EraseTail, SetAddress, FinalReset, Rerun
  <2> QED
    BY <2>1, <2>2, InScopeKept DEF operation
<1>4. CASE PowerFails
  <2>1. image' = image /\ \E f : Reboot(f)
    BY <1>4 DEF PowerFails, HandleDies, Goto, PowerCycle, PowerLossInOperation
  <2> QED
    BY <2>1, InScopeReboot
<1>5. CASE UNCHANGED sessionVars
  BY <1>5, InScopeKept DEF sessionVars, vars, dfuVars, memVars, hostVars
<1> QED
  BY <1>1, <1>2, <1>3, <1>4, <1>5, InScopeCall, InScopeData DEF SessionNext, Progress

LEMMA InScopeStart == SessionInit => InScope
<1> SUFFICES ASSUME SessionInit PROVE InScope
  OBVIOUS
<1>1. MAL_Buffer[0] = Zeros /\ wlength = 0
  BY Sizes DEF SessionInit, Init
<1> QED
  BY <1>1, SessionAssumption DEF InScope

\* The image is the same all along.
LEMMA SameImage == Session /\ [SessionNext]_sessionVars => image' = image
<1> SUFFICES ASSUME Session, [SessionNext]_sessionVars PROVE image' = image
  OBVIOUS
<1>1. CASE TakeStatus \/ SendStatus \/ StatusOvertakes
  BY <1>1, ReturnFacts DEF ReturnedTo
<1>2. CASE UNCHANGED sessionVars
  BY <1>2 DEF sessionVars, hostVars
<1> QED
  BY <1>1, <1>2
     DEF SessionNext, Progress, Call, SendData, TakeData, hostVars, CallStalled, TransferFails,
         BusGlitch, PowerFails, HandleDies, Errs, Goto, Begin, NextElement, NextChunk, EraseLoop,
         EraseTail, SetAddress, FinalReset, Rerun

LEMMA ScopeStep ==
  ASSUME Session, InScope, [SessionNext]_sessionVars, NEW u \in FlashUnits, flash'[u] # flash[u]
  PROVE  u \in ScopeOf(image)
<1>1. [FlashChange]_vars
  BY DeviceStep, FlashStep DEF Session, Device
<1>2. DeviceStatus.bState = "dfuDNBUSY" /\ u \in ErasedUnits \cup WrittenUnits
  BY <1>1 DEF FlashChange, vars, memVars
<1>3. DeviceState = "dfuDNBUSY" /\ wlength # 0
  BY <1>2 DEF Session, Device, IInv, StatusConsistent
<1>4. CASE u \in ErasedUnits
  BY <1>4 DEF ErasedUnits, InScope
<1>5. CASE u \in WrittenUnits
  BY <1>3, <1>5 DEF WrittenUnits, InScope
<1> QED
  BY <1>2, <1>4, <1>5

\* Whatever fails, whatever is left unfinished and however often the tool is run again, no
\* packet changes but in the application's pages with a part of the image (the erase loop of
\* dfuse_dnload_element, MAL_Erase and MAL_Write): provided that no data packet of the image
\* poses as a command to erase another page.
THEOREM OtherPagesCorrect ==
  ASSUME \A i \in Images : DataErasesInScope(i)
  PROVE  SessionSpec => OtherPagesIntact
<1> DEFINE I == Session /\ Pending /\ InScope
<1>1. SessionInit => I
  BY SessionStart, PendingStart, InScopeStart
<1>2. I /\ [SessionNext]_sessionVars => I'
  <2> SUFFICES ASSUME I, [SessionNext]_sessionVars PROVE I'
    OBVIOUS
  <2>1. DataErasesInScope(image)
    BY DEF Session, Tool, HostTypeOK
  <2> QED
    BY <2>1, SessionStep, PendingStep, InScopeStep
<1>3. I /\ [SessionNext]_sessionVars
        => [\A u \in FlashUnits : flash'[u] # flash[u] => u \in ScopeOf(image)]_sessionVars
  BY ScopeStep
<1> QED
  BY <1>1, <1>2, <1>3, PTL DEF SessionSpec, OtherPagesIntact

-----------------------------------------------------------------------------
(* What an upload has read is what the flash holds.                         *)

FileExact ==
  task.op = "upload" /\ task.addr # 0 =>
    /\ pc = "upload" =>
         /\ Pointer = task.addr
         /\ \A k \in 1 .. Len(buf) : buf[k] = Read(task.addr + Len(file) + k - 1)
    /\ pc \in {"upload", "detach", "reset", "finished"} =>
         \A k \in 1 .. Len(file) : file[k] = Read(task.addr + k - 1)
    /\ pc \in {"detach", "reset", "finished"} =>
         Len(file) >= UploadLimit /\ Readable(task.addr)

\* The packet that comes next in an upload is the next one of the flash: the block that is
\* asked for starts where the file ends, and in the flash.
LEMMA NextRead ==
  ASSUME Session, calling, pc = "upload", task.addr # 0, Pointer = task.addr,
         ControlState \in {"IN_DATA", "LAST_IN_DATA"}
  PROVE  tx.data = Read(task.addr + Len(file) + Len(buf))
<1>1. /\ task.addr \in Nat /\ Readable(task.addr) /\ Len(file) \in Nat /\ Len(buf) \in Nat
      /\ Len(file) < UploadLimit
  BY FlashOrder, SessionAssumption DEF Session, Tool, HostTypeOK, Tasks, InUpload
<1>2. PICK q \in Nat : Len(file) = q * NPackets
  BY DEF Session, Tool, InUpload
<1>3. Transaction = q + 2
  BY <1>2, DivExact, Sizes DEF Transaction
<1>4. setup.blk = q + 2
  BY <1>3, RequestOfSite DEF Session, CallOpen, UploadBlock
<1>5. BlockAddress(setup.blk) = task.addr + Len(file)
  BY <1>1, <1>2, <1>4, Sizes DEF BlockAddress
<1>6. BlockAddress(setup.blk) \in FlashUnits
  <2>1. UploadLimit \in Nat \ {0} /\ task.addr + UploadLimit - 1 \in FlashUnits
    BY <1>1, LimitType DEF UploadLimit
  <2>2. task.addr + Len(file) <= task.addr + UploadLimit - 1
    BY <1>1, <2>1
  <2> QED
    BY <1>1, <1>5, <2>1, <2>2, FlashOrder
<1>7. tx = UploadPacket(setup.blk, Len(buf) * MaxPacketSize)
  BY GotType
<1>8. (Len(buf) * MaxPacketSize) \div MaxPacketSize = Len(buf)
  BY <1>1, DivExact, Sizes
<1>9. setup.blk # 0 /\ setup.blk # 1
  BY <1>4
<1>10. tx.data = Read(BlockAddress(setup.blk) + (Len(buf) * MaxPacketSize) \div MaxPacketSize)
  BY <1>6, <1>7, <1>9 DEF UploadPacket, DataReply
<1> QED
  BY <1>5, <1>8, <1>10

\* So are the packets of the call, the one included that is not accounted for.
LEMMA GotExact ==
  ASSUME Session, FileExact, calling, pc = "upload", task.addr # 0
  PROVE  \A k \in 1 .. Len(Got) : Got[k] = Read(task.addr + Len(file) + k - 1)
<1>1. task.op = "upload" /\ buf \in Seq(Content) /\ Len(file) \in Nat /\ task.addr \in Nat
  <2>1. task.op = "upload"
    BY DEF Session, Tool, InUpload
  <2>2. buf \in Seq(Content) /\ Len(file) \in Nat
    BY DEF Session, Tool, HostTypeOK
  <2>3. task.addr \in Nat
    BY FlashOrder, SessionAssumption DEF Session, Tool, HostTypeOK, Tasks
  <2> QED
    BY <2>1, <2>2, <2>3
<1>2. /\ Pointer = task.addr
      /\ \A k \in 1 .. Len(buf) : buf[k] = Read(task.addr + Len(file) + k - 1)
  BY <1>1 DEF FileExact
<1>3. CASE ControlState \in {"IN_DATA", "LAST_IN_DATA"}
  <2>1. tx.data = Read(task.addr + Len(file) + Len(buf))
    BY <1>2, <1>3, NextRead
  <2>2. Got = Append(buf, tx.data)
    BY <1>3, GotType
  <2> SUFFICES ASSUME NEW k \in 1 .. Len(Got) PROVE Got[k] = Read(task.addr + Len(file) + k - 1)
    OBVIOUS
  <2>3. Len(buf) \in Nat /\ Len(Got) = Len(buf) + 1
    BY <1>1, <1>3, GotType
  <2>4. CASE k = Len(buf) + 1
    <3>1. Got[k] = tx.data
      BY <1>1, <2>2, <2>4
    <3>2. task.addr + Len(file) + k - 1 = task.addr + Len(file) + Len(buf)
      BY <1>1, <2>3, <2>4
    <3> QED
      BY <2>1, <3>1, <3>2
  <2>5. CASE k # Len(buf) + 1
    <3>1. k \in 1 .. Len(buf)
      BY <2>3, <2>5
    <3>2. Got[k] = buf[k]
      BY <1>1, <2>2, <3>1
    <3> QED
      BY <1>2, <3>1, <3>2
  <2> QED
    BY <2>4, <2>5
<1>4. CASE ControlState \notin {"IN_DATA", "LAST_IN_DATA"}
  BY <1>2, <1>4, GotType
<1> QED
  BY <1>3, <1>4

\* The setup and data packets of a call leave the flash alone.
LEMMA CallKeepsFlash == Call \/ SendData \/ TakeData => flash' = flash
<1>1. CASE Call
  <2>1. Setup0_Process(RequestOf(pc))
    BY <1>1 DEF Call
  <2> QED
    BY <2>1 DEF Setup0_Process, SetupDnload, SetupUpload, UploadRoutine, SetupGetState,
                SetupGetStatus, SetupEndDnload, SetupEndUpload, SetupClrStatus, SetupAbort,
                SetupStandard, SetupUnsupported, memVars
<1>2. CASE SendData \/ TakeData
  BY <1>2 DEF SendData, OutData, TakeData, InData, InLastData, UploadRoutine, memVars
<1> QED
  BY <1>1, <1>2

\* While the tool is done, or uploads, the flash does not change under it.
LEMMA FlashRests ==
  ASSUME Session, [SessionNext]_sessionVars, pc' \in {"upload", "detach", "reset", "finished"},
         pc' # "upload" \/ pc = "upload"
  PROVE  flash' = flash
<1>1. CASE Call \/ SendData \/ TakeData
  BY <1>1, CallKeepsFlash
<1>3. CASE TakeStatus \/ SendStatus \/ StatusOvertakes
  <2>1. PICK s : pc' = AfterReturn(pc, s)
    BY <1>3, ReturnFacts DEF ReturnedTo
  <2>2. pc \notin GetStatusSites
    BY <2>1 DEF AfterReturn, GetStatusSites
  <2> QED
    BY <1>3, <2>2, ReturnFacts DEF operation
<1>4. CASE \/ CallStalled \/ TransferFails \/ BusGlitch
           \/ Begin \/ NextElement \/ NextChunk \/ EraseLoop \/ EraseTail \/ SetAddress
           \/ FinalReset \/ Rerun
  BY <1>4, OperationKept DEF operation
<1>5. CASE PowerFails
  <2>1. pc = "finished"
    BY <1>5, LocalMoves
  <2>2. bus = "idle"
    BY <2>1 DEF Session, AtRest
  <2>3. PowerCycle
    BY <1>5, <2>2 DEF PowerFails, PowerLossInOperation, StatusStage, OutPacket
  <2> QED
    BY <2>3 DEF PowerCycle, Reboot
<1>6. CASE UNCHANGED sessionVars
  BY <1>6 DEF sessionVars, vars, memVars
<1> QED
  BY <1>1, <1>3, <1>4, <1>5, <1>6 DEF SessionNext, Progress

\* The file after a call has returned, and the state of an upload in it.
LEMMA FileGrows ==
  ASSUME Session, FileExact, calling, pc = "upload", task.addr # 0,
         file' = file \o Got, task' = task, flash' = flash
  PROVE  \A k \in 1 .. Len(file') : file'[k] = Read(task.addr + k - 1)'
<1>1. /\ file \in Seq(Content) /\ Got \in Seq(Content) /\ task.addr \in Nat
  <2>1. task.addr \in Nat
    BY FlashOrder, SessionAssumption DEF Session, Tool, HostTypeOK, Tasks
  <2>2. file \in Seq(Content)
    BY DEF Session, Tool, HostTypeOK
  <2> QED
    BY <2>1, <2>2, GotType
<1>2. task.op = "upload"
  BY DEF Session, Tool, InUpload
<1>3. \A k \in 1 .. Len(file) : file[k] = Read(task.addr + k - 1)
  BY <1>2 DEF FileExact
<1>4. \A k \in 1 .. Len(Got) : Got[k] = Read(task.addr + Len(file) + k - 1)
  BY GotExact
<1>5. \A u : Read(u)' = Read(u)
  BY DEF Read
<1> DEFINE g == Got
<1>6. g \in Seq(Content) /\ file' = file \o g
  BY <1>1
<1>7. \A k \in 1 .. Len(g) : g[k] = Read(task.addr + Len(file) + k - 1)
  BY <1>4
<1> HIDE DEF g
<1>8. \A k \in 1 .. Len(file \o g) : (file \o g)[k] = Read(task.addr + k - 1)
  <2> SUFFICES ASSUME NEW k \in 1 .. Len(file \o g)
               PROVE  (file \o g)[k] = Read(task.addr + k - 1)
    OBVIOUS
  <2>1. Len(file) \in Nat /\ Len(g) \in Nat /\ k \in 1 .. Len(file) + Len(g)
    BY <1>1, <1>6
  <2>2. CASE k <= Len(file)
    <3>1. k \in 1 .. Len(file) /\ (file \o g)[k] = file[k]
      BY <1>1, <1>6, <2>1, <2>2
    <3> QED
      BY <1>3, <3>1
  <2>3. CASE k > Len(file)
    <3>1. k - Len(file) \in 1 .. Len(g) /\ (file \o g)[k] = g[k - Len(file)]
      BY <1>1, <1>6, <2>1, <2>3
    <3>2. task.addr + Len(file) + (k - Len(file)) - 1 = task.addr + k - 1
      BY <1>1, <2>1
    <3> QED
      BY <1>7, <3>1, <3>2
  <2> QED
    BY <2>1, <2>2, <2>3
<1> QED
  BY <1>5, <1>6, <1>8 DEF Read

LEMMA FileExactReturn ==
  ASSUME Session, Pending, FileExact, \/ TakeStatus \/ SendStatus \/ StatusOvertakes
  PROVE  FileExact'
<1>1. PICK s : /\ ReturnedTo(AfterReturn(pc, s))
               /\ pc \in GetStatusSites => s.bState = DeviceState
  BY ReturnFacts
<1>2. /\ calling /\ pc \in CallSites
      /\ UNCHANGED operation \/ (pc \in GetStatusSites /\ Performed)
  BY ReturnFacts
<1>3. pc' = AfterReturn(pc, s) /\ file' = file \o Got /\ UNCHANGED <<image, task, cmd>>
  BY <1>1 DEF ReturnedTo
<1>4. buf' = <<>>
  BY Returned DEF Returns, Goto
<1>5. UploadLimit' = UploadLimit /\ (Readable(task.addr)' <=> Readable(task.addr))
  BY <1>3 DEF UploadLimit, Readable, find_segment
<1> SUFFICES ASSUME task.op = "upload", task.addr # 0 PROVE FileExact'
  BY <1>3 DEF FileExact
<1>6. CASE pc = "idle" /\ pc' = "upload"
  <2>1. s.bState = "dfuIDLE"
    BY <1>3, <1>6 DEF AfterReturn
  <2>2. DeviceState = "dfuIDLE"
    BY <1>1, <1>6, <2>1 DEF GetStatusSites
  <2>3. CommandDone /\ UNCHANGED operation
    BY <1>2, <1>6, <2>2 DEF Pending, CommandPending, Performed
  <2>4. cmd.addr = task.addr /\ file = <<>> /\ Got = <<>>
    BY <1>2, <1>6, GotType DEF Session, Tool, InUpload, SpecialSites
  <2>5. Pointer' = task.addr /\ Len(file') = 0 /\ Len(buf') = 0
    BY <1>3, <1>4, <2>3, <2>4 DEF CommandDone, operation
  <2> QED
    BY <1>3, <1>6, <2>5 DEF FileExact
<1>7. CASE pc = "upload"
  <2>1. UNCHANGED operation
    BY <1>2, <1>7 DEF GetStatusSites
  <2>2. \A k \in 1 .. Len(file') : file'[k] = Read(task.addr + k - 1)'
    BY <1>2, <1>3, <1>7, <2>1, FileGrows DEF operation
  <2>3. Pointer = task.addr /\ Readable(task.addr)
    BY <1>7 DEF FileExact, Session, Tool, InUpload
  <2>4. pc' \in {"detach", "upload"} /\ (pc' = "detach" => LastBlock)
    BY <1>3, <1>7 DEF AfterReturn
  <2>5. pc' = "detach" => Len(file') >= UploadLimit
    <3>1. Len(Got) = NPackets
      BY <1>7, Returned
    <3>2. Len(file') = Len(file) + NPackets /\ UploadLimit \in Nat /\ Len(file) \in Nat
      BY <1>2, <1>3, <1>7, <3>1, GotType, Concatenated, TransactionType
         DEF Session, Tool, HostTypeOK
    <3> QED
      BY <2>4, <3>1, <3>2, Sizes DEF LastBlock
  <2>6. Len(buf') = 0
    BY <1>4
  <2> QED
    BY <1>3, <1>5, <2>1, <2>2, <2>3, <2>4, <2>5, <2>6 DEF FileExact, operation
<1>8. CASE pc = "detach"
  <2>1. UNCHANGED operation /\ Got = <<>> /\ pc' = "reset"
    BY <1>2, <1>3, <1>8, GotType DEF GetStatusSites, AfterReturn
  <2>2. file' = file
    BY <1>3, <2>1 DEF Session, Tool, HostTypeOK
  <2> QED
    BY <1>3, <1>5, <1>8, <2>1, <2>2 DEF FileExact, Read, operation
<1>9. CASE pc' \notin {"upload", "detach", "reset", "finished"}
  BY <1>9 DEF FileExact
<1>10. pc' \in {"upload", "detach", "reset", "finished"} => pc \in {"upload", "detach", "idle"}
  BY <1>2, <1>3 DEF AfterReturn, CallSites
<1>11. pc = "idle" => pc' \in {"upload", "failed", "erase", "chunk"}
  BY <1>3 DEF AfterReturn
<1> QED
  BY <1>6, <1>7, <1>8, <1>9, <1>10, <1>11

LEMMA FileExactStep ==
  ASSUME Session, Pending, FileExact, [SessionNext]_sessionVars
  PROVE  FileExact'
<1>1. CASE TakeData
  <2>1. /\ buf' = Got /\ calling
        /\ UNCHANGED <<image, task, file, pc, calling, el, p, erase_address, last_erased, cmd>>
        /\ UNCHANGED <<flash, Pointer>>
    BY <1>1 DEF TakeData, InData, InLastData, UploadRoutine, memVars
  <2>2. UploadLimit' = UploadLimit /\ (Readable(task.addr)' <=> Readable(task.addr))
    BY <2>1 DEF UploadLimit, Readable, find_segment
  <2>3. pc = "upload" /\ task.addr # 0 =>
          \A k \in 1 .. Len(buf') : buf'[k] = Read(task.addr + Len(file) + k - 1)
    BY <2>1, GotExact
  <2> QED
    BY <2>1, <2>2, <2>3 DEF FileExact, Read
<1>2. CASE TakeStatus \/ SendStatus \/ StatusOvertakes
  BY <1>2, FileExactReturn
<1>3. CASE ~TakeData /\ ~TakeStatus /\ ~SendStatus /\ ~StatusOvertakes
  <2>1. CASE pc' \notin {"upload", "detach", "reset", "finished"}
    BY <2>1 DEF FileExact
  <2>2. CASE pc' \in {"upload", "detach", "reset", "finished"}
    <3>1. CASE Begin \/ NextElement \/ Rerun
      <4>1. task'.op = "upload" => task'.addr = 0
        BY <2>2, <3>1 DEF Begin, NextElement, Rerun, Session, Tool, InDownload
      <4> QED
        BY <4>1 DEF FileExact
    <3>2. CASE ~(Begin \/ NextElement \/ Rerun)
      <4>1. \/ Call \/ SendData \/ CallStalled \/ TransferFails \/ FinalReset
            \/ BusGlitch \/ PowerFails \/ UNCHANGED sessionVars
        BY <1>3, <2>2, <3>2, LocalMoves DEF SessionNext, Progress
      <4>2. UNCHANGED <<task, file>>
        BY <4>1 DEF Call, SendData, hostVars, CallStalled, TransferFails, Errs, Goto, FinalReset,
                    BusGlitch, PowerFails, HandleDies, sessionVars
      <4>3. CASE pc' = "upload"
        <5>1. Call \/ SendData \/ UNCHANGED sessionVars
          BY <4>1, <4>3, LocalMoves
        <5>2. UNCHANGED <<pc, buf>>
          BY <5>1 DEF Call, SendData, hostVars, sessionVars
        <5>3. flash' = flash
          BY <4>3, <5>2, FlashRests
        <5>4. Pointer' = Pointer
          BY <5>1 DEF Call, Setup0_Process, SetupDnload, SetupUpload, UploadRoutine,
                      SetupGetState, SetupGetStatus, SetupEndDnload, SetupEndUpload,
                      SetupClrStatus, SetupAbort, SetupStandard, SetupUnsupported, memVars,
                      SendData, OutData, sessionVars, vars
        <5> QED
          BY <4>2, <4>3, <5>2, <5>3, <5>4 DEF FileExact, Read
      <4>4. CASE pc' # "upload"
        <5>1. pc \in {"detach", "reset", "finished"}
          BY <2>2, <4>1, <4>4, LocalMoves
             DEF Call, SendData, hostVars, FinalReset, CallStalled, TransferFails, Errs, Goto,
                 AfterError, BusGlitch, PowerFails, sessionVars
        <5>2. flash' = flash
          BY <2>2, <4>4, FlashRests
        <5>3. UploadLimit' = UploadLimit /\ (Readable(task.addr)' <=> Readable(task.addr))
          BY <4>2 DEF UploadLimit, Readable, find_segment
        <5> QED
          BY <2>2, <4>2, <4>4, <5>1, <5>2, <5>3 DEF FileExact, Read
      <4> QED
        BY <4>3, <4>4
    <3> QED
      BY <3>1, <3>2
  <2> QED
    BY <2>1, <2>2
<1> QED
  BY <1>1, <1>2, <1>3

\* An upload that reports success has written what the flash holds, for every address,
\* segment, block size and history of failures (dfuse_do_upload against UPLOAD of
\* usb_prop.c): the blocks join without a gap, and none comes from another address.
THEOREM UploadCorrect == SessionSpec => []UploadIsExact
<1> DEFINE I == Session /\ Pending /\ FileExact
<1>1. SessionInit => I
  BY SessionStart, PendingStart DEF SessionInit, FileExact
<1>2. I /\ [SessionNext]_sessionVars => I'
  BY SessionStep, PendingStep, FileExactStep
<1>3. I => UploadIsExact
  <2> SUFFICES ASSUME I, task.op = "upload", task.addr # 0, pc \in {"detach", "reset", "finished"}
               PROVE  /\ Len(file) >= UploadLimit
                      /\ \A k \in 1 .. UploadLimit : file[k] = flash[task.addr + k - 1]
    BY DEF UploadIsExact
  <2>1. /\ Len(file) >= UploadLimit /\ Readable(task.addr)
        /\ \A k \in 1 .. Len(file) : file[k] = Read(task.addr + k - 1)
    BY DEF FileExact
  <2>2. task.addr \in Nat /\ Len(file) \in Nat
    <3>1. task.addr \in Nat
      BY FlashOrder, SessionAssumption DEF Session, Tool, HostTypeOK, Tasks
    <3> QED
      BY <3>1 DEF Session, Tool, HostTypeOK
  <2>3. UploadLimit \in Nat \ {0} /\ task.addr + UploadLimit - 1 \in FlashUnits
    BY <2>1, <2>2, LimitType DEF UploadLimit
  <2>4. ASSUME NEW k \in 1 .. UploadLimit PROVE file[k] = flash[task.addr + k - 1]
    <3>1. k \in 1 .. Len(file) /\ task.addr + k - 1 \in Nat
          /\ task.addr + k - 1 <= task.addr + UploadLimit - 1
      BY <2>1, <2>2, <2>3
    <3>2. task.addr + k - 1 \in FlashUnits
      BY <2>3, <3>1, FlashOrder
    <3> QED
      BY <2>1, <3>1, <3>2 DEF Read
  <2> QED
    BY <2>1, <2>4
<1> QED
  BY <1>1, <1>2, <1>3, PTL DEF SessionSpec

-----------------------------------------------------------------------------
(* What a download has erased and programmed.                               *)

LEMMA WriteableIsErasable ==
  ASSUME LayoutRegular, NEW u, Writeable(u)
  PROVE  Erasable(u)
  BY DEF LayoutRegular, Writeable, Erasable, find_segment

StartSites    == {"status", "clear", "abort", "clear_warn", "status_warn", "begin"}
ChunkSites    == {"erase", "set_address", "chunk", "poll"} \cup SpecialSites
DownloadSites == {"element", "next_chunk"} \cup ChunkSites

Page(u)       == u \div PageUnits
Unit(e, k)    == image[e].addr + k - 1
LastOfElement == image[el].addr + Size - 1

\* The erase of the page of last_erased is not done yet; the tool is in the erase loop.
Erasing   == pc \in SpecialSites /\ cmd.op = "ERASE" /\ (pc = "command" \/ wlength # 0)
Erases    == pc = "erase" \/ (pc \in SpecialSites /\ cmd.op = "ERASE")
ChunkDone == pc = "poll" /\ wlength = 0

\* The packets that are programmed, and the address past the last of them.
IsSent(e, k) ==
  \/ e < el
  \/ e = el /\ pc # "element" /\ (k <= p \/ (ChunkDone /\ k <= p + chunk_size))

Frontier ==
  CASE pc = "element"    -> IF el = 1 THEN 0 ELSE EndOf(image[el - 1])
    [] pc = "next_chunk" -> IF p < Size THEN address ELSE LastOfElement + 1
    [] ChunkDone         -> LastOfChunk + 1
    [] OTHER             -> address

\* In a page that this run of the tool has come to and that is not about to be erased.
Visited(u) == Page(u) <= Page(last_erased) /\ (Erasing => Page(u) # Page(last_erased))

\* The tool's account of what it has erased: the loop goes page by page, and when it ends
\* the last page of the chunk is the one erased last.
Bookkeeping ==
  /\ pc = "element" => el <= Len(image) + 1
  /\ pc \in {"element", "next_chunk"} => last_erased <= Frontier
  /\ pc # "element" => Writeable(LastOfElement)
  /\ pc \in ChunkSites => last_erased <= LastOfChunk
  /\ Erases =>
       /\ last_erased <= erase_address
       /\ \/ erase_address = address
          \/ last_erased # 0 /\ Page(erase_address) <= Page(last_erased) + 1
  /\ pc \in SpecialSites /\ cmd.op = "ERASE" => cmd.addr = last_erased
  /\ pc \in ChunkSites /\ ~Erases => Page(last_erased) = Page(LastOfChunk)

SentHeld ==
  \A e \in 1 .. Len(image) : \A k \in 1 .. Len(image[e].data) :
    IsSent(e, k) => /\ Unit(e, k) \in FlashUnits /\ flash[Unit(e, k)] = image[e].data[k]
                    /\ Visited(Unit(e, k))

\* Past the frontier the pages visited are erased, wherever else the image has a part.
AheadErased ==
  last_erased # 0 => \A u \in FlashUnits : u >= Frontier /\ Visited(u) => flash[u] = Erased

Progressing ==
  /\ task.op = "download" /\ pc \in DownloadSites => Bookkeeping /\ SentHeld /\ AheadErased
  /\ pc \in StartSites => el = 1 /\ last_erased = 0
  /\ Downloaded => Programmed

\* Nothing has been refused, and what waits to be written will not be.
LandsOnErased ==
  /\ ~pgerr
  /\ DeviceState \in {"dfuDNLOAD_SYNC", "dfuDNBUSY"} /\ wlength # 0
       => \A u \in WrittenUnits : flash[u] = Erased

\* Pages follow each other as their addresses do.
LEMMA PageOrder ==
  /\ \A u \in Nat : Page(u) \in Nat /\ Page(u + PageUnits) = Page(u) + 1
  /\ \A u, v \in Nat : u <= v => Page(u) <= Page(v)
  /\ \A u \in Nat : u >= PageUnits => Page(u) >= 1
  /\ Page(0) = 0
<1>0. PageUnits \in Nat \ {0}
  BY ConstantsAssumption
<1>1. ASSUME NEW u \in Nat, NEW v \in Nat, u <= v PROVE Page(u) <= Page(v)
  BY <1>0, <1>1, DivMonotonic DEF Page
<1>2. Page(0) = 0 /\ Page(PageUnits) = 1
  <2>1. 0 * PageUnits = 0 /\ 1 * PageUnits = PageUnits
    BY <1>0
  <2> QED
    BY <1>0, <2>1, DivExact DEF Page
<1>3. ASSUME NEW u \in Nat PROVE Page(u) \in Nat /\ Page(u + PageUnits) = Page(u) + 1
  <2> DEFINE n == PageUnits
             k == Page(u)
             m == Page(u + PageUnits)
  <2>1. /\ k \in Int /\ n * k <= u /\ u < n * k + n
        /\ m \in Int /\ n * m <= u + n /\ u + n < n * m + n
    BY <1>0, DivBounds DEF Page
  <2>2. k >= 0
    <3>1. Page(0) <= Page(u)
      BY <1>1
    <3> QED
      BY <1>2, <3>1
  <2>3. n \in Nat \ {0} /\ u \in Nat
    BY <1>0
  <2> HIDE DEF n, k, m
  <2>4. n * (m - k - 1) < n /\ n * (k + 1 - m) < n
    BY <2>1, <2>3
  <2>5. (m - k - 1 >= 1 => n * (m - k - 1) >= n) /\ (k + 1 - m >= 1 => n * (k + 1 - m) >= n)
    BY <2>1, <2>3
  <2>6. ~(m - k - 1 >= 1) /\ ~(k + 1 - m >= 1)
    <3> DEFINE x == n * (m - k - 1)
               y == n * (k + 1 - m)
    <3>1. x \in Int /\ y \in Int /\ x < n /\ y < n
      BY <2>1, <2>3, <2>4
    <3>2. (m - k - 1 >= 1 => x >= n) /\ (k + 1 - m >= 1 => y >= n)
      BY <2>5
    <3> HIDE DEF x, y
    <3> QED
      BY <2>3, <3>1, <3>2
  <2>7. m = k + 1
    BY <2>1, <2>6
  <2> QED
    BY <2>1, <2>2, <2>7 DEF k, m
<1>4. ASSUME NEW u \in Nat, u >= PageUnits PROVE Page(u) >= 1
  BY <1>0, <1>1, <1>2, <1>4
<1> QED
  BY <1>1, <1>2, <1>3, <1>4

\* The addresses of the chunk, in numbers.
LEMMA ChunkAddresses ==
  ASSUME Session, task.op = "download", pc \in ChunkSites, Writeable(LastOfElement)
  PROVE  /\ el \in 1 .. Len(image) /\ image[el].addr \in Nat /\ Size \in Nat /\ p \in Nat
         /\ address = image[el].addr + p /\ address \in Nat /\ p < Size
         /\ chunk_size \in 1 .. NPackets /\ p + chunk_size <= Size
         /\ LastOfChunk = address + chunk_size - 1 /\ LastOfChunk \in FlashUnits
         /\ address <= LastOfChunk /\ LastOfChunk <= LastOfElement
         /\ LastOfElement = image[el].addr + Size - 1
         /\ ApplicationAddress <= address /\ FlashUnits \subseteq Nat
<1>1. HostTypeOK /\ InElement
  BY DEF ChunkSites, Session, Tool, InDownload
<1>2. /\ Size \in Nat /\ address \in Nat /\ chunk_size \in 1 .. NPackets
      /\ p + chunk_size <= Size /\ address >= ApplicationAddress /\ el \in 1 .. Len(image)
  BY <1>1, ChunkType
<1>3. image[el].addr \in Nat /\ p \in Nat /\ address = image[el].addr + p /\ p < Size
  BY <1>1, <1>2, ImageType DEF HostTypeOK, address, InElement
<1>4. LastOfChunk = address + chunk_size - 1 /\ LastOfElement = image[el].addr + Size - 1
  BY DEF LastOfChunk, LastOfElement
<1>5. address <= LastOfChunk /\ LastOfChunk <= LastOfElement /\ LastOfElement \in Nat
      /\ LastOfChunk \in Nat /\ ApplicationAddress <= address
  <2> DEFINE a == image[el].addr
             n == Size
             c == chunk_size
  <2>1. a \in Nat /\ n \in Nat /\ c \in Nat /\ c >= 1 /\ p \in Nat /\ p + c <= n
    BY <1>2, <1>3
  <2>2. address = a + p /\ LastOfChunk = a + p + c - 1 /\ LastOfElement = a + n - 1
    BY <1>3, <1>4
  <2> HIDE DEF a, n, c
  <2> QED
    BY <1>2, <2>1, <2>2
<1>6. LastOfElement \in FlashUnits
  BY <1>5, AnnouncedType
<1>7. LastOfChunk \in FlashUnits
  BY <1>5, <1>6, FlashOrder
<1> QED
  BY <1>2, <1>3, <1>4, <1>5, <1>7, FlashOrder

\* The end of an element.
LEMMA EndType ==
  ASSUME NEW i \in Images, NEW e \in 1 .. Len(i)
  PROVE  /\ EndOf(i[e]) \in Nat /\ EndOf(i[e]) = i[e].addr + Len(i[e].data)
         /\ \A k \in 1 .. Len(i[e].data) :
              i[e].addr + k - 1 \in Nat /\ i[e].addr <= i[e].addr + k - 1
              /\ i[e].addr + k - 1 < EndOf(i[e])
<1> DEFINE a == i[e].addr
           n == Len(i[e].data)
<1>1. a \in Nat /\ n \in Nat
  BY ImageType
<1>2. EndOf(i[e]) = a + n
  BY DEF EndOf
<1> HIDE DEF a, n
<1>3. a + n \in Nat /\ \A k \in 1 .. n : a + k - 1 \in Nat /\ a <= a + k - 1 /\ a + k - 1 < a + n
  BY <1>1
<1> QED
  BY <1>2, <1>3 DEF a, n

\* A step that programs nothing and sends nothing keeps what is programmed and erased.
LEMMA Carried ==
  ASSUME SentHeld, AheadErased, UNCHANGED <<image, flash, last_erased>>,
         Erasing' <=> Erasing, Frontier \in Nat, Frontier' \in Nat, Frontier <= Frontier',
         \A e \in 1 .. Len(image) : \A k \in 1 .. Len(image[e].data) : IsSent(e, k)' => IsSent(e, k)
  PROVE  SentHeld' /\ AheadErased'
<1>1. \A u : Visited(u)' <=> Visited(u)
  BY DEF Visited, Page
<1>2. SentHeld'
  BY <1>1 DEF SentHeld, Unit
<1>3. AheadErased'
  BY <1>1, FlashOrder DEF AheadErased
<1> QED
  BY <1>2, <1>3

\* Where the frontier is.
LEMMA FrontierAt ==
  /\ pc \in ChunkSites /\ ~ChunkDone => Frontier = address
  /\ ChunkDone                       => Frontier = LastOfChunk + 1
  /\ pc = "next_chunk"               => Frontier = IF p < Size THEN address ELSE LastOfElement + 1
  /\ pc = "element"                  => Frontier = IF el = 1 THEN 0 ELSE EndOf(image[el - 1])
  BY DEF Frontier, ChunkDone, ChunkSites, SpecialSites

LEMMA FrontierType ==
  ASSUME Session, task.op = "download", pc \in DownloadSites, Bookkeeping
  PROVE  Frontier \in Nat
<1>1. CASE pc \in ChunkSites
  <2>1. address \in Nat /\ LastOfChunk \in Nat
    BY <1>1, ChunkAddresses DEF Bookkeeping, ChunkSites, SpecialSites
  <2> QED
    BY <1>1, <2>1, FrontierAt
<1>2. CASE pc = "next_chunk"
  <2>1. el \in 1 .. Len(image) /\ image \in Images /\ p \in Nat
    BY <1>2, SessionAssumption DEF Session, Tool, HostTypeOK, InDownload
  <2>2. image[el].addr \in Nat /\ Size \in Nat
    BY <2>1, ImageType DEF Size
  <2>3. address \in Nat /\ LastOfElement + 1 \in Nat
    BY <2>1, <2>2 DEF address, LastOfElement
  <2> QED
    BY <1>2, <2>3, FrontierAt
<1>3. CASE pc = "element"
  <2>1. image \in Images /\ el \in Nat \ {0} /\ el <= Len(image) + 1 /\ Len(image) \in Nat
    BY <1>3, SessionAssumption DEF Session, Tool, HostTypeOK, Bookkeeping
  <2>2. el # 1 => el - 1 \in 1 .. Len(image)
    BY <2>1
  <2> QED
    BY <1>3, <2>1, <2>2, EndType, FrontierAt
<1> QED
  BY <1>1, <1>2, <1>3 DEF DownloadSites

-----------------------------------------------------------------------------
(* Progressing is inductive: the steps of a call.                           *)

\* A setup or data packet neither starts nor ends the operation that the tool awaits.
LEMMA CallKeepsLength ==
  ASSUME Session, Pending, Call \/ SendData \/ TakeData
  PROVE  /\ UNCHANGED <<image, task, pc, el, p, erase_address, last_erased, cmd>>
         /\ pc \in {"busy", "result", "leave", "idle", "poll"} => (wlength' = 0 <=> wlength = 0)
<1>1. CASE Call
  <2>1. Setup0_Process(RequestOf(pc))
    BY <1>1 DEF Call
  <2>2. CASE pc \in {"busy", "result", "idle", "poll"}
    <3>1. Setup0_Process(GetStatusRequest)
      BY <2>1, <2>2, RequestOfSite DEF GetStatusSites
    <3> QED
      BY <1>1, <3>1, GetStatusMoves DEF Call
  <2>3. CASE pc = "leave"
    <3> DEFINE r == RequestOf(pc)
    <3>1. r.req = "ABORT" /\ r.len = 0
      BY <2>3, RequestOfSite
    <3> HIDE DEF r
    <3>2. \/ UNCHANGED wlength
          \/ AbortAllowed /\ wlength' = 0
      BY <2>1, <3>1, NoDataCall DEF r
    <3>3. AbortAllowed => wlength = 0
      BY <2>3 DEF Pending, CommandPending, CommandDone, AbortAllowed
    <3> QED
      BY <1>1, <3>2, <3>3 DEF Call
  <2> QED
    BY <1>1, <2>2, <2>3 DEF Call
<1>2. CASE SendData
  <2>1. pc \in {"command", "chunk"} /\ UNCHANGED hostVars
    BY <1>2, NextPacket DEF SendData
  <2> QED
    BY <2>1 DEF hostVars
<1>3. CASE TakeData
  <2>1. calling /\ UNCHANGED <<image, task, pc, el, p, erase_address, last_erased, cmd>>
    BY <1>3 DEF TakeData
  <2>2. ControlState \in {"IN_DATA", "LAST_IN_DATA"}
    BY <1>3 DEF TakeData, InData, InLastData
  <2>3. setup = RequestOf(pc) /\ StageOfRequest
    BY <2>1 DEF Session, CallOpen
  <2>4. pc # "leave"
    BY <2>2, <2>3, RequestOfSite DEF StageOfRequest
  <2>5. pc \in GetStatusSites => UNCHANGED wlength
    <3>1. pc \in GetStatusSites => ControlState = "LAST_IN_DATA"
      BY <2>2, <2>3, RequestOfSite DEF StageOfRequest, GetStatusRequest
    <3> QED
      BY <1>3, <3>1 DEF TakeData, InData, InLastData, dfuVars
  <2> QED
    BY <2>1, <2>4, <2>5 DEF GetStatusSites
<1> QED
  BY <1>1, <1>2, <1>3

LEMMA ProgressingQuiet ==
  ASSUME Session, Progressing,
         UNCHANGED <<image, task, pc, el, p, erase_address, last_erased, cmd, flash>>,
         pc \in {"busy", "result", "leave", "idle", "poll"} => (wlength' = 0 <=> wlength = 0)
  PROVE  Progressing'
<1>1. (ChunkDone' <=> ChunkDone) /\ (Erasing' <=> Erasing) /\ (Erases' <=> Erases)
  BY DEF ChunkDone, Erasing, Erases, SpecialSites
<1>2. /\ address' = address /\ Size' = Size /\ chunk_size' = chunk_size
      /\ LastOfChunk' = LastOfChunk /\ LastOfElement' = LastOfElement
  BY SameChunk DEF LastOfChunk, LastOfElement
<1>3. Frontier' = Frontier
  BY <1>1, <1>2 DEF Frontier, EndOf
<1>4. \A e, k : IsSent(e, k)' => IsSent(e, k)
  BY <1>1, <1>2 DEF IsSent
<1>5. ASSUME task.op = "download", pc \in DownloadSites
      PROVE  Bookkeeping' /\ SentHeld' /\ AheadErased'
  <2>1. Bookkeeping /\ SentHeld /\ AheadErased
    BY <1>5 DEF Progressing
  <2>2. Frontier \in Nat
    BY <1>5, <2>1, FrontierType
  <2>3. Bookkeeping'
    BY <1>1, <1>2, <1>3, <2>1 DEF Bookkeeping, Writeable, find_segment, Page
  <2> QED
    BY <1>1, <1>3, <1>4, <2>1, <2>2, <2>3, Carried
<1>6. Downloaded' => Programmed'
  BY DEF Progressing, Downloaded, Programmed
<1> QED
  BY <1>5, <1>6 DEF Progressing

\* What a command does to the flash when it is performed.
LEMMA CommandFlash ==
  ASSUME CommandWaits, cmd \in Commands, ~pgerr
  PROVE  /\ cmd.op = "ERASE" /\ cmd.addr \in FlashUnits =>
              FlashAfter(FlashUnits)
                = [u \in FlashUnits |-> IF Page(u) = Page(cmd.addr) THEN Erased ELSE flash[u]]
         /\ cmd.op # "ERASE" => FlashAfter(FlashUnits) = [u \in FlashUnits |-> flash[u]]
<1>1. ProgrammedUnits = {}
  BY DEF CommandWaits, WrittenUnits, ProgrammedUnits
<1>2. ASSUME cmd.op = "ERASE", cmd.addr \in FlashUnits
      PROVE  FlashAfter(FlashUnits)
               = [u \in FlashUnits |-> IF Page(u) = Page(cmd.addr) THEN Erased ELSE flash[u]]
  <2>1. ErasedUnits = {u \in FlashUnits : Page(u) = Page(cmd.addr)}
    BY <1>2 DEF CommandWaits, ErasedUnits, IsCommand, SamePage, Page
  <2> QED
    BY <1>1, <2>1 DEF FlashAfter
<1>3. ASSUME cmd.op # "ERASE"
      PROVE  FlashAfter(FlashUnits) = [u \in FlashUnits |-> flash[u]]
  <2>1. ErasedUnits = {}
    BY <1>3 DEF CommandWaits, ErasedUnits, IsCommand
  <2> QED
    BY <1>1, <2>1 DEF FlashAfter
<1> QED
  BY <1>2, <1>3

LEMMA CommandReturns ==
  ASSUME Session, Pending, Progressing, LandsOnErased,
         task.op = "download", pc \in SpecialSites,
         \/ TakeStatus \/ SendStatus \/ StatusOvertakes,
         pc' # "failed"
  PROVE  pc' \in ChunkSites /\ Bookkeeping' /\ SentHeld' /\ AheadErased'
<1>1. PICK s : /\ ReturnedTo(AfterReturn(pc, s))
               /\ pc \in GetStatusSites => s.bState = DeviceState
  BY ReturnFacts
<1>2. /\ UNCHANGED operation \/ (pc \in GetStatusSites /\ Performed)
      /\ calling /\ (pc = "command" => ControlState = "WAIT_STATUS_IN")
  BY ReturnFacts
<1>3. Bookkeeping /\ SentHeld /\ AheadErased
  BY DEF Progressing, DownloadSites, ChunkSites
<1>4. pc' = AfterReturn(pc, s)
  BY <1>1 DEF ReturnedTo
<1>5. UNCHANGED <<image, task, el, p, erase_address, last_erased, cmd>>
  BY <1>1 DEF ReturnedTo, SpecialSites
<1>6. /\ pc' \in {"busy", "result", "leave", "idle", "erase", "chunk"}
      /\ pc' = "erase" => pc = "idle" /\ cmd.op = "ERASE" /\ s.bState = "dfuIDLE"
      /\ pc' = "chunk" => pc = "idle" /\ cmd.op # "ERASE"
      /\ pc = "idle" => pc' \in {"erase", "chunk"} /\ s.bState = "dfuIDLE"
  BY <1>4 DEF AfterReturn, SpecialSites
<1>7. pc' \in ChunkSites /\ (Erases' <=> Erases) /\ (cmd.op = "ERASE" => cmd.addr = last_erased)
  BY <1>3, <1>5, <1>6 DEF ChunkSites, SpecialSites, Erases, Bookkeeping
<1>8. /\ address' = address /\ LastOfChunk' = LastOfChunk /\ LastOfElement' = LastOfElement
      /\ Size' = Size
  BY <1>5, SameChunk DEF LastOfChunk, LastOfElement
<1>9. Bookkeeping'
  <2>1. pc' \notin {"element", "next_chunk"} /\ pc \notin {"element", "next_chunk"}
    BY <1>6 DEF SpecialSites
  <2> QED
    BY <1>3, <1>5, <1>7, <1>8, <2>1 DEF Bookkeeping, Writeable, find_segment, Page, ChunkSites
<1>10. Frontier = address /\ Frontier' = address /\ address \in Nat
  <2>1. ~ChunkDone /\ ~ChunkDone'
    BY <1>6 DEF ChunkDone, SpecialSites
  <2>2. pc' # "element" /\ pc' # "next_chunk" /\ pc # "element" /\ pc # "next_chunk"
    BY <1>6 DEF SpecialSites
  <2>3. Frontier = address /\ Frontier' = address'
    BY <2>1, <2>2 DEF Frontier
  <2> QED
    BY <1>3, <1>8, <2>2, <2>3, ChunkAddresses DEF Bookkeeping, ChunkSites
<1>11. \A e, k : IsSent(e, k)' <=> IsSent(e, k)
  BY <1>5, <1>6 DEF IsSent, ChunkDone, SpecialSites
<1>12. CASE UNCHANGED operation
  <2>1. Erasing' <=> Erasing
    <3>1. pc = "command" => wlength # 0
      BY <1>2 DEF Pending, CommandPending
    <3>2. pc = "idle" => wlength = 0
      BY <1>1, <1>6 DEF GetStatusSites, Pending, CommandPending, CommandDone
    <3>3. wlength' = wlength
      BY <1>12 DEF operation
    <3>4. pc \in SpecialSites \ {"idle"} => pc' \in SpecialSites \ {"command"}
      BY <1>4, <1>6 DEF SpecialSites, AfterReturn
    <3> QED
      BY <1>5, <1>6, <3>1, <3>2, <3>3, <3>4 DEF Erasing, SpecialSites
  <2> QED
    BY <1>3, <1>5, <1>7, <1>9, <1>10, <1>11, <1>12, <2>1, Carried DEF operation
<1>13. CASE pc \in GetStatusSites /\ Performed
  <2>1. wlength' = 0 /\ wlength # 0 /\ DeviceState = "dfuDNBUSY" /\ flash' = FlashAfter(FlashUnits)
    BY <1>13 DEF Performed
  <2>2. pc \in {"busy", "result"} /\ CommandWaits
    <3>1. s.bState = "dfuDNBUSY"
      BY <1>1, <1>13, <2>1
    <3>2. pc # "idle" /\ pc \in {"busy", "result", "idle"}
      BY <1>6, <1>13, <3>1 DEF GetStatusSites, SpecialSites
    <3> QED
      BY <2>1, <3>2 DEF Pending, CommandPending, CommandDone
  <2>3. ~Erasing' /\ (Erasing <=> cmd.op = "ERASE")
    <3>1. pc' \in {"result", "leave"}
      BY <1>4, <1>6, <2>2 DEF AfterReturn
    <3> QED
      BY <2>1, <2>2, <3>1 DEF Erasing, SpecialSites
  <2>4. cmd \in Commands /\ last_erased \in FlashUnits /\ ~pgerr
    BY DEF Session, Tool, HostTypeOK, LandsOnErased
  <2>5. CASE cmd.op # "ERASE"
    <3>1. flash' = flash
      <4>1. flash \in [FlashUnits -> Content]
        BY DEF Session, Device, IInv, TypeOK
      <4> QED
        BY <2>1, <2>2, <2>4, <2>5, <4>1, CommandFlash
    <3>2. Erasing' <=> Erasing
      BY <2>3, <2>5
    <3> QED
      BY <1>3, <1>5, <1>7, <1>9, <1>10, <1>11, <3>1, <3>2, Carried
  <2>6. CASE cmd.op = "ERASE"
    <3>1. flash' = [u \in FlashUnits |-> IF Page(u) = Page(last_erased) THEN Erased ELSE flash[u]]
      BY <1>7, <2>1, <2>2, <2>4, <2>6, CommandFlash
    <3>2. /\ \A u : Visited(u) <=> Page(u) <= Page(last_erased) /\ Page(u) # Page(last_erased)
          /\ \A u : Visited(u)' <=> Page(u) <= Page(last_erased)
      BY <1>5, <2>3, <2>6 DEF Visited, Page
    <3>3. SentHeld'
      <4> SUFFICES ASSUME NEW e \in 1 .. Len(image), NEW k \in 1 .. Len(image[e].data),
                          IsSent(e, k)
                   PROVE  /\ Unit(e, k) \in FlashUnits /\ flash'[Unit(e, k)] = image[e].data[k]
                          /\ Page(Unit(e, k)) <= Page(last_erased)
        BY <1>5, <1>11, <2>3 DEF SentHeld, Unit, Visited
      <4>1. /\ Unit(e, k) \in FlashUnits /\ flash[Unit(e, k)] = image[e].data[k]
            /\ Visited(Unit(e, k))
        BY <1>3 DEF SentHeld
      <4> QED
        BY <3>1, <3>2, <4>1
    <3>4. AheadErased'
      <4> SUFFICES ASSUME last_erased # 0, NEW u \in FlashUnits, u >= Frontier, Visited(u)'
                   PROVE  flash'[u] = Erased
        BY <1>5, <1>10 DEF AheadErased
      <4>1. CASE Page(u) = Page(last_erased)
        BY <3>1, <4>1
      <4>2. CASE Page(u) # Page(last_erased)
        <5>1. Visited(u)
          BY <3>2, <4>2
        <5> QED
          BY <1>3, <3>1, <4>2, <5>1 DEF AheadErased
      <4> QED
        BY <4>1, <4>2
    <3> QED
      BY <1>7, <1>9, <3>3, <3>4
  <2> QED
    BY <2>5, <2>6
<1> QED
  BY <1>2, <1>12, <1>13

\* The units of the flash that the chunk is for.
ChunkRegion == {u \in FlashUnits : address <= u /\ u <= LastOfChunk}

\* A block with the chunk's length at the chunk's address covers them.
LEMMA ChunkCovers ==
  ASSUME Session, Bookkeeping, task.op = "download", pc \in {"chunk", "poll"}
  PROVE  /\ wBlockNum = 2 /\ wlength = chunk_size * MaxPacketSize /\ Pointer = address
              => BlockAddress(wBlockNum) = address /\ WrittenUnits = ChunkRegion
         /\ wBlockNum' = 2 /\ wlength' = chunk_size * MaxPacketSize /\ Pointer' = address
              => WrittenUnits' = ChunkRegion
<1>1. /\ address \in Nat /\ LastOfChunk \in FlashUnits
      /\ address <= LastOfChunk /\ LastOfChunk = address + chunk_size - 1
      /\ chunk_size \in 1 .. NPackets /\ FlashUnits \subseteq Nat
  BY ChunkAddresses DEF Bookkeeping, ChunkSites
<1>2. address \in FlashUnits /\ (2 - 2) * NPackets + address = address
  BY <1>1, Sizes, FlashOrder
<1>3. ASSUME NEW u \in FlashUnits
      PROVE  (/\ u - address \in BufferUnits
              /\ (u - address) * MaxPacketSize < chunk_size * MaxPacketSize)
               <=> (address <= u /\ u <= LastOfChunk)
  <2> DEFINE k == u - address
  <2>1. k \in Int /\ MaxPacketSize \in Nat \ {0} /\ chunk_size \in Nat
    BY <1>1, Sizes
  <2> HIDE DEF k
  <2>2. k * MaxPacketSize < chunk_size * MaxPacketSize <=> k < chunk_size
    <3>1. k < chunk_size => (chunk_size - k) * MaxPacketSize > 0
      BY <2>1
    <3> QED
      BY <2>1, <3>1, FactorOrder
  <2>3. k \in BufferUnits /\ k < chunk_size <=> 0 <= k /\ k < chunk_size
    BY <1>1, <2>1, Sizes DEF BufferUnits
  <2>4. 0 <= k /\ k < chunk_size <=> address <= u /\ u <= LastOfChunk
    BY <1>1 DEF k
  <2> QED
    BY <2>2, <2>3, <2>4 DEF k
<1>4. ASSUME wBlockNum = 2, wlength = chunk_size * MaxPacketSize, Pointer = address
      PROVE  BlockAddress(wBlockNum) = address /\ WrittenUnits = ChunkRegion
  BY <1>2, <1>3, <1>4 DEF WrittenUnits, BlockAddress, ChunkRegion
<1>5. ASSUME wBlockNum' = 2, wlength' = chunk_size * MaxPacketSize, Pointer' = address
      PROVE  WrittenUnits' = ChunkRegion
  BY <1>2, <1>3, <1>5 DEF WrittenUnits, BlockAddress, ChunkRegion
<1> QED
  BY <1>4, <1>5

\* What the chunk's write, waiting in the device, writes there.
LEMMA ChunkFlash ==
  ASSUME Session, Pending, Bookkeeping, task.op = "download", pc = "poll", wlength # 0
  PROVE  /\ ErasedUnits = {}
         /\ WrittenUnits = ChunkRegion
         /\ \A u \in WrittenUnits : NewContent(u) = image[el].data[p + (u - address) + 1]
<1>1. wBlockNum = 2 /\ wlength = chunk_size * MaxPacketSize /\ HoldsChunk(wlength)
      /\ Pointer = address
  BY DEF Pending, ChunkPending, ChunkWaits
<1>2. BlockAddress(wBlockNum) = address /\ WrittenUnits = ChunkRegion
  BY <1>1, ChunkCovers
<1>3. ErasedUnits = {}
  BY <1>1 DEF ErasedUnits
<1>4. ASSUME NEW u \in WrittenUnits
      PROVE  NewContent(u) = image[el].data[p + (u - address) + 1]
  <2>1. u - address \in BufferUnits /\ (u - address) * MaxPacketSize < wlength
    BY <1>2 DEF WrittenUnits
  <2> QED
    BY <1>1, <1>2, <2>1 DEF HoldsChunk, NewContent
<1> QED
  BY <1>2, <1>3, <1>4

\* The chunk lies ahead of the frontier, in pages that are erased.
LEMMA ChunkAhead ==
  ASSUME LayoutRegular, Session, Bookkeeping, AheadErased, task.op = "download",
         pc \in {"chunk", "poll"}, ~ChunkDone
  PROVE  last_erased # 0 /\ \A u \in ChunkRegion : Visited(u) /\ flash[u] = Erased
<1>1. /\ address \in Nat /\ LastOfChunk \in FlashUnits /\ address <= LastOfChunk
      /\ ApplicationAddress <= address /\ FlashUnits \subseteq Nat
      /\ ApplicationAddress \in FlashUnits
  BY ChunkAddresses, FlashOrder DEF Bookkeeping, ChunkSites
<1>2. Page(last_erased) = Page(LastOfChunk) /\ Frontier = address /\ ~Erasing
  BY FrontierAt DEF Bookkeeping, ChunkSites, Erases, Erasing, SpecialSites
<1>3. Page(LastOfChunk) >= 1
  <2>1. LastOfChunk >= PageUnits /\ LastOfChunk \in Nat
    BY <1>1, ConstantsAssumption DEF LayoutRegular
  <2> QED
    BY <2>1, PageOrder
<1>4. last_erased # 0
  BY <1>2, <1>3, PageOrder
<1>5. ASSUME NEW u \in ChunkRegion PROVE Visited(u) /\ flash[u] = Erased
  <2>1. u \in FlashUnits /\ address <= u /\ u <= LastOfChunk
    BY DEF ChunkRegion
  <2>2. Page(u) <= Page(LastOfChunk)
    BY <1>1, <2>1, PageOrder
  <2>3. Visited(u)
    BY <1>2, <2>2 DEF Visited
  <2> QED
    BY <1>1, <1>2, <1>4, <2>1, <2>3 DEF AheadErased
<1> QED
  BY <1>4, <1>5

\* What keeps LandsOnErased: the same flash, and no new block to write.
LEMMA LandsKept ==
  ASSUME LandsOnErased, UNCHANGED <<flash, pgerr>>,
         \/ UNCHANGED <<wBlockNum, wlength, Pointer>>
         \/ wBlockNum' = 0
         \/ wlength' = 0
         \/ DeviceState' \notin {"dfuDNLOAD_SYNC", "dfuDNBUSY"},
         DeviceState' \in {"dfuDNLOAD_SYNC", "dfuDNBUSY"} /\ wlength' # 0 /\ wBlockNum' # 0
           => DeviceState \in {"dfuDNLOAD_SYNC", "dfuDNBUSY"}
  PROVE  LandsOnErased'
<1>1. CASE UNCHANGED <<wBlockNum, wlength, Pointer>> /\ wBlockNum' # 0
  <2>1. WrittenUnits' = WrittenUnits
    BY <1>1 DEF WrittenUnits, BlockAddress
  <2> QED
    BY <1>1, <2>1 DEF LandsOnErased
<1>2. CASE wBlockNum' = 0
  <2>1. WrittenUnits' = {}
    BY <1>2 DEF WrittenUnits
  <2> QED
    BY <2>1 DEF LandsOnErased
<1>3. CASE wlength' = 0 \/ DeviceState' \notin {"dfuDNLOAD_SYNC", "dfuDNBUSY"}
  BY <1>3 DEF LandsOnErased
<1> QED
  BY <1>1, <1>2, <1>3

LEMMA LandsCall ==
  ASSUME LayoutRegular, Session, Pending, Progressing, LandsOnErased, Call
  PROVE  LandsOnErased'
<1>1. /\ pc \in CallSites /\ ~calling /\ Setup0_Process(RequestOf(pc))
      /\ UNCHANGED <<image, task, file, buf, pc, el, p, erase_address, last_erased, cmd>>
  BY DEF Call
<1> DEFINE r == RequestOf(pc)
<1>2. CASE pc \in GetStatusSites
  <2>1. Setup0_Process(GetStatusRequest)
    BY <1>1, <1>2, RequestOfSite
  <2>2. /\ UNCHANGED <<wBlockNum, wlength, Pointer, flash>>
        /\ DeviceState' \in {"dfuDNLOAD_SYNC", "dfuDNBUSY"}
             => DeviceState \in {"dfuDNLOAD_SYNC", "dfuDNBUSY"}
    BY <2>1, GetStatusMoves
  <2>3. pgerr' = pgerr
    BY <2>1, GetStatusCall DEF memVars
  <2> QED
    BY <2>2, <2>3, LandsKept
<1>3. CASE pc \in {"clear", "clear_warn", "abort", "leave"}
  <2>1. r.req \in {"CLRSTATUS", "ABORT"} /\ r.len = 0
    BY <1>3, RequestOfSite
  <2> HIDE DEF r
  <2>2. /\ UNCHANGED memVars
        /\ r.req = "CLRSTATUS" => DeviceState' \in {"dfuIDLE", "dfuERROR"}
        /\ r.req = "ABORT" => \/ UNCHANGED <<DeviceState, wBlockNum, wlength>>
                              \/ DeviceState' = "dfuIDLE"
    BY <1>1, <2>1, NoDataCall DEF r
  <2> QED
    BY <2>1, <2>2, LandsKept DEF memVars
<1>4. CASE pc = "detach"
  <2>1. r.req = "DETACH"
    BY <1>4, RequestOfSite
  <2> HIDE DEF r
  <2>2. UNCHANGED <<dfuVars, memVars>>
    BY <1>1, <2>1, DetachCall DEF r
  <2> QED
    BY <2>2, LandsKept DEF dfuVars, memVars
<1>5. CASE pc = "command"
  <2>1. r = [req |-> "DNLOAD", blk |-> 0, len |-> 5]
    BY <1>5, RequestOfSite
  <2>2. r.req = "DNLOAD" /\ r.len \in Nat \ {0} /\ r.blk = 0
    BY <2>1
  <2> HIDE DEF r
  <2>3. UNCHANGED memVars /\ (wBlockNum' = 0 \/ UNCHANGED dfuVars)
    BY <1>1, <2>2, DnloadCall DEF r
  <2> QED
    BY <2>3, LandsKept DEF dfuVars, memVars
<1>6. CASE pc = "chunk"
  <2>0. task.op = "download" /\ Pointer = address /\ Bookkeeping /\ AheadErased /\ ~ChunkDone
    BY <1>6 DEF Session, Tool, InDownload, Pending, ChunkPending, Progressing, DownloadSites,
                ChunkSites, ChunkDone
  <2>1. chunk_size \in 1 .. NPackets
    BY <1>6, <2>0, ChunkAddresses DEF Bookkeeping, ChunkSites
  <2>2. r.req = "DNLOAD" /\ r.blk = 2 /\ r.len = chunk_size * MaxPacketSize
    BY <1>6, RequestOfSite DEF DnloadChunk
  <2>3. r.len \in Nat \ {0}
    BY <2>1, <2>2, Sizes
  <2> HIDE DEF r
  <2>4. /\ UNCHANGED memVars
        /\ \/ wBlockNum' = 2 /\ wlength' = chunk_size * MaxPacketSize
           \/ UNCHANGED dfuVars
    BY <1>1, <2>2, <2>3, DnloadCall DEF r
  <2>5. CASE UNCHANGED dfuVars
    BY <2>4, <2>5, LandsKept DEF dfuVars, memVars
  <2>6. CASE wBlockNum' = 2 /\ wlength' = chunk_size * MaxPacketSize
    <3>1. Pointer' = address /\ UNCHANGED <<flash, pgerr>>
      BY <2>0, <2>4 DEF memVars
    <3>2. WrittenUnits' = ChunkRegion
      BY <1>6, <2>0, <2>6, <3>1, ChunkCovers
    <3>3. \A u \in ChunkRegion : flash[u] = Erased
      BY <1>6, <2>0, ChunkAhead
    <3> QED
      BY <3>1, <3>2, <3>3 DEF LandsOnErased
  <2> QED
    BY <2>4, <2>5, <2>6
<1>7. CASE pc = "upload"
  <2>1. r.req = "UPLOAD" /\ r.len = wTransferSize /\ r.blk \in Nat /\ r.blk > 1
    BY <1>7, RequestOfSite, TransactionType DEF UploadBlock, Session
  <2> HIDE DEF r
  <2>2. UNCHANGED memVars /\ (DeviceState' = "dfuUPLOAD_IDLE" \/ UNCHANGED dfuVars)
    BY <1>1, <2>1, UploadCall DEF r
  <2> QED
    BY <2>2, LandsKept DEF dfuVars, memVars
<1> QED
  BY <1>1, <1>2, <1>3, <1>4, <1>5, <1>6, <1>7 DEF CallSites, GetStatusSites

\* Data packets name the block once more that their SETUP named.
LEMMA LandsData ==
  ASSUME Session, Pending, LandsOnErased, SendData
  PROVE  LandsOnErased'
<1>1. calling /\ OutData(HostPacket) /\ ControlState \in {"OUT_DATA", "LAST_OUT_DATA"}
  BY DEF SendData
<1>2. /\ wBlockNum' = setup.blk /\ wlength' = setup.len
      /\ UNCHANGED <<Pointer, flash, pgerr>>
  BY <1>1 DEF OutData
<1>3. pc \in {"command", "chunk"} /\ setup = RequestOf(pc) /\ ControlState # "STALLED"
  BY <1>1, NextPacket
<1>4. CASE pc = "command"
  <2>1. wBlockNum' = 0
    BY <1>2, <1>3, <1>4, RequestOfSite
  <2> QED
    BY <1>2, <2>1, LandsKept
<1>5. CASE pc = "chunk"
  <2>1. /\ wBlockNum = 2 /\ wlength = chunk_size * MaxPacketSize
        /\ DeviceState = "dfuDNLOAD_SYNC"
    BY <1>1, <1>3, <1>5 DEF Pending, ChunkPending, ChunkWaits
  <2>2. wBlockNum' = wBlockNum /\ wlength' = wlength
    BY <1>2, <1>3, <1>5, <2>1, RequestOfSite DEF DnloadChunk
  <2> QED
    BY <1>2, <2>1, <2>2, LandsKept
<1> QED
  BY <1>3, <1>4, <1>5

\* The operation itself: nothing is refused.
LEMMA NothingRefused ==
  ASSUME LandsOnErased, DeviceState = "dfuDNBUSY", wlength # 0
  PROVE  Refused = {} /\ ProgrammedUnits = WrittenUnits
<1>1. Refused = {}
  BY DEF Refused, Takes, LandsOnErased
<1> QED
  BY <1>1 DEF ProgrammedUnits, WrittenUnits

LEMMA LandsStep ==
  ASSUME LayoutRegular, Session, Pending, Progressing, LandsOnErased, [SessionNext]_sessionVars
  PROVE  LandsOnErased'
<1>1. CASE TakeData
  <2>1. setup = RequestOf(pc) /\ pc \in CallSites
    BY <1>1 DEF TakeData, Session, CallOpen
  <2>2. CASE UNCHANGED <<dfuVars, memVars>>
    BY <2>2, LandsKept DEF dfuVars, memVars
  <2>3. CASE InData /\ setup.req = "UPLOAD"
    <3>1. pc = "upload"
      BY <2>1, <2>3, RequestOfSite DEF CallSites, GetStatusSites, GetStatusRequest, DnloadChunk
    <3>2. setup.blk \in Nat /\ setup.blk > 1
      BY <2>1, <3>1, RequestOfSite, TransactionType DEF UploadBlock, Session
    <3>3. DeviceState' = "dfuUPLOAD_IDLE" /\ UNCHANGED <<flash, pgerr>>
      BY <2>3, <3>2 DEF InData, UploadRoutine, Enter, UploadState
    <3> QED
      BY <3>3, LandsKept
  <2>4. CASE InData /\ setup.req # "UPLOAD"
    BY <2>2, <2>4 DEF InData, dfuVars, memVars
  <2>5. CASE InLastData
    BY <2>2, <2>5 DEF InLastData
  <2> QED
    BY <1>1, <2>3, <2>4, <2>5 DEF TakeData
<1>2. CASE TakeStatus \/ SendStatus \/ StatusOvertakes
  <2>1. UNCHANGED operation \/ Performed
    BY <1>2, ReturnFacts
  <2>2. CASE UNCHANGED operation
    BY <2>2, LandsKept DEF operation
  <2>3. CASE Performed
    <3>1. wlength' = 0 /\ pgerr' = (pgerr \/ Refused # {}) /\ Refused = {}
      BY <2>3, NothingRefused DEF Performed
    <3> QED
      BY <3>1 DEF LandsOnErased
  <2> QED
    BY <2>1, <2>2, <2>3
<1>3. CASE \/ CallStalled \/ TransferFails \/ BusGlitch
           \/ Begin \/ NextElement \/ NextChunk \/ EraseLoop \/ EraseTail \/ SetAddress
           \/ FinalReset \/ Rerun
  <2>1. UNCHANGED operation
    BY <1>3, OperationKept
  <2> QED
    BY <2>1, LandsKept DEF operation
<1>4. CASE PowerFails
  <2>1. \E f : Reboot(f)
    BY <1>4 DEF PowerFails, PowerCycle, PowerLossInOperation
  <2> QED
    BY <2>1 DEF Reboot, LandsOnErased
<1>5. CASE UNCHANGED sessionVars
  BY <1>5, LandsKept DEF sessionVars, vars, dfuVars, memVars
<1> QED
  BY <1>1, <1>2, <1>3, <1>4, <1>5, LandsCall, LandsData DEF SessionNext, Progress

LEMMA LandsStart == SessionInit => LandsOnErased
  BY DEF SessionInit, Init, LandsOnErased

\* The packets that are sent lie before the frontier.
LEMMA SentBehind ==
  ASSUME Session, ElementsAscend(image), Bookkeeping, task.op = "download",
         pc \in ChunkSites, ~ChunkDone,
         NEW e \in 1 .. Len(image), NEW k \in 1 .. Len(image[e].data), IsSent(e, k)
  PROVE  Unit(e, k) < address /\ Unit(e, k) \in Nat
<1>1. /\ el \in 1 .. Len(image) /\ image \in Images /\ image[el].addr \in Nat /\ p \in Nat
      /\ address = image[el].addr + p /\ Writeable(LastOfElement)
      /\ Size \in Nat /\ LastOfElement = image[el].addr + Size - 1
  BY ChunkAddresses
     DEF Session, Tool, HostTypeOK, Bookkeeping, ChunkSites, SpecialSites
<1>2. EndOf(image[e]) \in Nat /\ Unit(e, k) \in Nat /\ Unit(e, k) < EndOf(image[e])
  BY <1>1, EndType DEF Unit
<1>3. CASE e < el
  <2>1. EndOf(image[el]) - 1 = LastOfElement
    <3>1. EndOf(image[el]) = image[el].addr + Size
      BY DEF EndOf, Size
    <3> QED
      BY <1>1, <3>1
  <2>2. e \in 1 .. el - 1
    BY <1>1, <1>3
  <2>3. EndOf(image[e]) <= image[el].addr
    BY <1>1, <2>1, <2>2 DEF ElementsAscend
  <2> QED
    BY <1>1, <1>2, <2>3
<1>4. CASE e = el /\ k <= p
  BY <1>1, <1>2, <1>4 DEF Unit
<1> QED
  BY <1>3, <1>4 DEF IsSent

LEMMA ChunkReturns ==
  ASSUME LayoutRegular, ElementsAscend(image),
         Session, Pending, Progressing, LandsOnErased, pc \in {"chunk", "poll"},
         \/ TakeStatus \/ SendStatus \/ StatusOvertakes,
         pc' # "failed"
  PROVE  pc' \in {"poll", "next_chunk"} /\ Bookkeeping' /\ SentHeld' /\ AheadErased'
<1>1. PICK s : /\ ReturnedTo(AfterReturn(pc, s))
               /\ pc \in GetStatusSites => s.bState = DeviceState
  BY ReturnFacts
<1>2. /\ UNCHANGED operation \/ (pc \in GetStatusSites /\ Performed)
      /\ calling /\ (pc = "chunk" => ControlState = "WAIT_STATUS_IN")
  BY ReturnFacts
<1>3. Bookkeeping /\ SentHeld /\ AheadErased /\ task.op = "download"
  BY DEF Progressing, DownloadSites, ChunkSites, Session, Tool, InDownload
<1>4. pc' = AfterReturn(pc, s) /\ UNCHANGED <<image, task, el, erase_address, last_erased, cmd>>
      /\ p' = IF pc' = "next_chunk" /\ pc = "poll" THEN p + NPackets ELSE p
  BY <1>1 DEF ReturnedTo
<1>5. \/ pc = "chunk" /\ pc' = "poll"
      \/ pc = "poll" /\ pc' = "poll" /\ s.bState \notin {"dfuDNLOAD_IDLE", "dfuERROR"}
      \/ pc = "poll" /\ pc' = "next_chunk" /\ s.bState \in {"dfuDNLOAD_IDLE", "dfuERROR"}
  BY <1>4 DEF AfterReturn
<1>6. /\ el \in 1 .. Len(image) /\ image[el].addr \in Nat /\ Size \in Nat /\ p \in Nat
      /\ address = image[el].addr + p /\ address \in Nat /\ p < Size
      /\ chunk_size \in 1 .. NPackets /\ p + chunk_size <= Size
      /\ LastOfChunk = address + chunk_size - 1 /\ LastOfChunk \in FlashUnits
      /\ address <= LastOfChunk /\ LastOfElement = image[el].addr + Size - 1
      /\ FlashUnits \subseteq Nat
  BY <1>3, ChunkAddresses DEF Bookkeeping, ChunkSites
<1>7. ~Erasing /\ ~Erasing' /\ ~Erases /\ ~Erases' /\ Size' = Size /\ LastOfElement' = LastOfElement
  BY <1>4, <1>5 DEF Erasing, Erases, SpecialSites, Size, LastOfElement
<1>8. ASSUME pc' = "poll"
      PROVE  /\ Bookkeeping' /\ p' = p
             /\ address' = address /\ chunk_size' = chunk_size /\ LastOfChunk' = LastOfChunk
  <2>1. p' = p
    BY <1>4, <1>8
  <2>2. address' = address /\ chunk_size' = chunk_size /\ LastOfChunk' = LastOfChunk
    BY <1>4, <2>1, SameChunk DEF LastOfChunk
  <2> QED
    BY <1>3, <1>4, <1>5, <1>7, <1>8, <2>1, <2>2
       DEF Bookkeeping, Writeable, find_segment, Page, ChunkSites, SpecialSites
<1>9. CASE UNCHANGED operation /\ pc' = "poll"
  <2>1. /\ ChunkDone' <=> ChunkDone
        /\ pc = "chunk" => ~ChunkDone
    <3>1. pc = "chunk" => wlength # 0
      <4>1. pc = "chunk" => wlength = chunk_size * MaxPacketSize
        BY <1>2 DEF Pending, ChunkPending, ChunkWaits
      <4> QED
        BY <1>6, <4>1, Sizes
    <3> QED
      BY <1>5, <1>9, <3>1 DEF ChunkDone, operation
  <2>2. Frontier' = Frontier /\ Frontier \in Nat
    <3>1. pc \in {"chunk", "poll"} /\ pc' = "poll"
      BY <1>9
    <3>2. Frontier = IF ChunkDone THEN LastOfChunk + 1 ELSE address
      BY <3>1 DEF Frontier
    <3>3. Frontier' = IF ChunkDone' THEN LastOfChunk' + 1 ELSE address'
      BY <3>1 DEF Frontier
    <3> QED
      BY <1>6, <1>8, <1>9, <2>1, <3>2, <3>3
  <2>3. \A e, k : IsSent(e, k)' => IsSent(e, k)
    BY <1>4, <1>8, <1>9, <2>1 DEF IsSent
  <2> QED
    BY <1>3, <1>4, <1>7, <1>8, <1>9, <2>2, <2>3, Carried DEF operation
<1>10. CASE UNCHANGED operation /\ pc' = "next_chunk"
  <2>1. pc = "poll" /\ wlength = 0 /\ p' = p + NPackets
    BY <1>1, <1>4, <1>5, <1>10 DEF Pending, ChunkPending, GetStatusSites
  <2>2. Frontier = LastOfChunk + 1
    BY <2>1, FrontierAt DEF ChunkDone
  <2>3. Frontier' = IF p' < Size THEN address' ELSE LastOfElement + 1
    <3>1. pc' = "next_chunk"
      BY <1>10
    <3>2. Frontier' = IF p' < Size' THEN address' ELSE LastOfElement' + 1
      BY <3>1 DEF Frontier, ChunkDone
    <3> QED
      BY <1>7, <3>2
  <2>4. address' = image[el].addr + p'
    BY <1>4 DEF address
  <2>5. chunk_size = IF p + NPackets > Size THEN Size - p ELSE NPackets
    BY DEF chunk_size
  <2>6. Frontier' = Frontier /\ Frontier \in Nat
    <3> DEFINE a == image[el].addr
               n == Size
               c == chunk_size
    <3>1. a \in Nat /\ n \in Nat /\ c \in Nat /\ p \in Nat /\ NPackets \in Nat
          /\ c = IF p + NPackets > n THEN n - p ELSE NPackets
      BY <1>6, <2>5, Sizes
    <3>2. /\ Frontier = a + p + c - 1 + 1
          /\ Frontier' = IF p + NPackets < n THEN a + (p + NPackets) ELSE a + n - 1 + 1
      BY <1>6, <2>1, <2>2, <2>3, <2>4
    <3> HIDE DEF a, n, c
    <3>3. a + p + c - 1 + 1 \in Nat
      BY <3>1
    <3> QED
      BY <3>1, <3>2, <3>3
  <2>7. ASSUME NEW e \in 1 .. Len(image), NEW k \in 1 .. Len(image[e].data), IsSent(e, k)'
        PROVE  IsSent(e, k)
    <3>1. e < el \/ (e = el /\ k <= p + NPackets)
      BY <1>4, <1>10, <2>1, <2>7 DEF IsSent, ChunkDone
    <3>2. e = el => k <= Size
      BY DEF Size
    <3>3. k <= p + NPackets /\ k <= Size => k <= p + chunk_size
      BY <1>6, <2>5, Sizes
    <3> QED
      BY <2>1, <3>1, <3>2, <3>3 DEF IsSent, ChunkDone
  <2>8. last_erased <= LastOfChunk /\ last_erased \in Nat
    BY <1>3, <1>6, <2>1 DEF Bookkeeping, ChunkSites, Session, Tool, HostTypeOK
  <2>9. Bookkeeping'
    <3>1. last_erased' <= Frontier'
      BY <1>4, <1>6, <2>2, <2>6, <2>8
    <3>2. Writeable(LastOfElement)'
      BY <1>3, <1>7, <2>1 DEF Bookkeeping, Writeable, find_segment
    <3>3. pc' \notin ChunkSites /\ pc' # "element"
      BY <1>10 DEF ChunkSites, SpecialSites
    <3>4. pc' \notin SpecialSites
      BY <1>10 DEF SpecialSites
    <3> QED
      BY <1>7, <3>1, <3>2, <3>3, <3>4 DEF Bookkeeping
  <2>10. SentHeld' /\ AheadErased'
    BY <1>3, <1>4, <1>7, <1>10, <2>6, <2>7, Carried DEF operation
  <2> QED
    BY <1>10, <2>9, <2>10
<1>11. CASE pc \in GetStatusSites /\ Performed
  <2>1. /\ wlength' = 0 /\ wlength # 0 /\ DeviceState = "dfuDNBUSY"
        /\ flash' = FlashAfter(FlashUnits)
    BY <1>11 DEF Performed
  <2>2. pc = "poll" /\ pc' = "poll" /\ p' = p
    BY <1>1, <1>4, <1>5, <1>11, <2>1 DEF GetStatusSites
  <2>3. ~ChunkDone /\ ChunkDone' /\ Frontier = address
    BY <2>1, <2>2, FrontierAt DEF ChunkDone, ChunkSites
  <2>4. Frontier' = LastOfChunk + 1
    BY <1>8, <2>2, <2>3 DEF Frontier
  <2>5. /\ ErasedUnits = {}
        /\ WrittenUnits = {u \in FlashUnits : address <= u /\ u <= LastOfChunk}
        /\ \A u \in WrittenUnits : NewContent(u) = image[el].data[p + (u - address) + 1]
    BY <1>3, <2>1, <2>2, ChunkFlash DEF ChunkRegion
  <2>6. last_erased # 0 /\ \A u \in WrittenUnits : Visited(u) /\ flash[u] = Erased
    BY <1>3, <2>2, <2>3, <2>5, ChunkAhead DEF ChunkRegion
  <2>7. flash' = [u \in FlashUnits |-> IF u \in WrittenUnits
                                         THEN image[el].data[p + (u - address) + 1]
                                         ELSE flash[u]]
    BY <2>1, <2>5, NothingRefused DEF FlashAfter, NewContent, LandsOnErased
  <2>8. \A u : Visited(u)' <=> Visited(u)
    BY <1>4, <1>7 DEF Visited
  <2>9. SentHeld'
    <3> SUFFICES ASSUME NEW e \in 1 .. Len(image), NEW k \in 1 .. Len(image[e].data),
                        IsSent(e, k)'
                 PROVE  /\ Unit(e, k) \in FlashUnits /\ flash'[Unit(e, k)] = image[e].data[k]
                        /\ Visited(Unit(e, k))
      BY <1>4, <2>8 DEF SentHeld, Unit
    <3>1. IsSent(e, k) \/ (e = el /\ p < k /\ k <= p + chunk_size)
      BY <1>4, <1>6, <1>8, <2>2 DEF IsSent, ChunkDone
    <3>2. CASE IsSent(e, k)
      <4>1. Unit(e, k) < address /\ Unit(e, k) \in Nat
        BY <1>3, <2>2, <2>3, <3>2, SentBehind DEF ChunkSites
      <4>2. Unit(e, k) \notin WrittenUnits
        BY <1>6, <2>5, <4>1
      <4>3. /\ Unit(e, k) \in FlashUnits /\ flash[Unit(e, k)] = image[e].data[k]
            /\ Visited(Unit(e, k))
        BY <1>3, <3>2 DEF SentHeld
      <4> QED
        BY <2>7, <4>2, <4>3
    <3>3. CASE e = el /\ p < k /\ k <= p + chunk_size
      <4>1. Unit(e, k) = image[el].addr + k - 1 /\ k \in Nat
        BY <3>3 DEF Unit
      <4>2. address <= Unit(e, k) /\ Unit(e, k) <= LastOfChunk /\ Unit(e, k) \in Nat
            /\ p + (Unit(e, k) - address) + 1 = k
        <5> DEFINE a == image[el].addr
                   c == chunk_size
        <5>1. /\ a \in Nat /\ c \in Nat /\ p \in Nat /\ k \in Nat /\ p < k /\ k <= p + c
              /\ Unit(e, k) = a + k - 1 /\ address = a + p /\ LastOfChunk = a + p + c - 1
          BY <1>6, <3>3, <4>1
        <5> HIDE DEF a, c
        <5> QED
          BY <5>1
      <4>3. Unit(e, k) \in FlashUnits
        BY <1>6, <4>2, FlashOrder
      <4>4. Unit(e, k) \in WrittenUnits
        BY <2>5, <4>2, <4>3
      <4> QED
        BY <2>6, <2>7, <3>3, <4>2, <4>3, <4>4
    <3> QED
      BY <3>1, <3>2, <3>3
  <2>10. AheadErased'
    <3> SUFFICES ASSUME NEW u \in FlashUnits, u >= LastOfChunk + 1, Visited(u)
                 PROVE  flash'[u] = Erased
      BY <2>4, <2>8 DEF AheadErased
    <3>1. u \notin WrittenUnits /\ u >= address
      <4>1. /\ u \in Nat /\ LastOfChunk \in Nat /\ address \in Nat /\ address <= LastOfChunk
            /\ u >= LastOfChunk + 1
        BY <1>6
      <4>2. u \in WrittenUnits => u <= LastOfChunk
        BY <2>5
      <4> QED
        BY <4>1, <4>2
    <3>2. flash[u] = Erased
      BY <1>3, <2>3, <2>6, <3>1 DEF AheadErased
    <3> QED
      BY <2>7, <3>1, <3>2
  <2> QED
    BY <1>8, <2>2, <2>9, <2>10
<1> QED
  BY <1>2, <1>5, <1>9, <1>10, <1>11

LEMMA ProgressingReturn ==
  ASSUME LayoutRegular, ElementsAscend(image), Session, Pending, Progressing, LandsOnErased,
         \/ TakeStatus \/ SendStatus \/ StatusOvertakes
  PROVE  Progressing'
<1>1. PICK s : ReturnedTo(AfterReturn(pc, s))
  BY ReturnFacts
<1>2. pc \in CallSites /\ (UNCHANGED operation \/ (pc \in GetStatusSites /\ Performed))
  BY ReturnFacts
<1>3. pc' = AfterReturn(pc, s) /\ UNCHANGED <<image, task, el, erase_address, last_erased, cmd>>
  BY <1>1 DEF ReturnedTo
<1>4. CASE pc \in {"status", "clear", "abort", "clear_warn", "status_warn"}
  <2>1. pc' \in StartSites \cup {"failed"}
    BY <1>3, <1>4 DEF AfterReturn, StartSites
  <2>2. el = 1 /\ last_erased = 0
    BY <1>4 DEF Progressing, StartSites
  <2> QED
    BY <1>3, <2>1, <2>2
       DEF Progressing, StartSites, DownloadSites, ChunkSites, SpecialSites, Downloaded
<1>5. CASE pc = "detach"
  <2>1. pc' = "reset" /\ flash' = flash
    BY <1>2, <1>3, <1>5 DEF AfterReturn, GetStatusSites, operation
  <2>2. Downloaded' => Programmed'
    BY <1>3, <1>5, <2>1 DEF Progressing, Downloaded, Programmed
  <2> QED
    BY <2>1, <2>2 DEF Progressing, StartSites, DownloadSites, ChunkSites, SpecialSites
<1>6. CASE pc \in SpecialSites \cup {"upload"} /\ task.op # "download"
  <2>1. pc' \notin StartSites
    BY <1>3, <1>6 DEF AfterReturn, SpecialSites, StartSites
  <2> QED
    BY <1>3, <1>6, <2>1 DEF Progressing, Downloaded
<1>7. CASE pc \in SpecialSites \cup {"chunk", "poll"} /\ task.op = "download"
  <2>1. CASE pc' = "failed"
    BY <2>1 DEF Progressing, StartSites, DownloadSites, ChunkSites, SpecialSites, Downloaded
  <2>2. CASE pc' # "failed"
    <3>1. pc' \in DownloadSites /\ Bookkeeping' /\ SentHeld' /\ AheadErased'
      <4>1. CASE pc \in SpecialSites
        BY <1>7, <2>2, <4>1, CommandReturns DEF DownloadSites
      <4>2. CASE pc \in {"chunk", "poll"}
        BY <2>2, <4>2, ChunkReturns DEF DownloadSites, ChunkSites
      <4> QED
        BY <1>7, <4>1, <4>2
    <3>2. pc' \notin StartSites /\ ~Downloaded'
      BY <3>1 DEF StartSites, DownloadSites, ChunkSites, SpecialSites, Downloaded
    <3> QED
      BY <3>1, <3>2 DEF Progressing
  <2> QED
    BY <2>1, <2>2
<1>8. pc = "upload" => task.op # "download"
  BY DEF Session, Tool, InUpload
<1>9. pc \in {"chunk", "poll"} => task.op = "download"
  BY DEF Session, Tool, InDownload
<1> QED
  BY <1>2, <1>4, <1>5, <1>6, <1>7, <1>8, <1>9 DEF CallSites, SpecialSites

-----------------------------------------------------------------------------
(* Progressing is inductive: the tool's own steps.                          *)

\* From one element or chunk to the next.
LEMMA ProgressingNext ==
  ASSUME LayoutRegular, ElementsAscend(image), Session, Progressing,
         Begin \/ NextElement \/ NextChunk, pc' \in DownloadSites, task.op = "download"
  PROVE  Bookkeeping' /\ SentHeld' /\ AheadErased'
<1>1. /\ UNCHANGED <<image, flash, last_erased, cmd>>
      /\ last_erased \in Nat /\ image \in Images /\ el \in Nat \ {0} /\ p \in Nat
      /\ Len(image) \in Nat
  <2>1. UNCHANGED <<image, last_erased, cmd>>
    BY DEF Begin, NextElement, NextChunk
  <2>2. flash' = flash
    BY OperationKept DEF operation
  <2>3. last_erased \in FlashUnits /\ image \in Images /\ el \in Nat \ {0} /\ p \in Nat
    BY DEF Session, Tool, HostTypeOK
  <2> QED
    BY <2>1, <2>2, <2>3, FlashOrder, SessionAssumption
<1>2. pc \notin SpecialSites /\ pc # "poll" /\ ~Erasing
  BY DEF Begin, NextElement, NextChunk, SpecialSites, Erasing
<1>3. CASE Begin
  <2>1. pc' = "element" /\ el' = 1 /\ last_erased' = 0
    BY <1>3 DEF Begin, Progressing, StartSites
  <2>2. Frontier' = 0
    BY <2>1 DEF Frontier, ChunkDone
  <2>3. Bookkeeping'
    BY <1>1, <2>1, <2>2 DEF Bookkeeping, Erases, ChunkSites, SpecialSites
  <2>4. \A e \in 1 .. Len(image) : \A k : ~IsSent(e, k)'
    BY <2>1 DEF IsSent
  <2>5. SentHeld' /\ AheadErased'
    BY <1>1, <2>1, <2>4 DEF SentHeld, AheadErased
  <2> QED
    BY <2>3, <2>5
<1>4. CASE NextElement
  <2>1. /\ pc = "element" /\ pc' = "next_chunk" /\ p' = 0 /\ el' = el /\ el \in 1 .. Len(image)
        /\ Writeable(LastOfElement)
    BY <1>1, <1>4 DEF NextElement, DownloadSites, ChunkSites, SpecialSites, LastOfElement
  <2>2. Bookkeeping /\ SentHeld /\ AheadErased /\ Frontier \in Nat
    BY <2>1, FrontierType DEF Progressing, DownloadSites
  <2>3. image[el].addr \in Nat /\ Size \in Nat /\ Size > 0
    BY <1>1, <2>1, ImageType DEF Size
  <2>4. Size' = Size /\ LastOfElement' = LastOfElement /\ address' = image[el].addr
    <3>1. address' = image[el].addr + 0
      BY <1>1, <2>1 DEF address
    <3> QED
      BY <1>1, <2>1, <2>3, <3>1 DEF Size, LastOfElement
  <2>5. Frontier' = image[el].addr
    <3>1. Frontier' = IF p' < Size' THEN address' ELSE LastOfElement' + 1
      BY <2>1 DEF Frontier, ChunkDone
    <3> QED
      BY <2>1, <2>3, <2>4, <3>1
  <2>6. Frontier <= image[el].addr
    <3>1. CASE el = 1
      BY <2>1, <2>3, <3>1, FrontierAt
    <3>2. CASE el # 1
      <4>1. el - 1 \in 1 .. el - 1 /\ Frontier = EndOf(image[el - 1])
        BY <2>1, <3>2, FrontierAt
      <4>2. EndOf(image[el]) - 1 = LastOfElement
        <5>1. EndOf(image[el]) = image[el].addr + Size
          BY DEF EndOf, Size
        <5> QED
          BY <2>3, <5>1 DEF LastOfElement
      <4> QED
        BY <2>1, <4>1, <4>2 DEF ElementsAscend
    <3> QED
      BY <3>1, <3>2
  <2>7. Bookkeeping'
    <3>1. last_erased' <= Frontier'
      BY <1>1, <2>1, <2>2, <2>3, <2>5, <2>6 DEF Bookkeeping
    <3>2. Writeable(LastOfElement)'
      BY <2>1, <2>4 DEF Writeable, find_segment
    <3> QED
      BY <2>1, <3>1, <3>2 DEF Bookkeeping, Erases, ChunkSites, SpecialSites
  <2>8. ASSUME NEW e \in 1 .. Len(image), NEW k \in 1 .. Len(image[e].data), IsSent(e, k)'
        PROVE  IsSent(e, k)
    <3>1. e < el \/ k <= 0
      BY <2>1, <2>8 DEF IsSent, ChunkDone
    <3> QED
      BY <3>1 DEF IsSent
  <2>9. Erasing' <=> Erasing
    BY <1>2, <2>1 DEF Erasing, SpecialSites
  <2> QED
    BY <1>1, <2>2, <2>3, <2>5, <2>6, <2>7, <2>8, <2>9, Carried
<1>5. CASE NextChunk
  <2>1. pc = "next_chunk" /\ p' = p /\ el \in 1 .. Len(image)
    BY <1>1, <1>5 DEF NextChunk, Session, Tool, InDownload
  <2>2. Bookkeeping /\ SentHeld /\ AheadErased /\ Frontier \in Nat
    BY <2>1, FrontierType DEF Progressing, DownloadSites
  <2>3. image[el].addr \in Nat /\ Size \in Nat
    BY <1>1, <2>1, ImageType DEF Size
  <2>4. Writeable(LastOfElement) /\ last_erased <= Frontier
    BY <2>1, <2>2 DEF Bookkeeping
  <2>5. Frontier = IF p < Size THEN address ELSE LastOfElement + 1
    BY <2>1, FrontierAt
  <2>6. CASE ~MoreToSend
    <3>1. pc' = "element" /\ el' = el + 1 /\ p >= Size
      BY <1>1, <1>5, <2>3, <2>6 DEF NextChunk, MoreToSend
    <3>2. Frontier' = EndOf(image[el])
      <4>1. Frontier' = IF el' = 1 THEN 0 ELSE EndOf(image[el' - 1])
        BY <1>1, <3>1 DEF Frontier, ChunkDone
      <4> QED
        BY <1>1, <3>1, <4>1
    <3>3. EndOf(image[el]) = Frontier
      <4>1. EndOf(image[el]) = image[el].addr + Size
        BY DEF EndOf, Size
      <4> QED
        BY <1>1, <2>3, <2>5, <3>1, <4>1 DEF LastOfElement
    <3>4. Bookkeeping'
      BY <1>1, <2>1, <2>4, <3>1, <3>2, <3>3 DEF Bookkeeping, Erases, ChunkSites, SpecialSites
    <3>5. ASSUME NEW e \in 1 .. Len(image), NEW k \in 1 .. Len(image[e].data), IsSent(e, k)'
          PROVE  IsSent(e, k)
      <4>1. e < el \/ e = el
        BY <1>1, <3>1, <3>5 DEF IsSent
      <4>2. e = el => k <= p
        BY <1>1, <2>3, <3>1 DEF Size
      <4> QED
        BY <2>1, <4>1, <4>2 DEF IsSent
    <3>6. Erasing' <=> Erasing
      BY <1>2, <3>1 DEF Erasing, SpecialSites
    <3> QED
      BY <1>1, <2>2, <3>2, <3>3, <3>4, <3>5, <3>6, Carried
  <2>7. CASE MoreToSend
    <3>1. el' = el /\ p < Size /\ erase_address' = address /\ Writeable(address)
          /\ pc' \in {"erase", "set_address"} /\ (pc' = "set_address" => ~Erasable(address))
      BY <1>5, <2>7 DEF NextChunk, MoreToSend, DownloadSites, ChunkSites, SpecialSites
    <3>2. /\ address' = address /\ Size' = Size /\ chunk_size' = chunk_size
          /\ LastOfChunk' = LastOfChunk /\ LastOfElement' = LastOfElement
      BY <1>1, <2>1, <3>1, SameChunk DEF LastOfChunk, LastOfElement
    <3>3. address \in Nat /\ LastOfChunk \in Nat /\ address <= LastOfChunk
      <4>1. InElement /\ HostTypeOK
        BY <2>1, <3>1 DEF InElement, Session, Tool, InDownload
      <4>2. address \in Nat /\ chunk_size \in 1 .. NPackets
        BY <4>1, ChunkType
      <4> QED
        BY <4>2, Sizes DEF LastOfChunk
    <3>4. pc' = "erase"
      BY <3>1, <3>3, WriteableIsErasable
    <3>5. Frontier = address /\ Frontier' = address
      <4>1. Frontier' = address'
        BY <3>4 DEF Frontier, ChunkDone
      <4> QED
        BY <2>5, <3>1, <3>2, <4>1
    <3>6. Bookkeeping'
      <4>1. last_erased' <= LastOfChunk' /\ last_erased' <= erase_address' /\ erase_address' = address'
        BY <1>1, <2>4, <3>1, <3>2, <3>3, <3>5
      <4>2. Writeable(LastOfElement)'
        BY <2>4, <3>2 DEF Writeable, find_segment
      <4>3. Erases'
        BY <3>4 DEF Erases
      <4> QED
        BY <3>4, <4>1, <4>2, <4>3 DEF Bookkeeping, ChunkSites, SpecialSites
    <3>7. \A e, k : IsSent(e, k)' => IsSent(e, k)
      BY <2>1, <3>1, <3>4 DEF IsSent, ChunkDone
    <3>8. Erasing' <=> Erasing
      BY <1>2, <3>4 DEF Erasing, SpecialSites
    <3> QED
      BY <1>1, <2>2, <3>5, <3>6, <3>7, <3>8, Carried
  <2> QED
    BY <2>6, <2>7
<1> QED
  BY <1>3, <1>4, <1>5

\* A page is erased only when the loop comes to it, and the pages before it are.
LEMMA ProgressingErase ==
  ASSUME LayoutRegular, Session, Bookkeeping, SentHeld, AheadErased, pc = "erase",
         NEW a \in Nat, address <= a, a <= LastOfChunk, last_erased <= a, NeedsErase(a),
         a <= erase_address', Page(erase_address') <= Page(a) + 1,
         erase_address = address => a = address,
         Page(a) <= Page(erase_address),
         Erase(a), UNCHANGED <<image, task, el, p, flash>>, pc' # "failed"
  PROVE  pc' = "command" /\ Bookkeeping' /\ SentHeld' /\ AheadErased'
<1>1. /\ address \in Nat /\ LastOfChunk \in Nat /\ ApplicationAddress <= address
      /\ FlashUnits \subseteq Nat /\ ApplicationAddress \in Nat
      /\ Writeable(LastOfElement) /\ last_erased \in Nat /\ erase_address \in Nat
      /\ find_segment(address) # {} /\ address \in FlashUnits
  <2>1. task.op = "download" /\ InElement
    BY DEF Session, Tool, InDownload
  <2>2. find_segment(address) # {}
    BY <2>1 DEF InElement, Writeable
  <2>3. Writeable(LastOfElement)
    BY DEF Bookkeeping
  <2>4. last_erased \in FlashUnits /\ erase_address \in Nat
    BY DEF Session, Tool, HostTypeOK
  <2> QED
    BY <2>1, <2>2, <2>3, <2>4, ChunkAddresses, FlashOrder DEF ChunkSites
<1>2. Page(a) # Page(last_erased)
  <2>1. (CHOOSE s \in find_segment(address) : TRUE) \in Segments
    BY <1>1 DEF find_segment
  <2>2. page_size = PageUnits
    BY <2>1 DEF page_size, LayoutRegular
  <2> QED
    BY <2>2 DEF NeedsErase, Page
<1>3. /\ Page(last_erased) < Page(a) /\ Page(a) \in Nat /\ Page(last_erased) \in Nat
      /\ Page(erase_address) \in Nat
  <2>1. Page(last_erased) <= Page(a)
    BY <1>1, PageOrder
  <2>2. Page(a) \in Nat /\ Page(last_erased) \in Nat /\ Page(erase_address) \in Nat
    BY <1>1, PageOrder
  <2> QED
    BY <1>2, <2>1, <2>2
<1>4. /\ pc' = "command" /\ cmd' = [op |-> "ERASE", addr |-> a] /\ last_erased' = a
  BY DEF Erase
<1>5. /\ address' = address /\ LastOfChunk' = LastOfChunk /\ LastOfElement' = LastOfElement
      /\ Size' = Size
  BY SameChunk DEF LastOfChunk, LastOfElement
<1>6. a # 0
  BY <1>1, ConstantsAssumption DEF LayoutRegular
<1>7. Erasing' /\ Erases' /\ ~Erasing /\ cmd'.op = "ERASE" /\ cmd'.addr = a
  BY <1>4 DEF Erasing, Erases, SpecialSites
<1>8. Bookkeeping'
  <2>1. Writeable(LastOfElement)'
    BY <1>1, <1>5 DEF Writeable, find_segment
  <2>2. a <= erase_address'
    OBVIOUS
  <2>3. pc' # "element" /\ pc' # "next_chunk"
    BY <1>4
  <2>4. last_erased' # 0 /\ Page(erase_address') <= Page(last_erased') + 1
    BY <1>4, <1>6
  <2> QED
    BY <1>4, <1>5, <1>7, <2>1, <2>2, <2>3, <2>4 DEF Bookkeeping
<1>9. /\ \A u : Visited(u) <=> Page(u) <= Page(last_erased)
      /\ \A u : Visited(u)' <=> Page(u) <= Page(a) /\ Page(u) # Page(a)
  BY <1>4, <1>7 DEF Visited
<1>10. Frontier = address /\ Frontier' = address
  BY <1>4, <1>5 DEF Frontier, ChunkDone
<1>11. \A e, k : IsSent(e, k)' => IsSent(e, k)
  BY <1>4 DEF IsSent, ChunkDone
<1>12. SentHeld'
  <2> SUFFICES ASSUME NEW e \in 1 .. Len(image), NEW k \in 1 .. Len(image[e].data), IsSent(e, k)
               PROVE  /\ Unit(e, k) \in FlashUnits /\ flash[Unit(e, k)] = image[e].data[k]
                      /\ Page(Unit(e, k)) <= Page(a) /\ Page(Unit(e, k)) # Page(a)
    BY <1>4, <1>11 DEF SentHeld, Unit, Visited
  <2>1. /\ Unit(e, k) \in FlashUnits /\ flash[Unit(e, k)] = image[e].data[k]
        /\ Page(Unit(e, k)) <= Page(last_erased)
    BY <1>9 DEF SentHeld
  <2>2. Page(Unit(e, k)) \in Nat
    BY <1>1, <2>1, PageOrder
  <2> QED
    BY <1>3, <2>1, <2>2
<1>13. AheadErased'
  <2> SUFFICES ASSUME NEW u \in FlashUnits, u >= address, Page(u) <= Page(a), Page(u) # Page(a)
               PROVE  flash[u] = Erased
    BY <1>9, <1>10 DEF AheadErased
  <2>1. Page(u) \in Nat /\ Page(u) < Page(a) /\ u \in Nat
    <3>1. u \in Nat /\ Page(u) \in Nat
      BY <1>1, PageOrder
    <3> QED
      BY <1>3, <3>1
  <2>2. erase_address # address
    <3>1. a = address => Page(a) <= Page(u)
      BY <1>1, <2>1, PageOrder
    <3> QED
      BY <1>3, <2>1, <3>1
  <2>3. last_erased # 0 /\ Page(erase_address) <= Page(last_erased) + 1
    BY <2>2 DEF Bookkeeping, Erases
  <2>4. Page(u) <= Page(last_erased)
    BY <1>3, <2>1, <2>3
  <2> QED
    BY <1>9, <1>10, <2>3, <2>4 DEF AheadErased
<1> QED
  BY <1>4, <1>8, <1>12, <1>13

LEMMA ProgressingLoop ==
  ASSUME LayoutRegular, Session, Progressing, task.op = "download",
         EraseLoop \/ EraseTail \/ SetAddress, pc' # "failed"
  PROVE  pc' \in ChunkSites /\ Bookkeeping' /\ SentHeld' /\ AheadErased'
<1>1. pc \in {"erase", "set_address"} /\ pc' \in {"erase", "command", "set_address"}
      /\ UNCHANGED <<image, task, el, p, flash>>
  <2>1. flash' = flash
    BY OperationKept DEF operation
  <2>2. pc' \in {"erase", "command", "set_address"}
    BY LocalMoves
  <2> QED
    BY <2>1, <2>2 DEF EraseLoop, EraseTail, SetAddress
<1>2. Bookkeeping /\ SentHeld /\ AheadErased
  BY <1>1 DEF Progressing, DownloadSites, ChunkSites
<1>3. /\ address \in Nat /\ chunk_size \in Nat /\ LastOfChunk = address + chunk_size - 1
      /\ LastOfChunk \in Nat /\ address <= LastOfChunk /\ ApplicationAddress <= address
      /\ last_erased \in Nat /\ erase_address \in Nat /\ address <= erase_address
      /\ last_erased <= LastOfChunk /\ Writeable(LastOfElement)
  <2>1. last_erased \in FlashUnits /\ erase_address \in Nat /\ address <= erase_address
    BY <1>1 DEF Session, Tool, HostTypeOK, InDownload
  <2>2. last_erased <= LastOfChunk /\ Writeable(LastOfElement)
    BY <1>1, <1>2 DEF Bookkeeping, ChunkSites
  <2> QED
    BY <1>1, <2>1, <2>2, ChunkAddresses DEF ChunkSites
<1>4. page_size = PageUnits /\ PageUnits \in Nat \ {0}
  <2>1. InElement
    BY <1>1 DEF Session, Tool, InDownload
  <2>2. (CHOOSE s \in find_segment(address) : TRUE) \in Segments
    BY <2>1 DEF InElement, Writeable, find_segment
  <2> QED
    BY <2>2, ConstantsAssumption DEF page_size, LayoutRegular
<1>5. /\ address' = address /\ LastOfChunk' = LastOfChunk /\ LastOfElement' = LastOfElement
      /\ Size' = Size /\ chunk_size' = chunk_size
  BY <1>1, SameChunk DEF LastOfChunk, LastOfElement
<1>6. Frontier = address /\ Frontier' = address /\ ~Erasing
      /\ \A e, k : IsSent(e, k)' => IsSent(e, k)
  <2>1. ~ChunkDone /\ ~ChunkDone' /\ pc \notin {"element", "next_chunk"}
        /\ pc' \notin {"element", "next_chunk"}
    BY <1>1 DEF ChunkDone
  <2>2. Frontier = address /\ Frontier' = address'
    BY <2>1 DEF Frontier
  <2> QED
    BY <1>1, <1>5, <2>1, <2>2 DEF IsSent, Erasing, SpecialSites
<1>7. CASE EraseLoop
  <2> DEFINE a == erase_address
  <2>1. /\ pc = "erase" /\ a < address + chunk_size /\ erase_address' = a + PageUnits
        /\ last_erased <= a
    BY <1>2, <1>4, <1>7 DEF EraseLoop, Bookkeeping, Erases
  <2>2. a <= LastOfChunk /\ a <= erase_address' /\ Page(erase_address') = Page(a) + 1
        /\ Page(a) \in Nat
    BY <1>3, <1>4, <2>1, PageOrder
  <2>3. CASE NeedsErase(a)
    <3>1. Erase(a)
      BY <1>7, <2>3 DEF EraseLoop
    <3>2. Page(erase_address') <= Page(a) + 1 /\ Page(a) <= Page(erase_address)
      BY <2>2
    <3> QED
      BY <1>1, <1>2, <1>3, <2>1, <2>2, <2>3, <3>1, <3>2, ProgressingErase
         DEF ChunkSites, SpecialSites
  <2>4. CASE ~NeedsErase(a)
    <3>1. pc' = "erase" /\ UNCHANGED <<cmd, last_erased>>
      BY <1>7, <2>1, <2>4 DEF EraseLoop
    <3>2. Page(a) = Page(last_erased)
      BY <1>4, <2>4 DEF NeedsErase, Page
    <3>3. last_erased # 0
      <4>1. a >= PageUnits
        BY <1>3, <1>4, FlashOrder DEF LayoutRegular
      <4>2. Page(a) >= 1
        BY <1>3, <4>1, PageOrder
      <4> QED
        BY <3>2, <4>2, PageOrder
    <3>4. Bookkeeping'
      <4>1. Writeable(LastOfElement)'
        BY <1>3, <1>5 DEF Writeable, find_segment
      <4>2. last_erased' <= LastOfChunk' /\ last_erased' <= erase_address'
        BY <1>3, <1>4, <1>5, <2>1, <3>1
      <4>3. last_erased' # 0 /\ Page(erase_address') <= Page(last_erased') + 1
        BY <2>2, <3>1, <3>2, <3>3
      <4>4. Erases'
        BY <3>1 DEF Erases
      <4> QED
        BY <3>1, <4>1, <4>2, <4>3, <4>4 DEF Bookkeeping, SpecialSites
    <3>5. Erasing' <=> Erasing
      BY <1>6, <3>1 DEF Erasing, SpecialSites
    <3> QED
      BY <1>1, <1>2, <1>3, <1>6, <3>1, <3>4, <3>5, Carried DEF ChunkSites
  <2> QED
    BY <2>3, <2>4
<1>8. CASE EraseTail
  <2> DEFINE a == LastOfChunk
  <2>1. /\ pc = "erase" /\ erase_address >= address + chunk_size
        /\ erase_address' = erase_address
    BY <1>8 DEF EraseTail
  <2>2. erase_address # address /\ a <= erase_address
    BY <1>3, <2>1
  <2>3. last_erased # 0 /\ Page(erase_address) <= Page(last_erased) + 1
    BY <1>2, <2>1, <2>2 DEF Bookkeeping, Erases
  <2>4. CASE NeedsErase(a)
    <3>1. Erase(a)
      BY <1>8, <2>4 DEF EraseTail, WrapsOver
    <3>2. Page(last_erased) <= Page(a) /\ Page(a) <= Page(erase_address)
      BY <1>3, <2>2, PageOrder
    <3>3. Page(last_erased) \in Nat /\ Page(a) \in Nat /\ Page(erase_address) \in Nat
      BY <1>3, PageOrder
    <3>4. Page(erase_address') <= Page(a) + 1
      BY <2>1, <2>3, <3>2, <3>3
    <3> QED
      BY <1>1, <1>2, <1>3, <2>1, <2>2, <2>4, <3>1, <3>2, <3>4, ProgressingErase
         DEF ChunkSites, SpecialSites
  <2>5. CASE ~NeedsErase(a)
    <3>1. pc' = "set_address" /\ UNCHANGED <<cmd, last_erased>>
      BY <1>8, <2>1, <2>5 DEF EraseTail, WrapsOver
    <3>2. Page(a) = Page(last_erased)
      BY <1>4, <2>5 DEF NeedsErase, Page
    <3>3. Bookkeeping'
      <4>1. Writeable(LastOfElement)'
        BY <1>3, <1>5 DEF Writeable, find_segment
      <4>2. last_erased' <= LastOfChunk' /\ Page(last_erased') = Page(LastOfChunk')
        BY <1>3, <1>5, <3>1, <3>2
      <4>3. ~Erases'
        BY <3>1 DEF Erases, SpecialSites
      <4> QED
        BY <3>1, <4>1, <4>2, <4>3 DEF Bookkeeping, SpecialSites
    <3>4. Erasing' <=> Erasing
      BY <1>6, <3>1 DEF Erasing, SpecialSites
    <3> QED
      BY <1>1, <1>2, <1>3, <1>6, <3>1, <3>3, <3>4, Carried DEF ChunkSites
  <2> QED
    BY <2>4, <2>5
<1>9. CASE SetAddress
  <2>1. /\ pc = "set_address" /\ pc' = "command" /\ last_erased' = last_erased
        /\ cmd'.op = "SETADDRESSPOINTER"
    BY <1>9 DEF SetAddress
  <2>2. ~Erases /\ ~Erases' /\ ~Erasing'
    BY <2>1 DEF Erases, Erasing, SpecialSites
  <2>3. Page(last_erased) = Page(LastOfChunk)
    BY <1>2, <2>1, <2>2 DEF Bookkeeping, ChunkSites
  <2>4. Bookkeeping'
    <3>1. Writeable(LastOfElement)'
      BY <1>3, <1>5 DEF Writeable, find_segment
    <3>2. last_erased' <= LastOfChunk' /\ Page(last_erased') = Page(LastOfChunk')
      BY <1>3, <1>5, <2>1, <2>3
    <3> QED
      BY <2>1, <2>2, <3>1, <3>2 DEF Bookkeeping
  <2> QED
    BY <1>1, <1>2, <1>3, <1>6, <2>1, <2>2, <2>4, Carried DEF ChunkSites, SpecialSites
<1> QED
  BY <1>7, <1>8, <1>9

\* When the last element is done all of the image is programmed.
LEMMA AllSent ==
  ASSUME Session, Progressing, NextElement, pc' = "detach"
  PROVE  Programmed /\ Programmed'
<1>1. pc = "element" /\ task.op = "download" /\ UNCHANGED <<image, flash>>
  <2>1. flash' = flash
    BY OperationKept DEF operation
  <2> QED
    BY <2>1 DEF NextElement, Session, Tool, InDownload
<1>2. el > Len(image) /\ el \in Nat /\ Len(image) \in Nat
  <2>1. el > Len(image)
    BY <1>1 DEF NextElement
  <2>2. el \in Nat /\ image \in Images
    BY DEF Session, Tool, HostTypeOK
  <2> QED
    BY <2>1, <2>2, SessionAssumption
<1>3. SentHeld
  BY <1>1 DEF Progressing, DownloadSites
<1>4. Programmed
  <2> SUFFICES ASSUME NEW e \in 1 .. Len(image), NEW k \in 1 .. Len(image[e].data)
               PROVE  flash[image[e].addr + k - 1] = image[e].data[k]
    BY DEF Programmed
  <2>1. IsSent(e, k)
    BY <1>2 DEF IsSent
  <2> QED
    BY <1>3, <2>1 DEF SentHeld, Unit
<1> QED
  BY <1>1, <1>4 DEF Programmed

LEMMA ProgressingStep ==
  ASSUME LayoutRegular, ElementsAscend(image), Session, Pending, Progressing, LandsOnErased,
         [SessionNext]_sessionVars
  PROVE  Progressing'
<1>1. CASE Call \/ SendData \/ TakeData
  BY <1>1, CallKeepsFlash, CallKeepsLength, ProgressingQuiet
<1>2. CASE UNCHANGED sessionVars
  <2>1. UNCHANGED <<image, task, pc, el, p, erase_address, last_erased, cmd, flash, wlength>>
    BY <1>2 DEF sessionVars, hostVars, vars, dfuVars, memVars
  <2> QED
    BY <2>1, ProgressingQuiet
<1>3. CASE TakeStatus \/ SendStatus \/ StatusOvertakes
  BY <1>3, ProgressingReturn
<1>4. CASE CallStalled \/ TransferFails \/ BusGlitch \/ PowerFails \/ FinalReset
  <2>1. UNCHANGED <<image, task, el, last_erased>>
    BY <1>4 DEF CallStalled, TransferFails, Errs, Goto, BusGlitch, PowerFails, HandleDies, FinalReset
  <2>2. /\ pc' \in {"failed", "status_warn", "reset", "finished"}
        /\ pc' = "status_warn" => pc = "clear_warn"
        /\ pc' \in {"reset", "finished"} => pc \in {"detach", "reset", "finished"}
    BY <1>4 DEF CallStalled, TransferFails, Errs, Goto, AfterError, BusGlitch, PowerFails,
                HandleDies, FinalReset
  <2>3. pc' \in {"reset", "finished"} => flash' = flash
    BY FlashRests
  <2>4. Downloaded' => Programmed'
    BY <2>1, <2>2, <2>3 DEF Progressing, Downloaded, Programmed
  <2>5. pc' \notin DownloadSites
    BY <2>2 DEF DownloadSites, ChunkSites, SpecialSites
  <2>6. pc' \in StartSites => el' = 1 /\ last_erased' = 0
    BY <2>1, <2>2 DEF Progressing, StartSites
  <2> QED
    BY <2>4, <2>5, <2>6 DEF Progressing
<1>5. CASE Begin \/ NextElement \/ NextChunk
  <2>1. task' = task /\ pc' \in {"element", "upload", "set_address", "failed", "detach",
                                 "next_chunk", "erase"}
    BY <1>5, LocalMoves DEF Begin, NextElement, NextChunk
  <2>2. pc' \notin StartSites
    BY <2>1 DEF StartSites
  <2>3. task.op = "download" /\ pc' \in DownloadSites => Bookkeeping' /\ SentHeld' /\ AheadErased'
    BY <1>5, ProgressingNext
  <2>4. Downloaded' => Programmed'
    <3>1. Downloaded' => pc' = "detach"
      BY <2>1 DEF Downloaded
    <3>2. pc' = "detach" => NextElement
      BY <1>5, LocalMoves
    <3> QED
      BY <3>1, <3>2, AllSent
  <2> QED
    BY <2>1, <2>2, <2>3, <2>4 DEF Progressing
<1>6. CASE EraseLoop \/ EraseTail \/ SetAddress
  <2>1. task' = task /\ pc' \in {"erase", "command", "failed", "set_address"}
    BY <1>6, LocalMoves DEF EraseLoop, EraseTail, SetAddress
  <2>2. pc' \notin StartSites /\ ~Downloaded' /\ (pc' = "failed" => pc' \notin DownloadSites)
    BY <2>1 DEF StartSites, Downloaded, DownloadSites, ChunkSites, SpecialSites
  <2>3. task.op = "download" /\ pc' # "failed" => Bookkeeping' /\ SentHeld' /\ AheadErased'
    BY <1>6, ProgressingLoop
  <2> QED
    BY <2>1, <2>2, <2>3 DEF Progressing
<1>7. CASE Rerun
  BY <1>7 DEF Rerun, Progressing, DownloadSites, ChunkSites, SpecialSites, Downloaded
<1> QED
  BY <1>1, <1>2, <1>3, <1>4, <1>5, <1>6, <1>7 DEF SessionNext, Progress

LEMMA ProgressingStart == SessionInit => Progressing
  BY DEF SessionInit, Progressing, DownloadSites, ChunkSites, SpecialSites, Downloaded

\* When the tool reports success the flash holds the image, for every image, layout, flash
\* and history of failures, runs and left-over operations (dfuse_dnload_element against
\* DNLOAD, GETSTATUS and DFU_Status_Out): provided that the layout announced is the flash's
\* and that the elements of the file ascend.
THEOREM SuccessCorrect ==
  ASSUME LayoutRegular, \A i \in Images : ElementsAscend(i)
  PROVE  SessionSpec => []SuccessMeansProgrammed
<1> DEFINE I == Session /\ Pending /\ Progressing /\ LandsOnErased
<1>1. SessionInit => I
  BY SessionStart, PendingStart, ProgressingStart, LandsStart
<1>2. I /\ [SessionNext]_sessionVars => I'
  <2> SUFFICES ASSUME I, [SessionNext]_sessionVars PROVE I'
    OBVIOUS
  <2>1. ElementsAscend(image)
    BY DEF Session, Tool, HostTypeOK
  <2> QED
    BY <2>1, SessionStep, PendingStep, ProgressingStep, LandsStep
<1>3. I => SuccessMeansProgrammed
  BY DEF Progressing, SuccessMeansProgrammed
<1> QED
  BY <1>1, <1>2, <1>3, PTL DEF SessionSpec

\* Whatever the device writes in a session is programmed on erased flash, where programming
\* takes, so that the controller never latches PGERR (last_erased of dfuse_dnload_element
\* against FLASH_If_Erase and FLASH_If_Write), for every image whose elements ascend.
THEOREM ChunksCorrect ==
  ASSUME LayoutRegular, \A i \in Images : ElementsAscend(i)
  PROVE  SessionSpec => ChunksLandOnErased
<1> DEFINE I == Session /\ Pending /\ Progressing /\ LandsOnErased
<1>1. SessionInit => I
  BY SessionStart, PendingStart, ProgressingStart, LandsStart
<1>2. I /\ [SessionNext]_sessionVars => I'
  <2> SUFFICES ASSUME I, [SessionNext]_sessionVars PROVE I'
    OBVIOUS
  <2>1. ElementsAscend(image)
    BY DEF Session, Tool, HostTypeOK
  <2> QED
    BY <2>1, SessionStep, PendingStep, ProgressingStep, LandsStep
<1>3. I /\ I' /\ [SessionNext]_sessionVars => [ChunkOnErased]_sessionVars
  <2> SUFFICES ASSUME I, I', [SessionNext]_sessionVars, flash' # flash
               PROVE  \A u \in WrittenUnits : flash[u] = Erased
    BY DEF ChunkOnErased, LandsOnErased
  <2>1. [FlashChange]_vars
    BY DeviceStep, FlashStep DEF Session, Device
  <2>2. DeviceStatus.bState = "dfuDNBUSY"
    BY <2>1 DEF FlashChange, vars, memVars
  <2>3. DeviceState = "dfuDNBUSY" /\ wlength # 0
    BY <2>2 DEF Session, Device, IInv, StatusConsistent
  <2> QED
    BY <2>3 DEF LandsOnErased
<1> QED
  BY <1>1, <1>2, <1>3, PTL DEF SessionSpec, ChunksLandOnErased

-----------------------------------------------------------------------------
(* An update keeps the promise of FirmwareUpdate.                           *)

\* When the tool is done nothing in the device is about to change the flash.
LEMMA DoneRests ==
  ASSUME Session, [SessionNext]_sessionVars, pc \in {"detach", "reset", "finished"}
  PROVE  flash' = flash
<1>1. CASE Call \/ SendData \/ TakeData
  BY <1>1, CallKeepsFlash
<1>2. CASE TakeStatus \/ SendStatus \/ StatusOvertakes
  BY <1>2, ReturnFacts DEF GetStatusSites, operation
<1>3. CASE PowerFails
  <2>1. pc = "detach" /\ calling => ControlState = "STALLED"
    BY RequestOfSite DEF Session, CallOpen, StageOfRequest
  <2>2. ControlState = "STALLED" \/ bus = "idle"
    BY <2>1 DEF Session, Tool, HostTypeOK, AtRest
  <2>3. PowerCycle
    BY <1>3, <2>2 DEF PowerFails, PowerLossInOperation, StatusStage, OutPacket
  <2> QED
    BY <2>3 DEF PowerCycle, Reboot
<1>4. CASE \/ CallStalled \/ TransferFails \/ BusGlitch
           \/ Begin \/ NextElement \/ NextChunk \/ EraseLoop \/ EraseTail \/ SetAddress
           \/ FinalReset \/ Rerun
  BY <1>4, OperationKept DEF operation
<1>5. CASE UNCHANGED sessionVars
  BY <1>5 DEF sessionVars, vars, memVars
<1> QED
  BY <1>1, <1>2, <1>3, <1>4, <1>5 DEF SessionNext, Progress

\* What is programmed is the goal.
LEMMA GoalProgrammed ==
  ASSUME Session, Programmed, NEW u \in ImageUnits
  PROVE  flash[u] = GoalPacket(u)
<1> DEFINE P(e) == u - image[e].addr \in 0 .. Len(image[e].data) - 1
           f == CHOOSE e \in 1 .. Len(image) : P(e)
<1>1. image \in Images
  BY DEF Session, Tool, HostTypeOK
<1>2. PICK e \in 1 .. Len(image) : u \in {image[e].addr + k - 1 : k \in 1 .. Len(image[e].data)}
  BY DEF ImageUnits, UnitsOf
<1>3. PICK k \in 1 .. Len(image[e].data) : u = image[e].addr + k - 1
  BY <1>2
<1>4. P(e)
  <2> DEFINE a == image[e].addr
             n == Len(image[e].data)
  <2>1. a \in Nat /\ n \in Nat /\ k \in 1 .. n /\ u = a + k - 1
    BY <1>1, <1>3, ImageType
  <2> HIDE DEF a, n
  <2>2. u - a \in 0 .. n - 1
    BY <2>1
  <2> QED
    BY <2>2 DEF a, n
<1>5. f \in 1 .. Len(image) /\ P(f)
  BY <1>2, <1>4
<1>6. GoalPacket(u) = image[f].data[u - image[f].addr + 1]
  BY DEF GoalPacket
<1>7. u \in Nat
  BY <1>1, <1>3, ImageType
<1>8. ASSUME NEW g \in 1 .. Len(image), P(g)
      PROVE  flash[u] = image[g].data[u - image[g].addr + 1]
  <2> DEFINE a == image[g].addr
             n == Len(image[g].data)
  <2>1. a \in Nat /\ n \in Nat /\ u - a \in 0 .. n - 1
    BY <1>1, <1>8, ImageType
  <2> HIDE DEF a, n
  <2>2. u - a + 1 \in 1 .. n /\ a + (u - a + 1) - 1 = u
    BY <1>7, <2>1
  <2> QED
    BY <2>2 DEF a, n, Programmed
<1> HIDE DEF f, P
<1> QED
  BY <1>5, <1>6, <1>8

\* An update implements FirmwareUpdate: until the tool reports success it changes nothing
\* outside its scope, when it does the flash holds all of the image, and from then on the
\* flash stays as it is (main.c of dfu-cmd and dfuse.c against the bootloader).
THEOREM UpdateImplemented ==
  ASSUME LayoutRegular, \A i \in Images : ElementsAscend(i) /\ DataErasesInScope(i)
  PROVE  SessionSpec => ImplementsUpdate
<1> DEFINE I == Session /\ Pending /\ InScope /\ Progressing /\ LandsOnErased
<1>1. SessionInit => I /\ Update!UpdateInit
  BY SessionStart, PendingStart, InScopeStart, ProgressingStart, LandsStart
     DEF SessionInit, Update!UpdateInit, Downloaded
<1>2. I /\ [SessionNext]_sessionVars => I'
  <2> SUFFICES ASSUME I, [SessionNext]_sessionVars PROVE I'
    OBVIOUS
  <2>1. ElementsAscend(image) /\ DataErasesInScope(image)
    BY DEF Session, Tool, HostTypeOK
  <2> QED
    BY <2>1, SessionStep, PendingStep, InScopeStep, ProgressingStep, LandsStep
<1>3. I /\ I' /\ [SessionNext]_sessionVars => [Update!UpdateNext]_Update!updateVars
  <2> SUFFICES ASSUME I, I', [SessionNext]_sessionVars
               PROVE  Update!UpdateNext \/ UNCHANGED Update!updateVars
    OBVIOUS
  <2>1. image' = image
    BY SameImage
  <2> DEFINE Goal == [u \in ImageUnits |-> GoalPacket(u)]
  <2>2. /\ Goal' = Goal /\ ScopeOf(image)' = ScopeOf(image)
        /\ Downloaded \in BOOLEAN /\ Downloaded' \in BOOLEAN
    BY <2>1 DEF ImageUnits, UnitsOf, GoalPacket, ScopeOf, Downloaded
  <2>3. CASE Downloaded
    <3>1. flash' = flash
      BY <2>3, DoneRests DEF Downloaded
    <3>2. CASE Downloaded'
      BY <2>2, <2>3, <3>1, <3>2 DEF Update!updateVars
    <3>3. CASE ~Downloaded'
      BY <2>2, <3>1, <3>3 DEF Update!UpdateNext, Update!Start
    <3> QED
      BY <3>2, <3>3
  <2>4. CASE ~Downloaded /\ Downloaded'
    <3>1. pc' \in {"detach", "reset", "finished"} /\ task'.op = "download"
      BY <2>4 DEF Downloaded
    <3>2. flash' = flash
      BY <3>1, FlashRests
    <3>3. Programmed
      BY <2>1, <2>4, <3>2 DEF Progressing, Programmed
    <3>4. Update!GoalHeld
      BY <3>3, GoalProgrammed DEF Update!GoalHeld
    <3> QED
      BY <2>2, <2>4, <3>2, <3>4 DEF Update!UpdateNext, Update!Finish
  <2>5. CASE ~Downloaded /\ ~Downloaded'
    <3>1. DOMAIN flash' = FlashUnits /\ DOMAIN flash = FlashUnits
      BY DEF Session, Device, IInv, TypeOK
    <3>2. \A u \in FlashUnits \ ScopeOf(image) : flash'[u] = flash[u]
      BY ScopeStep
    <3> QED
      BY <2>2, <2>5, <3>1, <3>2 DEF Update!UpdateNext, Update!Change
  <2> QED
    BY <2>3, <2>4, <2>5
<1> QED
  BY <1>1, <1>2, <1>3, PTL DEF SessionSpec, ImplementsUpdate, Update!UpdateSpec
===============================================================================
