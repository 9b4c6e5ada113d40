-------------------------- MODULE DfuSession_proofs --------------------------
(***************************************************************************)
(* Proofs about an update: the tool and the bootloader together, for every *)
(* image, layout, flash and sequence of failures.  A session is one of the *)
(* hosts of DfuDevice (DeviceStep), so its invariants hold; on top of them *)
(* comes where the tool is and what its open call has reached (Session).   *)
(* DfuUpdate_proofs goes on from there.                                    *)
(***************************************************************************)
EXTENDS DfuSession, DfuDevice_proofs

-----------------------------------------------------------------------------
(* Where the tool is.                                                       *)

SpecialSites == {"command", "busy", "result", "leave", "idle"}

HostTypeOK ==
  /\ image \in Images /\ task \in Tasks
  /\ pc \in CallSites \cup LocalSites /\ calling \in BOOLEAN
  /\ el \in Nat \ {0} /\ p \in Nat /\ erase_address \in Nat
  /\ last_erased \in FlashUnits /\ cmd \in Commands
  /\ file \in Seq(Content) /\ buf \in Seq(Content)

\* The chunk is one of the image, and the device announced its start as writeable.
InElement == el <= Len(image) /\ p < Size /\ Writeable(address)

\* The command belongs to the chunk.
OfChunk ==
  /\ erase_address >= address
  /\ \/ cmd = [op |-> "SETADDRESSPOINTER", addr |-> address]
     \/ /\ cmd.op = "ERASE" /\ Erasable(cmd.addr)
        /\ address <= cmd.addr /\ cmd.addr < address + chunk_size

InDownload ==
  /\ pc \in {"element", "next_chunk", "erase", "chunk", "poll"} => task.op = "download"
  /\ pc = "next_chunk" => el <= Len(image)
  /\ pc \in {"erase", "set_address", "chunk", "poll"} \cup SpecialSites /\ task.op = "download"
       => InElement
  /\ pc \in {"erase", "set_address"} /\ task.op = "download" => erase_address >= address
  /\ pc \in SpecialSites /\ task.op = "download" => OfChunk

InUpload ==
  /\ pc \in {"set_address"} \cup SpecialSites /\ task.op = "upload"
       => task.addr # 0 /\ Readable(task.addr) /\ file = <<>>
  /\ pc \in SpecialSites /\ task.op = "upload"
       => cmd = [op |-> "SETADDRESSPOINTER", addr |-> task.addr]
  /\ pc = "upload" =>
       /\ task.op = "upload" /\ (task.addr # 0 => Readable(task.addr))
       /\ Len(file) < UploadLimit /\ \E q \in Nat : Len(file) = q * NPackets

\* What the open call has reached.
StageOfRequest ==
  /\ setup.req = "GETSTATUS" => ControlState \in {"LAST_IN_DATA", "WAIT_STATUS_OUT"}
  /\ setup.req \in {"CLRSTATUS", "ABORT"} => ControlState = "WAIT_STATUS_IN"
  /\ setup.req = "DETACH" => ControlState = "STALLED"
  /\ setup.req = "DNLOAD" =>
       ControlState \in {"OUT_DATA", "LAST_OUT_DATA", "WAIT_STATUS_IN", "STALLED"}
  /\ setup.req = "UPLOAD" =>
       ControlState \in {"IN_DATA", "LAST_IN_DATA", "WAIT_STATUS_OUT", "STALLED"}

\* Packet Len(buf) of the block is on its way, or all have come.
BlockUnderWay ==
  /\ ControlState \in {"IN_DATA", "LAST_IN_DATA"} =>
       /\ Len(buf) < NPackets
       /\ tx = UploadPacket(setup.blk, Len(buf) * MaxPacketSize)
       /\ Usb_wOffset = (Len(buf) + 1) * MaxPacketSize
       /\ Usb_wLength = (NPackets - (Len(buf) + 1)) * MaxPacketSize
       /\ ControlState = "LAST_IN_DATA" <=> Len(buf) + 1 = NPackets
  /\ ControlState = "WAIT_STATUS_OUT" => Len(buf) = NPackets

CallOpen ==
  /\ Data_Mul_MaxPacketSize = FALSE
  /\ calling => /\ pc \in CallSites /\ setup = RequestOf(pc) /\ bus = "transfer"
                /\ StageOfRequest
                /\ ControlState \in {"OUT_DATA", "LAST_OUT_DATA"} => Usb_wLength > 0
                /\ pc = "upload" => BlockUnderWay
  /\ ~calling \/ pc # "upload" => buf = <<>>

\* No operation of the device is under way when the tool has ended, or is about to begin.
AtRest ==
  /\ ~calling /\ pc \in {"begin", "element", "next_chunk", "detach"} => ControlState = "STALLED"
  /\ pc = "reset" => ControlState = "STALLED"
  /\ pc = "finished" => bus = "idle"

Device  == IInv /\ Endpoints /\ Filled
Tool    == HostTypeOK /\ InDownload /\ InUpload
Session == Device /\ Tool /\ CallOpen /\ AtRest

-----------------------------------------------------------------------------
(* Lemmas about the arithmetic of the tool.                                 *)

\* Division is monotonic and undoes multiplication.
LEMMA DivBounds ==
  ASSUME NEW n \in Nat \ {0}, NEW x \in Int
  PROVE  /\ x \div n \in Int
         /\ n * (x \div n) <= x /\ x < n * (x \div n) + n
  OBVIOUS

LEMMA DivMonotonic ==
  ASSUME NEW n \in Nat \ {0}, NEW x \in Int, NEW y \in Int, x <= y
  PROVE  x \div n <= y \div n
<1> DEFINE k == x \div n
           m == y \div n
<1>1. k \in Int /\ m \in Int /\ n * k <= x /\ y < n * m + n
  BY DivBounds
<1> HIDE DEF k, m
<1>2. n * (k - m) < n
  BY <1>1
<1>3. k - m >= 1 => n * (k - m) >= n
  BY <1>1
<1> QED
  BY <1>1, <1>2, <1>3 DEF k, m

LEMMA DivExact ==
  ASSUME NEW n \in Nat \ {0}, NEW j \in Int
  PROVE  (j * n) \div n = j
<1> DEFINE k == (j * n) \div n
<1>1. j * n \in Int /\ k \in Int /\ n * k <= j * n /\ j * n < n * k + n
  BY DivBounds
<1> HIDE DEF k
<1>2. n * (j - k) >= 0 /\ n * (j - k) < n
  BY <1>1
<1>3. (j - k >= 1 => n * (j - k) >= n) /\ (j - k <= -1 => n * (j - k) < 0)
  BY <1>1
<1> QED
  BY <1>1, <1>2, <1>3 DEF k

\* The sizes of packets and blocks.
LEMMA Sizes ==
  /\ MaxPacketSize \in Nat /\ MaxPacketSize >= 8 /\ NPackets \in Nat \ {0}
  /\ wTransferSize \in Nat /\ wTransferSize = NPackets * MaxPacketSize
  /\ 0 \in BufferUnits /\ NPackets * MaxPacketSize >= MaxPacketSize
  BY ConstantsAssumption DEF wTransferSize, BufferUnits

\* The elements of an image.
LEMMA ImageType ==
  ASSUME NEW i \in Images, NEW e \in 1 .. Len(i)
  PROVE  /\ i \in Seq(Element) /\ i[e] \in Element
         /\ i[e].addr \in FlashUnits /\ i[e].addr \in Nat
         /\ Len(i[e].data) \in Nat /\ Len(i[e].data) > 0
         /\ \A k \in 1 .. Len(i[e].data) : i[e].data[k] \in Data
<1>1. i \in Seq(Element) /\ i[e] \in Element
  BY SessionAssumption
<1>2. i[e].addr \in FlashUnits /\ i[e].data \in Seq(Data) /\ Len(i[e].data) > 0
  BY <1>1, SessionAssumption DEF Element
<1>3. i[e].addr \in Nat
  BY <1>2, ConstantsAssumption
<1> DEFINE d == i[e].data
<1>4. d \in Seq(Data)
  BY <1>2
<1> HIDE DEF d
<1>5. Len(d) \in Nat /\ \A k \in 1 .. Len(d) : d[k] \in Data
  BY <1>4
<1> QED
  BY <1>1, <1>2, <1>3, <1>5 DEF d

\* The chunk lies in the element and in a segment.
LEMMA ChunkType ==
  ASSUME HostTypeOK, InElement
  PROVE  /\ Size \in Nat /\ address \in Nat /\ chunk_size \in 1 .. NPackets
         /\ p + chunk_size <= Size
         /\ address \in FlashUnits /\ address >= ApplicationAddress
         /\ el \in 1 .. Len(image)
<1>1. el \in 1 .. Len(image)
  BY SessionAssumption DEF HostTypeOK, InElement
<1>2. Size \in Nat /\ image[el].addr \in Nat
  BY <1>1, ImageType DEF HostTypeOK, Size
<1>3. address \in Nat /\ p \in Nat /\ p < Size
  BY <1>2 DEF HostTypeOK, InElement, address
<1>4. address \in FlashUnits /\ address >= ApplicationAddress
  <2>1. PICK s \in Segments : s.start <= address /\ address <= s.end /\ s.writeable
    BY DEF InElement, Writeable, find_segment
  <2>2. s.start \in Nat /\ s.end \in Nat
    BY SessionAssumption DEF Segment
  <2>3. address \in s.start .. s.end
    BY <1>3, <2>1, <2>2
  <2> QED
    BY <1>3, <2>1, <2>2, <2>3, SessionAssumption, ConstantsAssumption
<1>5. chunk_size \in 1 .. NPackets /\ p + chunk_size <= Size
  BY <1>2, <1>3, Sizes DEF chunk_size
<1> QED
  BY <1>1, <1>2, <1>3, <1>4, <1>5

\* Flash addresses are natural numbers, and those below one of them too are in the flash.
LEMMA FlashOrder ==
  /\ FlashUnits \subseteq Nat /\ 0 \in FlashUnits /\ ApplicationAddress \in FlashUnits
  /\ \A u \in FlashUnits : \A v \in Nat : v <= u => v \in FlashUnits
<1>1. FlashUnits \subseteq Nat /\ ApplicationAddress \in FlashUnits
  BY ConstantsAssumption
<1>2. \A u \in FlashUnits : \A v \in Nat : v <= u => v \in FlashUnits
  <2> SUFFICES ASSUME NEW u \in FlashUnits, NEW v \in Nat, v <= u PROVE v \in FlashUnits
    OBVIOUS
  <2>1. v \in 0 .. u
    BY <1>1
  <2> QED
    BY <2>1, SessionAssumption
<1> QED
  BY <1>1, <1>2

\* An upload has a limit, inside the flash.
LEMMA LimitType ==
  ASSUME NEW a \in Nat, a # 0 => Readable(a)
  PROVE  /\ LimitFrom(a) \in Nat \ {0}
         /\ a # 0 => a + LimitFrom(a) - 1 \in FlashUnits
<1>1. CASE a = 0
  BY <1>1, SessionAssumption DEF LimitFrom
<1>2. CASE a # 0
  <2> DEFINE s == CHOOSE t \in find_segment(a) : TRUE
  <2>1. s \in find_segment(a)
    BY <1>2 DEF Readable
  <2>2. s \in Segments /\ s.start <= a /\ a <= s.end
    BY <2>1 DEF find_segment
  <2>3. s.end \in Nat /\ s.start \in Nat
    BY <2>2, SessionAssumption DEF Segment
  <2>4. s.end \in FlashUnits
    BY <2>2, <2>3, SessionAssumption
  <2>5. LimitFrom(a) = s.end - a + 1
    BY <1>2 DEF LimitFrom
  <2> HIDE DEF s
  <2>6. a + (s.end - a + 1) - 1 = s.end
    BY <2>3
  <2> QED
    BY <2>2, <2>3, <2>4, <2>5, <2>6
<1> QED
  BY <1>1, <1>2

-----------------------------------------------------------------------------
(* The tool is one of the hosts of DfuDevice.                               *)

GetStatusSites == {"status", "status_warn", "busy", "result", "idle", "poll"}
GetStatusRequest == [req |-> "GETSTATUS", blk |-> 0, len |-> 6]
DnloadChunk == [req |-> "DNLOAD", blk |-> 2, len |-> chunk_size * MaxPacketSize]
UploadBlock == [req |-> "UPLOAD", blk |-> Transaction, len |-> wTransferSize]

LEMMA RequestOfSite ==
  /\ \A s \in GetStatusSites : RequestOf(s) = GetStatusRequest
  /\ \A s \in {"clear", "clear_warn"} : RequestOf(s) = [req |-> "CLRSTATUS", blk |-> 0, len |-> 0]
  /\ \A s \in {"abort", "leave"} : RequestOf(s) = [req |-> "ABORT", blk |-> 0, len |-> 0]
  /\ RequestOf("command") = [req |-> "DNLOAD", blk |-> 0, len |-> 5]
  /\ RequestOf("chunk")   = DnloadChunk
  /\ RequestOf("upload")  = UploadBlock
  /\ RequestOf("detach")  = [req |-> "DETACH", blk |-> 0, len |-> 0]
  BY DEF RequestOf, GetStatusSites, GetStatusRequest, DnloadChunk, UploadBlock

\* The block that is asked for is one of those up to the limit.
LEMMA TransactionType ==
  ASSUME Tool, pc = "upload"
  PROVE  /\ Transaction \in 2 .. ((UploadLimit - 1) \div NPackets + 2)
         /\ Len(file) \in Nat /\ UploadLimit \in Nat \ {0} /\ Len(file) < UploadLimit
<1>1. task.addr \in Nat /\ (task.addr # 0 => Readable(task.addr)) /\ Len(file) < UploadLimit
  BY FlashOrder, SessionAssumption DEF Tool, HostTypeOK, InUpload, Tasks
<1>2. UploadLimit \in Nat \ {0}
  BY <1>1, LimitType DEF UploadLimit
<1>3. Len(file) \in Nat
  BY DEF Tool, HostTypeOK
<1> DEFINE m == Len(file)
           l == UploadLimit - 1
<1>4. m \in Nat /\ l \in Nat /\ m <= l
  BY <1>1, <1>2, <1>3
<1>5. Transaction = m \div NPackets + 2
  BY DEF Transaction
<1> HIDE DEF m, l
<1>6. m \div NPackets <= l \div NPackets /\ 0 \div NPackets <= m \div NPackets
  BY <1>4, DivMonotonic, Sizes
<1>7. 0 \div NPackets = 0 /\ m \div NPackets \in Int /\ l \div NPackets \in Int
  BY <1>4, DivBounds, DivExact, Sizes
<1>8. Transaction \in 2 .. (l \div NPackets + 2)
  BY <1>5, <1>6, <1>7
<1> QED
  BY <1>1, <1>2, <1>3, <1>8 DEF l

LEMMA RequestsOfTool ==
  ASSUME Tool, pc \in CallSites
  PROVE  RequestOf(pc) \in Requests
<1>1. CASE pc \in GetStatusSites \cup {"clear", "clear_warn", "abort", "leave", "command", "detach"}
  BY <1>1, RequestOfSite, ToolAssumption DEF GetStatusRequest
<1>2. CASE pc = "chunk"
  <2>1. chunk_size \in 1 .. NPackets
    BY <1>2, ChunkType DEF Tool, InDownload
  <2>2. DnloadChunk \in [req : {"DNLOAD"}, blk : {2}, len : {k * MaxPacketSize : k \in 1 .. NPackets}]
    BY <2>1 DEF DnloadChunk
  <2> QED
    BY <1>2, <2>2, RequestOfSite, ToolAssumption
<1>3. CASE pc = "upload"
  <2>1. Transaction \in 2 .. ((LimitFrom(task.addr) - 1) \div NPackets + 2)
    BY <1>3, TransactionType DEF UploadLimit
  <2>2. UploadBlock \in UploadsFrom(task.addr)
    BY <2>1 DEF UploadBlock, UploadsFrom
  <2>3. task.addr = 0 \/ (task.addr \in Addresses /\ Readable(task.addr))
    BY <1>3 DEF Tool, HostTypeOK, InUpload, Tasks
  <2>4. UploadsFrom(task.addr) \subseteq Requests
    <3>1. CASE task.addr = 0
      BY <3>1, ToolAssumption
    <3>2. CASE task.addr # 0
      BY <2>3, <3>2, ToolAssumption
    <3> QED
      BY <3>1, <3>2
  <2> QED
    BY <1>3, <2>2, <2>4, RequestOfSite
<1> QED
  BY <1>1, <1>2, <1>3 DEF CallSites, GetStatusSites

\* In a data stage the packet that the host sends next is the next one of its block.
LEMMA NextPacket ==
  ASSUME Session, calling, ControlState \in {"OUT_DATA", "LAST_OUT_DATA"}
  PROVE  /\ pc \in {"command", "chunk"} /\ setup = RequestOf(pc) /\ Usb_wLength > 0
         /\ \E j \in Nat : /\ Usb_wOffset = j * MaxPacketSize
                          /\ Usb_wOffset \div MaxPacketSize = j
                          /\ j * MaxPacketSize < setup.len
<1>1. /\ setup = RequestOf(pc) /\ pc \in CallSites /\ Usb_wLength > 0
      /\ StageOfRequest
  BY DEF Session, CallOpen
<1>2. setup.req \notin {"GETSTATUS", "CLRSTATUS", "ABORT", "DETACH", "UPLOAD"}
  BY <1>1 DEF StageOfRequest
<1>3. pc \in {"command", "chunk"}
  BY <1>1, <1>2, RequestOfSite
     DEF CallSites, GetStatusSites, GetStatusRequest, UploadBlock
<1>4. PICK j \in Nat : Usb_wOffset = j * MaxPacketSize
  BY DEF Session, Device, Filled
<1>5. Usb_wOffset + Usb_wLength = setup.len /\ Usb_wOffset \in Nat /\ Usb_wLength \in Nat
  BY DEF Session, Device, Filled, IInv, TypeOK
<1>6. Usb_wOffset \div MaxPacketSize = j
  BY <1>4, DivExact, Sizes
<1>7. Usb_wOffset < setup.len
  BY <1>1, <1>5
<1> QED
  BY <1>1, <1>3, <1>4, <1>6, <1>7

\* A product is ordered as its factors.
LEMMA FactorOrder ==
  ASSUME NEW n \in Nat \ {0}, NEW x \in Int, NEW y \in Int, x * n < y * n
  PROVE  x < y
<1> SUFFICES ASSUME x >= y PROVE FALSE
  OBVIOUS
<1>1. (x - y) * n >= 0
  OBVIOUS
<1> QED
  BY <1>1

LEMMA HostPacketType ==
  ASSUME Session, calling, ControlState \in {"OUT_DATA", "LAST_OUT_DATA"}
  PROVE  HostPacket \in Payload(setup)
<1>1. PICK j \in Nat : /\ Usb_wOffset \div MaxPacketSize = j
                       /\ j * MaxPacketSize < setup.len
  BY NextPacket
<1>2. pc \in {"command", "chunk"} /\ setup = RequestOf(pc)
  BY NextPacket
<1>3. CASE pc = "command"
  BY <1>2, <1>3, RequestOfSite DEF HostPacket, Payload, Session, Tool, HostTypeOK
<1>4. CASE pc = "chunk"
  <2>1. HostTypeOK /\ InElement
    BY <1>4 DEF Session, Tool, InDownload
  <2>2. setup.blk = 2 /\ setup.len = chunk_size * MaxPacketSize
    BY <1>2, <1>4, RequestOfSite DEF DnloadChunk
  <2>3. chunk_size \in Nat /\ p + chunk_size <= Size /\ el \in 1 .. Len(image) /\ Size \in Nat
    BY <2>1, ChunkType
  <2>4. j < chunk_size
    BY <1>1, <2>2, <2>3, FactorOrder, Sizes
  <2>5. p + j + 1 \in 1 .. Size
    BY <2>1, <2>3, <2>4 DEF HostTypeOK
  <2>6. image[el].data[p + j + 1] \in Data
    BY <2>1, <2>3, <2>5, ImageType DEF HostTypeOK, Size
  <2> QED
    BY <1>1, <1>4, <2>2, <2>6 DEF HostPacket, Payload
<1> QED
  BY <1>2, <1>3, <1>4

\* Every step of a session is a step of the device, or none.
LEMMA DeviceStep == Session /\ [SessionNext]_sessionVars => [Next]_vars
<1> SUFFICES ASSUME Session, [SessionNext]_sessionVars PROVE [Next]_vars
  OBVIOUS
<1>1. CASE Call
  BY <1>1, RequestsOfTool DEF Call, Next, Session
<1>2. CASE SendData
  BY <1>2, HostPacketType DEF SendData, Next
<1>3. CASE TakeData \/ TakeStatus
  BY <1>3 DEF TakeData, TakeStatus, In0_Process, Next
<1>4. CASE SendStatus \/ StatusOvertakes
  BY <1>4 DEF SendStatus, StatusOvertakes, Next
<1>5. CASE FinalReset \/ BusGlitch
  BY <1>5 DEF FinalReset, BusGlitch, Next
<1>6. CASE PowerFails
  BY <1>6 DEF PowerFails, Next
<1>7. CASE \/ CallStalled \/ TransferFails
           \/ Begin \/ NextElement \/ NextChunk \/ EraseLoop \/ EraseTail \/ SetAddress \/ Rerun
  BY <1>7 DEF CallStalled, TransferFails, Begin, NextElement, NextChunk, EraseLoop, EraseTail,
              SetAddress, Rerun
<1>8. CASE UNCHANGED sessionVars
  BY <1>8 DEF sessionVars
<1> QED
  BY <1>1, <1>2, <1>3, <1>4, <1>5, <1>6, <1>7, <1>8 DEF SessionNext, Progress

LEMMA DeviceInvariant == Session /\ [SessionNext]_sessionVars => Device'
  BY DeviceStep, SafetyStep, EndpointsStep, FilledStep DEF Session, Device, IInv

-----------------------------------------------------------------------------
(* What a call does to the device, request by request.                      *)

\* GETSTATUS: the reply is one packet, and the state moves on.
LEMMA GetStatusCall ==
  ASSUME Setup0_Process(GetStatusRequest)
  PROVE  /\ setup' = GetStatusRequest /\ bus' = "transfer" /\ ControlState' = "LAST_IN_DATA"
         /\ tx' = StatusReply(StatusAfterGet)
         /\ DeviceStatus' = StatusAfterGet
         /\ DeviceState' = IF StatusAfterGet # DeviceStatus THEN StatusAfterGet.bState
                           ELSE DeviceState
         /\ UNCHANGED <<Data_Mul_MaxPacketSize, wBlockNum, wlength, memVars>>
<1> DEFINE r == GetStatusRequest
<1>1. r.req = "GETSTATUS" /\ r.len = 6
  BY DEF GetStatusRequest
<1>2. SetupGetStatus(r)
  BY <1>1 DEF Setup0_Process, SetupDnload, SetupUpload, SetupGetState, SetupEndDnload,
              SetupEndUpload, SetupClrStatus, SetupAbort, SetupStandard, SetupUnsupported
<1>3. StartDataIn(r, 6, StatusReply(StatusAfterGet))
  BY <1>2 DEF SetupGetStatus, GetStatusReply
<1>4. /\ setup' = r /\ bus' = "transfer"
      /\ DataStageIn(6, 0, StatusReply(StatusAfterGet))
      /\ Data_Mul_MaxPacketSize' = Data_Mul_MaxPacketSize
  BY <1>1, <1>3 DEF StartDataIn, Opened
<1>5. ControlState' = "LAST_IN_DATA" /\ tx' = StatusReply(StatusAfterGet)
  BY <1>4, Sizes DEF DataStageIn
<1> QED
  BY <1>2, <1>4, <1>5 DEF SetupGetStatus

\* CLRSTATUS and ABORT have no data stage; ABORT forgets the pending operation.
LEMMA NoDataCall ==
  ASSUME NEW r, r.req \in {"CLRSTATUS", "ABORT"}, r.len = 0, Setup0_Process(r)
  PROVE  /\ setup' = r /\ bus' = "transfer" /\ ControlState' = "WAIT_STATUS_IN"
         /\ UNCHANGED <<Data_Mul_MaxPacketSize, memVars>>
         /\ r.req = "CLRSTATUS" => /\ UNCHANGED <<wBlockNum, wlength>>
                                   /\ DeviceState' \in {"dfuIDLE", "dfuERROR"}
         /\ r.req = "ABORT" =>
              \/ ~AbortAllowed /\ UNCHANGED <<DeviceState, wBlockNum, wlength>>
              \/ AbortAllowed /\ DeviceState' = "dfuIDLE" /\ wBlockNum' = 0 /\ wlength' = 0
<1>1. SetupClrStatus(r) \/ SetupAbort(r)
  BY DEF Setup0_Process, SetupDnload, SetupUpload, SetupGetState, SetupGetStatus,
         SetupEndDnload, SetupEndUpload, SetupStandard, SetupUnsupported
<1>2. ServedNoData(r)
  BY <1>1 DEF SetupClrStatus, SetupAbort
<1> QED
  BY <1>1, <1>2 DEF SetupClrStatus, SetupAbort, ServedNoData, Opened, StatusAfterClear

\* The device has no DETACH.
LEMMA DetachCall ==
  ASSUME NEW r, r.req = "DETACH", Setup0_Process(r)
  PROVE  /\ setup' = r /\ bus' = "transfer" /\ ControlState' = "STALLED"
         /\ UNCHANGED <<Data_Mul_MaxPacketSize, dfuVars, memVars>>
<1>1. SetupUnsupported(r)
  BY DEF Setup0_Process, SetupDnload, SetupUpload, SetupGetState, SetupGetStatus,
         SetupEndDnload, SetupEndUpload, SetupClrStatus, SetupAbort, SetupStandard
<1> QED
  BY <1>1 DEF SetupUnsupported, StallSetup, Opened, Stalled

\* A DNLOAD is accepted where the state allows it, and stalled elsewhere.
LEMMA DnloadCall ==
  ASSUME NEW r, r.req = "DNLOAD", r.len \in Nat \ {0}, Setup0_Process(r)
  PROVE  /\ setup' = r /\ bus' = "transfer"
         /\ UNCHANGED <<Data_Mul_MaxPacketSize, memVars>>
         /\ \/ /\ DnloadAllowed /\ ControlState' = "OUT_DATA"
               /\ Usb_wLength' = r.len /\ Usb_wOffset' = 0
               /\ DeviceState' = "dfuDNLOAD_SYNC" /\ wBlockNum' = r.blk /\ wlength' = r.len
            \/ ~DnloadAllowed /\ ControlState' = "STALLED" /\ UNCHANGED dfuVars
<1>1. SetupDnload(r) \/ (~DnloadAllowed /\ SetupUnsupported(r))
  BY DEF Setup0_Process, SetupUpload, SetupGetState, SetupGetStatus, SetupEndDnload,
         SetupEndUpload, SetupClrStatus, SetupAbort, SetupStandard, SetupUnsupported
<1>2. CASE SetupDnload(r)
  BY <1>2 DEF SetupDnload, StartDataOut, Opened
<1>3. CASE ~DnloadAllowed /\ SetupUnsupported(r)
  BY <1>3 DEF SetupUnsupported, StallSetup, Opened, Stalled
<1> QED
  BY <1>1, <1>2, <1>3

\* An UPLOAD of a whole block of the flash loads the first packet of it.
LEMMA UploadCall ==
  ASSUME NEW r, r.req = "UPLOAD", r.len = wTransferSize, r.blk \in Nat, r.blk > 1,
         Setup0_Process(r)
  PROVE  /\ setup' = r /\ bus' = "transfer"
         /\ UNCHANGED <<Data_Mul_MaxPacketSize, memVars>>
         /\ \/ /\ ControlState' \in {"IN_DATA", "LAST_IN_DATA"}
               /\ ControlState' = "LAST_IN_DATA" <=> NPackets = 1
               /\ tx' = UploadPacket(r.blk, 0)
               /\ Usb_wOffset' = MaxPacketSize
               /\ Usb_wLength' = wTransferSize - MaxPacketSize
               /\ DeviceState' = "dfuUPLOAD_IDLE"
            \/ ControlState' = "STALLED" /\ UNCHANGED dfuVars
<1>0. r.len \in Nat /\ r.len >= MaxPacketSize /\ r.len > 0
  BY Sizes
<1>1. SetupUpload(r) \/ SetupUnsupported(r)
  BY <1>0 DEF Setup0_Process, SetupDnload, SetupGetState, SetupGetStatus, SetupEndDnload,
              SetupEndUpload, SetupClrStatus, SetupAbort, SetupStandard
<1>2. CASE SetupUpload(r)
  <2>1. /\ UploadRoutine(r.blk, r.len) /\ MAL_Buffer' = MAL_Buffer
        /\ StartDataIn(r, r.len, UploadPacket(r.blk, 0))
    BY <1>2 DEF SetupUpload
  <2>2. /\ DataStageIn(r.len, 0, UploadPacket(r.blk, 0)) /\ setup' = r /\ bus' = "transfer"
        /\ Data_Mul_MaxPacketSize' = Data_Mul_MaxPacketSize
    BY <1>0, <2>1 DEF StartDataIn, Opened
  <2>3. PacketLength(r.len) = MaxPacketSize
    BY <1>0, Sizes DEF PacketLength
  <2>4. /\ Usb_wOffset' = MaxPacketSize /\ Usb_wLength' = wTransferSize - MaxPacketSize
        /\ tx' = UploadPacket(r.blk, 0)
        /\ ControlState' = IF r.len <= MaxPacketSize THEN "LAST_IN_DATA" ELSE "IN_DATA"
    BY <2>2, <2>3, Sizes DEF DataStageIn
  <2>5. r.len <= MaxPacketSize <=> NPackets = 1
    <3>1. NPackets > 1 => NPackets * MaxPacketSize >= 2 * MaxPacketSize
      BY Sizes
    <3> QED
      BY <3>1, Sizes
  <2>6. DeviceState' = "dfuUPLOAD_IDLE" /\ UNCHANGED memVars
    BY <2>1 DEF UploadRoutine, Enter, UploadState, memVars
  <2> QED
    BY <2>2, <2>4, <2>5, <2>6
<1>3. CASE SetupUnsupported(r)
  BY <1>3 DEF SetupUnsupported, StallSetup, Opened, Stalled
<1> QED
  BY <1>1, <1>2, <1>3

-----------------------------------------------------------------------------
(* The tool stays where it belongs: a call returns, fails, or goes on.      *)

\* Nothing but a call of its own goes on between the calls.
LEMMA NotCalling ==
  ASSUME CallOpen, pc \in LocalSites
  PROVE  ~calling /\ buf = <<>>
  BY DEF CallOpen, CallSites, LocalSites

\* The element and the chunk stay the same as long as el and p do.
LEMMA SameChunk ==
  ASSUME UNCHANGED <<image, el, p>>
  PROVE  /\ Size' = Size /\ address' = address /\ chunk_size' = chunk_size
         /\ InElement' <=> InElement
  BY DEF Size, address, chunk_size, InElement

\* The packets of a call are contents of the flash, and only an upload has any.
LEMMA GotType ==
  ASSUME Session, calling
  PROVE  /\ Got \in Seq(Content)
         /\ pc # "upload" => Got = <<>>
         /\ ControlState \notin {"IN_DATA", "LAST_IN_DATA"} => Got = buf
         /\ pc = "upload" /\ ControlState \in {"IN_DATA", "LAST_IN_DATA"} =>
              /\ Got = Append(buf, tx.data)
              /\ tx = UploadPacket(setup.blk, Len(buf) * MaxPacketSize)
              /\ Len(Got) = Len(buf) + 1
<1>1. buf \in Seq(Content) /\ (pc # "upload" => buf = <<>>)
  BY DEF Session, Tool, HostTypeOK, CallOpen
<1>2. CASE pc = "upload" /\ ControlState \in {"IN_DATA", "LAST_IN_DATA"}
  <2>1. tx = UploadPacket(setup.blk, Len(buf) * MaxPacketSize)
    BY <1>2 DEF Session, CallOpen, BlockUnderWay
  <2>2. tx \in Replies /\ \E c : tx = DataReply(c)
    BY <2>1 DEF UploadPacket, Session, Device, IInv, TypeOK
  <2>3. tx.data \in Content
    BY <2>2 DEF Replies, DataReply, NoReply
  <2> QED
    BY <1>1, <1>2, <2>1, <2>3 DEF Got
<1>3. CASE ~(pc = "upload" /\ ControlState \in {"IN_DATA", "LAST_IN_DATA"})
  BY <1>1, <1>3 DEF Got
<1> QED
  BY <1>2, <1>3

\* Sequences of packets, one after the other.
LEMMA Concatenated ==
  /\ <<>> \in Seq(Content) /\ Len(<<>>) = 0
  /\ \A f, g \in Seq(Content) : f \o g \in Seq(Content) /\ Len(f \o g) = Len(f) + Len(g)
  OBVIOUS

\* When an upload returns it has a whole block.
LEMMA BlockGot ==
  ASSUME Session, calling, pc = "upload", ControlState \in {"LAST_IN_DATA", "WAIT_STATUS_OUT"}
  PROVE  Len(Got) = NPackets
<1>1. BlockUnderWay
  BY DEF Session, CallOpen
<1>2. Len(buf) \in Nat
  BY DEF Session, Tool, HostTypeOK
<1> QED
  BY <1>1, <1>2, GotType, Sizes DEF BlockUnderWay

\* Where a call returns to the tool is again where it belongs.
LEMMA ToolReturns ==
  ASSUME Session, calling, NEW s, Returns(s), pc = "upload" => Len(Got) = NPackets
  PROVE  Tool'
<1> USE DEF Session, Tool
<1>1. /\ pc' = AfterReturn(pc, s) /\ file' = file \o Got
      /\ p' = IF pc = "poll" /\ pc' = "next_chunk" THEN p + NPackets ELSE p
      /\ calling' = FALSE /\ buf' = <<>>
      /\ UNCHANGED <<image, task, el, erase_address, last_erased, cmd>>
  BY DEF Returns, Goto
<1>2. pc \in CallSites
  BY DEF CallOpen
<1>3. pc' \in CallSites \cup LocalSites
  BY <1>1, <1>2 DEF AfterReturn, CallSites, LocalSites
<1>4. p' \in Nat
  BY <1>1, Sizes DEF HostTypeOK
<1>5. HostTypeOK'
  <2>1. file' \in Seq(Content) /\ buf' \in Seq(Content)
    BY <1>1, GotType, Concatenated DEF HostTypeOK
  <2>2. /\ image' \in Images /\ task' \in Tasks /\ el' \in Nat \ {0} /\ erase_address' \in Nat
        /\ last_erased' \in FlashUnits /\ cmd' \in Commands /\ calling' \in BOOLEAN
    BY <1>1 DEF HostTypeOK
  <2> QED
    BY <1>3, <1>4, <2>1, <2>2 DEF HostTypeOK
<1>6. CASE pc \in {"status", "clear", "abort", "clear_warn", "status_warn", "detach"}
  <2>1. pc' \in {"status", "clear", "abort", "clear_warn", "status_warn", "begin", "failed", "reset"}
    BY <1>1, <1>6 DEF AfterReturn
  <2> QED
    BY <1>5, <2>1 DEF InDownload, InUpload, SpecialSites
<1>7. CASE pc \in {"command", "busy", "result", "leave"}
  <2>1. pc' \in {"busy", "result", "leave", "idle", "failed"}
    BY <1>1, <1>7 DEF AfterReturn
  <2>2. UNCHANGED <<image, task, el, p, erase_address, cmd, file>>
    BY <1>1, <1>7, GotType DEF HostTypeOK
  <2>3. InDownload'
    BY <1>7, <2>1, <2>2, SameChunk DEF InDownload, SpecialSites, OfChunk
  <2>4. InUpload'
    BY <1>7, <2>1, <2>2 DEF InUpload, SpecialSites
  <2> QED
    BY <1>5, <2>3, <2>4
<1>8. CASE pc = "idle"
  <2>1. \/ pc' = "failed"
        \/ pc' = "erase" /\ cmd.op = "ERASE"
        \/ pc' = "upload" /\ task.op = "upload"
        \/ pc' = "chunk" /\ task.op # "upload"
    BY <1>1, <1>8 DEF AfterReturn
  <2>2. UNCHANGED <<image, task, el, p, erase_address, cmd, file>>
    BY <1>1, <1>8, GotType DEF HostTypeOK
  <2>3. task.op \in {"download", "upload"}
    BY DEF HostTypeOK, Tasks
  <2>4. task.op = "upload" => cmd.op # "ERASE" /\ file = <<>> /\ Readable(task.addr)
    BY <1>8 DEF InUpload, SpecialSites
  <2>5. InDownload'
    BY <1>8, <2>1, <2>2, <2>3, <2>4, SameChunk DEF InDownload, SpecialSites, OfChunk
  <2>6. task.op = "upload" => Len(file) < UploadLimit /\ Len(file) = 0 * NPackets
    <3>1. task.op = "upload" => UploadLimit \in Nat \ {0}
      BY <2>4, FlashOrder, SessionAssumption, LimitType DEF HostTypeOK, Tasks, UploadLimit
    <3> QED
      BY <2>4, <3>1, Sizes
  <2>7. UploadLimit' = UploadLimit
    BY <2>2 DEF UploadLimit
  <2>8. InUpload'
    BY <2>1, <2>2, <2>4, <2>6, <2>7 DEF InUpload, SpecialSites
  <2> QED
    BY <1>5, <2>5, <2>8
<1>9. CASE pc \in {"chunk", "poll"}
  <2>1. pc' \in {"poll", "next_chunk", "failed"}
    BY <1>1, <1>9 DEF AfterReturn
  <2>2. pc' = "poll" => p' = p
    BY <1>1
  <2>3. task.op = "download" /\ InElement
    BY <1>9 DEF InDownload
  <2>4. InDownload'
    BY <1>1, <2>1, <2>2, <2>3, SameChunk DEF InDownload, SpecialSites, InElement
  <2>5. InUpload'
    BY <2>1 DEF InUpload, SpecialSites
  <2> QED
    BY <1>5, <2>4, <2>5
<1>10. CASE pc = "upload"
  <2>1. pc' = IF LastBlock THEN "detach" ELSE "upload"
    BY <1>1, <1>10 DEF AfterReturn
  <2>2. InDownload'
    BY <2>1 DEF InDownload, SpecialSites
  <2>3. Len(file') = Len(file) + NPackets /\ UploadLimit' = UploadLimit
    BY <1>1, <1>10, GotType, Concatenated DEF HostTypeOK, UploadLimit
  <2>4. PICK q \in Nat : Len(file) = q * NPackets
    BY <1>10 DEF InUpload
  <2>5. Len(file') = (q + 1) * NPackets /\ q + 1 \in Nat
    BY <2>3, <2>4, Sizes
  <2>6. UploadLimit \in Nat /\ Len(file) \in Nat
    BY <1>10, TransactionType
  <2>7. pc' = "upload" => Len(file') < UploadLimit'
    BY <1>10, <2>1, <2>3, <2>6, Sizes DEF LastBlock
  <2>8. InUpload'
    BY <1>1, <1>10, <2>1, <2>5, <2>7 DEF InUpload, SpecialSites
  <2> QED
    BY <1>5, <2>2, <2>8
<1> QED
  BY <1>2, <1>6, <1>7, <1>8, <1>9, <1>10 DEF CallSites

\* So it is when a call has failed, or the handle has died.
LEMMA ToolFails ==
  ASSUME Tool, NEW site \in {"failed", "status_warn", "reset", "finished"}, Goto(site), UNCHANGED file
  PROVE  Tool'
<1>1. /\ pc' = site /\ p' = p /\ calling' = FALSE /\ buf' = <<>>
      /\ UNCHANGED <<image, task, file, el, erase_address, last_erased, cmd>>
  BY DEF Goto
<1>2. HostTypeOK'
  <2>1. buf' \in Seq(Content) /\ file' \in Seq(Content)
    BY <1>1, Concatenated DEF Tool, HostTypeOK
  <2>2. pc' \in CallSites \cup LocalSites
    BY <1>1 DEF CallSites, LocalSites
  <2> QED
    BY <1>1, <2>1, <2>2 DEF Tool, HostTypeOK
<1> QED
  BY <1>1, <1>2 DEF Tool, InDownload, InUpload, SpecialSites

\* Erasable addresses are in the flash, past the start of the application.
LEMMA AnnouncedType ==
  ASSUME NEW a \in Nat, Erasable(a) \/ Writeable(a)
  PROVE  a \in FlashUnits /\ a >= ApplicationAddress
<1>1. PICK s \in Segments : s.start <= a /\ a <= s.end /\ (s.writeable \/ s.erasable)
  BY DEF Erasable, Writeable, find_segment
<1>2. s.start \in Nat /\ s.end \in Nat
  BY SessionAssumption DEF Segment
<1>3. a \in s.start .. s.end
  BY <1>1, <1>2
<1> QED
  BY <1>1, <1>2, <1>3, SessionAssumption, ConstantsAssumption

\* The tool decides to erase a page of the chunk.
LEMMA ToolErases ==
  ASSUME Session, pc = "erase", NEW a, a \in {erase_address, LastOfChunk},
         address <= a, a < address + chunk_size,
         Erase(a), erase_address' \in Nat, erase_address' >= erase_address,
         UNCHANGED <<image, task, file, buf, calling, el, p>>
  PROVE  Tool'
<1> USE DEF Session, Tool
<1>1. task.op = "download" /\ InElement /\ erase_address >= address
  BY DEF InDownload
<1>2. address \in Nat /\ chunk_size \in Nat
  BY <1>1, ChunkType
<1>3. a \in Nat
  BY <1>2 DEF HostTypeOK, LastOfChunk
<1>4. erase_address \in Nat
  BY DEF HostTypeOK
<1>5. CASE ~Erasable(a)
  <2>1. pc' = "failed" /\ UNCHANGED <<cmd, last_erased>>
    BY <1>5 DEF Erase
  <2> QED
    BY <2>1 DEF HostTypeOK, InDownload, InUpload, SpecialSites, CallSites, LocalSites
<1>6. CASE Erasable(a)
  <2>1. pc' = "command" /\ cmd' = [op |-> "ERASE", addr |-> a] /\ last_erased' = a
    BY <1>6 DEF Erase
  <2>2. cmd' \in Commands /\ last_erased' \in FlashUnits
    BY <1>3, <1>6, <2>1, AnnouncedType, ToolAssumption
  <2>3. HostTypeOK'
    BY <2>1, <2>2 DEF HostTypeOK, CallSites
  <2>4. erase_address' >= address
    BY <1>1, <1>2, <1>4
  <2>5. Erasable(cmd'.addr)
    BY <1>6, <2>1
  <2>6. OfChunk'
    BY <2>1, <2>4, <2>5, SameChunk DEF OfChunk, Erasable, find_segment
  <2>7. InDownload' /\ InUpload'
    BY <1>1, <2>1, <2>6, SameChunk DEF InDownload, InUpload, SpecialSites
  <2> QED
    BY <2>3, <2>7
<1> QED
  BY <1>5, <1>6

\* The steps of the tool between its calls.
LEMMA ToolLocal ==
  ASSUME Session, \/ Begin \/ NextElement \/ NextChunk \/ EraseLoop \/ EraseTail \/ SetAddress
                  \/ FinalReset \/ Rerun
  PROVE  Tool'
<1> USE DEF Session, Tool
<1>1. CASE Begin
  <2>1. /\ file' = <<>> /\ pc' \in {"element", "upload", "set_address", "failed"}
        /\ pc' = "element" => task.op = "download"
        /\ pc' # "element" => task.op # "download"
        /\ pc' = "set_address" => task.addr # 0 /\ Readable(task.addr)
        /\ pc' = "upload" => task.addr = 0
        /\ UNCHANGED <<image, task, buf, calling, el, p, erase_address, last_erased, cmd>>
    BY <1>1 DEF Begin
  <2>2. task.op \in {"download", "upload"}
    BY DEF HostTypeOK, Tasks
  <2>3. HostTypeOK'
    <3>1. file' \in Seq(Content) /\ pc' \in CallSites \cup LocalSites
      BY <2>1, Concatenated DEF CallSites, LocalSites
    <3> QED
      BY <2>1, <3>1 DEF HostTypeOK
  <2>4. InDownload'
    BY <2>1, <2>2 DEF InDownload, SpecialSites
  <2>5. pc' = "upload" => Len(file') < UploadLimit' /\ Len(file') = 0 * NPackets
    BY <2>1, LimitType, Sizes DEF UploadLimit
  <2>6. InUpload'
    BY <2>1, <2>2, <2>5 DEF InUpload, SpecialSites
  <2> QED
    BY <2>3, <2>4, <2>6
<1>2. CASE NextElement
  <2>1. /\ pc = "element" /\ pc' \in {"detach", "next_chunk", "failed"} /\ p' = 0
        /\ pc' = "next_chunk" => ~(el > Len(image))
        /\ UNCHANGED <<image, task, file, buf, calling, el, erase_address, last_erased, cmd>>
    BY <1>2 DEF NextElement
  <2>2. Len(image) \in Nat /\ el \in Nat
    BY SessionAssumption DEF HostTypeOK
  <2> QED
    BY <2>1, <2>2 DEF HostTypeOK, InDownload, InUpload, SpecialSites, CallSites, LocalSites
<1>3. CASE NextChunk
  <2>1. pc = "next_chunk" /\ el <= Len(image) /\ task.op = "download"
    BY <1>3 DEF NextChunk, InDownload
  <2>2. CASE ~MoreToSend
    <3>1. /\ pc' = "element" /\ el' = el + 1
          /\ UNCHANGED <<image, task, file, buf, calling, p, erase_address, last_erased, cmd>>
      BY <1>3, <2>2 DEF NextChunk
    <3>2. HostTypeOK'
      BY <3>1 DEF HostTypeOK, LocalSites
    <3> QED
      BY <2>1, <3>1, <3>2 DEF InDownload, InUpload, SpecialSites
  <2>3. CASE MoreToSend
    <3>1. /\ pc' \in {"failed", "erase", "set_address"}
          /\ pc' # "failed" => Writeable(address)
          /\ erase_address' = address
          /\ UNCHANGED <<image, task, file, buf, calling, el, p, last_erased, cmd>>
      BY <1>3, <2>3 DEF NextChunk
    <3>2. el \in 1 .. Len(image)
      BY <2>1, SessionAssumption DEF HostTypeOK
    <3>3. address \in Nat
      BY <3>2, ImageType DEF HostTypeOK, address
    <3>4. HostTypeOK'
      BY <3>1, <3>3 DEF HostTypeOK, LocalSites
    <3>5. pc' # "failed" => InElement'
      BY <2>1, <2>3, <3>1, SameChunk DEF InElement, MoreToSend
    <3>6. InDownload' /\ InUpload'
      BY <2>1, <3>1, <3>3, <3>5, SameChunk DEF InDownload, InUpload, SpecialSites
    <3> QED
      BY <3>4, <3>6
  <2> QED
    BY <2>2, <2>3
<1>4. CASE EraseLoop
  <2>1. /\ pc = "erase" /\ erase_address < address + chunk_size
        /\ erase_address' = erase_address + page_size
        /\ UNCHANGED <<image, task, file, buf, calling, el, p>>
    BY <1>4 DEF EraseLoop
  <2>2. task.op = "download" /\ InElement /\ erase_address >= address
    BY <2>1 DEF InDownload
  <2>3. page_size \in Nat
    <3>1. PICK seg \in Segments : seg \in find_segment(address)
      BY <2>2 DEF InElement, Writeable, find_segment
    <3>2. (CHOOSE s \in find_segment(address) : TRUE) \in Segments
      BY <3>1 DEF find_segment
    <3> QED
      BY <3>2, SessionAssumption DEF page_size, Segment
  <2>4. erase_address' \in Nat /\ erase_address' >= erase_address
    BY <2>1, <2>3 DEF HostTypeOK
  <2>5. CASE Erase(erase_address)
    BY <2>1, <2>2, <2>4, <2>5, ToolErases
  <2>6. CASE UNCHANGED <<pc, cmd, last_erased>>
    <3>1. HostTypeOK'
      BY <2>1, <2>4, <2>6 DEF HostTypeOK
    <3>2. erase_address' >= address
      BY <2>2, <2>4, ChunkType DEF HostTypeOK
    <3> QED
      BY <2>1, <2>2, <2>6, <3>1, <3>2, SameChunk DEF InDownload, InUpload, SpecialSites
  <2> QED
    BY <1>4, <2>5, <2>6 DEF EraseLoop
<1>5. CASE EraseTail
  <2>1. /\ pc = "erase" /\ UNCHANGED <<image, task, file, buf, calling, el, p, erase_address>>
    BY <1>5 DEF EraseTail
  <2>2. task.op = "download" /\ InElement /\ erase_address >= address
    BY <2>1 DEF InDownload
  <2>3. address <= LastOfChunk /\ LastOfChunk < address + chunk_size
    BY <2>2, ChunkType DEF LastOfChunk
  <2>4. CASE Erase(LastOfChunk)
    BY <2>1, <2>3, <2>4, ToolErases DEF HostTypeOK
  <2>5. CASE pc' = "set_address" /\ UNCHANGED <<cmd, last_erased>>
    BY <2>1, <2>2, <2>5, SameChunk
       DEF HostTypeOK, InDownload, InUpload, SpecialSites, LocalSites
  <2> QED
    BY <1>5, <2>4, <2>5 DEF EraseTail
<1>6. CASE SetAddress
  <2>1. /\ pc = "set_address" /\ pc' = "command"
        /\ cmd' = [op |-> "SETADDRESSPOINTER",
                   addr |-> IF task.op = "upload" THEN task.addr ELSE address]
        /\ UNCHANGED <<image, task, file, buf, calling, el, p, erase_address, last_erased>>
    BY <1>6 DEF SetAddress
  <2>2. task.op \in {"download", "upload"} /\ (task.op = "upload" => task.addr \in Addresses)
    BY DEF HostTypeOK, Tasks
  <2>3. CASE task.op = "upload"
    <3>1. task.addr # 0 /\ Readable(task.addr) /\ file = <<>>
      BY <2>1, <2>3 DEF InUpload
    <3>2. cmd' \in Commands
      BY <2>1, <2>2, <2>3, <3>1, ToolAssumption
    <3>3. HostTypeOK'
      BY <2>1, <3>2 DEF HostTypeOK, CallSites
    <3> QED
      BY <2>1, <2>3, <3>1, <3>3 DEF InDownload, InUpload, SpecialSites, Readable, find_segment
  <2>4. CASE task.op = "download"
    <3>1. InElement /\ erase_address >= address
      BY <2>1, <2>4 DEF InDownload
    <3>2. cmd' \in Commands
      BY <2>1, <2>4, <3>1, ChunkType, ToolAssumption DEF InElement
    <3>3. HostTypeOK'
      BY <2>1, <3>2 DEF HostTypeOK, CallSites
    <3>4. OfChunk'
      BY <2>1, <2>4, <3>1, SameChunk DEF OfChunk
    <3> QED
      BY <2>1, <2>4, <3>1, <3>3, <3>4, SameChunk DEF InDownload, InUpload, SpecialSites
  <2> QED
    BY <2>2, <2>3, <2>4
<1>7. CASE FinalReset
  <2>1. /\ pc' = "finished"
        /\ UNCHANGED <<image, task, file, buf, calling, el, p, erase_address, last_erased, cmd>>
    BY <1>7 DEF FinalReset
  <2> QED
    BY <2>1 DEF HostTypeOK, InDownload, InUpload, SpecialSites, LocalSites
<1>8. CASE Rerun
  <2>1. /\ pc' = "status" /\ calling' = FALSE /\ el' = 1 /\ p' = 0 /\ erase_address' = 0
        /\ last_erased' = 0 /\ cmd' = CommandList /\ task' \in Tasks
        /\ UNCHANGED <<image, file, buf>>
    BY <1>8 DEF Rerun
  <2>2. /\ pc' \in CallSites \cup LocalSites /\ cmd' \in Commands /\ last_erased' \in FlashUnits
        /\ el' \in Nat \ {0} /\ p' \in Nat /\ erase_address' \in Nat /\ calling' \in BOOLEAN
    <3>1. pc' \in CallSites
      BY <2>1 DEF CallSites
    <3>2. cmd' \in Commands
      BY <2>1, ConstantsAssumption
    <3>3. el' \in Nat \ {0} /\ p' \in Nat /\ erase_address' \in Nat /\ last_erased' \in FlashUnits
      BY <2>1, FlashOrder
    <3>4. calling' \in BOOLEAN
      BY <2>1
    <3> QED
      BY <3>1, <3>2, <3>3, <3>4
  <2>3. HostTypeOK'
    BY <2>1, <2>2 DEF HostTypeOK
  <2> QED
    BY <2>1, <2>3 DEF InDownload, InUpload, SpecialSites
<1> QED
  BY <1>1, <1>2, <1>3, <1>4, <1>5, <1>6, <1>7, <1>8

-----------------------------------------------------------------------------
(* The open call.                                                           *)

\* The request of a site is the same while the tool is there.
LEMMA SameRequest ==
  ASSUME UNCHANGED <<image, el, p, file, pc>>
  PROVE  RequestOf(pc)' = RequestOf(pc)
  BY DEF RequestOf, Transaction, chunk_size, Size

LEMMA CallOpens ==
  ASSUME Session, Call
  PROVE  Tool' /\ CallOpen' /\ AtRest'
<1> USE DEF Session, Tool
<1> DEFINE r == RequestOf(pc)
<1>1. /\ pc \in CallSites /\ ~calling /\ calling' = TRUE /\ Setup0_Process(r)
      /\ UNCHANGED <<image, task, file, buf, pc, el, p, erase_address, last_erased, cmd>>
  BY DEF Call
<1>2. buf = <<>> /\ Data_Mul_MaxPacketSize = FALSE
  BY <1>1 DEF CallOpen
<1>3. Tool'
  BY <1>1, SameChunk
     DEF HostTypeOK, InDownload, InUpload, OfChunk, Erasable, Readable, UploadLimit, LimitFrom,
         find_segment
<1>4. r = RequestOf(pc)'
  BY <1>1, SameRequest
<1>5. /\ setup' = r /\ bus' = "transfer" /\ Data_Mul_MaxPacketSize' = FALSE
      /\ StageOfRequest'
      /\ ControlState' \in {"OUT_DATA", "LAST_OUT_DATA"} => Usb_wLength' > 0
      /\ pc = "upload" => BlockUnderWay'
      /\ pc = "detach" => ControlState' = "STALLED"
  <2>1. CASE pc \in GetStatusSites
    <3>1. r = GetStatusRequest
      BY <2>1, RequestOfSite
    <3>2. /\ setup' = r /\ bus' = "transfer" /\ ControlState' = "LAST_IN_DATA"
          /\ Data_Mul_MaxPacketSize' = FALSE
      BY <1>1, <1>2, <3>1, GetStatusCall
    <3> QED
      BY <2>1, <3>1, <3>2 DEF StageOfRequest, GetStatusRequest, GetStatusSites
  <2>2. CASE pc \in {"clear", "clear_warn", "abort", "leave"}
    <3>1. r.req \in {"CLRSTATUS", "ABORT"} /\ r.len = 0
      BY <2>2, RequestOfSite
    <3>2. /\ setup' = r /\ bus' = "transfer" /\ ControlState' = "WAIT_STATUS_IN"
          /\ Data_Mul_MaxPacketSize' = FALSE
      BY <1>1, <1>2, <3>1, NoDataCall
    <3> QED
      BY <2>2, <3>1, <3>2 DEF StageOfRequest
  <2>3. CASE pc = "detach"
    <3>1. r.req = "DETACH"
      BY <2>3, RequestOfSite
    <3>2. /\ setup' = r /\ bus' = "transfer" /\ ControlState' = "STALLED"
          /\ Data_Mul_MaxPacketSize' = FALSE
      BY <1>1, <1>2, <3>1, DetachCall
    <3> QED
      BY <2>3, <3>1, <3>2 DEF StageOfRequest
  <2>4. CASE pc \in {"command", "chunk"}
    <3>1. r.req = "DNLOAD" /\ r.len \in Nat \ {0}
      <4>1. CASE pc = "command"
        BY <4>1, RequestOfSite
      <4>2. CASE pc = "chunk"
        <5>1. r.req = "DNLOAD" /\ r.len = chunk_size * MaxPacketSize
          BY <4>2, RequestOfSite DEF DnloadChunk
        <5>2. chunk_size \in 1 .. NPackets
          BY <4>2, ChunkType DEF InDownload
        <5>3. chunk_size * MaxPacketSize > 0
          BY <5>2, Sizes
        <5> QED
          BY <5>1, <5>2, <5>3, Sizes
      <4> QED
        BY <2>4, <4>1, <4>2
    <3>2. /\ setup' = r /\ bus' = "transfer" /\ Data_Mul_MaxPacketSize' = FALSE
          /\ \/ ControlState' = "OUT_DATA" /\ Usb_wLength' = r.len
             \/ ControlState' = "STALLED"
      BY <1>1, <1>2, <3>1, DnloadCall
    <3> QED
      BY <2>4, <3>1, <3>2 DEF StageOfRequest
  <2>5. CASE pc = "upload"
    <3>1. /\ r.req = "UPLOAD" /\ r.len = wTransferSize /\ r.blk \in Nat /\ r.blk > 1
      BY <2>5, RequestOfSite, TransactionType DEF UploadBlock
    <3>2. /\ setup' = r /\ bus' = "transfer" /\ Data_Mul_MaxPacketSize' = FALSE
          /\ UNCHANGED memVars
          /\ \/ /\ ControlState' \in {"IN_DATA", "LAST_IN_DATA"}
                /\ ControlState' = "LAST_IN_DATA" <=> NPackets = 1
                /\ tx' = UploadPacket(r.blk, 0)
                /\ Usb_wOffset' = MaxPacketSize
                /\ Usb_wLength' = wTransferSize - MaxPacketSize
             \/ ControlState' = "STALLED"
      BY <1>1, <1>2, <3>1, UploadCall
    <3>3. Len(buf') = 0
      BY <1>1, <1>2
    <3>4. CASE ControlState' = "STALLED"
      BY <2>5, <3>1, <3>2, <3>4 DEF StageOfRequest, BlockUnderWay
    <3>5. CASE ControlState' \in {"IN_DATA", "LAST_IN_DATA"}
      <4>1. UploadPacket(r.blk, 0) = UploadPacket(setup.blk, Len(buf) * MaxPacketSize)'
        <5>1. Len(buf') * MaxPacketSize = 0
          BY <3>3, Sizes
        <5> QED
          BY <3>2, <5>1 DEF UploadPacket, BlockAddress, Read, memVars
      <4>2. /\ Usb_wOffset' = (Len(buf') + 1) * MaxPacketSize
            /\ Usb_wLength' = (NPackets - (Len(buf') + 1)) * MaxPacketSize
        BY <3>2, <3>3, <3>5, Sizes
      <4>3. Len(buf') < NPackets /\ (ControlState' = "LAST_IN_DATA" <=> Len(buf') + 1 = NPackets)
        BY <3>2, <3>3, <3>5, Sizes
      <4>4. BlockUnderWay'
        BY <3>2, <3>5, <4>1, <4>2, <4>3 DEF BlockUnderWay
      <4> QED
        BY <2>5, <3>1, <3>2, <3>5, <4>4 DEF StageOfRequest
    <3> QED
      BY <3>2, <3>4, <3>5
  <2> QED
    BY <1>1, <2>1, <2>2, <2>3, <2>4, <2>5 DEF CallSites, GetStatusSites
<1>6. CallOpen'
  BY <1>1, <1>2, <1>4, <1>5 DEF CallOpen
<1>7. AtRest'
  BY <1>1 DEF AtRest, CallSites
<1> QED
  BY <1>3, <1>6, <1>7

LEMMA DataSent ==
  ASSUME Session, SendData
  PROVE  Tool' /\ CallOpen' /\ AtRest'
<1> USE DEF Session, Tool
<1>1. /\ calling /\ UNCHANGED hostVars /\ OutData(HostPacket)
      /\ ControlState \in {"OUT_DATA", "LAST_OUT_DATA"}
  BY DEF SendData
<1>2. Tool'
  BY <1>1, SameChunk
     DEF hostVars, HostTypeOK, InDownload, InUpload, OfChunk, Erasable, Readable, UploadLimit,
         LimitFrom, find_segment
<1>3. pc \in {"command", "chunk"} /\ setup = RequestOf(pc) /\ setup.req = "DNLOAD"
  BY <1>1, NextPacket, RequestOfSite DEF DnloadChunk
<1>4. RequestOf(pc)' = RequestOf(pc)
  BY <1>1, SameRequest DEF hostVars
<1>5. /\ Usb_wLength' = Usb_wLength - PacketLength(Usb_wLength)
      /\ ControlState' = StageAfter(Usb_wLength')
      /\ UNCHANGED <<setup, bus, Data_Mul_MaxPacketSize>>
  BY <1>1 DEF OutData
<1>6. Usb_wLength' \in Nat
  BY <1>5, PacketLengthType DEF Device, IInv, TypeOK
<1>7. /\ ControlState' \in {"WAIT_STATUS_IN", "OUT_DATA", "LAST_OUT_DATA"}
      /\ ControlState' # "WAIT_STATUS_IN" => Usb_wLength' > 0
  BY <1>5, <1>6 DEF StageAfter
<1>8. CallOpen'
  BY <1>1, <1>3, <1>4, <1>5, <1>7, SameChunk DEF hostVars, CallOpen, StageOfRequest
<1> QED
  BY <1>1, <1>2, <1>3, <1>8 DEF AtRest, hostVars

LEMMA DataTaken ==
  ASSUME Session, TakeData
  PROVE  Tool' /\ CallOpen' /\ AtRest'
<1> USE DEF Session, Tool
<1>1. /\ calling /\ buf' = Got /\ (InData \/ InLastData)
      /\ UNCHANGED <<image, task, file, pc, calling, el, p, erase_address, last_erased, cmd>>
  BY DEF TakeData
<1>2. /\ ControlState \in {"IN_DATA", "LAST_IN_DATA"}
      /\ UNCHANGED <<setup, bus>>
      /\ Data_Mul_MaxPacketSize' = FALSE
  BY <1>1 DEF InData, InLastData, CallOpen
<1>3. setup = RequestOf(pc) /\ pc \in CallSites /\ StageOfRequest
  BY <1>1 DEF CallOpen
<1>4. setup.req \in {"GETSTATUS", "UPLOAD"}
  <2>1. setup.req \notin {"CLRSTATUS", "ABORT", "DETACH", "DNLOAD"}
    BY <1>2, <1>3 DEF StageOfRequest
  <2>2. setup.req \in {"GETSTATUS", "CLRSTATUS", "ABORT", "DETACH", "DNLOAD", "UPLOAD"}
    BY <1>3, RequestOfSite
       DEF CallSites, GetStatusSites, GetStatusRequest, DnloadChunk, UploadBlock
  <2> QED
    BY <2>1, <2>2
<1>5. Tool'
  BY <1>1, SameChunk, GotType
     DEF HostTypeOK, InDownload, InUpload, OfChunk, Erasable, Readable, UploadLimit, LimitFrom,
         find_segment
<1>6. RequestOf(pc)' = RequestOf(pc)
  BY <1>1, SameRequest
<1>7. AtRest'
  BY <1>1, <1>3 DEF AtRest, CallSites
<1>8. CASE setup.req = "GETSTATUS"
  <2>1. ControlState = "LAST_IN_DATA" /\ pc # "upload"
    BY <1>2, <1>3, <1>8, RequestOfSite DEF StageOfRequest, UploadBlock
  <2>2. ControlState' = "WAIT_STATUS_OUT" /\ buf' = <<>>
    BY <1>1, <2>1, GotType DEF InData, InLastData, CallOpen
  <2> QED
    BY <1>1, <1>2, <1>3, <1>5, <1>6, <1>7, <1>8, <2>1, <2>2 DEF CallOpen, StageOfRequest
<1>9. CASE setup.req = "UPLOAD"
  <2>1. pc = "upload" /\ setup.blk = Transaction /\ setup.len = wTransferSize
    BY <1>3, <1>9, RequestOfSite
       DEF CallSites, GetStatusSites, GetStatusRequest, DnloadChunk, UploadBlock
  <2>2. BlockUnderWay /\ Len(buf) \in Nat /\ Len(Got) = Len(buf) + 1
    <3>1. Len(buf) \in Nat
      BY DEF HostTypeOK
    <3>2. BlockUnderWay
      BY <1>1, <2>1 DEF CallOpen
    <3> QED
      BY <1>1, <1>2, <2>1, <3>1, <3>2, GotType
  <2>3. CASE InLastData
    <3>1. ControlState = "LAST_IN_DATA" /\ ControlState' = "WAIT_STATUS_OUT"
      BY <2>3 DEF InLastData, CallOpen
    <3>2. Len(buf') = NPackets
      BY <1>1, <1>2, <2>2, <3>1 DEF BlockUnderWay
    <3>3. BlockUnderWay'
      BY <3>1, <3>2 DEF BlockUnderWay
    <3> QED
      BY <1>1, <1>2, <1>3, <1>5, <1>6, <1>7, <1>9, <2>1, <3>1, <3>3 DEF CallOpen, StageOfRequest
  <2>4. CASE InData
    <3> DEFINE n == Usb_wLength
    <3>1. /\ ControlState = "IN_DATA"
          /\ DataStageIn(n, Usb_wOffset, UploadPacket(setup.blk, Usb_wOffset))
          /\ UNCHANGED <<Pointer, flash>>
      BY <1>9, <2>4 DEF InData, UploadRoutine
    <3> DEFINE m == NPackets - (Len(buf) + 1)
    <3>2. m \in Nat \ {0} /\ n = m * MaxPacketSize /\ Usb_wOffset = (Len(buf) + 1) * MaxPacketSize
      BY <2>2, <3>1, Sizes DEF BlockUnderWay
    <3> HIDE DEF m
    <3>3. n \in Nat /\ n >= MaxPacketSize /\ (n <= MaxPacketSize <=> m = 1)
      <4>1. m > 1 => m * MaxPacketSize >= 2 * MaxPacketSize
        BY <3>2, Sizes
      <4>2. m = 1 => m * MaxPacketSize = MaxPacketSize
        BY Sizes
      <4>3. m * MaxPacketSize \in Nat
        BY <3>2, Sizes
      <4> QED
        BY <3>2, <4>1, <4>2, <4>3, Sizes
    <3>4. PacketLength(n) = MaxPacketSize
      BY <3>3, Sizes DEF PacketLength
    <3>5. /\ ControlState' = IF n <= MaxPacketSize THEN "LAST_IN_DATA" ELSE "IN_DATA"
          /\ Usb_wLength' = n - MaxPacketSize /\ Usb_wOffset' = Usb_wOffset + MaxPacketSize
          /\ tx' = UploadPacket(setup.blk, Usb_wOffset)
      BY <3>1, <3>4 DEF DataStageIn
    <3>6. Len(buf') = Len(buf) + 1
      BY <1>1, <2>2
    <3>7. /\ Usb_wOffset' = (Len(buf') + 1) * MaxPacketSize
          /\ Usb_wLength' = (NPackets - (Len(buf') + 1)) * MaxPacketSize
      BY <2>2, <3>2, <3>5, <3>6, Sizes DEF m
    <3>8. Len(buf') < NPackets /\ (ControlState' = "LAST_IN_DATA" <=> Len(buf') + 1 = NPackets)
      BY <2>2, <3>2, <3>3, <3>5, <3>6, Sizes DEF m
    <3>9. tx' = UploadPacket(setup.blk, Len(buf) * MaxPacketSize)'
      BY <1>2, <2>2, <3>1, <3>2, <3>5, <3>6 DEF UploadPacket, BlockAddress, Read
    <3>10. BlockUnderWay'
      BY <3>5, <3>7, <3>8, <3>9 DEF BlockUnderWay
    <3> QED
      BY <1>1, <1>2, <1>3, <1>5, <1>6, <1>7, <1>9, <2>1, <3>5, <3>10 DEF CallOpen, StageOfRequest
  <2> QED
    BY <1>1, <2>3, <2>4
<1> QED
  BY <1>4, <1>8, <1>9

\* A call that returns leaves the endpoint stalled, and an upload has come to its last packet.
LEMMA Returned ==
  ASSUME Session, \/ TakeStatus \/ SendStatus \/ StatusOvertakes
  PROVE  /\ calling /\ Returns(IF TakeStatus THEN DeviceStatus ELSE tx.status)
         /\ ControlState' = "STALLED" /\ Data_Mul_MaxPacketSize' = FALSE
         /\ pc = "upload" => Len(Got) = NPackets
<1>1. calling /\ Data_Mul_MaxPacketSize = FALSE
  BY DEF Session, CallOpen, TakeStatus, SendStatus, StatusOvertakes
<1>2. pc = "upload" => ControlState # "WAIT_STATUS_IN"
  BY <1>1, RequestOfSite DEF Session, CallOpen, StageOfRequest, UploadBlock
<1>3. CASE TakeStatus
  BY <1>1, <1>2, <1>3 DEF TakeStatus, InStatus, Stalled, ep0Rest
<1>4. CASE SendStatus
  <2>1. ~TakeStatus
    BY <1>4 DEF SendStatus, TakeStatus, OutStatusPlain, OutStatusBusy, StatusStage
  <2> QED
    BY <1>1, <1>4, <2>1, BlockGot
       DEF SendStatus, OutStatusPlain, OutStatusBusy, StatusStage, Stalled, ep0Rest
<1>5. CASE StatusOvertakes
  <2>1. ~TakeStatus
    BY <1>5 DEF StatusOvertakes, TakeStatus
  <2> QED
    BY <1>1, <1>5, <2>1, BlockGot DEF StatusOvertakes, OutEarly, Stalled, ep0Rest
<1> QED
  BY <1>3, <1>4, <1>5

LEMMA CallReturns ==
  ASSUME Session, \/ TakeStatus \/ SendStatus \/ StatusOvertakes
  PROVE  Tool' /\ CallOpen' /\ AtRest'
<1>1. PICK s : /\ calling /\ Returns(s)
               /\ ControlState' = "STALLED" /\ Data_Mul_MaxPacketSize' = FALSE
               /\ pc = "upload" => Len(Got) = NPackets
  BY Returned
<1>2. Tool'
  BY <1>1, ToolReturns
<1>3. pc' = AfterReturn(pc, s) /\ calling' = FALSE /\ buf' = <<>> /\ pc \in CallSites
  BY <1>1 DEF Returns, Goto, Session, CallOpen
<1>4. pc' # "finished"
  BY <1>3 DEF AfterReturn, CallSites
<1> QED
  BY <1>1, <1>2, <1>3, <1>4 DEF CallOpen, AtRest

LEMMA CallFails ==
  ASSUME Session, CallStalled \/ TransferFails
  PROVE  Tool' /\ CallOpen' /\ AtRest'
<1>1. calling /\ Goto(AfterError(pc)) /\ UNCHANGED file /\ UNCHANGED vars
  BY DEF CallStalled, TransferFails, Errs
<1>2. AfterError(pc) \in {"failed", "status_warn", "reset"}
  BY DEF AfterError
<1>3. Tool'
  BY <1>1, <1>2, ToolFails DEF Session
<1>4. /\ pc' = AfterError(pc) /\ calling' = FALSE /\ buf' = <<>>
      /\ UNCHANGED <<ControlState, bus, Data_Mul_MaxPacketSize>>
  BY <1>1 DEF Goto, vars, ep0Vars
<1>5. pc' = "reset" => ControlState = "STALLED"
  <2>1. pc' = "reset" => pc = "detach"
    BY <1>4 DEF AfterError
  <2> QED
    BY <1>1, <2>1, RequestOfSite DEF Session, CallOpen, StageOfRequest
<1> QED
  BY <1>2, <1>3, <1>4, <1>5 DEF CallOpen, AtRest, Session

LEMMA LocalSteps ==
  ASSUME Session, \/ Begin \/ NextElement \/ NextChunk \/ EraseLoop \/ EraseTail \/ SetAddress
                  \/ FinalReset \/ Rerun
  PROVE  Tool' /\ CallOpen' /\ AtRest'
<1>1. pc \in LocalSites
  BY DEF Begin, NextElement, NextChunk, EraseLoop, EraseTail, SetAddress, FinalReset, Rerun,
         LocalSites
<1>2. ~calling /\ buf = <<>> /\ Data_Mul_MaxPacketSize = FALSE
  BY <1>1, NotCalling DEF Session, CallOpen
<1>3. calling' = FALSE /\ buf' = <<>> /\ Data_Mul_MaxPacketSize' = FALSE
  BY <1>2 DEF Begin, NextElement, NextChunk, EraseLoop, EraseTail, SetAddress, FinalReset, Rerun,
              BusReset, vars, ep0Vars, Session, Tool, HostTypeOK
<1>4. CallOpen'
  BY <1>3 DEF CallOpen
<1>5. AtRest'
  <2>1. CASE Begin \/ NextElement \/ NextChunk
    <3>1. /\ pc \in {"begin", "element", "next_chunk"} /\ ControlState' = ControlState
          /\ pc' \in {"element", "upload", "set_address", "failed", "detach", "next_chunk", "erase"}
      BY <2>1 DEF Begin, NextElement, NextChunk, vars, ep0Vars
    <3> QED
      BY <1>2, <3>1 DEF Session, AtRest
  <2>2. CASE EraseLoop \/ EraseTail \/ SetAddress \/ Rerun
    <3>1. pc' \in {"erase", "command", "failed", "set_address", "status"}
      BY <2>2 DEF EraseLoop, EraseTail, SetAddress, Rerun, Erase
    <3> QED
      BY <3>1 DEF AtRest
  <2>3. CASE FinalReset
    BY <2>3 DEF FinalReset, BusReset, AtRest
  <2> QED
    BY <2>1, <2>2, <2>3
<1> QED
  BY <1>4, <1>5, ToolLocal

LEMMA HandleLost ==
  ASSUME Session, BusGlitch \/ PowerFails
  PROVE  Tool' /\ CallOpen' /\ AtRest'
<1>1. PICK site \in {"failed", "finished"} : Goto(site) /\ UNCHANGED file
  BY DEF BusGlitch, PowerFails, HandleDies
<1>2. Tool'
  BY <1>1, ToolFails DEF Session
<1>3. bus' = "idle" /\ Data_Mul_MaxPacketSize' = FALSE
  BY DEF BusGlitch, PowerFails, BusReset, PowerCycle, PowerLossInOperation, Reboot, Session, CallOpen
<1>4. pc' \in {"failed", "finished"} /\ calling' = FALSE /\ buf' = <<>>
  BY <1>1 DEF Goto
<1> QED
  BY <1>2, <1>3, <1>4 DEF CallOpen, AtRest

\* Session is inductive.
LEMMA SessionStep == Session /\ [SessionNext]_sessionVars => Session'
<1> SUFFICES ASSUME Session, [SessionNext]_sessionVars PROVE Session'
  OBVIOUS
<1>1. Device'
  BY DeviceInvariant
<1>2. Tool' /\ CallOpen' /\ AtRest'
  <2>1. CASE UNCHANGED sessionVars
    <3>1. UNCHANGED <<setup, Usb_wLength, Usb_wOffset, ControlState, tx, bus,
                      Data_Mul_MaxPacketSize, Pointer, flash>>
      BY <2>1 DEF sessionVars, vars, ep0Vars, memVars
    <3>2. UNCHANGED hostVars
      BY <2>1 DEF sessionVars
    <3>3. RequestOf(pc)' = RequestOf(pc)
      BY <3>2, SameRequest DEF hostVars
    <3>4. Tool'
      BY <3>2, SameChunk
         DEF Session, Tool, hostVars, HostTypeOK, InDownload, InUpload, OfChunk, Erasable,
             Readable, UploadLimit, LimitFrom, find_segment
    <3>5. UploadPacket(setup.blk, Len(buf) * MaxPacketSize)'
            = UploadPacket(setup.blk, Len(buf) * MaxPacketSize)
      BY <3>1, <3>2 DEF UploadPacket, BlockAddress, Read, hostVars
    <3>6. BlockUnderWay' <=> BlockUnderWay
      BY <3>1, <3>2, <3>5 DEF BlockUnderWay, hostVars
    <3> QED
      BY <3>1, <3>2, <3>3, <3>4, <3>6
         DEF Session, CallOpen, AtRest, StageOfRequest, hostVars
  <2> QED
    BY <2>1, CallOpens, DataSent, DataTaken, CallReturns, CallFails, LocalSteps, HandleLost
       DEF SessionNext, Progress
<1> QED
  BY <1>1, <1>2 DEF Session

LEMMA SessionStart == SessionInit => Session
<1> SUFFICES ASSUME SessionInit PROVE Session
  OBVIOUS
<1>1. Device
  <2>1. IInv
    BY SafetyInit DEF SessionInit
  <2>2. Endpoints /\ Filled
    BY DEF SessionInit, Init, Endpoints, NextPacketAnswered, Filled, AckedBlockIsComplete
  <2> QED
    BY <2>1, <2>2 DEF Device
<1>2. /\ image \in Images /\ task \in Tasks /\ file = <<>> /\ buf = <<>> /\ pc = "status"
      /\ calling = FALSE /\ el = 1 /\ p = 0 /\ erase_address = 0 /\ last_erased = 0
      /\ cmd = CommandList
  BY DEF SessionInit
<1>3. Tool
  <2>1. pc \in CallSites /\ cmd \in Commands /\ last_erased \in FlashUnits
    BY <1>2, FlashOrder, ConstantsAssumption DEF CallSites
  <2>2. file \in Seq(Content) /\ buf \in Seq(Content)
    BY <1>2, Concatenated
  <2>3. el \in Nat \ {0} /\ p \in Nat /\ erase_address \in Nat
    BY <1>2
  <2>5. calling \in BOOLEAN
    BY <1>2
  <2>4. HostTypeOK
    BY <1>2, <2>1, <2>2, <2>3, <2>5 DEF HostTypeOK
  <2> QED
    BY <1>2, <2>4 DEF Tool, InDownload, InUpload, SpecialSites
<1>4. CallOpen /\ AtRest
  BY <1>2 DEF SessionInit, Init, CallOpen, AtRest
<1> QED
  BY <1>1, <1>3, <1>4 DEF Session

\* Throughout a session the tool's place, its chunk or block, its open call and the device's
\* control endpoint agree (main.c and dfuse.c against usb_core.c), whatever fails.
THEOREM SessionInvariance == SessionSpec => []Session
  BY SessionStart, SessionStep, PTL DEF SessionSpec

\* The tool makes no request and sends no packet but those the bootloader's model expects of
\* a host (dfuse.c and main.c against usb_prop.c and usb_core.c): a session is a behaviour of
\* DfuDevice, whose theorems hold of it.
THEOREM SessionImplementsDevice == SessionSpec => Spec
<1>1. SessionInit => Init
  BY DEF SessionInit
<1> QED
  BY <1>1, SessionInvariance, DeviceStep, PTL DEF SessionSpec, Spec

\* Types, and the blocks and lengths of the requests, for every image, layout and upload.
THEOREM SessionTypeCorrect == SessionSpec => []SessionTypeOK
<1>1. Session => SessionTypeOK
  BY RequestsOfTool DEF Session, Device, Tool, IInv, HostTypeOK, SessionTypeOK
<1> QED
  BY <1>1, SessionInvariance, PTL
===============================================================================
