------------------------------ MODULE DfuDevice ------------------------------
(***************************************************************************)
(* The DFU bootloader (src/firmware/dfu): its reset path (src/main.c), the *)
(* DFU class requests (src/usb_prop.c), the control endpoint they run on   *)
(* (usb/usb_core.c, usb/usb_int.c) and the memory layer under them         *)
(* (src/dfu_mal.c, src/flash_if.c).                                        *)
(*                                                                         *)
(* One step is one interrupt: a SETUP packet, an IN packet the host took,  *)
(* an OUT packet, a bus reset, or a (re)boot of the chip.  Addresses count *)
(* packets (64 bytes), so the buffer and the flash hold one opaque content *)
(* per packet; lengths are in bytes, as the code compares them.            *)
(***************************************************************************)
EXTENDS Integers

CONSTANTS
  Data,             \* contents of a packet of image data
  ValidStack,       \* those whose first word looks like a stack pointer into RAM
  Erased, Zeros,    \* a packet of erased flash, a packet of cleared RAM
  FlashUnits,       \* the addresses of the internal flash: 0 .. n
  PageUnits,        \* packets per page of the flash
  ApplicationAddress, \* where the application starts
  Commands,         \* the special commands a host may send
  MaxPacketSize,    \* bMaxPacketSize0, in bytes
  NPackets,         \* packets per block: wTransferSize / bMaxPacketSize0
  DescriptorLengths, \* lengths of the standard descriptors
  InitialFlash,     \* what the flash may hold when the chip first starts
  Requests          \* the control requests a host may make

BufferUnits == 0 .. NPackets - 1
wTransferSize == NPackets * MaxPacketSize

CommandList == [op |-> "GETCOMMANDS", addr |-> ApplicationAddress]
Command     == [op : {"GETCOMMANDS", "SETADDRESSPOINTER", "ERASE"}, addr : Nat]
Packet      == Data \cup Commands \cup {Zeros}
Content     == Packet \cup {Erased}

Request == [req : {"DNLOAD", "UPLOAD", "GETSTATUS", "GETSTATE", "CLRSTATUS", "ABORT",
                   "DETACH", "GET_DESCRIPTOR", "SET_CONFIGURATION"},
            blk : Nat, len : Nat]

ASSUME ConstantsAssumption ==
  /\ MaxPacketSize \in Nat /\ MaxPacketSize >= 8
  /\ NPackets \in Nat \ {0}
  /\ PageUnits \in Nat \ {0}
  /\ FlashUnits \subseteq Nat
  /\ ApplicationAddress \in FlashUnits
  /\ Commands \subseteq Command /\ CommandList \in Commands
  /\ ValidStack \subseteq Data
  /\ Erased \notin Packet
  /\ DescriptorLengths \subseteq Nat \ {0}
  /\ InitialFlash \subseteq [FlashUnits -> Content]
  /\ Requests \subseteq Request
  /\ \A r \in Requests : r.len <= wTransferSize

DfuStates == {"dfuIDLE", "dfuDNLOAD_SYNC", "dfuDNBUSY", "dfuDNLOAD_IDLE",
              "dfuMANIFEST_SYNC", "dfuMANIFEST", "dfuUPLOAD_IDLE", "dfuERROR",
              "STATUS_ERRSTALLEDPKT"}
StatusCodes == {"OK", "errFIRMWARE", "errUNKNOWN"}
Status == [bStatus : StatusCodes, poll : Nat, bState : DfuStates]

EpStatus == {"VALID", "NAK", "STALL"}
ControlStates == {"IN_DATA", "OUT_DATA", "LAST_IN_DATA", "LAST_OUT_DATA",
                  "WAIT_STATUS_IN", "WAIT_STATUS_OUT", "STALLED"}

VARIABLES
  mode,          \* which program runs: the bootloader ("dfu") or the application
  DeviceState,   \* the DFU state
  DeviceStatus,  \* the reply to GETSTATUS
  wBlockNum, wlength,  \* block number and length of the last DNLOAD or UPLOAD
  Manifest_State,
  Pointer,       \* base address to erase, program or read
  MAL_Buffer,    \* RAM buffer for downloaded data
  flash,
  pgerr,         \* PGERR of the flash controller, latched until the chip restarts
  ControlState,  \* stage of the control transfer on endpoint 0
  epRx, epTx,    \* status of endpoint 0 for OUT and IN packets
  setup,         \* the latched request
  Usb_wLength, Usb_wOffset,   \* bytes left of the data stage, bytes done
  Data_Mul_MaxPacketSize,     \* an empty packet must end the data stage
  tx,            \* the reply last put into the IN packet buffer
  bus,           \* the host: "idle", or "transfer" once it sent a SETUP
  accepted,      \* history: the last DNLOAD request accepted
  received       \* history: the buffer units its data stage has filled

dfuVars  == <<DeviceState, DeviceStatus, wBlockNum, wlength, Manifest_State>>
memVars  == <<mode, Pointer, MAL_Buffer, flash, pgerr>>
ep0Vars  == <<ControlState, epRx, epTx, setup, Usb_wLength, Usb_wOffset,
              Data_Mul_MaxPacketSize, tx, bus>>
ep0Rest  == <<setup, Usb_wLength, Usb_wOffset, Data_Mul_MaxPacketSize, tx, bus>>
history  == <<accepted, received>>
vars     == <<dfuVars, memVars, ep0Vars, history>>

NoReply       == [kind |-> "none"]
StatusReply(s) == [kind |-> "status", status |-> s]
StateReply(s) == [kind |-> "state", state |-> s]
DataReply(c)  == [kind |-> "data", data |-> c]
Replies == {NoReply} \cup [kind : {"status"}, status : Status]
             \cup [kind : {"state"}, state : DfuStates] \cup [kind : {"data"}, data : Content]

TypeOK ==
  /\ mode \in {"dfu", "app"}
  /\ DeviceState \in DfuStates
  /\ DeviceStatus \in Status
  /\ wBlockNum \in Nat /\ wlength \in Nat
  /\ Manifest_State \in {"complete", "in_progress"}
  /\ Pointer \in Nat
  /\ MAL_Buffer \in [BufferUnits -> Packet]
  /\ flash \in [FlashUnits -> Content] /\ pgerr \in BOOLEAN
  /\ ControlState \in ControlStates
  /\ epRx \in EpStatus /\ epTx \in EpStatus
  /\ setup \in Request
  /\ Usb_wLength \in Nat /\ Usb_wOffset \in Nat /\ Data_Mul_MaxPacketSize \in BOOLEAN
  /\ tx \in Replies
  /\ bus \in {"idle", "transfer"}
  /\ accepted \in [blk : Nat, len : Nat]
  /\ received \in SUBSET BufferUnits

-----------------------------------------------------------------------------
(* Reset: start-up clears RAM, main() tests the first word of the           *)
(* application and either jumps to it or enters DFU mode in dfuERROR.       *)

DFU_Button_Read == 1

UserCodeProgrammed(f) == f[ApplicationAddress] \in ValidStack

BootMode(f) == IF DFU_Button_Read # 0 /\ UserCodeProgrammed(f) THEN "app" ELSE "dfu"

ErrorFirmware == [bStatus |-> "errFIRMWARE", poll |-> 0, bState |-> "dfuERROR"]

Init ==
  /\ flash \in InitialFlash /\ pgerr = FALSE
  /\ mode = BootMode(flash)
  /\ DeviceState = "dfuERROR" /\ DeviceStatus = ErrorFirmware
  /\ wBlockNum = 0 /\ wlength = 0 /\ Manifest_State = "complete"
  /\ Pointer = ApplicationAddress
  /\ MAL_Buffer = [k \in BufferUnits |-> Zeros]
  /\ ControlState = "IN_DATA" /\ epRx = "VALID" /\ epTx = "NAK"
  /\ setup = [req |-> "GET_DESCRIPTOR", blk |-> 0, len |-> 0]
  /\ Usb_wLength = 0 /\ Usb_wOffset = 0 /\ Data_Mul_MaxPacketSize = FALSE
  /\ tx = NoReply /\ bus = "idle"
  /\ accepted = [blk |-> 0, len |-> 0] /\ received = {}

Reboot(f) ==
  /\ flash' = f /\ pgerr' = FALSE
  /\ mode' = BootMode(f)
  /\ DeviceState' = "dfuERROR" /\ DeviceStatus' = ErrorFirmware
  /\ wBlockNum' = 0 /\ wlength' = 0 /\ Manifest_State' = "complete"
  /\ Pointer' = ApplicationAddress
  /\ MAL_Buffer' = [k \in BufferUnits |-> Zeros]
  /\ ControlState' = "IN_DATA" /\ epRx' = "VALID" /\ epTx' = "NAK"
  /\ setup' = [req |-> "GET_DESCRIPTOR", blk |-> 0, len |-> 0]
  /\ Usb_wLength' = 0 /\ Usb_wOffset' = 0 /\ Data_Mul_MaxPacketSize' = FALSE
  /\ tx' = NoReply /\ bus' = "idle"
  /\ accepted' = [blk |-> 0, len |-> 0] /\ received' = {}

-----------------------------------------------------------------------------
(* The memory layer.  Programming the F1 flash only takes on erased cells,  *)
(* except for the value 0; else it latches PGERR.  FLASH_If_Write ignores   *)
(* the failure, nobody clears the flag, and as long as it is set            *)
(* FLASH_ErasePage and FLASH_ProgramWord return without doing anything.     *)

Takes(old, new) == old = Erased \/ new = Zeros

SamePage(a, b) == a \div PageUnits = b \div PageUnits

IsCommand(c, op) == c \in Commands /\ c.op = op

BlockAddress(blk) == (blk - 2) * NPackets + Pointer

\* What the pending operation erases and programs: addresses outside the flash are
\* refused by MAL_Erase and MAL_Write.
ErasedUnits ==
  IF wBlockNum = 0 /\ IsCommand(MAL_Buffer[0], "ERASE") /\ wlength = 5
    THEN {u \in FlashUnits : MAL_Buffer[0].addr \in FlashUnits /\ SamePage(u, MAL_Buffer[0].addr)}
    ELSE {}

WrittenUnits ==
  IF wBlockNum > 1
    THEN {u \in FlashUnits : /\ BlockAddress(wBlockNum) \in FlashUnits
                             /\ u - BlockAddress(wBlockNum) \in BufferUnits
                             /\ (u - BlockAddress(wBlockNum)) * MaxPacketSize < wlength}
    ELSE {}

NewContent(u) == MAL_Buffer[u - BlockAddress(wBlockNum)]

\* The packets of a write are programmed in order up to the first that does not take.
Refused         == {u \in WrittenUnits : ~Takes(flash[u], NewContent(u))}
ProgrammedUnits == {u \in WrittenUnits : \A v \in Refused : u < v}

\* The flash once the units S of the pending operation are done.
FlashAfter(S) ==
  [u \in FlashUnits |->
     IF pgerr THEN flash[u]
     ELSE IF u \in S \cap ErasedUnits THEN Erased
     ELSE IF u \in S \cap ProgrammedUnits THEN NewContent(u) ELSE flash[u]]

\* The pointer moves to the address of both commands that carry one.  (EraseOnly: not on
\* SETADDRESSPOINTER.)
NewPointerEraseOnly ==
  IF wBlockNum = 0 /\ wlength = 5 /\ IsCommand(MAL_Buffer[0], "ERASE")
    THEN MAL_Buffer[0].addr ELSE Pointer
NewPointer ==
  IF /\ wBlockNum = 0 /\ wlength = 5
     /\ IsCommand(MAL_Buffer[0], "SETADDRESSPOINTER") \/ IsCommand(MAL_Buffer[0], "ERASE")
    THEN MAL_Buffer[0].addr ELSE Pointer

-----------------------------------------------------------------------------
(* Endpoint 0.  The host may send a SETUP at any time; it sends and takes   *)
(* other packets only inside a transfer it has opened.                      *)

Stalled ==
  /\ ControlState' = "STALLED" /\ epRx' = "STALL" /\ epTx' = "STALL"

Opened(r) == setup' = r /\ bus' = "transfer"

StallSetup(r) ==
  /\ Opened(r) /\ Stalled
  /\ UNCHANGED <<Usb_wLength, Usb_wOffset, Data_Mul_MaxPacketSize, tx>>

\* A request without data that was served: send the zero-length status packet.
ServedNoData(r) ==
  /\ Opened(r)
  /\ ControlState' = "WAIT_STATUS_IN" /\ epTx' = "VALID" /\ epRx' = "NAK"
  /\ tx' = NoReply
  /\ UNCHANGED <<Usb_wLength, Usb_wOffset, Data_Mul_MaxPacketSize>>

StartDataOut(r) ==
  /\ Opened(r)
  /\ ControlState' = "OUT_DATA" /\ epRx' = "VALID" /\ epTx' = "NAK"
  /\ Usb_wLength' = r.len /\ Usb_wOffset' = 0
  /\ UNCHANGED <<Data_Mul_MaxPacketSize, tx>>

\* One packet of the n bytes to go.  (Unclamped: a whole packet whatever is left.)
PacketLengthUnclamped(n) == MaxPacketSize
PacketLength(n) == IF n <= MaxPacketSize THEN n ELSE MaxPacketSize

\* DataStageIn with n bytes to go from offset off: load the next packet.
DataStageIn(n, off, reply) ==
  /\ ControlState' = IF n <= MaxPacketSize THEN "LAST_IN_DATA" ELSE "IN_DATA"
  /\ Usb_wLength' = n - PacketLength(n) /\ Usb_wOffset' = off + PacketLength(n)
  /\ tx' = reply
  /\ epTx' = "VALID" /\ epRx' = "VALID"

\* A request served with n bytes: the host gets what it asked for at most, and an empty
\* packet after a short reply that fills its packets.
StartDataIn(r, n, reply) ==
  /\ Opened(r)
  /\ IF n = 0
       THEN /\ Stalled /\ Usb_wLength' = 0 /\ Usb_wOffset' = 0
            /\ UNCHANGED <<Data_Mul_MaxPacketSize, tx>>
       ELSE /\ DataStageIn(IF n > r.len THEN r.len ELSE n, 0, reply)
            /\ Data_Mul_MaxPacketSize' =
                 IF n >= r.len \/ (n > MaxPacketSize /\ n % MaxPacketSize # 0)
                   THEN Data_Mul_MaxPacketSize ELSE n >= MaxPacketSize

-----------------------------------------------------------------------------
(* DFU_Data_Setup and DFU_NoData_Setup, one action per request.             *)

StatusIn(s, poll) == [bStatus |-> DeviceStatus.bStatus, poll |-> poll, bState |-> s]

\* A state change that clears the poll timeout.  (EnterKeepingPoll: it is not cleared.)
EnterKeepingPoll(s) ==
  /\ DeviceState' = s
  /\ DeviceStatus' = StatusIn(s, DeviceStatus.poll)

Enter(s) ==
  /\ DeviceState' = s
  /\ DeviceStatus' = StatusIn(s, 0)

DnloadAllowed == DeviceState \in {"dfuIDLE", "dfuDNLOAD_IDLE"}
UploadAllowed == DeviceState \in {"dfuIDLE", "dfuUPLOAD_IDLE"}
\* (The variants allow an abort in too many and in too few states.)
AbortFromError == DeviceState \in {"dfuIDLE", "dfuDNLOAD_SYNC", "dfuDNLOAD_IDLE",
                                   "dfuMANIFEST_SYNC", "dfuUPLOAD_IDLE", "dfuERROR"}
AbortFromIdle == DeviceState \in {"dfuIDLE", "dfuUPLOAD_IDLE"}
AbortAllowed  == DeviceState \in {"dfuIDLE", "dfuDNLOAD_SYNC", "dfuDNLOAD_IDLE",
                                  "dfuMANIFEST_SYNC", "dfuUPLOAD_IDLE"}

SetupDnload(r) ==
  /\ r.req = "DNLOAD" /\ r.len > 0 /\ DnloadAllowed
  /\ DeviceState' = "dfuDNLOAD_SYNC"
  /\ DeviceStatus' = StatusIn("dfuDNLOAD_SYNC", DeviceStatus.poll)
  /\ wBlockNum' = r.blk /\ wlength' = r.len
  /\ StartDataOut(r)
  /\ accepted' = [blk |-> r.blk, len |-> r.len] /\ received' = {}
  /\ UNCHANGED <<Manifest_State, memVars>>

\* UPLOAD, called once for the SETUP and once more for every IN packet.
UploadState(blk, len) ==
  IF blk = 0 /\ len > 3 THEN "dfuIDLE"
  ELSE IF blk = 1 THEN "STATUS_ERRSTALLEDPKT" ELSE "dfuUPLOAD_IDLE"

\* A packet read off bytes into an upload.  MAL_Read returns a null pointer outside the
\* internal flash, and address 0 is an alias of its start; block 1 reads there always.
Read(u) == IF u \in FlashUnits THEN flash[u] ELSE Zeros

UploadPacket(blk, off) ==
  DataReply(CASE blk = 0 -> CommandList
              [] blk = 1 -> Read(0)
              [] BlockAddress(blk) \in FlashUnits -> Read(BlockAddress(blk) + off \div MaxPacketSize)
              [] OTHER -> Read(off \div MaxPacketSize))

UploadRoutine(blk, len) ==
  /\ Enter(UploadState(blk, len))
  /\ wBlockNum' = blk /\ wlength' = len
  /\ UNCHANGED <<Manifest_State, mode, Pointer, flash, pgerr, history>>

SetupUpload(r) ==
  /\ r.req = "UPLOAD" /\ r.len > 0 /\ UploadAllowed
  /\ UploadRoutine(r.blk, r.len)
  /\ MAL_Buffer' = IF r.blk = 0 THEN [MAL_Buffer EXCEPT ![0] = CommandList] ELSE MAL_Buffer
  /\ StartDataIn(r, CASE r.blk = 0 -> 3 [] r.blk = 1 -> Usb_wLength [] OTHER -> r.len,
                 UploadPacket(r.blk, 0))

SetupGetState(r) ==
  /\ r.req = "GETSTATE" /\ r.len > 0
  /\ StartDataIn(r, 1, StateReply(DeviceState))
  /\ UNCHANGED <<dfuVars, memVars, history>>

\* TimingTable: the time of the medium the pointer is in, which for an erase is not yet
\* the address to erase.  Outside the internal flash it is that of the NOR flash.
BusyTime ==
  IF Pointer \in FlashUnits THEN 50
  ELSE IF wBlockNum = 0 /\ IsCommand(MAL_Buffer[0], "ERASE") THEN 1000 ELSE 25

\* GETSTATUS moves the state on before it fills in the reply.
StatusAfterGet ==
  CASE DeviceState = "dfuDNLOAD_SYNC" /\ wlength # 0 ->
         StatusIn("dfuDNBUSY", BusyTime)
    [] DeviceState = "dfuDNLOAD_SYNC" /\ wlength = 0 ->
         StatusIn("dfuDNLOAD_IDLE", 0)
    [] DeviceState = "dfuMANIFEST_SYNC" /\ Manifest_State = "in_progress" ->
         StatusIn("dfuMANIFEST", 1)
    [] OTHER -> DeviceStatus

\* (Stale: the reply was filled in first.)
GetStatusReplyStale == StatusReply(DeviceStatus)
GetStatusReply      == StatusReply(StatusAfterGet)

SetupGetStatus(r) ==
  /\ r.req = "GETSTATUS" /\ r.len > 0
  /\ DeviceStatus' = StatusAfterGet
  /\ DeviceState' = IF StatusAfterGet # DeviceStatus THEN StatusAfterGet.bState ELSE DeviceState
  /\ StartDataIn(r, 6, GetStatusReply)
  /\ UNCHANGED <<wBlockNum, wlength, Manifest_State, memVars, history>>

\* A zero-length DNLOAD ends the download.
SetupEndDnload(r) ==
  /\ r.req = "DNLOAD" /\ r.len = 0 /\ DnloadAllowed
  /\ Manifest_State' = "in_progress"
  /\ Enter("dfuMANIFEST_SYNC")
  /\ ServedNoData(r)
  /\ UNCHANGED <<wBlockNum, wlength, memVars, history>>

SetupEndUpload(r) ==
  /\ r.req = "UPLOAD" /\ r.len = 0
  /\ Enter("dfuIDLE")
  /\ ServedNoData(r)
  /\ UNCHANGED <<wBlockNum, wlength, Manifest_State, memVars, history>>

StatusAfterClear ==
  IF DeviceState = "dfuERROR"
    THEN [bStatus |-> "OK", poll |-> 0, bState |-> "dfuIDLE"]
    ELSE [bStatus |-> "errUNKNOWN", poll |-> 0, bState |-> "dfuERROR"]

SetupClrStatus(r) ==
  /\ r.req = "CLRSTATUS" /\ r.len = 0
  /\ DeviceStatus' = StatusAfterClear
  /\ DeviceState' = StatusAfterClear.bState
  /\ ServedNoData(r)
  /\ UNCHANGED <<wBlockNum, wlength, Manifest_State, memVars, history>>

SetupAbort(r) ==
  /\ r.req = "ABORT" /\ r.len = 0
  /\ IF AbortAllowed
       THEN /\ DeviceState' = "dfuIDLE"
            /\ DeviceStatus' = [bStatus |-> "OK", poll |-> 0, bState |-> "dfuIDLE"]
            /\ wBlockNum' = 0 /\ wlength' = 0
       ELSE UNCHANGED <<DeviceState, DeviceStatus, wBlockNum, wlength>>
  /\ ServedNoData(r)
  /\ UNCHANGED <<Manifest_State, memVars, history>>

\* The standard requests leave the DFU state alone.
SetupStandard(r) ==
  /\ \/ /\ r.req = "GET_DESCRIPTOR" /\ r.len > 0
        /\ \E n \in DescriptorLengths : StartDataIn(r, n, DataReply(Zeros))
     \/ r.req = "SET_CONFIGURATION" /\ r.len = 0 /\ ServedNoData(r)
  /\ UNCHANGED <<dfuVars, memVars, history>>

SetupUnsupported(r) ==
  /\ \/ r.req = "DETACH"
     \/ r.req = "DNLOAD" /\ ~DnloadAllowed
     \/ r.req = "UPLOAD" /\ r.len > 0 /\ ~UploadAllowed
     \/ r.req \in {"GETSTATUS", "GETSTATE", "GET_DESCRIPTOR"} /\ r.len = 0
     \/ r.req \in {"CLRSTATUS", "ABORT", "SET_CONFIGURATION"} /\ r.len > 0
  /\ StallSetup(r)
  /\ UNCHANGED <<dfuVars, memVars, history>>

Setup0_Process(r) ==
  /\ mode = "dfu"
  /\ \/ SetupDnload(r) \/ SetupUpload(r) \/ SetupGetState(r) \/ SetupGetStatus(r)
     \/ SetupEndDnload(r) \/ SetupEndUpload(r) \/ SetupClrStatus(r) \/ SetupAbort(r)
     \/ SetupStandard(r) \/ SetupUnsupported(r)

-----------------------------------------------------------------------------
(* IN packets: the host took the packet that was ready.                     *)

InPacketTaken == mode = "dfu" /\ bus = "transfer" /\ epTx = "VALID"

\* The next packet of an UPLOAD: the routine runs again from the latched request.
InData ==
  /\ InPacketTaken /\ ControlState = "IN_DATA"
  /\ IF setup.req = "UPLOAD"
       THEN /\ DataStageIn(Usb_wLength, Usb_wOffset, UploadPacket(setup.blk, Usb_wOffset))
            /\ UploadRoutine(setup.blk, setup.len)
       ELSE /\ DataStageIn(Usb_wLength, Usb_wOffset, DataReply(Zeros))
            /\ UNCHANGED <<dfuVars, mode, Pointer, flash, pgerr, history>>
  /\ UNCHANGED <<Data_Mul_MaxPacketSize, MAL_Buffer, setup, bus>>

\* Nothing is left to send: an empty packet when one is due, else expect the status packet.
InLastData ==
  /\ InPacketTaken /\ ControlState = "LAST_IN_DATA"
  /\ IF Data_Mul_MaxPacketSize
       THEN UNCHANGED <<ControlState, epTx>>
       ELSE ControlState' = "WAIT_STATUS_OUT" /\ epTx' = "STALL"
  /\ Data_Mul_MaxPacketSize' = FALSE
  /\ UNCHANGED <<epRx, setup, Usb_wLength, Usb_wOffset, tx, bus, dfuVars, memVars, history>>

\* The status packet of a request without data or with data from the host, and an IN
\* packet that cuts a data stage short: both end in a stalled endpoint.
InStatus ==
  /\ InPacketTaken /\ ControlState \in {"WAIT_STATUS_IN", "OUT_DATA", "LAST_OUT_DATA"}
  /\ Stalled
  /\ UNCHANGED <<ep0Rest, dfuVars, memVars, history>>

In0_Process == InData \/ InLastData \/ InStatus

-----------------------------------------------------------------------------
(* OUT packets.                                                             *)

OutPacket == mode = "dfu" /\ bus = "transfer" /\ epRx = "VALID"

\* What follows with `left` bytes to come.  (The variants take a full packet for the end.)
StageAfterEarly(left) ==
  IF left <= MaxPacketSize THEN "WAIT_STATUS_IN" ELSE "OUT_DATA"
StageAfter(left) ==
  IF left = 0 THEN "WAIT_STATUS_IN"
  ELSE IF left >= MaxPacketSize THEN "OUT_DATA" ELSE "LAST_OUT_DATA"

RxAfterEarly(left) == IF left <= MaxPacketSize THEN "NAK" ELSE "VALID"
RxAfter(left) == IF left = 0 THEN "NAK" ELSE "VALID"

\* DataStageOut: the packet c goes to the buffer, whatever its length.
OutData(c) ==
  /\ OutPacket /\ ControlState \in {"OUT_DATA", "LAST_OUT_DATA"}
  /\ LET left == Usb_wLength - PacketLength(Usb_wLength)
         at   == {k \in BufferUnits : k * MaxPacketSize = Usb_wOffset}
     IN /\ MAL_Buffer' = [k \in BufferUnits |-> IF k \in at THEN c ELSE MAL_Buffer[k]]
        /\ received' = received \cup at
        /\ Usb_wLength' = left /\ Usb_wOffset' = Usb_wOffset + PacketLength(Usb_wLength)
        /\ ControlState' = StageAfter(left)
        /\ epRx' = RxAfter(left) /\ epTx' = "VALID"
  /\ DeviceState' = "dfuDNLOAD_SYNC"
  /\ DeviceStatus' = StatusIn("dfuDNLOAD_SYNC", DeviceStatus.poll)
  /\ wBlockNum' = setup.blk /\ wlength' = setup.len
  /\ tx' = NoReply
  /\ UNCHANGED <<setup, bus, Data_Mul_MaxPacketSize, Manifest_State, mode, Pointer, flash,
                 pgerr, accepted>>

\* An OUT packet before the last IN packet was accounted for: the transfer is cut.
OutEarly ==
  /\ OutPacket /\ ControlState \in {"IN_DATA", "LAST_IN_DATA"}
  /\ Stalled
  /\ UNCHANGED <<ep0Rest, dfuVars, memVars, history>>

\* The status packet ends a control read.  DFU_Status_Out does the pending operation
\* when the request was a GETSTATUS that found the device busy.
StatusStage == OutPacket /\ ControlState = "WAIT_STATUS_OUT"
BusyInAnyState == setup.req = "GETSTATUS"
Busy        == setup.req = "GETSTATUS" /\ DeviceState = "dfuDNBUSY"
Manifesting == setup.req = "GETSTATUS" /\ DeviceState = "dfuMANIFEST"

OutStatusPlain ==
  /\ StatusStage /\ ~Busy /\ ~Manifesting
  /\ Stalled
  /\ UNCHANGED <<ep0Rest, dfuVars, memVars, history>>

\* (ForgetBlockNumber: the length of the operation done is left pending.)
ForgetBlockNumber == wBlockNum' = 0 /\ UNCHANGED wlength
ForgetOperation   == wBlockNum' = 0 /\ wlength' = 0

OutStatusBusy ==
  /\ StatusStage /\ Busy
  /\ flash' = FlashAfter(FlashUnits) /\ pgerr' = (pgerr \/ Refused # {})
  /\ Pointer' = NewPointer
  /\ ForgetOperation
  /\ Enter("dfuDNLOAD_SYNC")
  /\ Stalled
  /\ UNCHANGED <<Manifest_State, mode, MAL_Buffer, ep0Rest, history>>

\* DFU_write_crc: the descriptor does not announce manifestation tolerance, so the
\* bootloader resets the chip.
OutStatusManifest ==
  /\ StatusStage /\ Manifesting
  /\ Reboot(flash)

\* The power goes in the middle of the operation: an erase leaves any part of the page
\* erased, a write has done some of its words, in order.
PowerLossInOperation ==
  /\ StatusStage /\ Busy
  /\ \/ \E S \in SUBSET ErasedUnits : Reboot(FlashAfter(S))
     \/ \E cut \in WrittenUnits : Reboot(FlashAfter({u \in FlashUnits : u < cut}))

-----------------------------------------------------------------------------
(* DFU_Reset restarts endpoint 0; the DFU state and the operation that is   *)
(* pending survive a bus reset.                                             *)
BusReset ==
  /\ mode = "dfu"
  /\ epRx' = "VALID" /\ epTx' = "NAK" /\ bus' = "idle"
  /\ UNCHANGED <<ControlState, setup, Usb_wLength, Usb_wOffset, Data_Mul_MaxPacketSize, tx,
                 dfuVars, memVars, history>>

PowerCycle == Reboot(flash)

\* What a host puts into a data stage: a command in block 0, image data in the others.
Payload(r) == IF r.blk = 0 THEN Commands ELSE Data

Next ==
  \/ \E r \in Requests : Setup0_Process(r)
  \/ In0_Process
  \/ \E c \in Payload(setup) : OutData(c)
  \/ OutEarly
  \/ OutStatusPlain
  \/ OutStatusBusy
  \/ OutStatusManifest
  \/ PowerLossInOperation
  \/ BusReset
  \/ PowerCycle

Spec == Init /\ [][Next]_vars

-----------------------------------------------------------------------------
(* Properties.                                                              *)

\* The status block the host reads agrees with the state machine, through all the places
\* that set one or the other: bState is the state, a poll timeout is announced only while
\* the device is busy or manifesting, and a busy device has an operation pending.
StatusConsistent ==
  /\ DeviceStatus.bState = DeviceState
  /\ DeviceStatus.poll # 0 => DeviceState \in {"dfuDNBUSY", "dfuMANIFEST"}
  /\ DeviceState = "dfuDNBUSY" => DeviceStatus.poll # 0 /\ wlength # 0

\* wBlockNum and wlength are shared by UPLOAD, DNLOAD, ABORT and the operation itself.
\* Whatever else the host asked in between, the operation that waits for GETSTATUS, or
\* that runs, is the DNLOAD accepted last, never a mixture of two requests.
PendingIsAccepted ==
  DeviceState \in {"dfuDNLOAD_SYNC", "dfuDNBUSY"} /\ wlength # 0
    => [blk |-> wBlockNum, len |-> wlength] = accepted

\* A DNLOAD is acknowledged only when every packet of its block is in MAL_Buffer: the
\* status packet the host waits for vouches for the whole data stage.
AckedBlockIsComplete ==
  ControlState = "WAIT_STATUS_IN" /\ setup.req = "DNLOAD" /\ setup.len > 0
    => \A k \in BufferUnits : k * MaxPacketSize < setup.len => k \in received

\* Inside a transfer the endpoint answers the packet that the host sends next, with data,
\* an acknowledgement or a stall; it never leaves the host to NAKs for ever.
NextPacketAnswered ==
  bus = "transfer" =>
    /\ ControlState \in {"OUT_DATA", "LAST_OUT_DATA", "WAIT_STATUS_OUT"} => epRx = "VALID"
    /\ ControlState \in {"IN_DATA", "LAST_IN_DATA", "WAIT_STATUS_IN"} => epTx = "VALID"
    /\ ControlState = "STALLED" => epRx = "STALL" /\ epTx = "STALL"

\* While a GETSTATUS is under way the reply is the status the device has: nothing moves the
\* state on between the reply the host reads and the status packet that starts the operation.
ReplyIsCurrent ==
  setup.req = "GETSTATUS" /\ ControlState \in {"LAST_IN_DATA", "WAIT_STATUS_OUT"}
    => tx = StatusReply(DeviceStatus)

\* The flash changes only once the host has read "busy, poll again" for the DNLOAD accepted
\* last, and only in the pages and packets this operation names.  It holds across
\* interrupted transfers, bus resets and power failures in the middle of the operation.
FlashChange ==
  flash' # flash =>
    /\ tx = StatusReply(DeviceStatus) /\ DeviceStatus.bState = "dfuDNBUSY"
    /\ [blk |-> wBlockNum, len |-> wlength] = accepted
    /\ \A u \in FlashUnits : flash'[u] # flash[u] => u \in ErasedUnits \cup WrittenUnits
FlashChangesOnlyWhenBusy == [][FlashChange]_vars

\* dfuERROR is left only by CLRSTATUS, or by the zero-length UPLOAD that is served in every
\* state; ABORT, downloads and uploads are of no avail.
ErrorExit ==
  DeviceState = "dfuERROR" /\ DeviceState' # "dfuERROR"
    => setup'.req = "CLRSTATUS" \/ (setup'.req = "UPLOAD" /\ setup'.len = 0)
ErrorIsSticky == [][ErrorExit]_vars
=============================================================================
