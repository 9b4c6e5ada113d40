--------------------------- MODULE DfuDevice_proofs ---------------------------
(***************************************************************************)
(* Proofs about the bootloader, for every flash, every image and every     *)
(* host.  The inductive invariant is IInv: the type invariant, the three   *)
(* invariants of DfuDevice it contains, and DataStage, which ties the      *)
(* stage of the control transfer to the request that opened it.            *)
(* Endpoints and Filled strengthen the two properties of the endpoint.     *)
(***************************************************************************)
EXTENDS DfuDevice, TLAPS

\* A data stage from the host belongs to the DNLOAD accepted last and the device waits for
\* it in dfuDNLOAD_SYNC; the reply to a GETSTATUS is a single packet; an upload that goes
\* on has left the device in the state it set.
DataStage ==
  /\ ControlState \in {"OUT_DATA", "LAST_OUT_DATA"} =>
       /\ setup.req = "DNLOAD" /\ DeviceState = "dfuDNLOAD_SYNC"
       /\ accepted = [blk |-> setup.blk, len |-> setup.len]
  /\ ControlState = "IN_DATA" => setup.req # "GETSTATUS"
  /\ ControlState = "IN_DATA" /\ setup.req = "UPLOAD"
       => DeviceState = UploadState(setup.blk, setup.len)

IInv == TypeOK /\ StatusConsistent /\ PendingIsAccepted /\ ReplyIsCurrent /\ DataStage

-----------------------------------------------------------------------------
(* Lemmas about the operators.                                              *)

\* A packet length is a natural number and no more than what is left.
LEMMA PacketLengthType ==
  ASSUME NEW n \in Nat
  PROVE  PacketLength(n) \in Nat /\ PacketLength(n) <= n
  BY ConstantsAssumption DEF PacketLength

\* What an upload reads is the content of a packet.
LEMMA UploadPacketType ==
  ASSUME TypeOK, NEW blk, NEW off
  PROVE  UploadPacket(blk, off) \in Replies
<1>1. \A u : Read(u) \in Content
  BY DEF Read, TypeOK, Content, Packet
<1>2. CommandList \in Content
  BY ConstantsAssumption DEF Content, Packet
<1> DEFINE c == CASE blk = 0 -> CommandList
                  [] blk = 1 -> Read(0)
                  [] BlockAddress(blk) \in FlashUnits ->
                       Read(BlockAddress(blk) + off \div MaxPacketSize)
                  [] OTHER -> Read(off \div MaxPacketSize)
<1>3. c \in Content
  BY <1>1, <1>2
<1>4. UploadPacket(blk, off) = DataReply(c)
  BY DEF UploadPacket
<1> HIDE DEF c
<1> QED
  BY <1>3, <1>4 DEF DataReply, Replies

\* The operation leaves packets in the flash.
LEMMA FlashAfterType ==
  ASSUME TypeOK, NEW S
  PROVE  FlashAfter(S) \in [FlashUnits -> Content]
<1> SUFFICES ASSUME NEW u \in FlashUnits
             PROVE  FlashAfter(S)[u] \in Content
  BY DEF FlashAfter
<1>1. FlashAfter(S)[u] \in {flash[u], Erased} \/ (u \in WrittenUnits /\ FlashAfter(S)[u] = NewContent(u))
  BY DEF FlashAfter, ProgrammedUnits
<1>2. flash[u] \in Content /\ Erased \in Content
  BY DEF TypeOK, Content
<1>3. ASSUME u \in WrittenUnits PROVE NewContent(u) \in Content
  <2>1. u - BlockAddress(wBlockNum) \in BufferUnits
    BY <1>3 DEF WrittenUnits
  <2> QED
    BY <2>1 DEF NewContent, TypeOK, Content
<1> QED
  BY <1>1, <1>2, <1>3

\* The operation touches no packet but those it erases or writes.
LEMMA FlashAfterFrame ==
  ASSUME NEW S, NEW u \in FlashUnits, FlashAfter(S)[u] # flash[u]
  PROVE  u \in ErasedUnits \cup WrittenUnits
  BY DEF FlashAfter, ProgrammedUnits

LEMMA StatusInType ==
  ASSUME TypeOK, NEW s \in DfuStates, NEW p \in Nat
  PROVE  StatusIn(s, p) \in Status /\ StatusIn(s, p).bState = s /\ StatusIn(s, p).poll = p
  BY DEF StatusIn, Status, TypeOK

LEMMA BusyTimeType == BusyTime \in Nat \ {0}
  BY DEF BusyTime

\* GETSTATUS moves to the status of the state it enters, in each of its cases.
LEMMA StatusAfterGetCases ==
  ASSUME TypeOK
  PROVE  \/ /\ DeviceState = "dfuDNLOAD_SYNC" /\ wlength # 0
            /\ StatusAfterGet = StatusIn("dfuDNBUSY", BusyTime)
         \/ /\ DeviceState = "dfuDNLOAD_SYNC" /\ wlength = 0
            /\ StatusAfterGet = StatusIn("dfuDNLOAD_IDLE", 0)
         \/ /\ DeviceState = "dfuMANIFEST_SYNC" /\ Manifest_State = "in_progress"
            /\ StatusAfterGet = StatusIn("dfuMANIFEST", 1)
         \/ /\ DeviceState # "dfuDNLOAD_SYNC"
            /\ StatusAfterGet = DeviceStatus
<1>1. CASE DeviceState = "dfuDNLOAD_SYNC" /\ wlength # 0
  BY <1>1 DEF StatusAfterGet
<1>2. CASE DeviceState = "dfuDNLOAD_SYNC" /\ wlength = 0
  BY <1>2 DEF StatusAfterGet
<1>3. CASE DeviceState = "dfuMANIFEST_SYNC" /\ Manifest_State = "in_progress"
  BY <1>3 DEF StatusAfterGet
<1>4. CASE /\ DeviceState # "dfuDNLOAD_SYNC"
           /\ ~(DeviceState = "dfuMANIFEST_SYNC" /\ Manifest_State = "in_progress")
  BY <1>4 DEF StatusAfterGet
<1> QED
  BY <1>1, <1>2, <1>3, <1>4 DEF TypeOK

LEMMA StatusAfterGetType ==
  ASSUME TypeOK
  PROVE  StatusAfterGet \in Status
  BY StatusAfterGetCases, StatusInType, BusyTimeType DEF TypeOK, DfuStates

\* Endpoint 0 keeps its types, whatever a request does with it.
EndpointTypeOK ==
  /\ ControlState \in ControlStates
  /\ epRx \in EpStatus /\ epTx \in EpStatus
  /\ setup \in Request
  /\ Usb_wLength \in Nat /\ Usb_wOffset \in Nat /\ Data_Mul_MaxPacketSize \in BOOLEAN
  /\ tx \in Replies
  /\ bus \in {"idle", "transfer"}

LEMMA DataStageInType ==
  ASSUME NEW n \in Nat, NEW off \in Nat, NEW reply \in Replies, DataStageIn(n, off, reply)
  PROVE  /\ ControlState' \in ControlStates /\ epRx' \in EpStatus /\ epTx' \in EpStatus
         /\ Usb_wLength' \in Nat /\ Usb_wOffset' \in Nat /\ tx' \in Replies
  BY PacketLengthType DEF DataStageIn, ControlStates, EpStatus

LEMMA StartDataInType ==
  ASSUME TypeOK, NEW r \in Request, NEW n \in Nat, NEW reply \in Replies,
         StartDataIn(r, n, reply)
  PROVE  EndpointTypeOK'
<1>1. setup' \in Request /\ bus' \in {"idle", "transfer"}
  BY DEF StartDataIn, Opened
<1>2. CASE n = 0
  BY <1>1, <1>2 DEF StartDataIn, EndpointTypeOK, Stalled, ControlStates, EpStatus, TypeOK
<1>3. CASE n # 0
  <2> DEFINE m == IF n > r.len THEN r.len ELSE n
  <2>1. m \in Nat
    BY DEF Request
  <2>2. DataStageIn(m, 0, reply)
    BY <1>3 DEF StartDataIn
  <2>3. Data_Mul_MaxPacketSize' \in BOOLEAN
    <3> DEFINE kept == n >= r.len \/ (n > MaxPacketSize /\ n % MaxPacketSize # 0)
               full == n >= MaxPacketSize
    <3>1. Data_Mul_MaxPacketSize' = IF kept THEN Data_Mul_MaxPacketSize ELSE full
      BY <1>3, Zenon DEF StartDataIn
    <3>2. Data_Mul_MaxPacketSize \in BOOLEAN
      BY DEF TypeOK
    <3>3. full \in BOOLEAN
      OBVIOUS
    <3> HIDE DEF kept, full
    <3> QED
      BY <3>1, <3>2, <3>3, Zenon
  <2> HIDE DEF m
  <2> QED
    BY <1>1, <2>1, <2>2, <2>3, DataStageInType DEF EndpointTypeOK
<1> QED
  BY <1>2, <1>3

LEMMA StallSetupType ==
  ASSUME TypeOK, NEW r \in Request, StallSetup(r)
  PROVE  EndpointTypeOK'
  BY DEF StallSetup, Opened, Stalled, EndpointTypeOK, TypeOK, ControlStates, EpStatus

LEMMA ServedNoDataType ==
  ASSUME TypeOK, NEW r \in Request, ServedNoData(r)
  PROVE  EndpointTypeOK'
  BY DEF ServedNoData, Opened, EndpointTypeOK, TypeOK, ControlStates, EpStatus, Replies

LEMMA StartDataOutType ==
  ASSUME TypeOK, NEW r \in Request, StartDataOut(r)
  PROVE  EndpointTypeOK'
  BY DEF StartDataOut, Opened, EndpointTypeOK, TypeOK, ControlStates, EpStatus, Request

\* The replies are well-formed.
LEMMA ReplyTypes ==
  /\ NoReply \in Replies
  /\ \A s \in Status : StatusReply(s) \in Replies
  /\ \A s \in DfuStates : StateReply(s) \in Replies
  /\ \A c \in Content : DataReply(c) \in Replies
  BY DEF Replies, StatusReply, StateReply, DataReply

-----------------------------------------------------------------------------
(* Type correctness.                                                        *)

DfuTypeOK ==
  /\ DeviceState \in DfuStates
  /\ DeviceStatus \in Status
  /\ wBlockNum \in Nat /\ wlength \in Nat
  /\ Manifest_State \in {"complete", "in_progress"}

MemTypeOK ==
  /\ mode \in {"dfu", "app"}
  /\ Pointer \in Nat
  /\ MAL_Buffer \in [BufferUnits -> Packet]
  /\ flash \in [FlashUnits -> Content]
  /\ pgerr \in BOOLEAN

HistoryTypeOK ==
  /\ accepted \in [blk : Nat, len : Nat]
  /\ received \in SUBSET BufferUnits

LEMMA TypeParts == TypeOK <=> EndpointTypeOK /\ DfuTypeOK /\ MemTypeOK /\ HistoryTypeOK
  BY DEF TypeOK, EndpointTypeOK, DfuTypeOK, MemTypeOK, HistoryTypeOK

LEMMA TypePartsNext ==
  TypeOK' <=> EndpointTypeOK' /\ DfuTypeOK' /\ MemTypeOK' /\ HistoryTypeOK'
  BY DEF TypeOK, EndpointTypeOK, DfuTypeOK, MemTypeOK, HistoryTypeOK

\* What an action leaves alone keeps its type.
LEMMA DfuUnchanged == ASSUME TypeOK, UNCHANGED dfuVars PROVE DfuTypeOK'
  BY DEF TypeOK, DfuTypeOK, dfuVars

LEMMA MemUnchanged == ASSUME TypeOK, UNCHANGED memVars PROVE MemTypeOK'
  BY DEF TypeOK, MemTypeOK, memVars

LEMMA HistoryUnchanged == ASSUME TypeOK, UNCHANGED history PROVE HistoryTypeOK'
  BY DEF TypeOK, HistoryTypeOK, history

LEMMA EnterType ==
  ASSUME TypeOK, NEW s \in DfuStates, Enter(s)
  PROVE  DeviceState' \in DfuStates /\ DeviceStatus' \in Status
  BY StatusInType DEF Enter

\* A fresh boot has the types of the initial state.
LEMMA RebootType ==
  ASSUME NEW f \in [FlashUnits -> Content], Reboot(f)
  PROVE  TypeOK'
<1>1. EndpointTypeOK'
  BY ReplyTypes DEF Reboot, EndpointTypeOK, ControlStates, EpStatus, Request
<1>2. DfuTypeOK'
  BY DEF Reboot, DfuTypeOK, DfuStates, Status, StatusCodes, ErrorFirmware
<1>3. MemTypeOK'
  BY ConstantsAssumption DEF Reboot, MemTypeOK, BootMode, Packet
<1>4. HistoryTypeOK'
  BY DEF Reboot, HistoryTypeOK
<1> QED
  BY <1>1, <1>2, <1>3, <1>4, TypePartsNext

LEMMA InitType == Init => TypeOK
<1> SUFFICES ASSUME Init PROVE TypeOK
  OBVIOUS
<1>1. EndpointTypeOK
  BY ReplyTypes DEF Init, EndpointTypeOK, ControlStates, EpStatus, Request
<1>2. DfuTypeOK
  BY DEF Init, DfuTypeOK, DfuStates, Status, StatusCodes, ErrorFirmware
<1>3. MemTypeOK
  BY ConstantsAssumption DEF Init, MemTypeOK, BootMode, Packet
<1>4. HistoryTypeOK
  BY DEF Init, HistoryTypeOK
<1> QED
  BY <1>1, <1>2, <1>3, <1>4, TypeParts

\* Every request keeps the types.
LEMMA SetupType ==
  ASSUME TypeOK, NEW r \in Request, Setup0_Process(r)
  PROVE  TypeOK'
<1> USE TypePartsNext
<1>1. CASE SetupDnload(r)
  <2>1. EndpointTypeOK'
    BY <1>1, StartDataOutType DEF SetupDnload
  <2>2. DfuTypeOK'
    BY <1>1, StatusInType DEF SetupDnload, DfuTypeOK, TypeOK, Status, DfuStates, Request
  <2>3. MemTypeOK' /\ HistoryTypeOK'
    BY <1>1, MemUnchanged DEF SetupDnload, HistoryTypeOK, Request
  <2> QED
    BY <2>1, <2>2, <2>3
<1>2. CASE SetupUpload(r)
  <2> DEFINE n == CASE r.blk = 0 -> 3 [] r.blk = 1 -> Usb_wLength [] OTHER -> r.len
  <2>1. StartDataIn(r, n, UploadPacket(r.blk, 0)) /\ UploadRoutine(r.blk, r.len)
    BY <1>2 DEF SetupUpload
  <2>2. n \in Nat
    BY DEF TypeOK, Request
  <2> HIDE DEF n
  <2>3. EndpointTypeOK'
    BY <2>1, <2>2, StartDataInType, UploadPacketType
  <2>4. UploadState(r.blk, r.len) \in DfuStates
    BY DEF UploadState, DfuStates
  <2>5. DfuTypeOK'
    BY <2>1, <2>4, EnterType DEF UploadRoutine, DfuTypeOK, TypeOK, Request
  <2>6. MemTypeOK'
    BY <1>2, <2>1, ConstantsAssumption DEF SetupUpload, UploadRoutine, MemTypeOK, TypeOK, Packet
  <2>7. HistoryTypeOK'
    BY <2>1, HistoryUnchanged DEF UploadRoutine, history
  <2> QED
    BY <2>3, <2>5, <2>6, <2>7
<1>3. CASE SetupGetState(r)
  <2>1. EndpointTypeOK'
    BY <1>3, StartDataInType, ReplyTypes DEF SetupGetState, TypeOK
  <2> QED
    BY <1>3, <2>1, DfuUnchanged, MemUnchanged, HistoryUnchanged DEF SetupGetState
<1>4. CASE SetupGetStatus(r)
  <2>1. EndpointTypeOK'
    BY <1>4, StartDataInType, ReplyTypes, StatusAfterGetType DEF SetupGetStatus, GetStatusReply
  <2>2. DfuTypeOK'
    BY <1>4, StatusAfterGetType DEF SetupGetStatus, DfuTypeOK, TypeOK, Status
  <2> QED
    BY <1>4, <2>1, <2>2, MemUnchanged, HistoryUnchanged DEF SetupGetStatus
<1>5. CASE SetupEndDnload(r)
  <2>1. DfuTypeOK'
    BY <1>5, EnterType DEF SetupEndDnload, DfuTypeOK, TypeOK, DfuStates
  <2> QED
    BY <1>5, <2>1, ServedNoDataType, MemUnchanged, HistoryUnchanged DEF SetupEndDnload
<1>6. CASE SetupEndUpload(r)
  <2>1. DfuTypeOK'
    BY <1>6, EnterType DEF SetupEndUpload, DfuTypeOK, TypeOK, DfuStates
  <2> QED
    BY <1>6, <2>1, ServedNoDataType, MemUnchanged, HistoryUnchanged DEF SetupEndUpload
<1>7. CASE SetupClrStatus(r)
  <2>1. DfuTypeOK'
    BY <1>7 DEF SetupClrStatus, StatusAfterClear, DfuTypeOK, TypeOK, DfuStates, Status, StatusCodes
  <2> QED
    BY <1>7, <2>1, ServedNoDataType, MemUnchanged, HistoryUnchanged DEF SetupClrStatus
<1>8. CASE SetupAbort(r)
  <2>1. DfuTypeOK'
    BY <1>8 DEF SetupAbort, DfuTypeOK, TypeOK, DfuStates, Status, StatusCodes
  <2> QED
    BY <1>8, <2>1, ServedNoDataType, MemUnchanged, HistoryUnchanged DEF SetupAbort
<1>9. CASE SetupStandard(r)
  <2>1. EndpointTypeOK'
    <3>1. DataReply(Zeros) \in Replies
      BY ReplyTypes DEF Content, Packet
    <3>2. CASE r.req = "SET_CONFIGURATION" /\ r.len = 0 /\ ServedNoData(r)
      BY <3>2, ServedNoDataType
    <3>3. CASE \E n \in DescriptorLengths : StartDataIn(r, n, DataReply(Zeros))
      BY <3>1, <3>3, StartDataInType, ConstantsAssumption
    <3> QED
      BY <1>9, <3>2, <3>3 DEF SetupStandard
  <2> QED
    BY <1>9, <2>1, DfuUnchanged, MemUnchanged, HistoryUnchanged DEF SetupStandard
<1>10. CASE SetupUnsupported(r)
  BY <1>10, StallSetupType, DfuUnchanged, MemUnchanged, HistoryUnchanged DEF SetupUnsupported
<1> QED
  BY <1>1, <1>2, <1>3, <1>4, <1>5, <1>6, <1>7, <1>8, <1>9, <1>10 DEF Setup0_Process

LEMMA InDataType ==
  ASSUME TypeOK, InData PROVE TypeOK'
<1> USE TypePartsNext
<1>1. CASE setup.req = "UPLOAD"
  <2>1. /\ DataStageIn(Usb_wLength, Usb_wOffset, UploadPacket(setup.blk, Usb_wOffset))
        /\ UploadRoutine(setup.blk, setup.len)
    BY <1>1 DEF InData
  <2>2. EndpointTypeOK'
    BY <2>1, DataStageInType, UploadPacketType DEF InData, EndpointTypeOK, TypeOK
  <2>3. UploadState(setup.blk, setup.len) \in DfuStates
    BY DEF UploadState, DfuStates
  <2>4. DfuTypeOK'
    BY <2>1, <2>3, EnterType DEF UploadRoutine, DfuTypeOK, TypeOK, Request
  <2>5. MemTypeOK' /\ HistoryTypeOK'
    BY <2>1, HistoryUnchanged DEF InData, UploadRoutine, MemTypeOK, TypeOK
  <2> QED
    BY <2>2, <2>4, <2>5
<1>2. CASE setup.req # "UPLOAD"
  <2>1. /\ DataStageIn(Usb_wLength, Usb_wOffset, DataReply(Zeros))
        /\ UNCHANGED <<dfuVars, mode, Pointer, flash, pgerr, history>>
    BY <1>2 DEF InData
  <2>2. DataReply(Zeros) \in Replies
    BY ReplyTypes DEF Content, Packet
  <2>3. EndpointTypeOK'
    BY <2>1, <2>2, DataStageInType DEF InData, EndpointTypeOK, TypeOK
  <2>4. MemTypeOK'
    BY <2>1 DEF InData, MemTypeOK, TypeOK
  <2> QED
    BY <2>1, <2>3, <2>4, DfuUnchanged, HistoryUnchanged
<1> QED
  BY <1>1, <1>2

LEMMA OutDataType ==
  ASSUME TypeOK, NEW c \in Payload(setup), OutData(c) PROVE TypeOK'
<1> USE TypePartsNext
<1> DEFINE left == Usb_wLength - PacketLength(Usb_wLength)
           at   == {k \in BufferUnits : k * MaxPacketSize = Usb_wOffset}
<1>1. /\ MAL_Buffer' = [k \in BufferUnits |-> IF k \in at THEN c ELSE MAL_Buffer[k]]
      /\ received' = received \cup at
      /\ Usb_wLength' = left /\ Usb_wOffset' = Usb_wOffset + PacketLength(Usb_wLength)
      /\ ControlState' = StageAfter(left)
      /\ epRx' = RxAfter(left) /\ epTx' = "VALID"
  BY DEF OutData
<1>2. left \in Nat /\ Usb_wOffset' \in Nat
  BY <1>1, PacketLengthType DEF TypeOK
<1>3. at \subseteq BufferUnits
  OBVIOUS
<1>4. c \in Packet
  BY DEF Payload, Packet
<1> HIDE DEF left, at
<1>5. EndpointTypeOK'
  BY <1>1, <1>2, ReplyTypes
     DEF OutData, EndpointTypeOK, TypeOK, StageAfter, RxAfter, ControlStates, EpStatus
<1>6. DfuTypeOK'
  BY StatusInType DEF OutData, DfuTypeOK, TypeOK, Status, DfuStates, Request
<1>7. MemTypeOK'
  BY <1>1, <1>4 DEF OutData, MemTypeOK, TypeOK
<1>8. HistoryTypeOK'
  BY <1>1, <1>3 DEF OutData, HistoryTypeOK, TypeOK
<1> QED
  BY <1>5, <1>6, <1>7, <1>8

LEMMA OutStatusBusyType ==
  ASSUME TypeOK, OutStatusBusy PROVE TypeOK'
<1>1. EndpointTypeOK'
  BY DEF OutStatusBusy, Stalled, ep0Rest, EndpointTypeOK, TypeOK, ControlStates, EpStatus
<1>2. DfuTypeOK'
  BY EnterType DEF OutStatusBusy, ForgetOperation, DfuTypeOK, TypeOK, DfuStates
<1>3. NewPointer \in Nat
  BY ConstantsAssumption DEF NewPointer, IsCommand, Command, TypeOK
<1>4. MemTypeOK'
  BY <1>3, FlashAfterType DEF OutStatusBusy, MemTypeOK, TypeOK
<1> QED
  BY <1>1, <1>2, <1>4, HistoryUnchanged, TypePartsNext DEF OutStatusBusy

\* The steps that only stall the endpoint.
LEMMA StallType ==
  ASSUME TypeOK, Stalled, UNCHANGED <<ep0Rest, dfuVars, memVars, history>>
  PROVE  TypeOK'
<1>1. EndpointTypeOK'
  BY DEF Stalled, ep0Rest, EndpointTypeOK, TypeOK, ControlStates, EpStatus
<1> QED
  BY <1>1, DfuUnchanged, MemUnchanged, HistoryUnchanged, TypePartsNext

LEMMA TypeStep == TypeOK /\ [Next]_vars => TypeOK'
<1> SUFFICES ASSUME TypeOK, [Next]_vars PROVE TypeOK'
  OBVIOUS
<1>1. CASE \E r \in Requests : Setup0_Process(r)
  BY <1>1, SetupType, ConstantsAssumption
<1>2. CASE In0_Process
  <2>1. CASE InLastData
    <3>1. EndpointTypeOK'
      BY <2>1 DEF InLastData, EndpointTypeOK, TypeOK, ControlStates, EpStatus
    <3> QED
      BY <2>1, <3>1, DfuUnchanged, MemUnchanged, HistoryUnchanged, TypePartsNext DEF InLastData
  <2> QED
    BY <1>2, <2>1, InDataType, StallType DEF In0_Process, InStatus
<1>3. CASE \E c \in Payload(setup) : OutData(c)
  BY <1>3, OutDataType
<1>4. CASE OutEarly
  BY <1>4, StallType DEF OutEarly
<1>5. CASE OutStatusPlain
  BY <1>5, StallType DEF OutStatusPlain
<1>6. CASE OutStatusBusy
  BY <1>6, OutStatusBusyType
<1>7. CASE OutStatusManifest
  BY <1>7, RebootType DEF OutStatusManifest, TypeOK
<1>8. CASE PowerLossInOperation
  BY <1>8, RebootType, FlashAfterType DEF PowerLossInOperation
<1>9. CASE BusReset
  <2>1. EndpointTypeOK'
    BY <1>9 DEF BusReset, EndpointTypeOK, TypeOK, EpStatus
  <2> QED
    BY <1>9, <2>1, DfuUnchanged, MemUnchanged, HistoryUnchanged, TypePartsNext DEF BusReset
<1>10. CASE PowerCycle
  BY <1>10, RebootType DEF PowerCycle, TypeOK
<1>11. CASE UNCHANGED vars
  BY <1>11 DEF vars, dfuVars, memVars, ep0Vars, history, TypeOK
<1> QED
  BY <1>1, <1>2, <1>3, <1>4, <1>5, <1>6, <1>7, <1>8, <1>9, <1>10, <1>11 DEF Next

\* Every variable of the bootloader keeps its type, whatever the host, the bus and the
\* power supply do.
THEOREM TypeCorrect == Spec => []TypeOK
  BY InitType, TypeStep, PTL DEF Spec

-----------------------------------------------------------------------------
(* The inductive invariant, one lemma per kind of step.                     *)

Safety == StatusConsistent /\ PendingIsAccepted /\ ReplyIsCurrent /\ DataStage

LEMMA SafetyReboot ==
  ASSUME NEW f, Reboot(f) PROVE Safety'
  BY DEF Reboot, ErrorFirmware, Safety, StatusConsistent, PendingIsAccepted, ReplyIsCurrent,
         DataStage

\* A stall, like any step after which no data stage is under way, leaves the two
\* invariants of the DFU state to be shown.
LEMMA SafetyNoData ==
  ASSUME StatusConsistent', PendingIsAccepted',
         ControlState' \in {"STALLED", "WAIT_STATUS_IN"}
  PROVE  Safety'
  BY DEF Safety, ReplyIsCurrent, DataStage

LEMMA SafetyDfuUnchanged ==
  ASSUME IInv, UNCHANGED <<dfuVars, history>>
  PROVE  StatusConsistent' /\ PendingIsAccepted'
  BY DEF IInv, StatusConsistent, PendingIsAccepted, dfuVars, history

\* A reply of at least one byte that is not a status.
LEMMA SafetyOtherReply ==
  ASSUME StatusConsistent', PendingIsAccepted', NEW r \in Request, NEW n, NEW reply,
         StartDataIn(r, n, reply), r.req # "GETSTATUS", r.req # "UPLOAD"
  PROVE  Safety'
<1>1. setup' = r
  BY DEF StartDataIn, Opened
<1>2. ControlState' \in {"STALLED", "IN_DATA", "LAST_IN_DATA"}
  BY DEF StartDataIn, DataStageIn, Stalled
<1> QED
  BY <1>1, <1>2 DEF Safety, ReplyIsCurrent, DataStage

LEMMA SafetyGetStatus ==
  ASSUME IInv, NEW r \in Request, SetupGetStatus(r) PROVE Safety'
<1>1. DeviceStatus' = StatusAfterGet
  BY DEF SetupGetStatus
<1>2. TypeOK /\ StatusConsistent /\ PendingIsAccepted
  BY DEF IInv
<1>3. /\ setup' = r /\ ControlState' = "LAST_IN_DATA"
      /\ tx' = StatusReply(StatusAfterGet)
  <2> DEFINE m == IF 6 > r.len THEN r.len ELSE 6
  <2>1. setup' = r /\ DataStageIn(m, 0, StatusReply(StatusAfterGet))
    BY DEF SetupGetStatus, GetStatusReply, StartDataIn, Opened
  <2>2. m <= MaxPacketSize
    BY ConstantsAssumption DEF Request
  <2> HIDE DEF m
  <2> QED
    BY <2>1, <2>2 DEF DataStageIn
<1>4. DeviceStatus.bState = DeviceState
  BY <1>2 DEF StatusConsistent
<1>5. DeviceState' = StatusAfterGet.bState
  BY <1>4 DEF SetupGetStatus
<1>6. StatusConsistent' /\ (DeviceState' \in {"dfuDNLOAD_SYNC", "dfuDNBUSY"} /\ wlength # 0 =>
                             DeviceState \in {"dfuDNLOAD_SYNC", "dfuDNBUSY"})
  <2>0. wlength' = wlength
    BY DEF SetupGetStatus
  <2>1. CASE DeviceState = "dfuDNLOAD_SYNC" /\ wlength # 0
    BY <1>1, <1>5, <2>0, <2>1, StatusAfterGetCases, BusyTimeType, <1>2
       DEF StatusIn, StatusConsistent
  <2>2. CASE DeviceState = "dfuDNLOAD_SYNC" /\ wlength = 0
    BY <1>1, <1>5, <2>0, <2>2, StatusAfterGetCases, <1>2 DEF StatusIn, StatusConsistent
  <2>3. CASE DeviceState # "dfuDNLOAD_SYNC"
    BY <1>1, <1>5, <2>0, <2>3, StatusAfterGetCases, <1>2 DEF StatusIn, StatusConsistent
  <2> QED
    BY <2>1, <2>2, <2>3
<1>7. PendingIsAccepted'
  BY <1>2, <1>6 DEF SetupGetStatus, PendingIsAccepted, history
<1> QED
  BY <1>1, <1>3, <1>6, <1>7 DEF Safety, ReplyIsCurrent, DataStage

\* UPLOAD leaves the states that wait for an operation.
LEMMA SafetyUploadRoutine ==
  ASSUME NEW blk, NEW len, UploadRoutine(blk, len)
  PROVE  /\ StatusConsistent' /\ PendingIsAccepted'
         /\ DeviceState' = UploadState(blk, len)
  BY DEF UploadRoutine, Enter, StatusIn, UploadState, StatusConsistent, PendingIsAccepted

LEMMA SafetySetup ==
  ASSUME IInv, NEW r \in Request, Setup0_Process(r) PROVE Safety'
<1>0. TypeOK /\ StatusConsistent /\ PendingIsAccepted
  BY DEF IInv
<1>1. CASE SetupDnload(r)
  <2>1. /\ setup' = r /\ ControlState' = "OUT_DATA" /\ DeviceState' = "dfuDNLOAD_SYNC"
        /\ DeviceStatus' = StatusIn("dfuDNLOAD_SYNC", DeviceStatus.poll)
        /\ accepted' = [blk |-> r.blk, len |-> r.len] /\ wBlockNum' = r.blk /\ wlength' = r.len
    BY <1>1 DEF SetupDnload, StartDataOut, Opened
  <2>2. DeviceStatus.poll = 0
    BY <1>0, <1>1 DEF SetupDnload, DnloadAllowed, StatusConsistent
  <2> QED
    BY <1>1, <2>1, <2>2
       DEF SetupDnload, Safety, StatusConsistent, StatusIn, PendingIsAccepted, ReplyIsCurrent,
           DataStage
<1>2. CASE SetupUpload(r)
  <2>1. /\ StatusConsistent' /\ PendingIsAccepted'
        /\ DeviceState' = UploadState(r.blk, r.len)
    BY <1>2, SafetyUploadRoutine DEF SetupUpload
  <2>2. setup' = r /\ ControlState' \in {"STALLED", "IN_DATA", "LAST_IN_DATA"}
    BY <1>2 DEF SetupUpload, StartDataIn, DataStageIn, Opened, Stalled
  <2> QED
    BY <1>2, <2>1, <2>2 DEF SetupUpload, Safety, ReplyIsCurrent, DataStage
<1>3. CASE SetupGetState(r)
  BY <1>3, SafetyOtherReply, SafetyDfuUnchanged DEF SetupGetState
<1>4. CASE SetupGetStatus(r)
  BY <1>4, SafetyGetStatus
<1>5. CASE SetupEndDnload(r)
  BY <1>5, SafetyNoData
     DEF SetupEndDnload, ServedNoData, Enter, StatusIn, StatusConsistent, PendingIsAccepted
<1>6. CASE SetupEndUpload(r)
  BY <1>6, SafetyNoData
     DEF SetupEndUpload, ServedNoData, Enter, StatusIn, StatusConsistent, PendingIsAccepted
<1>7. CASE SetupClrStatus(r)
  BY <1>7, SafetyNoData
     DEF SetupClrStatus, StatusAfterClear, ServedNoData, StatusConsistent, PendingIsAccepted
<1>8. CASE SetupAbort(r)
  <2>1. CASE AbortAllowed
    BY <1>8, <2>1, SafetyNoData
       DEF SetupAbort, ServedNoData, StatusConsistent, PendingIsAccepted
  <2>2. CASE ~AbortAllowed
    BY <1>0, <1>8, <2>2, SafetyNoData
       DEF SetupAbort, ServedNoData, StatusConsistent, PendingIsAccepted, history
  <2> QED
    BY <2>1, <2>2
<1>9. CASE SetupStandard(r)
  <2>1. StatusConsistent' /\ PendingIsAccepted'
    BY <1>9, SafetyDfuUnchanged DEF SetupStandard
  <2>2. CASE ServedNoData(r)
    BY <2>1, <2>2, SafetyNoData DEF ServedNoData
  <2>3. CASE /\ r.req = "GET_DESCRIPTOR"
             /\ \E n \in DescriptorLengths : StartDataIn(r, n, DataReply(Zeros))
    BY <2>1, <2>3, SafetyOtherReply
  <2> QED
    BY <1>9, <2>2, <2>3 DEF SetupStandard
<1>10. CASE SetupUnsupported(r)
  BY <1>10, SafetyDfuUnchanged, SafetyNoData DEF SetupUnsupported, StallSetup, Stalled
<1> QED
  BY <1>1, <1>2, <1>3, <1>4, <1>5, <1>6, <1>7, <1>8, <1>9, <1>10 DEF Setup0_Process

LEMMA SafetyInData ==
  ASSUME IInv, InData PROVE Safety'
<1>0. setup.req # "GETSTATUS" /\ setup' = setup
  BY DEF IInv, DataStage, InData
<1>1. ControlState' \in {"IN_DATA", "LAST_IN_DATA"}
  BY DEF InData, DataStageIn
<1>2. CASE setup.req = "UPLOAD"
  <2>1. UploadRoutine(setup.blk, setup.len)
    BY <1>2 DEF InData
  <2> QED
    BY <1>0, <1>1, <2>1, SafetyUploadRoutine DEF Safety, ReplyIsCurrent, DataStage
<1>3. CASE setup.req # "UPLOAD"
  <2>1. UNCHANGED <<dfuVars, history>>
    BY <1>3 DEF InData
  <2> QED
    BY <1>0, <1>1, <1>3, <2>1, SafetyDfuUnchanged DEF Safety, ReplyIsCurrent, DataStage
<1> QED
  BY <1>2, <1>3

LEMMA SafetyOutData ==
  ASSUME IInv, NEW c, OutData(c) PROVE Safety'
<1>1. /\ setup.req = "DNLOAD" /\ DeviceState = "dfuDNLOAD_SYNC"
      /\ accepted = [blk |-> setup.blk, len |-> setup.len]
      /\ DeviceStatus.poll = 0
  BY DEF IInv, DataStage, StatusConsistent, OutData
<1>2. ControlState' \in {"OUT_DATA", "LAST_OUT_DATA", "WAIT_STATUS_IN"}
  BY DEF OutData, StageAfter
<1>3. StatusConsistent' /\ PendingIsAccepted'
  BY <1>1 DEF OutData, StatusIn, StatusConsistent, PendingIsAccepted
<1> QED
  BY <1>1, <1>2, <1>3 DEF OutData, Safety, ReplyIsCurrent, DataStage

LEMMA SafetyStall ==
  ASSUME IInv, Stalled, UNCHANGED <<ep0Rest, dfuVars, memVars, history>>
  PROVE  Safety'
  BY SafetyDfuUnchanged, SafetyNoData DEF Stalled

LEMMA SafetyStep == IInv /\ [Next]_vars => IInv'
<1> SUFFICES ASSUME IInv, [Next]_vars PROVE IInv'
  OBVIOUS
<1>0. IInv' <=> TypeOK' /\ Safety'
  BY DEF IInv, Safety
<1>0a. TypeOK'
  BY TypeStep DEF IInv
<1> SUFFICES Safety'
  BY <1>0, <1>0a
<1>1. CASE \E r \in Requests : Setup0_Process(r)
  BY <1>1, SafetySetup, ConstantsAssumption
<1>2. CASE In0_Process
  <2>1. CASE InLastData
    <3>1. StatusConsistent' /\ PendingIsAccepted'
      BY <2>1, SafetyDfuUnchanged DEF InLastData
    <3>2. ControlState' \in {"LAST_IN_DATA", "WAIT_STATUS_OUT"}
      BY <2>1 DEF InLastData
    <3> QED
      BY <2>1, <3>1, <3>2
         DEF InLastData, IInv, Safety, ReplyIsCurrent, DataStage, dfuVars
  <2> QED
    BY <1>2, <2>1, SafetyInData, SafetyStall DEF In0_Process, InStatus
<1>3. CASE \E c \in Payload(setup) : OutData(c)
  BY <1>3, SafetyOutData
<1>4. CASE OutEarly
  BY <1>4, SafetyStall DEF OutEarly
<1>5. CASE OutStatusPlain
  BY <1>5, SafetyStall DEF OutStatusPlain
<1>6. CASE OutStatusBusy
  <2>1. StatusConsistent' /\ PendingIsAccepted'
    BY <1>6 DEF OutStatusBusy, ForgetOperation, Enter, StatusIn, StatusConsistent,
                PendingIsAccepted
  <2> QED
    BY <1>6, <2>1, SafetyNoData DEF OutStatusBusy, Stalled
<1>7. CASE OutStatusManifest
  BY <1>7, SafetyReboot DEF OutStatusManifest
<1>8. CASE PowerLossInOperation
  BY <1>8, SafetyReboot DEF PowerLossInOperation
<1>9. CASE BusReset
  <2>1. StatusConsistent' /\ PendingIsAccepted'
    BY <1>9, SafetyDfuUnchanged DEF BusReset
  <2> QED
    BY <1>9, <2>1 DEF BusReset, IInv, Safety, ReplyIsCurrent, DataStage, dfuVars, history
<1>10. CASE PowerCycle
  BY <1>10, SafetyReboot DEF PowerCycle
<1>11. CASE UNCHANGED vars
  BY <1>11 DEF vars, dfuVars, ep0Vars, memVars, history, IInv, Safety, StatusConsistent,
               PendingIsAccepted, ReplyIsCurrent, DataStage
<1> QED
  BY <1>1, <1>2, <1>3, <1>4, <1>5, <1>6, <1>7, <1>8, <1>9, <1>10, <1>11 DEF Next

LEMMA SafetyInit == Init => IInv
<1> SUFFICES ASSUME Init PROVE IInv
  OBVIOUS
<1> QED
  BY InitType DEF Init, ErrorFirmware, IInv, StatusConsistent, PendingIsAccepted,
                  ReplyIsCurrent, DataStage

\* The inductive invariant holds in every reachable state, of every instance.
THEOREM Invariance == Spec => []IInv
  BY SafetyInit, SafetyStep, PTL DEF Spec

\* The status block always agrees with the state machine (usb_prop.c, all its handlers).
THEOREM StatusCorrect == Spec => []StatusConsistent
  BY Invariance, PTL DEF IInv

\* The operation that waits or runs is the DNLOAD accepted last, for every host.
THEOREM PendingCorrect == Spec => []PendingIsAccepted
  BY Invariance, PTL DEF IInv

\* A GETSTATUS reply the host is reading is never out of date.
THEOREM ReplyCorrect == Spec => []ReplyIsCurrent
  BY Invariance, PTL DEF IInv

-----------------------------------------------------------------------------
(* Action properties.                                                       *)

\* A step that is part of the pending operation.
LEMMA OperationStep ==
  ASSUME IInv, StatusStage, Busy
  PROVE  /\ tx = StatusReply(DeviceStatus) /\ DeviceStatus.bState = "dfuDNBUSY"
         /\ [blk |-> wBlockNum, len |-> wlength] = accepted
<1>1. setup.req = "GETSTATUS" /\ DeviceState = "dfuDNBUSY" /\ ControlState = "WAIT_STATUS_OUT"
  BY DEF StatusStage, Busy
<1>2. tx = StatusReply(DeviceStatus)
  BY <1>1 DEF IInv, ReplyIsCurrent
<1>3. DeviceStatus.bState = "dfuDNBUSY" /\ wlength # 0
  BY <1>1 DEF IInv, StatusConsistent
<1>4. [blk |-> wBlockNum, len |-> wlength] = accepted
  BY <1>1, <1>3 DEF IInv, PendingIsAccepted
<1> QED
  BY <1>2, <1>3, <1>4

LEMMA OperationFlashChange ==
  ASSUME IInv, StatusStage, Busy, NEW S, flash' = FlashAfter(S)
  PROVE  FlashChange
<1>1. \A u \in FlashUnits : flash'[u] # flash[u] => u \in ErasedUnits \cup WrittenUnits
  BY FlashAfterFrame
<1> QED
  BY <1>1, OperationStep DEF FlashChange

LEMMA FlashStep == IInv /\ [Next]_vars => [FlashChange]_vars
<1> SUFFICES ASSUME IInv, Next PROVE FlashChange
  OBVIOUS
<1>1. CASE flash' = flash
  BY <1>1 DEF FlashChange
<1>2. CASE OutStatusBusy
  BY <1>2, OperationFlashChange DEF OutStatusBusy
<1>3. CASE PowerLossInOperation
  <2>1. PICK S : Reboot(FlashAfter(S))
    BY <1>3 DEF PowerLossInOperation
  <2>2. flash' = FlashAfter(S)
    BY <2>1 DEF Reboot
  <2> QED
    BY <1>3, <2>2, OperationFlashChange DEF PowerLossInOperation
<1>4. CASE \E r \in Requests : Setup0_Process(r)
  <2>1. flash' = flash
    BY <1>4 DEF Setup0_Process, SetupDnload, SetupUpload, UploadRoutine, SetupGetState,
                SetupGetStatus, SetupEndDnload, SetupEndUpload, SetupClrStatus, SetupAbort,
                SetupStandard, SetupUnsupported, memVars
  <2> QED
    BY <1>1, <2>1
<1>5. CASE In0_Process
  <2>1. flash' = flash
    BY <1>5 DEF In0_Process, InData, UploadRoutine, InLastData, InStatus, memVars
  <2> QED
    BY <1>1, <2>1
<1>6. CASE \/ \E c \in Payload(setup) : OutData(c)
           \/ OutEarly \/ OutStatusPlain \/ OutStatusManifest \/ BusReset \/ PowerCycle
  <2>1. flash' = flash
    BY <1>6 DEF OutData, OutEarly, OutStatusPlain, OutStatusManifest, BusReset, PowerCycle,
                Reboot, memVars
  <2> QED
    BY <1>1, <2>1
<1> QED
  BY <1>2, <1>3, <1>4, <1>5, <1>6 DEF Next

\* For every host, every image and every failure: the flash is written only once the host
\* has read the busy status of the DNLOAD accepted last, and only where it says.
THEOREM FlashCorrect == Spec => FlashChangesOnlyWhenBusy
  BY Invariance, FlashStep, PTL DEF Spec, FlashChangesOnlyWhenBusy

LEMMA ErrorStep == IInv /\ [Next]_vars => [ErrorExit]_vars
<1> SUFFICES ASSUME IInv, Next, DeviceState = "dfuERROR", DeviceState' # "dfuERROR"
             PROVE  setup'.req = "CLRSTATUS" \/ (setup'.req = "UPLOAD" /\ setup'.len = 0)
  BY DEF ErrorExit
<1>1. CASE \E r \in Requests : Setup0_Process(r)
  <2>1. PICK r \in Requests : Setup0_Process(r)
    BY <1>1
  <2>2. ~SetupDnload(r) /\ ~SetupUpload(r) /\ ~SetupEndDnload(r)
    BY DEF SetupDnload, SetupUpload, SetupEndDnload, DnloadAllowed, UploadAllowed
  <2>3. ~SetupGetState(r) /\ ~SetupStandard(r) /\ ~SetupUnsupported(r)
    BY DEF SetupGetState, SetupStandard, SetupUnsupported, dfuVars
  <2>4. ~SetupGetStatus(r)
    BY StatusAfterGetCases DEF SetupGetStatus, IInv
  <2>5. ~SetupAbort(r)
    BY DEF SetupAbort, AbortAllowed
  <2> QED
    BY <2>1, <2>2, <2>3, <2>4, <2>5
       DEF Setup0_Process, SetupEndUpload, SetupClrStatus, ServedNoData, Opened
<1>2. ~In0_Process
  <2>1. ~InData
    <3> SUFFICES ASSUME InData PROVE FALSE
      OBVIOUS
    <3>1. setup.req = "UPLOAD"
      BY DEF InData, dfuVars
    <3>2. DeviceState = UploadState(setup.blk, setup.len)
      BY <3>1 DEF IInv, DataStage, InData
    <3> QED
      BY <3>2 DEF UploadState
  <2>2. ~InLastData /\ ~InStatus
    BY DEF InLastData, InStatus, dfuVars
  <2> QED
    BY <2>1, <2>2 DEF In0_Process
<1>3. ~(\E c \in Payload(setup) : OutData(c))
  BY DEF OutData, IInv, DataStage
<1>4. ~OutEarly /\ ~OutStatusPlain /\ ~OutStatusBusy /\ ~BusReset
  BY DEF OutEarly, OutStatusPlain, OutStatusBusy, Busy, BusReset, dfuVars
<1>5. ~OutStatusManifest /\ ~PowerLossInOperation /\ ~PowerCycle
  BY DEF OutStatusManifest, PowerLossInOperation, PowerCycle, Reboot
<1> QED
  BY <1>1, <1>2, <1>3, <1>4, <1>5 DEF Next

\* A bootloader in dfuERROR stays there until the host clears the error (or ends an upload
\* that it never began).
THEOREM ErrorCorrect == Spec => ErrorIsSticky
  BY Invariance, ErrorStep, PTL DEF Spec, ErrorIsSticky

-----------------------------------------------------------------------------
(* The endpoint answers the packet that comes next.                         *)

\* NextPacketAnswered with what makes it inductive: while the device sends, it listens too.
Endpoints ==
  /\ NextPacketAnswered
  /\ bus = "transfer" /\ ControlState \in {"IN_DATA", "LAST_IN_DATA"} => epRx = "VALID"

LEMMA EndpointsDataIn ==
  ASSUME NEW r, NEW n, NEW reply, StartDataIn(r, n, reply) PROVE Endpoints'
  BY DEF StartDataIn, DataStageIn, Stalled, Endpoints, NextPacketAnswered

LEMMA EndpointsStep == TypeOK /\ Endpoints /\ [Next]_vars => Endpoints'
<1> SUFFICES ASSUME TypeOK, Endpoints, [Next]_vars PROVE Endpoints'
  OBVIOUS
<1> USE DEF Endpoints, NextPacketAnswered
<1>0. Stalled => Endpoints'
  BY DEF Stalled
<1>1. ASSUME NEW r \in Requests, Setup0_Process(r) PROVE Endpoints'
  <2>1. StallSetup(r) => Endpoints'
    BY <1>0 DEF StallSetup
  <2>2. ServedNoData(r) => Endpoints'
    BY DEF ServedNoData
  <2>3. StartDataOut(r) => Endpoints'
    BY DEF StartDataOut
  <2> QED
    BY <1>1, <2>1, <2>2, <2>3, EndpointsDataIn
       DEF Setup0_Process, SetupDnload, SetupUpload, SetupGetState, SetupGetStatus,
           SetupEndDnload, SetupEndUpload, SetupClrStatus, SetupAbort, SetupStandard,
           SetupUnsupported
<1>2. CASE In0_Process
  <2>1. CASE InData
    BY <2>1 DEF InData, DataStageIn
  <2>2. CASE InLastData
    BY <2>2 DEF InLastData
  <2> QED
    BY <1>0, <1>2, <2>1, <2>2 DEF In0_Process, InStatus
<1>3. CASE \E c \in Payload(setup) : OutData(c)
  <2>1. /\ ControlState' = StageAfter(Usb_wLength - PacketLength(Usb_wLength))
        /\ epRx' = RxAfter(Usb_wLength - PacketLength(Usb_wLength)) /\ epTx' = "VALID"
    BY <1>3 DEF OutData
  <2> QED
    BY <2>1 DEF StageAfter, RxAfter
<1>4. CASE OutEarly \/ OutStatusPlain \/ OutStatusBusy
  BY <1>0, <1>4 DEF OutEarly, OutStatusPlain, OutStatusBusy
<1>5. CASE OutStatusManifest \/ PowerLossInOperation \/ PowerCycle \/ BusReset
  BY <1>5 DEF OutStatusManifest, PowerLossInOperation, PowerCycle, Reboot, BusReset
<1>6. CASE UNCHANGED vars
  BY <1>6 DEF vars, ep0Vars
<1> QED
  BY <1>1, <1>2, <1>3, <1>4, <1>5, <1>6 DEF Next

\* In every transfer the endpoint is ready for the packet the host sends next, or stalled:
\* no request and no interrupted transfer leaves a host waiting (usb_core.c).
THEOREM EndpointCorrect == Spec => []NextPacketAnswered
<1>1. Init => Endpoints
  BY DEF Init, Endpoints, NextPacketAnswered
<1>2. Endpoints => NextPacketAnswered
  BY DEF Endpoints
<1> QED
  BY <1>1, <1>2, TypeCorrect, EndpointsStep, PTL DEF Spec

-----------------------------------------------------------------------------
(* A DNLOAD is acknowledged once its block is complete.                     *)

\* In a data stage j whole packets have come, and fill the buffer from its start.
Filled ==
  /\ ControlState \in {"OUT_DATA", "LAST_OUT_DATA"} =>
       /\ Usb_wOffset + Usb_wLength = setup.len
       /\ \E j \in Nat : /\ Usb_wOffset = j * MaxPacketSize
                        /\ \A k \in BufferUnits : k < j => k \in received
  /\ AckedBlockIsComplete

\* Packet k starts before the end of packet j only if it does not come after it.
LEMMA PacketOrder ==
  ASSUME NEW j \in Nat, NEW k \in Nat, k * MaxPacketSize < j * MaxPacketSize + MaxPacketSize
  PROVE  k <= j
<1>1. MaxPacketSize \in Nat /\ MaxPacketSize > 0
  BY ConstantsAssumption
<1> SUFFICES ASSUME k > j PROVE FALSE
  OBVIOUS
<1> DEFINE d == k - (j + 1)
<1>2. d \in Nat /\ k = (j + 1) + d
  OBVIOUS
<1> HIDE DEF d
<1>3. k * MaxPacketSize = j * MaxPacketSize + MaxPacketSize + d * MaxPacketSize
  BY <1>1, <1>2
<1>4. d * MaxPacketSize >= 0
  BY <1>1, <1>2
<1> QED
  BY <1>1, <1>2, <1>3, <1>4

LEMMA FilledOutData ==
  ASSUME TypeOK, Filled, NEW c, OutData(c)
  PROVE  Filled'
<1> DEFINE left == Usb_wLength - PacketLength(Usb_wLength)
           at   == {k \in BufferUnits : k * MaxPacketSize = Usb_wOffset}
<1>0. MaxPacketSize \in Nat /\ MaxPacketSize > 0
  BY ConstantsAssumption
<1>1. /\ received' = received \cup at /\ setup' = setup
      /\ Usb_wLength' = left /\ Usb_wOffset' = Usb_wOffset + PacketLength(Usb_wLength)
      /\ ControlState' = StageAfter(left)
  BY DEF OutData
<1>2. Usb_wOffset + Usb_wLength = setup.len
  BY DEF OutData, Filled
<1>3. PICK j \in Nat : /\ Usb_wOffset = j * MaxPacketSize
                       /\ \A k \in BufferUnits : k < j => k \in received
  BY DEF OutData, Filled
<1>4. \A k \in BufferUnits : k < j + 1 => k \in received'
  <2> SUFFICES ASSUME NEW k \in BufferUnits, k < j + 1 PROVE k \in received'
    OBVIOUS
  <2>1. CASE k < j
    BY <1>1, <1>3, <2>1
  <2>2. CASE k = j
    BY <1>1, <1>3, <2>2
  <2> QED
    BY <2>1, <2>2 DEF BufferUnits
<1>5. CASE left = 0
  <2>1. Usb_wLength \in Nat /\ Usb_wLength <= MaxPacketSize
    BY <1>0, <1>5 DEF PacketLength, TypeOK
  <2>2. \A k \in BufferUnits : k * MaxPacketSize < setup.len => k \in received'
    <3> SUFFICES ASSUME NEW k \in BufferUnits, k * MaxPacketSize < setup.len
                 PROVE  k \in received'
      OBVIOUS
    <3>1. k \in Nat
      BY DEF BufferUnits
    <3> DEFINE kM == k * MaxPacketSize
               jM == j * MaxPacketSize
    <3>1a. kM \in Nat /\ jM \in Nat
      BY <1>0, <3>1
    <3>1b. kM < setup.len /\ jM = Usb_wOffset
      BY <1>3
    <3> HIDE DEF kM, jM
    <3>2. kM < jM + MaxPacketSize
      BY <1>0, <1>2, <2>1, <3>1a, <3>1b
    <3>3. k <= j
      BY <3>1, <3>2, PacketOrder DEF kM, jM
    <3> QED
      BY <1>4, <3>1, <3>3
  <2>3. ControlState' = "WAIT_STATUS_IN"
    BY <1>1, <1>5 DEF StageAfter
  <2> QED
    BY <1>1, <2>2, <2>3 DEF Filled, AckedBlockIsComplete
<1>6. CASE left # 0
  <2>1. PacketLength(Usb_wLength) = MaxPacketSize
    BY <1>0, <1>6 DEF PacketLength, TypeOK
  <2>2. Usb_wOffset' + Usb_wLength' = setup'.len
    BY <1>0, <1>1, <1>2, <2>1 DEF TypeOK
  <2>3. Usb_wOffset' = (j + 1) * MaxPacketSize
    BY <1>0, <1>1, <1>3, <2>1
  <2>4. ControlState' # "WAIT_STATUS_IN"
    BY <1>1, <1>6 DEF StageAfter
  <2>5. j + 1 \in Nat
    OBVIOUS
  <2> QED
    BY <1>4, <2>2, <2>3, <2>4, <2>5 DEF Filled, AckedBlockIsComplete
<1> QED
  BY <1>5, <1>6

LEMMA FilledStep == TypeOK /\ Filled /\ [Next]_vars => Filled'
<1> SUFFICES ASSUME TypeOK, Filled, [Next]_vars PROVE Filled'
  OBVIOUS
<1>0. ControlState' \in {"STALLED", "IN_DATA", "LAST_IN_DATA", "WAIT_STATUS_OUT"} => Filled'
  BY DEF Filled, AckedBlockIsComplete
<1>1. ASSUME NEW r \in Requests, Setup0_Process(r) PROVE Filled'
  <2>1. CASE SetupDnload(r)
    <3>1. /\ setup' = r /\ ControlState' = "OUT_DATA"
          /\ Usb_wLength' = r.len /\ Usb_wOffset' = 0
      BY <2>1 DEF SetupDnload, StartDataOut, Opened
    <3>2. r.len \in Nat
      BY ConstantsAssumption DEF Request
    <3>3. Usb_wOffset' = 0 * MaxPacketSize
      BY <3>1, ConstantsAssumption
    <3>4. \A k \in BufferUnits : k < 0 => k \in received'
      BY DEF BufferUnits
    <3> QED
      BY <3>1, <3>2, <3>3, <3>4 DEF Filled, AckedBlockIsComplete
  <2>2. CASE ServedNoData(r) /\ r.len = 0
    BY <2>2 DEF ServedNoData, Opened, Filled, AckedBlockIsComplete
  <2>3. CASE StallSetup(r)
    BY <1>0, <2>3 DEF StallSetup, Stalled
  <2>4. ASSUME NEW n, NEW reply, StartDataIn(r, n, reply) PROVE Filled'
    <3>1. ControlState' \in {"STALLED", "IN_DATA", "LAST_IN_DATA"}
      BY <2>4 DEF StartDataIn, DataStageIn, Stalled
    <3> QED
      BY <1>0, <3>1
  <2> QED
    BY <1>1, <2>1, <2>2, <2>3, <2>4
       DEF Setup0_Process, SetupUpload, SetupGetState, SetupGetStatus,
           SetupEndDnload, SetupEndUpload, SetupClrStatus, SetupAbort, SetupStandard,
           SetupUnsupported
<1>2. CASE In0_Process
  <2>1. ControlState' \in {"STALLED", "IN_DATA", "LAST_IN_DATA", "WAIT_STATUS_OUT"}
    BY <1>2 DEF In0_Process, InData, DataStageIn, InLastData, InStatus, Stalled
  <2> QED
    BY <1>0, <2>1
<1>3. CASE \E c \in Payload(setup) : OutData(c)
  BY <1>3, FilledOutData
<1>4. CASE OutEarly \/ OutStatusPlain \/ OutStatusBusy
  BY <1>0, <1>4 DEF OutEarly, OutStatusPlain, OutStatusBusy, Stalled
<1>5. CASE OutStatusManifest \/ PowerLossInOperation \/ PowerCycle
  BY <1>0, <1>5 DEF OutStatusManifest, PowerLossInOperation, PowerCycle, Reboot
<1>6. CASE BusReset \/ UNCHANGED vars
  <2>1. UNCHANGED <<ControlState, setup, Usb_wLength, Usb_wOffset, received>>
    BY <1>6 DEF BusReset, vars, ep0Vars, history
  <2> QED
    BY <2>1 DEF Filled, AckedBlockIsComplete
<1> QED
  BY <1>1, <1>2, <1>3, <1>4, <1>5, <1>6 DEF Next

\* For blocks and packets of any size: when the device acknowledges a DNLOAD every packet
\* of the block is in MAL_Buffer (DataStageOut of usb_core.c, DNLOAD of usb_prop.c).
THEOREM AckCorrect == Spec => []AckedBlockIsComplete
<1>1. Init => Filled
  BY DEF Init, Filled, AckedBlockIsComplete
<1>2. Filled => AckedBlockIsComplete
  BY DEF Filled
<1> QED
  BY <1>1, <1>2, TypeCorrect, FilledStep, PTL DEF Spec

=============================================================================
