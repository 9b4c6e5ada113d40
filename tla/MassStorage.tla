---------------------------- MODULE MassStorage ----------------------------
(***************************************************************************)
(* The USB disk of the mass-storage firmware (src/firmware/mass_storage):  *)
(* the Bulk-Only Transport state machine (usb_bot.c), the SCSI commands    *)
(* (usb_scsi.c), the block transfers (memory.c), the card behind them      *)
(* (mass_mal.c) and the resets (usb_prop.c), with the host that drives     *)
(* them over two bulk endpoints.                                           *)
(*                                                                         *)
(* The firmware runs in the USB interrupt.  A packet on the bus only sets  *)
(* the CTR flag of its endpoint; the handler runs later, and in between    *)
(* the host may go on.  Each handler is an operator from the state of the  *)
(* device to the next, and calls the operators of the functions it calls.  *)
(***************************************************************************)
EXTENDS Integers, Sequences, FiniteSets

CONSTANTS
  BlockCount,    \* Mass_Block_Count[0], the blocks of the card
  BlockSize,     \* Mass_Block_Size[0], 512 in the code
  PacketSize,    \* BULK_MAX_PACKET_SIZE, 64 in the code
  InfoLength,    \* bytes of a reply to INQUIRY, READ CAPACITY, ...
  Word,          \* the uint32_t counters wrap here
  Commands,      \* the commands the host sends
  MaxCommands,   \* bound: commands of a behaviour, also the range of dTag
  MaxFaults      \* bound: times the host gives up or the power fails

Ops == {"TEST_UNIT_READY", "START_STOP_UNIT", "INQUIRY", "READ_CAPACITY10",
        "READ10", "WRITE10", "VERIFY10", "FORMAT_UNIT", "MODE_SELECT6",
        "UNKNOWN"}

\* A command block wrapper: operation, first block, number of blocks,
\* dDataLength, direction flag, and whether it is well formed.
CommandBlocks == [op : Ops, lba : 0..(Word - 1), n : Nat, len : 0..(Word - 1),
                  dir : {"IN", "OUT"}, form : {"ok", "short", "badsig", "badlun"}]

ASSUME MassAssumption ==
  /\ BlockCount \in Nat \ {0}
  /\ PacketSize \in Nat \ {0}
  /\ BlockSize \in Nat \ {0} /\ BlockSize % PacketSize = 0
  /\ InfoLength \in 1..PacketSize
  /\ Word \in Nat /\ Word > BlockCount * BlockSize
  /\ Commands \subseteq CommandBlocks
  /\ MaxCommands \in Nat
  /\ MaxFaults \in Nat

\* The host's drivers read and write at least one block, and announce no data to
\* a command that takes none.
ASSUME HostAssumption ==
  \A c \in Commands :
    /\ c.op \in {"READ10", "WRITE10"} => c.n > 0
    /\ c.op \in {"TEST_UNIT_READY", "START_STOP_UNIT"} => c.len = 0 \/ c.dir = "IN"

VARIABLES
  dev,        \* the device: RAM, endpoint registers, card
  phase,      \* host: where it is in the current command
  cmd,        \* host: the current command
  tag,        \* host: its dTag
  got,        \* host: the packets of its data stage
  moved,      \* host: bytes moved in its data stage
  halted,     \* host: a stall was cleared already while reading the status
  answer,     \* host: how the last command ended
  faults,     \* number of faults so far
  abandoned,  \* history: a reset cut a block transfer short
  leftover    \* history: a class reset left a packet for the host to take

vars == <<dev, phase, cmd, tag, got, moved, halted, answer, faults, abandoned, leftover>>

-----------------------------------------------------------------------------
(* The device.  The card is an array of packet-sized cells.  A cell holds    *)
(* <<tag of the command that wrote it, cell it was meant for>>.             *)

PerBlock == BlockSize \div PacketSize
Cells    == 0..(BlockCount * PerBlock - 1)
Junk     == <<0, -1>>

Packet(val)  == [kind |-> "data", size |-> PacketSize, val |-> val]
Info(length) == [kind |-> "info", size |-> length]
Status(csw)  == [kind |-> "csw", tag |-> csw.tag, residue |-> csw.residue,
                 status |-> csw.status]
Empty        == [kind |-> "none"]

NoCommand == [op |-> "UNKNOWN", lba |-> 0, n |-> 0, len |-> 0, dir |-> "OUT",
              form |-> "ok"]

\* Power-on: the RAM is initialised, the block count and size are still 0.
Boot(card) ==
  [bot |-> "IDLE", cbw |-> NoCommand, sig |-> "valid",
   csw |-> [tag |-> 0, residue |-> 0, status |-> "PASSED"],
   xfer |-> "IDLE", rOff |-> 0, rLen |-> 0, wOff |-> 0, wLen |-> 0,
   brc |-> 0, boff |-> 0, cnt |-> 0, buf |-> [i \in 1..PerBlock |-> Junk],
   mounted |-> FALSE,
   tx |-> "NAK", txbuf |-> Empty, txctr |-> FALSE,
   rx |-> "VALID", rxbuf |-> Empty, rxctr |-> FALSE,
   card |-> card]

Mass_Block_Size(d)  == IF d.mounted THEN BlockSize ELSE 0
Mass_Block_Count(d) == IF d.mounted THEN BlockCount ELSE 0

\* The card takes whole blocks only; it refuses any other address, and
\* neither MAL_Read nor MAL_Write looks at its answer.
CardTakes(d, off) ==
  d.mounted /\ off % BlockSize = 0 /\ off < BlockCount * BlockSize

MAL_Read(d, off) ==
  IF CardTakes(d, off)
  THEN [d EXCEPT !.buf = [i \in 1..PerBlock |-> d.card[off \div PacketSize + i - 1]]]
  ELSE d

MAL_Write(d, off) ==
  IF CardTakes(d, off)
  THEN LET first == off \div PacketSize
       IN  [d EXCEPT !.card = [a \in Cells |->
                                 IF a - first \in 0..(PerBlock - 1)
                                 THEN d.buf[a - first + 1] ELSE d.card[a]]]
  ELSE d

\* MAL_GetStatus reads the card's size from its CSD; it cannot fail here.
MAL_GetStatus(d) == [d EXCEPT !.mounted = TRUE]

Bot_Abort(d, dir) ==
  [d EXCEPT !.tx = IF dir \in {"IN", "BOTH"} THEN "STALL" ELSE @,
            !.rx = IF dir \in {"OUT", "BOTH"} THEN "STALL" ELSE @]

Set_CSW(d, status, send) ==
  LET csw == [d.csw EXCEPT !.status = status]
  IN  [d EXCEPT !.csw = csw,
                !.txbuf = Status(csw),
                !.bot = IF send THEN "CSW_SEND" ELSE "ERROR",
                !.tx = IF send THEN "VALID" ELSE @]

\* CSW.dDataResidue counts down.  (The variant forgets it.)
ResidueKept(csw, length)  == csw
ResidueAfter(csw, length) == [csw EXCEPT !.residue = (@ - length) % Word]

Transfer_Data_Request(d, length) ==
  [d EXCEPT !.txbuf = Info(length), !.tx = "VALID", !.bot = "DATA_IN_LAST",
            !.csw = [ResidueAfter(@, length) EXCEPT !.status = "PASSED"]]

\* The refusal of a command: the endpoints stall and the status is left in
\* the buffer, to be sent when the host clears the stall.
Refuse(d, dir) == Set_CSW(Bot_Abort(d, dir), "FAILED", FALSE)

\* The next packet starts where this one ended.  (The variant stays.)
OffsetStays(off) == off
OffsetAfter(off) == (off + PacketSize) % Word

\* memory.c: one packet of a read.  rOff and rLen are its static variables.
Read_Memory(d) ==
  LET begun == IF d.xfer = "IDLE"
               THEN [d EXCEPT !.rOff = (d.cbw.lba * Mass_Block_Size(d)) % Word,
                              !.rLen = d.cbw.n * Mass_Block_Size(d),
                              !.xfer = "ONGOING"]
               ELSE d
      filled == IF begun.brc = 0
                THEN [MAL_Read(begun, begun.rOff) EXCEPT
                        !.brc = (Mass_Block_Size(d) - PacketSize) % Word,
                        !.boff = PacketSize]
                ELSE [begun EXCEPT !.brc = @ - PacketSize,
                                   !.boff = @ + PacketSize]
      piece == filled.boff \div PacketSize
      sent  == [filled EXCEPT
                  !.txbuf = Packet(IF piece \in 1..PerBlock
                                   THEN filled.buf[piece] ELSE Junk),
                  !.tx = "VALID",
                  !.rOff = OffsetAfter(@),
                  !.rLen = (@ - PacketSize) % Word,
                  !.csw = ResidueAfter(@, PacketSize)]
  IN  IF sent.rLen = 0
      THEN [sent EXCEPT !.brc = 0, !.boff = 0, !.rOff = 0,
                        !.bot = "DATA_IN_LAST", !.xfer = "IDLE"]
      ELSE sent

\* A block is complete when the bytes left are a multiple of its size; it
\* started one block before the offset, and the buffer fills again from 0.
\* (The variants flush every packet, flush one packet early, start at the offset, forget
\* the buffer.)
EveryPacketIsBlock(d) == d.wLen % PacketSize = 0
OnePacketEarly(d)     == d.wLen % Mass_Block_Size(d) = PacketSize
BlockIsComplete(d)    == d.wLen % Mass_Block_Size(d) = 0
BlockAtOffset(d)      == d.wOff
BlockStart(d)         == (d.wOff - Mass_Block_Size(d)) % Word
BufferNotRewound(d)   == d
Rewound(d)            == [d EXCEPT !.cnt = 0]

\* memory.c: one packet of a write.  The buffer has room for a block.  After a cut
\* transfer the fill level may run past it: what a store there breaks is not modelled.
Write_Memory(d) ==
  LET begun == IF d.xfer = "IDLE"
               THEN [d EXCEPT !.wOff = (d.cbw.lba * Mass_Block_Size(d)) % Word,
                              !.wLen = d.cbw.n * Mass_Block_Size(d),
                              !.xfer = "ONGOING"]
               ELSE d
      slot   == begun.cnt \div PacketSize + 1
      filled == [begun EXCEPT !.buf[slot] = d.rxbuf.val,
                              !.cnt = @ + PacketSize,
                              !.wOff = OffsetAfter(@),
                              !.wLen = (@ - PacketSize) % Word]
      flushed == IF BlockIsComplete(filled)
                 THEN MAL_Write(Rewound(filled), BlockStart(filled))
                 ELSE filled
      taken == [flushed EXCEPT
                  !.csw = ResidueAfter(@, PacketSize),
                  !.rx = "VALID"]
  IN  IF taken.wLen = 0
      THEN [Set_CSW([taken EXCEPT !.cnt = 0], "PASSED", TRUE) EXCEPT !.xfer = "IDLE"]
      ELSE taken

\* SCSI_Address_Management: the range ends on the card, as far as a sum in 32
\* bits tells, and has the length that the wrapper announces.  (n has 16 bits:
\* its product with the block size does not wrap.)
AddressOk(d) ==
  /\ (d.cbw.lba + d.cbw.n) % Word <= Mass_Block_Count(d)
  /\ d.cbw.len = d.cbw.n * Mass_Block_Size(d)

\* The first call of each, in state IDLE; later calls move one packet.
SCSI_Read10_Cmd(d) ==
  IF ~AddressOk(d) THEN Refuse(d, "IN")
  ELSE IF d.cbw.dir = "IN" THEN Read_Memory([d EXCEPT !.bot = "DATA_IN"])
  ELSE Set_CSW(Bot_Abort(d, "BOTH"), "FAILED", TRUE)

SCSI_Write10_Cmd(d) ==
  IF ~AddressOk(d) THEN Refuse(d, "BOTH")
  ELSE IF d.cbw.dir = "OUT" THEN [d EXCEPT !.bot = "DATA_OUT", !.rx = "VALID"]
  ELSE Refuse(d, "IN")

MinOf(a, b) == IF a <= b THEN a ELSE b

\* The commands of CBW_Decode.  The allocation length of INQUIRY is the
\* length of the wrapper.  FORMAT UNIT does nothing in this build.
SCSI_Command(d) ==
  CASE d.cbw.op = "TEST_UNIT_READY" -> Set_CSW(MAL_GetStatus(d), "PASSED", TRUE)
    [] d.cbw.op = "START_STOP_UNIT" -> Set_CSW(d, "PASSED", TRUE)
    [] d.cbw.op = "INQUIRY"         -> Transfer_Data_Request(d, MinOf(d.cbw.len, InfoLength))
    [] d.cbw.op = "READ_CAPACITY10" -> Transfer_Data_Request(MAL_GetStatus(d), InfoLength)
    [] d.cbw.op = "READ10"          -> SCSI_Read10_Cmd(d)
    [] d.cbw.op = "WRITE10"         -> SCSI_Write10_Cmd(d)
    [] d.cbw.op = "VERIFY10"        -> IF d.cbw.len = 0 THEN Set_CSW(d, "PASSED", TRUE)
                                       ELSE Refuse(d, "BOTH")
    [] d.cbw.op = "FORMAT_UNIT"     -> MAL_GetStatus(d)
    [] d.cbw.op = "MODE_SELECT6"    -> Refuse(d, IF d.cbw.len = 0 \/ d.cbw.dir = "IN"
                                                 THEN "IN" ELSE "BOTH")
    [] OTHER                        -> Refuse(d, "BOTH")

\* A wrapper of the wrong length or signature leaves a bad signature behind.
\* A data packet taken for a wrapper overruns the CBW structure by 33 bytes:
\* what that breaks is not modelled.  It takes a cut transfer to get there.
CBW_Decode(d) ==
  LET block   == IF d.rxbuf.kind = "cbw" THEN d.rxbuf.block
                 ELSE [NoCommand EXCEPT !.form = "short"]
      decoded == [d EXCEPT
                    !.cbw = block,
                    !.sig = IF block.form \in {"short", "badsig"} THEN "bad" ELSE "valid",
                    !.csw = [@ EXCEPT !.tag = IF d.rxbuf.kind = "cbw"
                                              THEN d.rxbuf.tag ELSE d.csw.tag,
                                      !.residue = block.len]]
  IN  IF block.form = "ok" THEN SCSI_Command(decoded) ELSE Refuse(decoded, "BOTH")

\* EP2_OUT_Callback: a packet from the host.
Mass_Storage_Out(d) ==
  CASE d.bot = "IDLE"                                -> CBW_Decode(d)
    [] d.bot = "DATA_OUT" /\ d.cbw.op = "WRITE10"    -> Write_Memory(d)
    [] d.bot = "DATA_OUT" /\ d.cbw.op # "WRITE10"    -> Set_CSW(Bot_Abort(d, "OUT"), "PHASE_ERROR", FALSE)
    [] OTHER                                         -> Set_CSW(Bot_Abort(d, "BOTH"), "PHASE_ERROR", FALSE)

\* The status after the data, and the endpoint opened for the next command.
\* (The variants leave the status in the buffer and the endpoint closed.)
StatusHeld(d)      == Set_CSW(d, "PASSED", FALSE)
StatusAfterData(d) == Set_CSW(d, "PASSED", TRUE)
KeepClosed(d)      == d
OpenForCommand(d)  == [d EXCEPT !.rx = "VALID"]

\* EP1_IN_Callback: the host has taken a packet.
Mass_Storage_In(d) ==
  CASE d.bot \in {"CSW_SEND", "ERROR"}            -> OpenForCommand([d EXCEPT !.bot = "IDLE"])
    [] d.bot = "DATA_IN" /\ d.cbw.op = "READ10"   -> Read_Memory(d)
    [] d.bot = "DATA_IN_LAST"                     -> OpenForCommand(StatusAfterData(d))
    [] OTHER                                      -> d

\* Both endpoints stall again while the signature is bad.  (The variant: not.)
NoFurtherStall(d)            == d
Mass_Storage_ClearFeature(d) == IF d.sig # "valid" THEN Bot_Abort(d, "BOTH") ELSE d

\* CLEAR_FEATURE(ENDPOINT_HALT): the core restarts a stalled endpoint, with
\* what its buffer holds, and calls the application.
ClearHalt(d, ep) ==
  Mass_Storage_ClearFeature(
    IF ep = "IN" THEN [d EXCEPT !.tx = IF @ = "STALL" THEN "VALID" ELSE @]
                 ELSE [d EXCEPT !.rx = IF @ = "STALL" THEN "VALID" ELSE @])

\* The class request Bulk-Only Mass Storage Reset.  It leaves the endpoints
\* and the variables of memory.c alone.
MASS_NoData_Setup(d) == [d EXCEPT !.sig = "valid", !.bot = "IDLE"]

\* A bus reset and the SET_CONFIGURATION after it.
MASS_Reset(d) ==
  [d EXCEPT !.tx = "NAK", !.txctr = FALSE, !.rx = "VALID", !.rxctr = FALSE,
            !.sig = "valid", !.bot = "IDLE"]

-----------------------------------------------------------------------------
(* The interrupt.  Endpoint 1 comes before endpoint 2 when both have a flag. *)

host == <<phase, cmd, tag, got, moved, halted, answer>>

ServeIn ==
  /\ dev.txctr
  /\ dev' = Mass_Storage_In([dev EXCEPT !.txctr = FALSE])
  /\ UNCHANGED <<host, faults, abandoned, leftover>>

ServeOut ==
  /\ dev.rxctr /\ ~dev.txctr
  /\ dev' = Mass_Storage_Out([dev EXCEPT !.rxctr = FALSE])
  /\ UNCHANGED <<host, faults, abandoned, leftover>>

-----------------------------------------------------------------------------
(* The host and the bus.  A packet that the device has not read yet is never *)
(* overtaken by the next: reading takes microseconds, a packet more.        *)

Begin(c) ==
  /\ phase = "ready" /\ tag < MaxCommands
  /\ phase' = "cbw" /\ cmd' = c /\ tag' = tag + 1
  /\ got' = <<>> /\ moved' = 0 /\ halted' = FALSE
  /\ leftover' = (leftover /\ dev.tx = "VALID")
  /\ UNCHANGED <<dev, answer, faults, abandoned>>

Receive(d, packet) == [d EXCEPT !.rx = "NAK", !.rxbuf = packet, !.rxctr = TRUE]

SendWrapper ==
  /\ phase = "cbw" /\ dev.rx = "VALID" /\ ~dev.rxctr
  /\ dev' = Receive(dev, [kind |-> "cbw", tag |-> tag, block |-> cmd])
  /\ phase' = IF cmd.len = 0 THEN "csw" ELSE IF cmd.dir = "IN" THEN "in" ELSE "out"
  /\ UNCHANGED <<cmd, tag, got, moved, halted, answer, faults, abandoned, leftover>>

SendData ==
  /\ phase = "out" /\ dev.rx = "VALID" /\ ~dev.rxctr
  /\ dev' = Receive(dev, Packet(<<tag, cmd.lba * PerBlock + moved \div PacketSize>>))
  /\ moved' = moved + PacketSize
  /\ phase' = IF moved' >= cmd.len THEN "csw" ELSE "out"
  /\ UNCHANGED <<cmd, tag, got, halted, answer, faults, abandoned, leftover>>

Taken(d) == [d EXCEPT !.tx = "NAK", !.txctr = TRUE]

\* A status wrapper is a short packet for a host that waits for data.
SizeOf(packet) == IF packet.kind \in {"data", "info"} THEN packet.size ELSE 1

TakeData ==
  /\ phase = "in" /\ dev.tx = "VALID" /\ ~dev.txctr
  /\ dev' = Taken(dev)
  /\ got' = Append(got, dev.txbuf)
  /\ moved' = moved + SizeOf(dev.txbuf)
  /\ phase' = CASE moved' > cmd.len                  -> "recover"
                [] moved' < cmd.len /\ SizeOf(dev.txbuf) = PacketSize -> "in"
                [] OTHER                             -> "csw"
  /\ UNCHANGED <<cmd, tag, halted, answer, faults, abandoned, leftover>>

\* The host accepts a status wrapper with its own tag and nothing else.
TakeStatus ==
  /\ phase = "csw" /\ dev.tx = "VALID" /\ ~dev.txctr
  /\ dev' = Taken(dev)
  /\ LET mine == IF dev.txbuf.kind = "csw" THEN dev.txbuf.tag = tag ELSE FALSE
     IN  IF mine /\ dev.txbuf.status # "PHASE_ERROR"
         THEN phase' = "ready" /\ answer' = dev.txbuf
         ELSE phase' = "recover" /\ UNCHANGED answer
  /\ UNCHANGED <<cmd, tag, got, moved, halted, faults, abandoned, leftover>>

\* Control transfers find the interrupt idle: they take several packets.
Drained == ~dev.txctr /\ ~dev.rxctr

\* A stall ends the data stage; one more is cleared before the status.  A
\* stalled wrapper or a second stall of the status asks for a reset.
ClearStall ==
  /\ Drained
  /\ \/ /\ phase = "in" /\ dev.tx = "STALL"
        /\ dev' = ClearHalt(dev, "IN") /\ phase' = "csw" /\ UNCHANGED halted
     \/ /\ phase = "out" /\ dev.rx = "STALL"
        /\ dev' = ClearHalt(dev, "OUT") /\ phase' = "csw" /\ UNCHANGED halted
     \/ /\ phase = "csw" /\ dev.tx = "STALL" /\ ~halted
        /\ dev' = ClearHalt(dev, "IN") /\ halted' = TRUE /\ UNCHANGED phase
  /\ UNCHANGED <<cmd, tag, got, moved, answer, faults, abandoned, leftover>>

StallIsFatal ==
  /\ Drained
  /\ \/ phase = "cbw" /\ dev.rx = "STALL"
     \/ phase = "csw" /\ dev.tx = "STALL" /\ halted
  /\ phase' = "recover"
  /\ UNCHANGED <<dev, cmd, tag, got, moved, halted, answer, faults, abandoned, leftover>>

\* The device has nothing to do and the endpoint the host waits for is not
\* going to move: the timer of the host runs out.
Stuck ==
  /\ Drained
  /\ \/ phase \in {"cbw", "out"} /\ dev.rx = "NAK"
     \/ phase \in {"in", "csw"} /\ dev.tx = "NAK"

TimeOut ==
  /\ Stuck
  /\ phase' = "recover"
  /\ UNCHANGED <<dev, cmd, tag, got, moved, halted, answer, faults, abandoned, leftover>>

\* Fault: the host gives up early (a cancelled command, a short timer).
GiveUp ==
  /\ faults < MaxFaults /\ phase \in {"cbw", "in", "out", "csw"}
  /\ faults' = faults + 1
  /\ phase' = "recover"
  /\ UNCHANGED <<dev, cmd, tag, got, moved, halted, answer, abandoned, leftover>>

\* Reset recovery: the class reset, then CLEAR_FEATURE on each endpoint.
BotReset ==
  /\ Drained
  /\ \/ /\ phase = "recover"
        /\ dev' = MASS_NoData_Setup(dev) /\ phase' = "clear_in"
        /\ abandoned' = (abandoned \/ dev.xfer = "ONGOING")
        /\ UNCHANGED <<answer, leftover>>
     \/ /\ phase = "clear_in"
        /\ dev' = ClearHalt(dev, "IN") /\ phase' = "clear_out"
        /\ leftover' = (dev'.tx = "VALID")
        /\ UNCHANGED <<abandoned, answer>>
     \/ /\ phase = "clear_out"
        /\ dev' = ClearHalt(dev, "OUT") /\ phase' = "ready"
        /\ answer' = [kind |-> "botreset"]
        /\ UNCHANGED <<abandoned, leftover>>
  /\ UNCHANGED <<cmd, tag, got, moved, halted, faults>>

BusReset ==
  /\ phase = "recover"
  /\ dev' = MASS_Reset(dev) /\ phase' = "ready"
  /\ answer' = [kind |-> "busreset"] /\ leftover' = FALSE
  /\ abandoned' = (abandoned \/ dev.xfer = "ONGOING")
  /\ UNCHANGED <<cmd, tag, got, moved, halted, faults>>

\* Fault: the power of the board fails.  Only the card keeps its contents.
PowerCycle ==
  /\ faults < MaxFaults /\ faults' = faults + 1
  /\ dev' = Boot(dev.card) /\ phase' = "ready"
  /\ answer' = [kind |-> "busreset"] /\ leftover' = FALSE
  /\ UNCHANGED <<cmd, tag, got, moved, halted, abandoned>>

-----------------------------------------------------------------------------
Init ==
  /\ dev = Boot([a \in Cells |-> <<0, a>>])
  /\ phase = "ready" /\ cmd = NoCommand /\ tag = 0
  /\ got = <<>> /\ moved = 0 /\ halted = FALSE /\ answer = Empty
  /\ faults = 0 /\ abandoned = FALSE /\ leftover = FALSE

Bus     == SendWrapper \/ SendData \/ TakeData \/ TakeStatus \/ ClearStall \/ StallIsFatal
Recover == BotReset \/ BusReset
Next ==
  \/ \E c \in Commands : Begin(c)
  \/ ServeIn \/ ServeOut
  \/ Bus \/ TimeOut \/ Recover
  \/ GiveUp \/ PowerCycle

\* The interrupt runs, the host polls, its timer runs out when nothing else
\* can happen, and it resets a device that it gave up.
Fairness ==
  /\ WF_vars(ServeIn \/ ServeOut)
  /\ WF_vars(Bus)
  /\ WF_vars(TimeOut)
  /\ WF_vars(Recover)

Spec == Init /\ [][Next]_vars /\ Fairness

-----------------------------------------------------------------------------
(* Properties.                                                             *)

Finished == phase = "ready" /\ answer.kind = "csw"
Passed   == IF Finished THEN answer.status = "PASSED" ELSE FALSE
CellsOf(c) == {a \in Cells : a - c.lba * PerBlock \in 0..(c.n * PerBlock - 1)}

\* The device and the host keep to their types.
TypeOK ==
  /\ dev.bot \in {"IDLE", "DATA_OUT", "DATA_IN", "DATA_IN_LAST", "CSW_SEND", "ERROR"}
  /\ dev.xfer \in {"IDLE", "ONGOING"}
  /\ {dev.tx, dev.rx} \subseteq {"NAK", "VALID", "STALL"}
  /\ {dev.rLen, dev.wLen, dev.rOff, dev.wOff, dev.csw.residue} \subseteq 0..(Word - 1)
  /\ ~abandoned => dev.cnt \in 0..(BlockSize - PacketSize)
  /\ phase \in {"ready", "cbw", "in", "out", "csw", "recover", "clear_in", "clear_out"}
  /\ tag \in 0..MaxCommands /\ faults \in 0..MaxFaults

\* A READ(10) that ends well has handed over the blocks asked for, in order
\* and nothing else: the counters of memory.c and the BOT states agree with
\* the host on every packet.  (This and the next three hold for ranges that do not
\* wrap in 32 bits: see MassStorageDriver.)
ReadIsExact ==
  ~abandoned /\ Passed /\ cmd.op = "READ10" =>
    got = [i \in 1..(cmd.n * PerBlock) |-> Packet(dev.card[cmd.lba * PerBlock + i - 1])]

\* A WRITE(10) that ends well has put its packets where the command asked.
PassedWriteIsOnCard ==
  Passed /\ cmd.op = "WRITE10" => \A a \in CellsOf(cmd) : dev.card[a] = <<tag, a>>

\* The same, as long as no reset ever cut a transfer short.
WriteIsOnCard == ~abandoned => PassedWriteIsOnCard

\* No block on the card is torn or displaced, whatever power failure hits a
\* write: a block is written from one command, each packet in its place.
BlocksWhole ==
  ~abandoned =>
    \A a \in Cells : /\ dev.card[a][2] = a
                     /\ dev.card[a][1] = dev.card[(a \div PerBlock) * PerBlock][1]

\* The card changes only inside the range of a WRITE(10) in progress.  It is the range
\* check (usb_scsi.c:409) that has to see to it, and for a range that wraps it does not.
OnlyTheCommandWrites ==
  [][~abandoned /\ dev'.card # dev.card =>
       /\ cmd.op = "WRITE10" /\ phase \in {"out", "csw", "recover"}
       /\ \A a \in Cells \ CellsOf(cmd) : dev'.card[a] = dev.card[a]]_vars

\* The residue of a status is what the host knows was not moved, unless a
\* packet that a class reset left in the endpoint came as its data.
ResidueIsExact ==
  ~abandoned /\ Finished /\ ~leftover =>
    answer.residue = cmd.len - moved

\* A device that answered, or that saw a bus reset, takes the next command,
\* whatever was refused, stalled or reset before.
AnsweredMeansReady ==
  ~abandoned /\ phase = "ready" /\ Drained /\ answer.kind # "botreset" =>
    dev.bot = "IDLE" /\ dev.rx = "VALID"

\* usb_prop.c:225: after a wrapper of the wrong signature or length both
\* endpoints stall until a reset, whatever the host clears in between.
BadWrapperStaysStalled ==
  ~abandoned /\ dev.sig = "bad" => dev.tx = "STALL" /\ dev.rx = "STALL" /\ Drained

\* Once the faults are over, a proper command on a device that listens is
\* answered with its own status: no sequence of earlier commands, stalls and
\* resets leaves the device silent.  Three commands are not proper: the code sends no
\* status for FORMAT UNIT; it answers an INQUIRY of no bytes with an empty data packet,
\* which the host takes for the status; and it stalls only the IN endpoint when it
\* refuses the range of a READ(10), although the direction flag may say that the host
\* is sending.
Proper(c) ==
  /\ c.form = "ok" /\ c.op # "FORMAT_UNIT"
  /\ c.op = "INQUIRY" => c.len > 0
  /\ c.op = "READ10" => c.dir = "IN"
Answered ==
  \A t \in 1..MaxCommands :
    (/\ tag = t /\ phase = "cbw" /\ Proper(cmd) /\ faults = MaxFaults
     /\ answer.kind # "botreset" /\ ~leftover)
      ~> ((tag = t /\ Finished) \/ abandoned)
=============================================================================
