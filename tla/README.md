# Verification of the firmware updates of this repository

This directory holds TLA+ models of the ways in which the boards of this repository get their programs,
the TLC configurations that check them, and TLAPS proofs about them:

- the USB DFU bootloader in the first 12 KiB of an STM32F103's flash (`src/firmware/dfu`) and the host tool
  that talks to it (`src/dfu`);
- the mass-storage firmware (`src/firmware/mass_storage`): a USB disk, and a start-up that rewrites the flash
  from a file on that disk;
- the Pawn firmware (`src/firmware-pawn-dev/firmware`), which takes scripts over a USB shell, and the host
  library that uploads them (`src/firmware-pawn-dev/software/mcuctrl`).

## 1. Inventory

| part | where | state it keeps | operations | module |
| --- | --- | --- | --- | --- |
| bootloader start-up | `src/firmware/dfu/src/main.c`, `hw_config.c` | which program runs | reset: test the first word of the application, jump to it or enter DFU mode in dfuERROR | `DfuDevice` |
| DFU class | `src/firmware/dfu/src/usb_prop.c` | `DeviceState`, `DeviceStatus[6]`, `wBlockNum`, `wlength`, `Manifest_State`, `Pointer` | DNLOAD, UPLOAD, GETSTATUS, GETSTATE, CLRSTATUS, ABORT, the status-stage handler, bus reset, `DFU_write_crc` | `DfuDevice` |
| control endpoint | `src/firmware/dfu/usb/usb_core.c`, `usb_int.c` | `ControlState`, endpoint status, `Usb_wLength`, `Usb_wOffset`, `Data_Mul_MaxPacketSize` | SETUP, IN and OUT interrupts; data stages packet by packet | `DfuDevice` |
| memory layer | `src/firmware/dfu/src/dfu_mal.c`, `flash_if.c` | `MAL_Buffer`, the flash | erase a page, program words, read | `DfuDevice` |
| download and upload on the host | `src/dfu/libdfu/src/dfuse.c`, `dfu.c`, `src/dfu/dfu-cmd/src/main.c` | the element and chunk under way, `last_erased`, the file read | status loop, special commands, chunks, polls, upload blocks, final reset | `DfuSession` |
| memory layout on the host | `dfuse_mem.c` | list of segments | parse the string descriptor, find a segment | `DfuSession` (find) |
| DFU file, plain DFU transfers | `dfu_file.c`, `dfu_load.c` | | suffix and CRC, transfer loops | none |
| USB disk | `src/firmware/mass_storage/src/usb_bot.c`, `usb_scsi.c`, `memory.c`, `mass_mal.c`, `usb_prop.c` | `Bot_State`, `CBW`, `CSW`, `TransferState`, the offsets, counters and block buffer of `memory.c`, the endpoint registers, the card | bulk-only transport phases, SCSI commands, block transfers, stalls, class and bus reset | `MassStorage` |
| start-up and reflash from the disk | `src/firmware/mass_storage/src/main.c`, `flash_if.c` | `flashPtr`, the open file, the sector buffer, the flash, `report.log` | choose by two switches; compare, erase, pad, program, report | `SdReflash` |
| Pawn firmware | `src/firmware-pawn-dev/firmware/main.c`, `usb_ctrl.c`, `pawn/pawn_ctrl.c`, `chibios/os/various/shell.c` | the memory block, the script's machine and its debug hook, a semaphore, the shell's thread, the flash | run, stop, execute, set memory, write the flash, create and end the shell | `PawnBoard` |
| mcuctrl | `src/firmware-pawn-dev/software/mcuctrl/src/mcu_ctrl.cpp`, `usb_io.cpp` | the file, the position in it | `McuCtrl::flash`: a line per word, a line per page | `PawnBoard` |
| regular firmware | `src/firmware/regular_firmware/src/routines` | USB ring buffers, `g_buffer`, `g_funcId`, I2C jobs | co-routines | none: section 7 |
| control-board host library | `src/control-board/software/lib-ctrlboardio` | the device handle, a mutex | put data, execute, read the queue | none: section 7 |
| Pawn runner | `src/pawn/src` | | load and run a script on a PC | none |

The rest of the tree is vendored code (ChibiOS, FreeRTOS, FatFs, minIni, the Pawn machine, CMSIS and
the ST peripheral library, libusb, Qwt, IceE, upstream dfu-util), generated files, Qt widgets, board
drawings and data.

**How the parts interact.** dfu-cmd makes blocking libusb control transfers.  Each is a
SETUP packet, up to sixteen packets of data and a status packet; each packet raises an interrupt in
the device, and `CTR_LP` calls `Setup0_Process`, `In0_Process` or `Out0_Process`, which call the DFU
handlers.  All of them, the handlers and the endpoint code, write shared globals.  A DNLOAD moves
the state at its SETUP and again at each packet, the host's GETSTATUS moves it on to busy, and the
erase or write is done by the handler of the *status packet* of that GETSTATUS.  Between the last IN
packet and its interrupt the host may already have sent the status packet.  A bus reset may come
between any two interrupts and does not touch the DFU globals.  The host has its own bookkeeping,
`last_erased`, of what it believes the device to have erased.

The USB disk lives in the same interrupt but on two bulk endpoints.  A command is a wrapper, a data stage and a
status; five functions (`CBW_Decode`, the SCSI command, `Read_Memory` or `Write_Memory`, `Mass_Storage_In`,
`Mass_Storage_Out`) pass it on through `Bot_State` and the static variables of `memory.c`.  The host refuses to wait for ever:
its timer leads to a class reset and two requests to clear the endpoints, or to a bus reset.

The reflash of the mass-storage firmware runs before USB is started, alone, but the power may go at any point, and each start
finds what the one before left in the flash, with other switches and another file.

The Pawn board runs three ChibiOS threads of one priority: `main` watches over the shell, the shell
executes the lines that come over USB, and an execution thread runs the script of the flash whenever a semaphore
is signalled.  The memory block is the data of the running script and the place where an upload is put together.

**What is hard.** The order of the interrupts; a transfer cut in any stage; a request that finds the
globals as another request left them; power lost in the middle of an erase or a write; a tool that
exits and is run again against a device that is anywhere; packet, block, word, sector and page boundaries; page sizes
announced and real; polling loops without a bound; resets that restart half of a state machine; a stop that meets
a thread which starts, ends or waits.  `PROJECT.json` lists each at its line under
"hazards", with the properties that look at it.

**What makes each part correct.**
- DFU class: the two copies of the state agree; the pending operation is the one accepted; the flash
  changes only when the host has read that the device is busy; errors stay until cleared.
- Control endpoint: the packet that is due is always answered; an acknowledged data stage is whole.
- Host: success means the image is in the flash, or the flash in the file; no page is touched but those of the image; every
  chunk is written on erased flash; after failures the next run gets through.
- Together: the application is started only if it is whole.
- USB disk: what is read and written is exact, blocks are whole, the residue and the status are those of the
  command, and no sequence of refusals and stalls leaves the device silent.
- Reflash: a report of success is true; nothing outside the file's sectors changes; a start without a failure repairs what
  failures left.
- Pawn board: a stop ends the script it was meant for and no other; no run is lost; a write that is answered 0 is in the
  flash; an upload lands; there is a shell again.

## 2. Modules

| module | models | checked by |
| --- | --- | --- |
| `FirmwareUpdate` | what an update of a flash promises: an abstract specification | implemented by `DfuSession` and `SdReflash` |
| `DfuDevice` | bootloader start-up, DFU class, control endpoint and memory layer, one action per interrupt | `MCDfuDevice` with `_download`, `_requests` |
| `DfuSession` | EXTENDS `DfuDevice`: dfu-cmd with its DfuSe download and upload, each call driven through the device packet by packet, failures, power cycles, runs of the tool one after another | `MCDfuUpdate` with `_all`; `MCDfuSession` with `_partial`, `_returning`, `_pages`, `_stale` |
| `MassStorage` | the USB disk and its host | `MCMassWrap` with `_all` |
| `MassStorageDriver` | EXTENDS `MassStorage` by one assumption, `AddressesFit`: the last block of a command is one that 32 bits can number | `MCMassStorage` with `_all`, `_reset` |
| `SdReflash` | start-up and reflash of the mass-storage firmware | `MCSdReflash` with `_all` |
| `PawnBoard` | the threads of the Pawn firmware and `McuCtrl::flash` | `MCPawnBoard` with `_all` |
| `DfuDevice_proofs` | theorems about the bootloader | TLAPS |
| `DfuSession_proofs`, `DfuUpdate_proofs` | theorems about the tool and its calls, and about what an update does to the flash | TLAPS |
| `MassStorage_proofs`, `SdReflash_proofs`, `PawnBoard_proofs` | theorems about the other components | TLAPS |

`MCDfuUpdate` extends `MCDfuSession` by one assumption, `InstanceIsRegular`: its layout and images fulfil the hypotheses of
the theorems of `DfuUpdate_proofs`.

### DfuDevice
The variables have the names of the C globals.  `mode` says which program runs, `flash` is a function
from addresses to contents.  The steps:

- `Setup0_Process(r)` is the SETUP interrupt.  It has a disjunct per request of `DFU_Data_Setup` and
  `DFU_NoData_Setup` (`SetupDnload`, `SetupUpload`, `SetupGetState`, `SetupGetStatus`,
  `SetupEndDnload`, `SetupEndUpload`, `SetupClrStatus`, `SetupAbort`), `SetupStandard` for the
  control requests that leave the DFU state alone, and `SetupUnsupported` for the stalls.  The
  side effects of the copy routines, which the core runs once at the SETUP, are in them.
- `In0_Process`: `InData` (the copy routine of an UPLOAD runs again), `InLastData` (an empty packet
  when due, else wait for the status packet), `InStatus`.
- The OUT interrupts: `OutData` (`DataStageOut`; DNLOAD sets the state once more), `OutEarly` (the status
  packet is served before the last IN packet: the transfer is stalled and the operation not done),
  `OutStatusPlain`, `OutStatusBusy` (the operation of `DFU_Status_Out`), `OutStatusManifest`
  (the chip resets).
- `PowerLossInOperation` and `PowerCycle` reboot the chip, in the middle of the operation or anywhere else;
  an erase leaves any part of the page erased, a write some of its packets done.  `BusReset` is `DFU_Reset`.

`accepted` and `received` are history variables: the DNLOAD accepted last and the parts of
its block that have arrived.  No guard reads them.

An UPLOAD of block 1 is not supported, and the code is wrong about it in two ways; the model does the same.
It stores the *status code* `errSTALLEDPKT` in `DeviceState` (`usb_prop.c:568`), after which no request but CLRSTATUS,
GETSTATUS, GETSTATE and a zero-length UPLOAD is served, CLRSTATUS answers with an error, and the state that is read is none
of the protocol.  And it hands out no length, so that `Usb_wLength` keeps what the last transfer left and
`Data_Mul_MaxPacketSize` what that transfer set (`usb_core.c:853`): the stale flag costs at most an empty packet that nobody asked
for, which no property forbids.  The run `device_requests` sends this request, alone and between all others, and its
properties hold over it.

`pgerr` is the bit PGERR of the flash controller.  A packet that is programmed on cells that are not erased latches it, the packets
before it in the block are in the flash, and until the chip is reset every erase and every write does nothing; the code looks at no
result (`FlashAfter`).

### DfuSession
`task` says what a run of the tool is for, a download or an upload from some address; `Rerun` may choose another.
`pc` names the call of the tool that comes next or is under way; `AfterReturn` and `AfterError` give the
tool's control flow, `Call`, `SendData`, `TakeData`, `TakeStatus`, `SendStatus` and `CallStalled` the parts of a
transfer.  The arithmetic of `dfuse_dnload_element` is in operators of its own (`chunk_size`, `NeedsErase`,
`LastOfChunk`, `WrapsOver`) and its loops are `NextElement`, `NextChunk`, `EraseLoop`, `EraseTail` and
`SetAddress`.  The upload is `Begin`, the call site `upload` and the operators `UploadLimit`, `Transaction` and `LastBlock`
of `dfuse_do_upload`: the packets of a call come into `buf` and are appended to `file` when it returns.
Without an address (`addr` 0) the tool sends no SETADDRESSPOINTER and the device reads from wherever its pointer is; the code
promises nothing of such a file, nor does a property.  The last block is a whole one, so the file may go on
behind the end of the segment; `UploadIsExact` speaks of the packets up to the limit.
Failures: `TransferFails` (timeout or bus error, at any packet), `StatusOvertakes` (the
overtaking above: the host is satisfied, the device is not), `BusGlitch`, `PowerFails`.  `Rerun` starts
the tool again from `main`, with `last_erased` reset as in a new process and the device as it is.

### MassStorage
`dev` is the device: the globals of the four files, the two endpoint registers with what is in their buffers, and the card.
A handler of the firmware is an operator from one value of `dev` to the next, so that the calls nest as in the code:
`Mass_Storage_Out` calls `CBW_Decode`, which calls `SCSI_Command`, which calls `Read_Memory`, `Write_Memory`,
`Transfer_Data_Request` or `Refuse`.  The steps are the two interrupts `ServeIn` and `ServeOut`,
the host's packets (`SendWrapper`, `SendData`, `TakeData`, `TakeStatus`), its clearing of stalls (`ClearStall`, `StallIsFatal`),
its timer (`TimeOut`), the resets (`BotReset` in its three requests, `BusReset`), a host that gives a command up
(`GiveUp`) and the power (`PowerCycle`).  A packet on the bus only sets the CTR flag of its
endpoint; the handler runs later, and the host may go on in between.  A cell of the card
holds the tag of the command that wrote it and the place it was meant for.

`abandoned` and `leftover` are history variables.  `abandoned` records that a reset cut a block transfer:
from then on the code's counters are those of the transfer that was cut, and the properties of the passing run say
nothing; what happens then is the question of the run `mass_reset`.  `leftover` records that a class reset left a
packet in the IN endpoint, which the host takes for the answer of its next command.

### SdReflash
`pc` is the place in `main()` and `dfu()`; the other variables are those of the code, byte by byte.  `PowerOn` evaluates the two switches and
the first word; `Open` is both calls of `f_open`, `Compare` and `Read` are an `f_read` with what follows it,
`EraseSector` is `FLASH_If_Erase` with the padding at the head of `FLASH_If_Write`, `WriteWord` a turn of its loop,
`NextSector` the end of the outer loop, `ReportAll` the five reports.  `ReadError`, `ReportError` and `PowerFails` are the failures;
a power failure leaves any of `TornParts` of a sector erased or torn, or one torn word.

### PawnBoard
`exec` is the place of the execution thread (`ExecClear`, `ExecInit`, `OpBreak`, `Statement`, `ExecEnd` and the semaphore `Wait`),
`shell` that of the shell (`GetLine` with the commands `pawnRun`, `pawnStop`, `SetMem`, `pawnWriteFlash`, `Exit`; then `Erase`
and `ProgramWord`), `ProcessShell` the loop of `main`.  `SendMem` and `SendWrite` are `McuCtrl::flash`, `Type` a user at a
terminal, either of which may lose a line; `SetActive` configures the device or lets it go.  `touched`, `stopped` and
`spoiled` are history variables: a script wrote to the block during a write, a stop came since the script's thread woke
up, an upload was disturbed.

### FirmwareUpdate and its two implementations
An attempt changes the flash inside its scope, may be given up at any point, and is done only when the flash
holds the goal.  `ImplementsUpdate` in `DfuSession` and in `SdReflash` is `Update!UpdateSpec`, the instance under a
refinement mapping:

| abstract | in `DfuSession` | in `SdReflash` |
| --- | --- | --- |
| `content` | the flash | the flash |
| `goal` | the packets of the image, at their addresses | the bytes of the file |
| `scope` | the application's pages with a part of the image | the sectors of the file and the one that follows |
| `done` | a download has come to its end (`detach`, `reset`, `finished`) | the report says "the same" or "upgraded" |

A step of either is a start of an attempt, a change inside the scope, the end with the goal in the flash, or a
stutter; an upload is a stutter.

## 3. Abstractions

**DfuDevice and DfuSession.**
- An address counts packets of 64 bytes; the flash and `MAL_Buffer` hold one opaque content per
  packet.  Lengths are in bytes, because the endpoint compares them with the packet size.
- The F1 flash takes a packet on erased cells or for zeros (`Takes`).  A packet is programmed as a whole or refused as a whole:
  the half-words of one that was refused in its middle are not told apart.
  A failed `FLASH_ErasePage` of a healthy chip is not modelled, nor are flash wear and protection bits.
- Left out of the device: padding of a length that is no multiple of a word, requests longer than
  `wTransferSize` (dfu-cmd never sends one), addresses in the flash bank of the address map behind
  the end of the chip (reads there give zeros), the SPI and NOR media and the OTG variant (not compiled), PAUSE states of the
  core, CRC data of the suffix.  Class requests are presumed to come after enumeration.
- The standard requests are a descriptor of some length and a request without data.
- Left out of the host: alternate settings, files that cannot be parsed or written, the parsing of the layout
  (`Segments` is the parsed layout).  `last_erased` starts at 0, which lies in the bootloader's
  pages, as in the code.  An upload creates its file anew: the user gives another name when one is there.
- Poll timeouts are numbers that nothing waits for; the host may ask at any time, which is more
  than it does.

**MassStorage.**
- A cell is a packet; the replies of INQUIRY, READ CAPACITY and the like are one short packet.
- The sense data, the data toggles, and the allocation length of a command block (taken to be `dDataLength`) are left out.
  Counters and sums wrap at `Word`, larger than any length or offset of the card; it stands for 2^32.
- `HostAssumption`: a READ(10) or WRITE(10) names at least one block, and a command that takes no data announces none, or announces
  that it reads.  The disk drivers of hosts do no other; a READ(10) of no blocks would wrap the length at `memory.c:96`.
- `AddressesFit` (of `MassStorageDriver`): the block behind the last one of a command has a number below `Word`.  The range check of
  the code adds in `uint32_t` (`usb_scsi.c:409`), and so does `AddressOk`; without the assumption a command may pass the check whose
  blocks are not on the card.  `ReadIsExact`, `BlocksWhole` and `OnlyTheCommandWrites` hold of drivers that keep to it, as the drivers of
  file systems do, and the run `mass_wrap` shows the command that the check lets through.
- After a reset that cut a write, a READ(10) that takes the transfer over leaves `Counter`, and a later write may store behind the
  block buffer (`memory.c:138`).  The model says nothing of what lies there: such a state is `abandoned`.
- A handler is atomic; the packet that was received is read before the next arrives; control transfers find the
  IN interrupt served; of two pending interrupts endpoint 1 is served before endpoint 2, as `CTR_LP` does.
- The card takes whole blocks inside its range and does not fail; `MAL_GetStatus` succeeds.  The build is the one of the
  Makefile: one unit (`Max_Lun` 0), neither the connectivity line nor the 3210E board.
- A packet of another length than a wrapper has is one wrapper of form `short`; none is longer than the buffer.

**SdReflash.**
- `ReflashAssumption`: files fit the flash, sectors are whole words.  `f_mount` does not fail; a failing `f_open` counts as no file.
- The switches and the file are arbitrary at each start.  The contents of the buffer before the first read are arbitrary (`Torn`).
- Left out: the report's text, the FatFs structures (an `f_close` of a file that was not opened), the error bit of the
  flash controller, which in this firmware does not outlive a start.

**PawnBoard.**
- Steps that no other thread can tell apart are one.  A statement of a script stores a word or none, and the script then goes on or
  ends: any script, compiled with a BREAK before each statement as `pawncc` does.  The code is executed from the flash, which an upload
  may erase and program under the running script; that the machine goes on meeting a BREAK before each statement even then is assumed, and
  `StopEnds` rests on it.
- `ExecClear` zeroes the machine in one step.  The code does so byte by byte outside `chSysLock` (`pawn_ctrl.c:44`): a `pawnStop` between two of
  the four bytes of the debug hook leaves a part of its address, which the machine would call at the next BREAK (`amx.c:2725`).
  What happens then is outside the model, and `StopEndsOnlyItsRun` and `StopEnds` say nothing of it.
- A word is programmed as two half-words.  When one is refused, the cell is left with any word but a blank one, which includes every mixture
  of old and new halves.
- Left out: the ioblock, commands that only read, the serial shell, the words of a torn write at a power failure (an erase that was cut leaves any part
  of the page blank).  Replies to the host are drained.  At `usb_ctrl.c:537` the code asks whether a
  null thread has terminated when there is no shell and the device is not configured; the model takes the answer for a no.

## 4. Runs

| run | outcome | shows |
| --- | --- | --- |
| `device_download` | holds | with a host that sends downloads, commands, aborts and status requests in any order, cut anywhere, with bus resets and power failures: `StatusConsistent`, `PendingIsAccepted`, `AckedBlockIsComplete`, `FlashChangesOnlyWhenBusy` (2.4 million states) |
| `device_requests` | holds | with every request of the class and of the core, in every state: `TypeOK`, `NextPacketAnswered`, `ReplyIsCurrent`, `ErrorIsSticky` (1.7 million states) |
| `session_update` | holds | downloads of three images and uploads from three addresses, in any order, with up to four failures of any kind: `SessionTypeOK`, `SuccessMeansProgrammed`, `OtherPagesIntact`, `UploadIsExact`, `ChunksLandOnErased`, `ImplementsUpdate`, and under fairness `Recovers` (810,000 states) |
| `mass_storage` | holds | three commands out of twenty-one with two faults: `TypeOK`, `ReadIsExact`, `WriteIsOnCard`, `BlocksWhole`, `ResidueIsExact`, `AnsweredMeansReady`, `BadWrapperStaysStalled`, `OnlyTheCommandWrites`, and under fairness `Answered` (240,000 states) |
| `sd_reflash` | holds | any number of starts with any switches and any of five files or none, two failures: `TypeOK`, `ToldMeansFlashed`, `BlankBehind`, `StaysInScope`, `ImplementsUpdate`, and under fairness `DfuModeConverges` (210,000 states) |
| `pawn_board` | holds | scripts, typed commands, uploads, lost lines, disconnections and power failures in any number: `TypeOK`, `StopEndsOnlyItsRun`, `WriteOkMeansFlashed`, `UploadLands`, and under fairness `StopEnds`, `RunIsServed`, `ShellReturns` (700,000 states) |
| `session_partial` | violated | `AppIsWhole`: a power failure in the middle of an update leaves a first word that passes for an application, and the bootloader is not entered again |
| `session_returning` | violated | `SuccessMeansProgrammed`: elements that return to a page already left erase what was programmed |
| `session_pages` | violated | `SuccessMeansProgrammed`: with pages announced smaller than they are, an erase for one chunk takes the chunk before it |
| `session_stale` | violated | `OnlyAnnouncedChanges`: after one failed transfer a packet of the file that was left in the buffer is executed as an erase command, on a page that the device announces as readable only |
| `mass_reset` | violated | `PassedWriteIsOnCard`: after a reset in the middle of a transfer a WRITE(10) that is answered PASSED is not on the card |
| `mass_wrap` | violated | `OnlyTheCommandWrites`: a WRITE(10) of two blocks from the last number on passes the range check, whose sum wraps, and overwrites block 0 |

**Bounds.** No run bounds the number of steps.
- DFU: flash of 2 to 8 packets, blocks of 2 packets.  A block of two packets is the smallest
  with a first, a last and a short case; pages of one and two packets make a block that fills
  a page, and one that straddles two.  Lengths of 64 and 128 bytes are a whole packet and a whole
  block; 5 bytes is a command; 98 and 27 are descriptor lengths that do and do not need several
  packets.  `Requests` bounds the device's host: any request of the set, at any time, any
  number of times.  `MaxFaults` bounds the failures of a session.  Uploads start at a page, inside a page (the last block then
  goes past the end of the segment) and without an address, where `DefaultLimit` of three packets ends inside a block.
- USB disk: two blocks of two packets have a first and a last packet of a block and a first and a last block; commands name one block,
  the other, both, or go past the end.  Three commands let one meet what two others left, and two faults let
  the recovery from one be disturbed by another.  `Word` is 1024.  `mass_wrap` has the same card and a host of two commands without a fault.
- Reflash: four sectors of two words; files that end inside a word, at a sector's end, inside the second sector,
  at the end of the flash, and an empty one; a blank chip and one with an older image.
- Pawn board: pages of one cell, so the block is two cells, of which a script's data is the second; files of one page and of two.

`session_*` and `mass_*` set `CHECK_DEADLOCK FALSE`: a session ends, when the tool is
done or the application runs, and a host of three commands has sent them all.  In every other run a state without a step is an error.

The passing session run uses images whose elements ascend, pages announced at their true size, and data that read as an erase
command only for pages of the image: the packet `b` is such a command, for the page `4` and `5`.  The violated runs
drop one of those conditions each: `session_returning` and `session_pages` without any failure injected, `session_stale` with a
packet that names the bootloader's page and one failed transfer.  The
images of the passing run are one that fills its pages, two elements that share a page (the second across a page
boundary), and one whose second element lies in the bootloader's own page, which the tool must refuse.
`OtherPagesIntact` is an action property: no step changes a page without a part of the image, whatever the flash held before.

What the failing runs mean in practice:
- `session_partial`: with `DFU_Button_Read` fixed at 1 the only test is the first word, and the first page is
  written first.
- `session_returning`: dfu-cmd reports success over a hole in the flash.
- `session_pages`: the layout string that `platform_config.h` selects is that of a chip with 256-byte pages;
  the build is for the medium-density F103, with 1 KiB pages.  Files whose start is aligned to
  their chunks are unaffected.
- `session_stale`: a DNLOAD stores its block number and length at the SETUP; when its data never comes, the next GETSTATUS still
  starts the operation, with the packet that is in `MAL_Buffer`.  That packet is one of the file, and may begin like a command.
- `mass_reset`: both resets return `Bot_State` to BOT_IDLE and leave `TransferState`, `W_Offset`, `W_Length` and `Counter`
  of `memory.c`.  The next WRITE(10) goes on with those of the one that was cut: its blocks go elsewhere, and the host is told PASSED.
- `mass_wrap`: LBA 0xFFFFFFFF with two blocks.  The sum of `usb_scsi.c:409` is 1, inside the card; the first block has nowhere to go, the second
  one's offset wraps to 0 in `memory.c`.  A READ(10) of the same range hands over what is in the buffer, then block 0.

Two properties name their exceptions.  `UploadLands` says what `McuCtrl::flash` achieves: its page counter is declared inside the loop over
the file (`mcu_ctrl.cpp:40`), so every chunk goes to page 0, and a cell of the first page ends with the *last* word of the file that
belongs there; only a file of one page is uploaded whole.  `Answered` speaks of the commands that are
`Proper`: not of FORMAT UNIT, for which the code sends no status, not of an INQUIRY of length 0, whose empty
data packet the host takes for the status, not of a READ(10) whose wrapper has the direction of a write, for which only the IN endpoint is
stalled while the host wants to send; nor of commands that follow a class reset which left a packet in an endpoint.

## 5. Fairness

- `FairSession` is weak fairness of `Progress`, the steps of the tool and of the transfers it has open.
  The host's controller retries until a packet is taken or an error is reported, the device's interrupts are
  enabled throughout, and the tool runs on; `Rerun` is part of `Progress`: the user tries again after a
  failure.  `Recovers` admits an end in the application, because a power failure after a
  valid first word takes the device there, where `session_partial` says what is wrong with it.
- `MassStorage`: weak fairness of the interrupt, of the host's packets, of its timer and of its recovery, one by one.  The timer
  runs out only when nothing else can happen in the command.
- `SdReflash`: weak fairness of `Step`, the processor that runs on while it has power.  Nobody is obliged to switch the board on.
- `PawnBoard`: weak fairness of the execution thread and of `main`; ChibiOS takes turns between the
  threads of one priority (`CH_TIME_QUANTUM`).  The shell, the user and the host are under no obligation.

Failures carry no fairness and, where they are bounded, are at most `MaxFaults`: no code could promise recovery
from failures without end.

## 6. Proofs

The proofs hold for flashes, pages, blocks, images, files and scripts of any size, and for any sequence of requests and failures that the model has,
under the named assumptions of each module.

**`DfuDevice_proofs`**, from `ConstantsAssumption` (packets of at least 8 bytes, requests no longer than
`wTransferSize`, erased flash distinct from what a host sends, descriptors that are not empty):

| theorem | states |
| --- | --- |
| `TypeCorrect` | `[]TypeOK` |
| `StatusCorrect` | `[]StatusConsistent` |
| `PendingCorrect` | `[]PendingIsAccepted` |
| `ReplyCorrect` | `[]ReplyIsCurrent` |
| `FlashCorrect` | `FlashChangesOnlyWhenBusy` |
| `ErrorCorrect` | `ErrorIsSticky` |
| `EndpointCorrect` | `[]NextPacketAnswered` |
| `AckCorrect` | `[]AckedBlockIsComplete` |

`TypeOK` is inductive; it is proved action by action, each from a lemma about the endpoint operation it ends with.
The inductive invariant is `IInv == TypeOK /\ StatusConsistent /\ PendingIsAccepted /\ ReplyIsCurrent /\ DataStage`
(theorem `Invariance`).  The conjunct that is not a property, `DataStage`, ties the control endpoint to
the DFU state: while the data stage of a DNLOAD is open the latched request is the one accepted, of the
length of the block.  It is needed because each packet of a data stage assigns the state and the
pending operation *again* from the latched request, whatever happened since the SETUP; without it a
packet could bring back an operation that an ABORT had forgotten.  `ReplyIsCurrent` is what makes the flash
property go through: the operation runs at the status packet, and the property speaks of the reply before it.
`DataStage` also says that a status reply is a single packet, and that an upload under way has left the device in
the state its routine sets again.  `EndpointCorrect` strengthens its property with the fact that the device listens
while it sends (`Endpoints`);
`AckCorrect` rests on `Filled`, which counts the packets received against the offset, and on the arithmetic
lemma `PacketOrder` (the packet at an offset is the next one).

**`SdReflash_proofs`**, from `ReflashAssumption`:

| theorem | states |
| --- | --- |
| `TypeCorrect` | `[]TypeOK` |
| `ReportsAreTrue` | `[]ToldMeansFlashed` |
| `NothingBehind` | `[]BlankBehind` |
| `NothingOutOfScope` | `StaysInScope` |
| `Refinement` | `ImplementsUpdate`, the abstract update |

`IInv == TypeOK /\ HasFile /\ Between /\ Within /\ Writing /\ AtEnd` follows the loops.  Between two sectors the flash agrees with the file up to
the file's position, which is that of the flash unless the file has ended (`Between`); within one the buffer holds what the file has for it
(`Within`), and while it is written the flash holds the buffer up to `idx` and is blank behind it (`Writing`); at the end, and as long as the report
can be read, all of it agrees (`AtEnd`).  The last, empty read erases the sector after the file, which is why the
scope reaches that far and why `BlankBehind` holds at a file that ends with a sector.  The refinement is proved from `ReportsAreTrue` and
`NothingOutOfScope`: initial states map to initial states, and each step to a start, a change, an end or a stutter.

**`PawnBoard_proofs`**, from `PawnAssumption`:

| theorem | states |
| --- | --- |
| `TypeCorrect` | `[]TypeOK` |
| `StopsAreTheirOwn` | `[]StopEndsOnlyItsRun` |
| `WritesAreTrue` | `[]WriteOkMeansFlashed` |
| `UploadsLand` | `[]UploadLands` |

`IInv == TypeOK /\ HeapIsExact /\ HookIsFresh /\ ProgrammedSoFar`.  `HookIsFresh` says that from the clearing of the machine on a hook that is
set was set since; `ProgrammedSoFar` that the cells before the one under way agree with the block, unless a
script wrote to it; `HeapIsExact` that the heap's room and the one shell account for each other, without which a shell
could be created from nothing.

`UploadsLand` adds `Uploaded`, the invariant of an upload that nothing disturbed: the position in the file is the start of a chunk, the
line on its way is the one sent last, the block holds what was sent of the chunk, and the flash what was written.  The chunks all
go to page 0, so what is kept of the ones before is their last word for each cell.

**`DfuSession_proofs`**, from `ConstantsAssumption` and `SessionAssumption`:

| theorem | states |
| --- | --- |
| `SessionInvariance` | the invariant `Session` of the tool and its calls |
| `SessionImplementsDevice` | `SessionSpec => Spec`: a session is a behaviour of the bootloader with its host |
| `SessionTypeCorrect` | `[]SessionTypeOK` |

`Session == Device /\ Tool /\ CallOpen /\ AtRest`.  `Device` is the inductive invariant of `DfuDevice`, taken over by its lemmas, since
every step of a session is a step of the device or leaves it alone.  `Tool` is the arithmetic of the element, the chunk and the upload at each call
site; from it follows that the tool asks for nothing but the requests of the device's model (`RequestsOfTool`).  `CallOpen` ties the open
call to the control endpoint, packet by packet, and `AtRest` says that no operation of the device is under way when the tool has ended or is about to begin.

**`DfuUpdate_proofs`**, about the same specification:

| theorem | states | if |
| --- | --- | --- |
| `OtherPagesCorrect` | `OtherPagesIntact` | `DataErasesInScope` |
| `UploadCorrect` | `[]UploadIsExact` | |
| `SuccessCorrect` | `[]SuccessMeansProgrammed` | `LayoutRegular`, `ElementsAscend` |
| `ChunksCorrect` | `ChunksLandOnErased` | `LayoutRegular`, `ElementsAscend` |
| `UpdateImplemented` | `ImplementsUpdate` | all three |

The hypotheses are conditions that the code relies on and does not check.  `LayoutRegular`: pages are announced at their true size, what is writeable is
erasable, the application does not begin in the first page.  `ElementsAscend`: no element starts before the end of an earlier one.
`DataErasesInScope`: a packet of the image that reads as an erase command names a page of the image.  The runs `session_pages`,
`session_returning` and `session_stale` show what happens without each, and `MCDfuUpdate` assumes them of the instance that is checked.

The invariant grows in layers above `Session`.  `Pending` says what the device is about to do for the tool, or has done: it is the only link between what
the host believes and what is latched, and it has to allow for the status stage that was overtaken, after which the operation waits for the
next GETSTATUS.  `InScope` bounds every operation that any leftover of the globals could start, also after resets and by another run of the tool; it needs nothing of the
order of calls.  `FileExact` follows an upload: the pointer is the address asked for, and each block continues the file.  `Progressing`
follows a download: `Bookkeeping` ties `last_erased` and the erase loop to the frontier up to which the image is programmed, `SentHeld`
says that what was sent is in the flash and that its page is not about to be erased, and `AheadErased` that the pages visited are erased past the frontier.  `LandsOnErased` says that PGERR has never been
latched and that whatever waits to be written, for the tool or left over from a run that failed, goes to erased flash.  It is what lets the other
layers conclude that an erase erases and a write programs, and `ChunksCorrect` follows from it.

**`MassStorage_proofs`**, from `MassAssumption`, `HostAssumption` and `AddressesFit`:

| theorem | states |
| --- | --- |
| `TypeCorrect` | `[]TypeOK` |
| `ReadCorrect` | `[]ReadIsExact` |
| `WriteCorrect` | `[]WriteIsOnCard` |
| `BlocksCorrect` | `[]BlocksWhole` |
| `ResidueCorrect` | `[]ResidueIsExact` |
| `ReadyCorrect` | `[]AnsweredMeansReady` |
| `StallCorrect` | `[]BadWrapperStaysStalled` |
| `CardCorrect` | `OnlyTheCommandWrites` |

`AddressesFit` enters at one place, where a host sends a wrapper (`Regular`): a command that passes `AddressOk` names blocks of the card.  `ReadCorrect`, `BlocksCorrect` and
`CardCorrect` are false without it, as `mass_wrap` shows of the last.

The inductive invariant is `IInv == Shape /\ (~abandoned => Linked)` (theorem `IInvHolds`).  `Shape` is the types, and that a device in a data state
serves a command whose blocks are on the card; it holds also after a reset that cut a transfer.  `Linked` relates the two sides, and each
of its parts is a fact that some handler relies on without looking:
- `Ports`: the endpoint registers and CTR flags belong to the state machine.  A device in a data or status state has a packet on
  the bus or an interrupt pending, so it cannot wait for nothing; the packet of a pending status is the one of `CSW`.
- `Between`, `Waiting`, `Working`: where the host is in its command, and whether the device has decoded the wrapper already.  The
  two may differ by a command, because `Write_Memory` opens the OUT endpoint before the status has gone out: that the interrupt of endpoint 1
  is served first is used here.
- `Leftover`, `Answering`: which packet in the IN endpoint is an answer and which was left by a class reset; a stalled OUT endpoint with a status prepared is a failure.
- `Transfer`: outside the data states the variables of `memory.c` are at rest, so the next transfer starts from its own command.
- `Reading`, `Writing`, `Replying`: after so many packets the offset, length, counters and block buffer are those of that packet, the host has
  the packets before it, and the card the blocks before it.  `ReadStep` and `WriteStep` compute one call of `Read_Memory` and `Write_Memory` at any
  packet of any block; the arithmetic of bytes, packets and blocks below them (`Position`, `Aligned`, `BlockOfCell`) is proved once.
- `Truth`, `Whole`, `Reported`: what a status says when the host comes to read it, and what is on the card.

One lemma per action keeps `Linked`; the calls of a handler are lemmas of their own (`DecodeServes`, `CommandServed`, `OutServes`, `InServes`).
A reset that cuts a transfer leads out of `Linked`, and what the code does then stays with the run `mass_reset`.

**Only model-checked.**  Every safety invariant and every action property of the passing runs is proved.  What runs under fairness stays with TLC, since liveness and
`ENABLED` are out of the prover's reach: `Recovers`, `Answered`, `DfuModeConverges`, `StopEnds`, `RunIsServed`, `ShellReturns`.  So do the
findings, which are counterexamples.

## 7. Not modelled, and the plan

Not modelled, with the reason:
- *Regular firmware*: the USB command parser, the functions and the I2C master never run at this commit.  `main.c:81` of the regular firmware
  counts in an endless loop before the scheduler is started, and the creation of `crUsbIo` and `crFuncs` is commented out (lines 87 and 88).
  What runs is the interrupt handler of the I2C slave (`i2c.c`), set up for one byte each way: a table from the events of the chip's
  peripheral to moves of a byte, with no order of its own that a model could get wrong.  The *control-board host library* speaks that firmware's protocol.
- *Configuration page of the Pawn firmware* (`conf_ctrl.c`): no caller at this commit.
- *Plain DFU load and upload* (`dfu_load.c`): the bootloader announces version 0x011A, so that dfu-cmd
  uses DfuSe (`main.c:1080`); the other end of the plain protocol is not in the repository.
- *DFU file parser* (`dfu_file.c`) and the parser of the layout string (`dfuse_mem.c`): sequential, without state that
  outlives the call.  What they produce, images and segments, are constants of `DfuSession`.
- *Pawn runner*: a loader around the vendored machine.
- Vendored code, Qt and Lua front ends, board drawings.

Next, in this order:
1. An abstract disk (a command that is answered PASSED has read or written its blocks at one moment) with a refinement from `MassStorage`:
   `IInv` has what the step lemmas need.
2. The safety half of `Recovers` and `Answered` as invariants: from every state that failures leave, some call of the tool or some packet of
   the host is possible.
3. Lemmas of general use (`Position`, `BlockOfCell`, the page arithmetic of `DfuUpdate_proofs`) in a module of their own.
