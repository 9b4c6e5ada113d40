------------------------------ MODULE SdReflash ------------------------------
(***************************************************************************)
(* The start of the mass-storage firmware (mass_storage/src/main.c with    *)
(* flash_if.c): two switches choose between the regular firmware, the USB  *)
(* disk, and the USB disk after the flash was rewritten from the file      *)
(* firmware.bin of the card.  dfu() compares the file with the flash       *)
(* sector by sector, rewrites it when they differ and appends what it did  *)
(* to report.log.  The power may fail at any point, the card may fail to   *)
(* read, and the firmware is started again with other switches and another *)
(* file.  Addresses count from FIRMWARE_START_ADDRESS.                     *)
(***************************************************************************)
EXTENDS Integers, Sequences

CONSTANTS
  FlashSize,   \* bytes of flash from FIRMWARE_START_ADDRESS on
  SectorSize,  \* FLASH_SECTOR_SIZE, also the size of a page of the chip
  Byte,        \* values of a byte
  Erased,      \* 0xFF
  Torn,        \* what an interrupted operation leaves: neither data nor erased
  StackBytes,  \* the bytes that the test of the first word accepts
  InitialFlash,  \* what the flash may hold at first
  Files,       \* the files firmware.bin can be: sequences of bytes
  TornParts,   \* parts of a sector that an interrupted erase may reach
  MaxFaults    \* bound: power failures and read errors

WordSize == 4

ASSUME ReflashAssumption ==
  /\ FlashSize \in Nat
  /\ SectorSize \in Nat \ {0} /\ SectorSize % WordSize = 0
  /\ InitialFlash \subseteq [0..(FlashSize - 1) -> Byte]
  /\ Erased \in Byte /\ Torn \in Byte
  /\ Files \subseteq Seq(Byte)
  /\ \A f \in Files : Len(f) <= FlashSize
  /\ TornParts \subseteq SUBSET (0..(SectorSize - 1))
  /\ MaxFaults \in Nat

NoFile == <<"no file">>

VARIABLES
  flash,
  file,      \* firmware.bin on the card
  pc,        \* where main() and dfu() are
  flashPtr,
  fpos,      \* position of the open file
  buffer,
  br,        \* bytes that the last f_read returned
  idx,       \* bytes that FLASH_If_Write has programmed
  report,    \* what this start appended to report.log
  faults

vars == <<flash, file, pc, flashPtr, fpos, buffer, br, idx, report, faults>>

Flash   == 0..(FlashSize - 1)
Offsets == 0..(SectorSize - 1)
Messages == {"none", "no_file", "same", "not_reopened", "upgraded", "not_started"}

\* The check of the stack pointer looks at the two upper bytes of the word.
FirstWordIsStack == 3 \in Flash /\ {flash[2], flash[3]} \subseteq StackBytes

-----------------------------------------------------------------------------
(* main().  The disk of the next start holds whatever the host, or a copy   *)
(* cut short, left on it.                                                   *)

PowerOn(disk, dfu, f) ==
  /\ pc = "off"
  /\ file' = f
  /\ pc' = CASE disk /\ dfu                 -> "open"
             [] disk /\ ~dfu                -> "usb"
             [] ~disk /\ FirstWordIsStack   -> "app"
             [] ~disk /\ ~FirstWordIsStack  -> "report_not_started"
  /\ report' = "none"
  /\ UNCHANGED <<flash, flashPtr, fpos, buffer, br, idx, faults>>

\* The local variables of dfu() are lost; what a later start finds in its
\* buffer before it reads is anything.
RamLost ==
  /\ flashPtr' = 0 /\ fpos' = 0 /\ br' = 0 /\ idx' = 0
  /\ buffer' = [o \in Offsets |-> Torn]

\* The user switches off the USB disk or the regular firmware.
PowerOff ==
  /\ pc \in {"usb", "app"} /\ pc' = "off" /\ RamLost
  /\ UNCHANGED <<flash, file, report, faults>>

-----------------------------------------------------------------------------
(* dfu().                                                                   *)

\* reportFailure, then dfu_end and the USB disk.
Report(at, message) ==
  /\ pc = at /\ report' = message /\ pc' = "usb"
  /\ UNCHANGED <<flash, file, flashPtr, fpos, buffer, br, idx, faults>>

ReportAll ==
  \/ Report("report_no_file", "no_file")
  \/ Report("report_same", "same")
  \/ Report("report_not_reopened", "not_reopened")
  \/ Report("report_upgraded", "upgraded")
  \/ Report("report_not_started", "not_started")

\* (The variant of the rewrite goes on where the comparison stopped.)
PtrKept  == flashPtr
PtrReset == 0

\* f_open, for the comparison and again for the rewrite.
Open ==
  /\ pc \in {"open", "reopen"}
  /\ IF file = NoFile
       THEN pc' = (IF pc = "open" THEN "report_no_file" ELSE "report_not_reopened")
       ELSE pc' = (IF pc = "open" THEN "compare" ELSE "read")
  /\ fpos' = 0 /\ flashPtr' = PtrReset
  /\ UNCHANGED <<flash, file, buffer, br, idx, report, faults>>

\* What f_read returns, and what it leaves of the buffer's old contents.
Available      == Len(file) - fpos
ReadLength     == IF Available < SectorSize THEN Available ELSE SectorSize
BufferAfterRead ==
  [o \in Offsets |-> IF o < ReadLength THEN file[fpos + o + 1] ELSE buffer[o]]

\* The bytes read are compared, no others.  (The variant also takes an
\* erased flash for the same: the comparison of a blank chip.)
DiffersUnlessBlank ==
  \E o \in Offsets : o < ReadLength /\ flash[flashPtr + o] \notin {file[fpos + o + 1], Erased}
Differs ==
  \E o \in Offsets : o < ReadLength /\ flash[flashPtr + o] # file[fpos + o + 1]

\* (The variant ends without a report.)
AfterSameSilent == IF ReadLength > 0 THEN "compare" ELSE "usb"
AfterSame       == IF ReadLength > 0 THEN "compare" ELSE "report_same"

Compare ==
  /\ pc = "compare"
  /\ buffer' = BufferAfterRead /\ br' = ReadLength
  /\ fpos' = fpos + ReadLength
  /\ IF Differs
       THEN pc' = "reopen" /\ UNCHANGED flashPtr
       ELSE /\ flashPtr' = flashPtr + SectorSize
            /\ pc' = AfterSame
  /\ UNCHANGED <<flash, file, idx, report, faults>>

Read ==
  /\ pc = "read"
  /\ buffer' = BufferAfterRead /\ br' = ReadLength
  /\ fpos' = fpos + ReadLength
  /\ pc' = "erase"
  /\ UNCHANGED <<flash, file, flashPtr, idx, report, faults>>

Sector == {flashPtr + o : o \in Offsets}

\* The bytes behind the data, up to a whole word, are set to 0xFF.  (The
\* variant leaves them.)
NotPadded(data, length) == data
Padded(data, length) ==
  [o \in Offsets |-> IF /\ length % WordSize # 0 /\ o >= length
                        /\ o < (length \div WordSize) * WordSize + WordSize
                     THEN Erased ELSE data[o]]

\* FLASH_If_Erase, and the padding that opens FLASH_If_Write.  A sector past
\* the end of the flash does not exist.
ErasedSector == [a \in Flash |-> IF a \in Sector THEN Erased ELSE flash[a]]
EraseSector ==
  /\ pc = "erase"
  /\ flash' = ErasedSector
  /\ buffer' = Padded(buffer, br)
  /\ idx' = 0 /\ pc' = "write"
  /\ UNCHANGED <<file, flashPtr, fpos, br, report, faults>>

WordAt == {flashPtr + idx + i : i \in 0..(WordSize - 1)}

\* FLASH_ProgramWord takes on erased flash only; nobody looks at its result.
ProgrammedWord ==
  IF \A a \in WordAt \cap Flash : flash[a] = Erased
  THEN [a \in Flash |-> IF a \in WordAt THEN buffer[a - flashPtr] ELSE flash[a]]
  ELSE flash

\* (WordsLeft of the variant: the loop goes over whole words only.)
WholeWordsLeft == idx + WordSize <= br
WordsLeft      == idx < br

WriteWord ==
  /\ pc = "write" /\ WordsLeft
  /\ flash' = ProgrammedWord
  /\ idx' = idx + WordSize
  /\ UNCHANGED <<file, pc, flashPtr, fpos, buffer, br, report, faults>>

LastSector == br = 0

NextSector ==
  /\ pc = "write" /\ ~WordsLeft
  /\ flashPtr' = flashPtr + SectorSize
  /\ pc' = IF LastSector THEN "report_upgraded" ELSE "read"
  /\ UNCHANGED <<flash, file, fpos, buffer, br, idx, report, faults>>

-----------------------------------------------------------------------------
(* Failures.                                                                *)

Fault == faults < MaxFaults /\ faults' = faults + 1

\* f_read fails: dfu_end without a report.  A failed f_open counts as no file.
ReadError ==
  /\ Fault
  /\ \/ pc \in {"compare", "read"} /\ pc' = "usb"
     \/ pc = "open" /\ pc' = "report_no_file"
     \/ pc = "reopen" /\ pc' = "report_not_reopened"
  /\ UNCHANGED <<flash, file, flashPtr, fpos, buffer, br, idx, report>>

\* The report cannot be written.
ReportError ==
  /\ Fault
  /\ pc \in {"report_no_file", "report_same", "report_not_reopened", "report_upgraded",
             "report_not_started"}
  /\ pc' = "usb"
  /\ UNCHANGED <<flash, file, flashPtr, fpos, buffer, br, idx, report>>

\* The power fails, in the middle of an erase or of a word.
Spoil(addresses, value) ==
  flash' = [a \in Flash |-> IF a \in addresses THEN value ELSE flash[a]]

PowerFails ==
  /\ Fault /\ pc # "off" /\ pc' = "off" /\ RamLost
  /\ \/ UNCHANGED flash
     \/ /\ pc = "erase"
        /\ \E part \in TornParts, value \in {Erased, Torn} :
             Spoil({flashPtr + o : o \in part}, value)
     \/ /\ pc = "write" /\ WordsLeft
        /\ Spoil(WordAt, Torn)
  /\ UNCHANGED <<file, report>>

-----------------------------------------------------------------------------
Init ==
  /\ flash \in InitialFlash
  /\ file = NoFile /\ pc = "off"
  /\ flashPtr = 0 /\ fpos = 0 /\ br = 0 /\ idx = 0
  /\ buffer = [o \in Offsets |-> Torn]
  /\ report = "none" /\ faults = 0

Step == ReportAll \/ Open \/ Compare \/ Read \/ EraseSector \/ WriteWord \/ NextSector

Next ==
  \/ \E disk, dfu \in BOOLEAN, f \in Files \cup {NoFile} : PowerOn(disk, dfu, f)
  \/ PowerOff
  \/ Step
  \/ ReadError \/ ReportError \/ PowerFails

\* The processor runs on while it has power; the user is under no obligation.
Spec == Init /\ [][Next]_vars /\ WF_vars(Step)

-----------------------------------------------------------------------------
(* Properties.                                                              *)

TypeOK ==
  /\ flash \in [Flash -> Byte]
  /\ file \in Files \cup {NoFile}
  /\ pc \in {"off", "open", "compare", "reopen", "read", "erase", "write", "usb", "app",
             "report_no_file", "report_same", "report_not_reopened", "report_upgraded",
             "report_not_started"}
  /\ flashPtr \in Nat /\ fpos \in Nat
  /\ buffer \in [Offsets -> Byte]
  /\ br \in 0..SectorSize /\ idx \in 0..SectorSize
  /\ report \in Messages /\ faults \in 0..MaxFaults

Told == report \in {"same", "upgraded"}

\* main.c:197 and :225: whoever reads "the same" or "upgraded" in the report
\* finds the whole file in the flash, whatever earlier starts left there:
\* torn sectors, half an image, or a longer one.
ToldMeansFlashed == Told => \A a \in 0..(Len(file) - 1) : flash[a] = file[a + 1]

\* After an upgrade the rest of the last sector and the sector after it are
\* blank: no byte of the buffer or of an older image hides behind the file.
BlankBehind ==
  report = "upgraded" =>
    \A a \in Flash : Len(file) <= a /\ a < Len(file) + SectorSize => flash[a] = Erased

\* Outside the sectors of the file and the one that follows, nothing changes,
\* in particular not by an interrupted or torn operation.
SectorsOfFile == (Len(file) + SectorSize - 1) \div SectorSize
Scope == {a \in Flash : file # NoFile /\ a < (SectorsOfFile + 1) * SectorSize}
StaysInScope == [][\A a \in Flash \ Scope : flash'[a] = flash[a]]_vars

\* A start in DFU mode with a file that meets no failure ends with the file
\* in the flash and the user told so, whatever state the failures before it
\* left behind.
DfuModeConverges ==
  (pc = "open" /\ file # NoFile /\ faults = MaxFaults) ~> Told

\* It implements the abstract update.
Update == INSTANCE FirmwareUpdate WITH
  content <- flash,
  goal    <- [a \in 0..(Len(file) - 1) |-> IF file = NoFile THEN Torn ELSE file[a + 1]],
  scope   <- Scope,
  done    <- Told
ImplementsUpdate == Update!UpdateSpec
=============================================================================
