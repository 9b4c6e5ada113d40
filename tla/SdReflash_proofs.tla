-------------------------- MODULE SdReflash_proofs --------------------------
(***************************************************************************)
(* Proofs about the start of the mass-storage firmware, for every size of  *)
(* the flash and of a sector, every file and any number of failures.  The  *)
(* inductive invariant IInv says, for each loop of dfu(), how far the      *)
(* flash agrees with the file: up to the position of the file while it is  *)
(* compared or read, and up to the word being programmed while a sector is *)
(* written.                                                                *)
(***************************************************************************)
EXTENDS SdReflash, TLAPS

Agrees(n)   == \A a \in 0..(n - 1) : flash[a] = file[a + 1]
Blank(n, m) == \A a \in Flash : n <= a /\ a < m => flash[a] = Erased

HasFile ==
  pc \in {"compare", "reopen", "read", "erase", "write", "report_same", "report_upgraded"} \/ Told
    => file # NoFile

AtPosition ==
  \/ fpos = flashPtr
  \/ fpos = Len(file) /\ Len(file) <= flashPtr /\ flashPtr < Len(file) + SectorSize

\* Between two sectors: the file's position is that of the flash, or the file has ended.
Between ==
  pc \in {"compare", "read"} =>
    /\ fpos <= Len(file)
    /\ AtPosition
    /\ Agrees(fpos)
    /\ pc = "read" => Blank(Len(file), flashPtr)

\* Within a sector: the buffer holds what the file has for it, the sectors before it agree.
Within ==
  pc \in {"erase", "write"} =>
    /\ fpos <= Len(file)
    /\ \/ fpos = flashPtr + br
       \/ br = 0 /\ fpos = Len(file) /\ Len(file) <= flashPtr
    /\ flashPtr < Len(file) + SectorSize
    /\ br < SectorSize => fpos = Len(file)
    /\ \A o \in Offsets : o < br => buffer[o] = file[flashPtr + o + 1]
    /\ \A a \in 0..(Len(file) - 1) : a < flashPtr => flash[a] = file[a + 1]
    /\ Blank(Len(file), flashPtr)

\* While it is written: the flash has the buffer up to idx and is erased behind it.
Writing ==
  pc = "write" =>
    /\ idx % 4 = 0 /\ idx < br + 4
    /\ \A o \in Offsets : br <= o /\ o < (br \div 4) * 4 + 4 /\ br % 4 # 0 => buffer[o] = Erased
    /\ \A o \in Offsets : flashPtr + o \in Flash =>
         flash[flashPtr + o] = IF o < idx THEN buffer[o] ELSE Erased

\* At the end: everything agrees, and stays so while the report can be read.
AtEnd ==
  /\ Told => pc \in {"usb", "off"}
  /\ pc \in {"report_same", "report_upgraded"} \/ Told => Agrees(Len(file))
  /\ pc = "report_upgraded" \/ report = "upgraded"
       => Blank(Len(file), Len(file) + SectorSize)

IInv == TypeOK /\ HasFile /\ Between /\ Within /\ Writing /\ AtEnd

-----------------------------------------------------------------------------
(* Lemmas.                                                                  *)

\* A file is a sequence of bytes that fits into the flash.
LEMMA FileType ==
  ASSUME TypeOK, file # NoFile
  PROVE  /\ Len(file) \in Nat /\ Len(file) <= FlashSize
         /\ \A i \in 1..Len(file) : file[i] \in Byte
  BY ReflashAssumption DEF TypeOK

\* f_read returns no more than is there, and less than a sector only at the end.
LEMMA ReadLengthType ==
  ASSUME TypeOK, file # NoFile, fpos <= Len(file)
  PROVE  /\ ReadLength \in 0..SectorSize
         /\ fpos + ReadLength <= Len(file)
         /\ ReadLength < SectorSize => fpos + ReadLength = Len(file)
  BY FileType, ReflashAssumption DEF TypeOK, ReadLength, Available

\* The buffer holds bytes, those of the file in front.
LEMMA BufferType ==
  ASSUME TypeOK, file # NoFile, fpos <= Len(file)
  PROVE  /\ BufferAfterRead \in [Offsets -> Byte]
         /\ \A o \in Offsets : o < ReadLength => BufferAfterRead[o] = file[fpos + o + 1]
<1>1. \A o \in Offsets : o < ReadLength => fpos + o + 1 \in 1..Len(file)
  BY FileType, ReadLengthType, ReflashAssumption DEF TypeOK, Offsets
<1>2. \A o \in Offsets : buffer[o] \in Byte
  BY DEF TypeOK
<1> QED
  BY <1>1, <1>2, FileType DEF BufferAfterRead

\* A word is inside its sector.
LEMMA WordInSector ==
  ASSUME TypeOK, idx % 4 = 0, WordsLeft
  PROVE  idx + 4 <= SectorSize
  BY ReflashAssumption DEF TypeOK, WordsLeft, WordSize

-----------------------------------------------------------------------------
(* Type correctness and the invariant, action by action.                    *)

\* The initial states.
LEMMA InitInv == Init => IInv
<1> SUFFICES ASSUME Init PROVE IInv
  OBVIOUS
<1>1. TypeOK
  BY ReflashAssumption DEF Init, TypeOK, Flash, Offsets, Messages
<1> QED
  BY <1>1 DEF Init, IInv, HasFile, Between, Within, Writing, AtEnd, Told

\* Switching on, off, and the steps that only report.
LEMMA PowerOnInv ==
  ASSUME IInv, NEW disk \in BOOLEAN, NEW dfu \in BOOLEAN, NEW f \in Files \cup {NoFile},
         PowerOn(disk, dfu, f)
  PROVE  IInv'
<1>1. pc' \in {"open", "usb", "app", "report_not_started"}
  BY DEF PowerOn
<1>2. TypeOK'
  BY <1>1 DEF IInv, TypeOK, PowerOn, Messages
<1> QED
  BY <1>1, <1>2 DEF PowerOn, IInv, HasFile, Between, Within, Writing, AtEnd, Told

\* What holds at the end does not depend on anything but the flash and the file.
LEMMA EndInv ==
  ASSUME IInv, UNCHANGED <<flash, file>>, TypeOK',
         pc' \in {"off", "usb", "app", "report_no_file", "report_not_reopened",
                  "report_not_started"},
         report' = report \/ report' \in {"no_file", "not_reopened", "not_started", "none"},
         report' = report /\ Told => pc' \in {"usb", "off"}
  PROVE  IInv'
  BY DEF IInv, HasFile, Between, Within, Writing, AtEnd, Told, Agrees, Blank

LEMMA PowerOffInv == ASSUME IInv, PowerOff PROVE IInv'
<1>1. TypeOK'
  BY ReflashAssumption DEF IInv, TypeOK, PowerOff, RamLost, Offsets
<1> QED
  BY <1>1, EndInv DEF PowerOff

LEMMA ReportInv == ASSUME IInv, ReportAll PROVE IInv'
<1>1. TypeOK'
  BY DEF IInv, TypeOK, ReportAll, Report, Messages
<1>2. CASE pc \in {"report_same", "report_upgraded"}
  BY <1>1, <1>2 DEF ReportAll, Report, IInv, HasFile, Between, Within, Writing, AtEnd,
     Told, Agrees, Blank
<1>3. CASE pc \notin {"report_same", "report_upgraded"}
  <2>1. /\ pc' = "usb" /\ UNCHANGED <<flash, file>>
        /\ report' \in {"no_file", "not_reopened", "not_started"}
    BY <1>3 DEF ReportAll, Report
  <2> QED
    BY <1>1, <2>1, EndInv
<1> QED
  BY <1>2, <1>3

LEMMA ReportErrorInv == ASSUME IInv, ReportError PROVE IInv'
<1>1. TypeOK'
  BY ReflashAssumption DEF IInv, TypeOK, ReportError, Fault
<1> QED
  BY <1>1, EndInv DEF ReportError

LEMMA ReadErrorInv == ASSUME IInv, ReadError PROVE IInv'
<1>1. TypeOK'
  BY ReflashAssumption DEF IInv, TypeOK, ReadError, Fault
<1>2. ~Told
  BY DEF IInv, AtEnd, ReadError
<1> QED
  BY <1>1, <1>2, EndInv DEF ReadError

\* Opening the file rewinds it and the pointer into the flash.
LEMMA OpenInv == ASSUME IInv, Open PROVE IInv'
<1>1. TypeOK'
  BY DEF IInv, TypeOK, Open, PtrReset
<1>2. ~Told
  BY DEF IInv, AtEnd, Open
<1>3. CASE file = NoFile
  BY <1>1, <1>2, <1>3, EndInv DEF Open
<1>4. CASE file # NoFile
  <2>1. /\ pc' \in {"compare", "read"} /\ fpos' = 0 /\ flashPtr' = 0
        /\ UNCHANGED <<flash, file, report>>
    BY <1>4 DEF Open, PtrReset
  <2>2. Len(file) \in Nat
    BY <1>4, FileType DEF IInv
  <2> QED
    BY <1>1, <1>2, <1>4, <2>1, <2>2 DEF IInv, HasFile, Between, Within, Writing, AtEnd,
       Told, Agrees, Blank, Flash, AtPosition
<1> QED
  BY <1>3, <1>4

\* The comparison: one more sector agrees, or the rewrite begins.
LEMMA CompareInv == ASSUME IInv, Compare PROVE IInv'
<1>1. /\ TypeOK /\ file # NoFile /\ fpos <= Len(file) /\ Agrees(fpos) /\ ~Told
      /\ AtPosition
  BY DEF IInv, HasFile, Between, AtEnd, Compare
<1>2. /\ ReadLength \in 0..SectorSize /\ fpos + ReadLength <= Len(file)
      /\ ReadLength < SectorSize => fpos + ReadLength = Len(file)
  BY <1>1, ReadLengthType
<1>3. Len(file) \in Nat /\ fpos \in Nat /\ flashPtr \in Nat /\ SectorSize \in Nat \ {0}
  BY <1>1, FileType, ReflashAssumption DEF TypeOK
<1>4. TypeOK'
  BY <1>1, <1>2, <1>3, BufferType DEF TypeOK, Compare, AfterSame
<1>5. CASE Differs
  BY <1>1, <1>4, <1>5 DEF Compare, IInv, HasFile, Between, Within, Writing, AtEnd, Told
<1>6. CASE ~Differs
  <2>1. \A a \in 0..(fpos + ReadLength - 1) : flash[a] = file[a + 1]
    <3> SUFFICES ASSUME NEW a \in 0..(fpos + ReadLength - 1) PROVE flash[a] = file[a + 1]
      OBVIOUS
    <3>1. CASE a < fpos
      BY <1>1, <1>2, <1>3, <3>1 DEF Agrees
    <3>2. CASE a >= fpos
      <4>1. fpos = flashPtr
        BY <1>1, <1>2, <1>3, <3>2 DEF AtPosition
      <4>2. a - fpos \in Offsets /\ a - fpos < ReadLength
        BY <1>2, <1>3, <3>2 DEF Offsets
      <4>3. flash[flashPtr + (a - fpos)] = file[fpos + (a - fpos) + 1]
        BY <1>6, <4>2 DEF Differs
      <4> QED
        BY <1>3, <4>1, <4>3
    <3> QED
      BY <1>2, <1>3, <3>1, <3>2
  <2>2. CASE ReadLength > 0
    <3>1. /\ pc' = "compare" /\ fpos' = fpos + ReadLength
          /\ flashPtr' = flashPtr + SectorSize /\ UNCHANGED <<flash, file, report>>
      BY <1>6, <2>2 DEF Compare, AfterSame
    <3>2. AtPosition'
      BY <1>1, <1>2, <1>3, <2>2, <3>1 DEF AtPosition
    <3>3. Agrees(fpos)'
      <4>1. flash' = flash /\ file' = file /\ fpos' - 1 = fpos + ReadLength - 1
        BY <1>2, <1>3, <3>1
      <4> QED
        BY <2>1, <4>1 DEF Agrees
    <3> QED
      BY <1>1, <1>2, <1>4, <3>1, <3>2, <3>3 DEF IInv, HasFile, Between, Within, Writing,
         AtEnd, Told
  <2>3. CASE ReadLength = 0
    <3>1. fpos = Len(file)
      BY <1>2, <1>3, <2>3
    <3>2. pc' = "report_same" /\ UNCHANGED <<flash, file, report>>
      BY <1>6, <2>3 DEF Compare, AfterSame
    <3> QED
      BY <1>1, <1>4, <3>1, <3>2 DEF IInv, HasFile, Between, Within, Writing, AtEnd, Told,
         Agrees
  <2> QED
    BY <1>2, <2>2, <2>3
<1> QED
  BY <1>5, <1>6

\* The next part of the file is in the buffer.
LEMMA ReadInv == ASSUME IInv, Read PROVE IInv'
<1>1. /\ TypeOK /\ file # NoFile /\ fpos <= Len(file) /\ Agrees(fpos) /\ ~Told
      /\ AtPosition
      /\ Blank(Len(file), flashPtr)
  BY DEF IInv, HasFile, Between, AtEnd, Read
<1>2. /\ ReadLength \in 0..SectorSize /\ fpos + ReadLength <= Len(file)
      /\ ReadLength < SectorSize => fpos + ReadLength = Len(file)
  BY <1>1, ReadLengthType
<1>3. Len(file) \in Nat /\ fpos \in Nat /\ flashPtr \in Nat /\ SectorSize \in Nat \ {0}
  BY <1>1, FileType, ReflashAssumption DEF TypeOK
<1>4. TypeOK'
  BY <1>1, <1>2, <1>3, BufferType DEF TypeOK, Read
<1>5. /\ pc' = "erase" /\ br' = ReadLength /\ fpos' = fpos + ReadLength
      /\ buffer' = BufferAfterRead /\ UNCHANGED <<flash, file, report, flashPtr>>
  BY DEF Read
<1>6. \A o \in Offsets : o < ReadLength => buffer'[o] = file[flashPtr + o + 1]
  <2> SUFFICES ASSUME NEW o \in Offsets, o < ReadLength
               PROVE  buffer'[o] = file[flashPtr + o + 1]
    OBVIOUS
  <2>1. fpos = flashPtr
    BY <1>1, <1>2, <1>3 DEF Offsets, AtPosition
  <2> QED
    BY <1>1, <1>5, <2>1, BufferType
<1>7. \/ fpos' = flashPtr + ReadLength
      \/ ReadLength = 0 /\ fpos' = Len(file) /\ Len(file) <= flashPtr
  BY <1>1, <1>2, <1>3, <1>5 DEF AtPosition
<1>8. \A a \in 0..(Len(file) - 1) : a < flashPtr => flash[a] = file[a + 1]
  BY <1>1, <1>3 DEF Agrees, AtPosition
<1>9. flashPtr < Len(file) + SectorSize
  BY <1>1, <1>3 DEF AtPosition
<1>10. Within'
  BY <1>1, <1>2, <1>5, <1>6, <1>7, <1>8, <1>9 DEF Within, Blank
<1> QED
  BY <1>1, <1>4, <1>5, <1>10 DEF IInv, HasFile, Between, Writing, AtEnd, Told

\* The sector is erased, the padding in the buffer; the sectors before it stay.
LEMMA EraseInv == ASSUME IInv, EraseSector PROVE IInv'
<1>1. TypeOK /\ file # NoFile /\ ~Told
  BY DEF IInv, HasFile, AtEnd, EraseSector
<1>2. /\ Len(file) \in Nat /\ flashPtr \in Nat /\ SectorSize \in Nat \ {0}
      /\ br \in 0..SectorSize
  BY <1>1, FileType, ReflashAssumption DEF TypeOK
<1>3. /\ pc' = "write" /\ idx' = 0 /\ UNCHANGED <<file, flashPtr, fpos, br, report>>
      /\ flash' = ErasedSector /\ buffer' = Padded(buffer, br)
  BY DEF EraseSector
<1>4. \A a \in Flash : a < flashPtr => flash'[a] = flash[a]
  BY <1>2, <1>3 DEF ErasedSector, Sector, Offsets, Flash
<1>5. \A o \in Offsets : flashPtr + o \in Flash => flash'[flashPtr + o] = Erased
  BY <1>3 DEF ErasedSector, Sector
<1>6. \A o \in Offsets : o < br => buffer'[o] = buffer[o]
  BY <1>2, <1>3 DEF Padded, Offsets
<1>7. \A o \in Offsets : br <= o /\ o < (br \div 4) * 4 + 4 /\ br % 4 # 0 => buffer'[o] = Erased
  BY <1>3 DEF Padded, WordSize
<1>8. TypeOK'
  <2>1. flash' \in [Flash -> Byte]
    BY <1>1, <1>3, ReflashAssumption DEF TypeOK, ErasedSector
  <2>2. buffer' \in [Offsets -> Byte]
    BY <1>1, <1>3, ReflashAssumption DEF TypeOK, Padded
  <2> QED
    BY <1>1, <1>2, <1>3, <2>1, <2>2 DEF TypeOK, EraseSector
<1>9. 0..(Len(file) - 1) \subseteq Flash
  BY <1>1, <1>2, FileType, ReflashAssumption DEF Flash
<1>10. Within'
  <2>1. \A a \in 0..(Len(file) - 1) : a < flashPtr => flash'[a] = file[a + 1]
    BY <1>4, <1>9 DEF IInv, Within, EraseSector
  <2>2. \A a \in Flash : Len(file) <= a /\ a < flashPtr => flash'[a] = Erased
    BY <1>4 DEF IInv, Within, EraseSector, Blank
  <2>3. \A o \in Offsets : o < br => buffer'[o] = file[flashPtr + o + 1]
    BY <1>6 DEF IInv, Within, EraseSector
  <2> QED
    BY <1>3, <2>1, <2>2, <2>3 DEF IInv, Within, EraseSector, Blank
<1>11. Writing'
  <2>1. \A o \in Offsets : ~(o < 0)
    BY DEF Offsets
  <2> QED
    BY <1>2, <1>3, <1>5, <1>7, <2>1 DEF Writing
<1> QED
  BY <1>1, <1>3, <1>8, <1>10, <1>11 DEF IInv, HasFile, Between, AtEnd, Told

\* One word: it lies in the sector, on erased flash, and takes what the buffer holds.
LEMMA WriteInv == ASSUME IInv, WriteWord PROVE IInv'
<1>1. TypeOK /\ file # NoFile /\ ~Told /\ pc = "write"
  BY DEF IInv, HasFile, AtEnd, WriteWord
<1>2. /\ Len(file) \in Nat /\ flashPtr \in Nat /\ SectorSize \in Nat \ {0}
      /\ br \in 0..SectorSize /\ idx \in Nat
  BY <1>1, FileType, ReflashAssumption DEF TypeOK
<1>3. idx < br /\ idx + 4 <= SectorSize /\ idx % 4 = 0
  BY <1>1, WordInSector DEF IInv, Writing, WriteWord, WordsLeft
<1>4. \A a \in WordAt : a - flashPtr \in Offsets /\ a = flashPtr + (a - flashPtr)
                          /\ ~(a - flashPtr < idx) /\ a - flashPtr < idx + 4 /\ a >= flashPtr
  BY <1>2, <1>3 DEF WordAt, WordSize, Offsets
<1>5. \A a \in WordAt \cap Flash : flash[a] = Erased
  BY <1>1, <1>4 DEF IInv, Writing
<1>6. /\ pc' = "write" /\ idx' = idx + 4
      /\ UNCHANGED <<file, flashPtr, fpos, br, buffer, report, faults>>
      /\ flash' = [a \in Flash |-> IF a \in WordAt THEN buffer[a - flashPtr] ELSE flash[a]]
  BY <1>1, <1>5 DEF WriteWord, ProgrammedWord, WordSize
<1>7. TypeOK'
  <2>1. \A a \in Flash : flash'[a] \in Byte
    BY <1>1, <1>4, <1>6 DEF TypeOK
  <2>2. flash' \in [Flash -> Byte]
    BY <1>6, <2>1
  <2>3. idx' \in 0..SectorSize
    BY <1>2, <1>3, <1>6
  <2> QED
    BY <1>1, <1>6, <2>2, <2>3 DEF TypeOK
<1>8. \A a \in Flash : a < flashPtr => flash'[a] = flash[a]
  BY <1>2, <1>4, <1>6 DEF Flash
<1>9. 0..(Len(file) - 1) \subseteq Flash
  BY <1>1, <1>2, FileType, ReflashAssumption DEF Flash
<1>10. Within'
  <2>1. \A a \in 0..(Len(file) - 1) : a < flashPtr => flash'[a] = file[a + 1]
    BY <1>1, <1>8, <1>9 DEF IInv, Within
  <2>2. \A a \in Flash : Len(file) <= a /\ a < flashPtr => flash'[a] = Erased
    BY <1>1, <1>8 DEF IInv, Within, Blank
  <2> QED
    BY <1>1, <1>6, <2>1, <2>2 DEF IInv, Within, Blank
<1>11. Writing'
  <2>1. idx' % 4 = 0 /\ idx' < br + 4
    BY <1>2, <1>3, <1>6
  <2>2. ASSUME NEW o \in Offsets, flashPtr + o \in Flash
        PROVE  flash'[flashPtr + o] = IF o < idx' THEN buffer[o] ELSE Erased
    <3>1. flash[flashPtr + o] = IF o < idx THEN buffer[o] ELSE Erased
      BY <1>1, <2>2 DEF IInv, Writing
    <3>2. flashPtr + o \in WordAt <=> idx <= o /\ o < idx + 4
      <4>1. ASSUME idx <= o, o < idx + 4 PROVE flashPtr + o \in WordAt
        <5>1. o - idx \in 0..3 /\ flashPtr + o = flashPtr + idx + (o - idx)
          BY <1>2, <4>1 DEF Offsets
        <5> QED
          BY <5>1 DEF WordAt, WordSize
      <4> QED
        BY <1>2, <4>1 DEF WordAt, WordSize, Offsets
    <3>3. (flashPtr + o) - flashPtr = o
      BY <1>2 DEF Offsets
    <3>4. flash'[flashPtr + o] = IF flashPtr + o \in WordAt THEN buffer[o] ELSE flash[flashPtr + o]
      BY <1>6, <2>2, <3>3
    <3> QED
      BY <1>2, <1>6, <3>1, <3>2, <3>4 DEF Offsets
  <2> QED
    BY <1>1, <1>6, <2>1, <2>2 DEF IInv, Writing
<1> QED
  BY <1>1, <1>6, <1>7, <1>10, <1>11 DEF IInv, HasFile, Between, AtEnd, Told

\* All words of the sector: it agrees with the file and is blank behind it.
LEMMA NextSectorInv == ASSUME IInv, NextSector PROVE IInv'
<1>1. TypeOK /\ file # NoFile /\ ~Told /\ pc = "write" /\ Within /\ Writing
  BY DEF IInv, HasFile, AtEnd, NextSector
<1>2. /\ Len(file) \in Nat /\ flashPtr \in Nat /\ SectorSize \in Nat \ {0} /\ fpos \in Nat
      /\ br \in 0..SectorSize /\ idx \in Nat /\ ~(idx < br)
  BY <1>1, FileType, ReflashAssumption DEF TypeOK, NextSector, WordsLeft
<1>3. /\ flashPtr' = flashPtr + SectorSize /\ UNCHANGED <<flash, file, fpos, buffer, br, report>>
      /\ pc' = IF br = 0 THEN "report_upgraded" ELSE "read"
  BY DEF NextSector, LastSector
<1>4. TypeOK'
  BY <1>1, <1>2, <1>3 DEF TypeOK, NextSector
<1>5. 0..(Len(file) - 1) \subseteq Flash
  BY <1>1, <1>2, FileType, ReflashAssumption DEF Flash
<1>6. \A a \in 0..(Len(file) - 1) : a < fpos => flash[a] = file[a + 1]
  <2> SUFFICES ASSUME NEW a \in 0..(Len(file) - 1), a < fpos PROVE flash[a] = file[a + 1]
    OBVIOUS
  <2>1. CASE a < flashPtr
    BY <1>1, <2>1 DEF Within
  <2>2. CASE a >= flashPtr
    <3>1. a - flashPtr \in Offsets /\ a - flashPtr < br /\ flashPtr + (a - flashPtr) = a
      BY <1>1, <1>2, <2>2 DEF Within, Offsets
    <3>2. flash[a] = buffer[a - flashPtr]
      BY <1>1, <1>2, <1>5, <3>1 DEF Writing, Offsets
    <3> QED
      BY <1>1, <3>1, <3>2 DEF Within
  <2> QED
    BY <1>2, <2>1, <2>2
<1>7. Blank(Len(file), flashPtr + SectorSize)
  <2> SUFFICES ASSUME NEW a \in Flash, Len(file) <= a, a < flashPtr + SectorSize
               PROVE  flash[a] = Erased
    BY DEF Blank
  <2>0. a \in Nat
    BY DEF Flash
  <2>1. CASE a < flashPtr
    BY <1>1, <2>1 DEF Within, Blank
  <2>2. CASE a >= flashPtr
    <3>1. a - flashPtr \in Offsets /\ ~(a - flashPtr < br) /\ flashPtr + (a - flashPtr) = a
      <4>1. a - flashPtr \in Offsets /\ flashPtr + (a - flashPtr) = a
        BY <1>2, <2>0, <2>2 DEF Offsets
      <4>2. fpos <= Len(file) /\ (fpos = flashPtr + br \/ br = 0)
        BY <1>1 DEF Within
      <4> QED
        BY <1>2, <2>0, <2>2, <4>1, <4>2
    <3>2. flash[a] = IF a - flashPtr < idx THEN buffer[a - flashPtr] ELSE Erased
      BY <1>1, <3>1 DEF Writing
    <3>3. ASSUME a - flashPtr < idx
          PROVE  a - flashPtr < (br \div 4) * 4 + 4 /\ br % 4 # 0
      BY <1>1, <1>2, <2>0, <3>1, <3>3 DEF Writing
    <3> QED
      BY <1>1, <1>2, <2>0, <3>1, <3>2, <3>3 DEF Writing
  <2> QED
    BY <1>2, <2>0, <2>1, <2>2
<1>8. CASE br = 0
  <2>1. fpos = Len(file) /\ Len(file) <= flashPtr
    BY <1>1, <1>2, <1>8 DEF Within
  <2>2. Agrees(Len(file)) /\ Blank(Len(file), Len(file) + SectorSize)
    BY <1>2, <1>6, <1>7, <2>1 DEF Agrees, Blank, Flash
  <2> QED
    BY <1>1, <1>3, <1>4, <1>8, <2>2 DEF IInv, HasFile, Between, Within, Writing, AtEnd, Told,
       Agrees, Blank
<1>9. CASE br # 0
  <2>1. fpos <= Len(file) /\ fpos = flashPtr + br /\ (br < SectorSize => fpos = Len(file))
    BY <1>1, <1>9 DEF Within
  <2>2. AtPosition'
    BY <1>2, <1>3, <1>9, <2>1 DEF AtPosition
  <2>3. Agrees(fpos)
    BY <1>2, <1>6, <2>1 DEF Agrees
  <2> QED
    BY <1>1, <1>3, <1>4, <1>7, <1>9, <2>1, <2>2, <2>3 DEF IInv, HasFile, Between, Within,
       Writing, AtEnd, Told, Agrees, Blank
<1> QED
  BY <1>8, <1>9

\* Losing the power in an operation spoils no more than the types allow: nobody was told.
LEMMA PowerFailsInv == ASSUME IInv, PowerFails PROVE IInv'
<1>1. /\ pc' = "off" /\ UNCHANGED <<file, report>>
  BY DEF PowerFails
<1>2. flash' \in [Flash -> Byte]
  BY ReflashAssumption DEF PowerFails, Spoil, IInv, TypeOK
<1>3. TypeOK'
  BY <1>1, <1>2, ReflashAssumption DEF IInv, TypeOK, PowerFails, Fault, RamLost, Offsets
<1>4. CASE UNCHANGED flash
  BY <1>1, <1>3, <1>4, EndInv
<1>5. CASE pc \in {"erase", "write"}
  <2>1. ~Told
    BY <1>5 DEF IInv, AtEnd
  <2> QED
    BY <1>1, <1>3, <2>1 DEF IInv, HasFile, Between, Within, Writing, AtEnd, Told
<1> QED
  BY <1>4, <1>5 DEF PowerFails

-----------------------------------------------------------------------------
(* Theorems.                                                                *)

\* Every step preserves the invariant.
LEMMA NextInv == ASSUME IInv, [Next]_vars PROVE IInv'
<1>1. CASE Next
  BY <1>1, PowerOnInv, PowerOffInv, ReportInv, OpenInv, CompareInv, ReadInv, EraseInv, WriteInv,
     NextSectorInv, ReadErrorInv, ReportErrorInv, PowerFailsInv DEF Next, Step
<1>2. CASE UNCHANGED vars
  BY <1>2 DEF vars, IInv, TypeOK, HasFile, Between, AtPosition, Within, Writing, AtEnd, Told,
     Agrees, Blank
<1> QED
  BY <1>1, <1>2

LEMMA InvHolds == Spec => []IInv
  BY InitInv, NextInv, PTL DEF Spec

\* The start of the firmware keeps to its types.
THEOREM TypeCorrect == Spec => []TypeOK
<1>1. IInv => TypeOK
  BY DEF IInv
<1> QED
  BY <1>1, InvHolds, PTL

\* Whoever reads "the same" or "upgraded" (main.c:197, main.c:225) has the whole file in the
\* flash, after any sequence of failures and restarts.
THEOREM ReportsAreTrue == Spec => []ToldMeansFlashed
<1>1. IInv => ToldMeansFlashed
  BY DEF IInv, AtEnd, ToldMeansFlashed, Agrees
<1> QED
  BY <1>1, InvHolds, PTL

\* Behind an upgraded image a sector's length of flash is blank.
THEOREM NothingBehind == Spec => []BlankBehind
<1>1. IInv => BlankBehind
  BY DEF IInv, AtEnd, BlankBehind, Blank
<1> QED
  BY <1>1, InvHolds, PTL

\* The pointer stays at the start of a sector.
Aligned == flashPtr \in Nat /\ \E k \in Nat : flashPtr = k * SectorSize

LEMMA AlignedHolds == Spec => []Aligned
<1>1. Init => Aligned
  <2>1. 0 \in Nat /\ 0 = 0 * SectorSize
    BY ReflashAssumption
  <2> QED
    BY <2>1 DEF Init, Aligned
<1>2. Aligned /\ [Next]_vars => Aligned'
  <2> SUFFICES ASSUME Aligned, [Next]_vars PROVE Aligned'
    OBVIOUS
  <2>1. CASE UNCHANGED flashPtr
    BY <2>1 DEF Aligned
  <2>2. CASE flashPtr' = 0
    <3>1. 0 \in Nat /\ 0 = 0 * SectorSize
      BY ReflashAssumption
    <3> QED
      BY <2>2, <3>1 DEF Aligned
  <2>3. CASE flashPtr' = flashPtr + SectorSize
    <3>1. PICK k \in Nat : flashPtr = k * SectorSize
      BY DEF Aligned
    <3>2. flashPtr' \in Nat /\ k + 1 \in Nat /\ flashPtr' = (k + 1) * SectorSize
      BY <2>3, <3>1, ReflashAssumption DEF Aligned
    <3> QED
      BY <3>2 DEF Aligned
  <2> QED
    BY <2>1, <2>2, <2>3 DEF Next, Step, PowerOn, PowerOff, RamLost, ReportAll, Report, Open,
       PtrReset, Compare, Read, EraseSector, WriteWord, NextSector, ReadError, ReportError,
       PowerFails, vars
<1> QED
  BY <1>1, <1>2, PTL DEF Spec

\* A sector that starts less than a sector behind the end of the file is in scope.
LEMMA SectorInScope ==
  ASSUME Aligned, file # NoFile, Len(file) \in Nat, flashPtr < Len(file) + SectorSize
  PROVE  Sector \cap Flash \subseteq Scope
<1> DEFINE x == Len(file) + SectorSize - 1
           q == SectorsOfFile
<1>1. SectorSize \in Nat \ {0} /\ x \in Nat
  BY ReflashAssumption
<1>2. q \in Int /\ x < q * SectorSize + SectorSize
  BY <1>1 DEF SectorsOfFile
<1>3. PICK k \in Nat : flashPtr = k * SectorSize
  BY DEF Aligned
<1>4. flashPtr <= x
  BY <1>1 DEF Aligned
<1> HIDE DEF x, q
<1>5. (k - q) * SectorSize < SectorSize
  BY <1>1, <1>2, <1>3, <1>4
<1>6. ASSUME k > q PROVE FALSE
  <2>1. (k - q - 1) * SectorSize >= 0
    BY <1>1, <1>2, <1>6
  <2>2. (k - q) * SectorSize = (k - q - 1) * SectorSize + SectorSize
    BY <1>1, <1>2
  <2> QED
    BY <1>1, <1>2, <1>5, <2>1, <2>2
<1>7. k <= q
  BY <1>2, <1>6
<1>8. (q - k) * SectorSize >= 0
  BY <1>1, <1>2, <1>7
<1>9. flashPtr + SectorSize <= (q + 1) * SectorSize
  BY <1>1, <1>2, <1>3, <1>8
<1>10. \A o \in Offsets : flashPtr + o < (q + 1) * SectorSize
  <2> DEFINE bound == (q + 1) * SectorSize
  <2>1. bound \in Int /\ flashPtr \in Nat
    BY <1>1, <1>2 DEF Aligned
  <2> HIDE DEF bound
  <2>2. flashPtr + SectorSize <= bound
    BY <1>9 DEF bound
  <2>3. \A o \in Offsets : flashPtr + o < bound
    BY <1>1, <2>1, <2>2 DEF Offsets
  <2> QED
    BY <2>3 DEF bound
<1> QED
  BY <1>10 DEF Sector, Scope, q

\* No step, not even one that the power failure interrupts, changes a byte out of scope.
LEMMA ScopeStep ==
  ASSUME IInv, Aligned, [Next]_vars
  PROVE  \A a \in Flash \ Scope : flash'[a] = flash[a]
<1>1. CASE UNCHANGED flash
  BY <1>1
<1>2. CASE pc \in {"erase", "write"}
  <2>1. TypeOK /\ file # NoFile /\ Within
    BY <1>2 DEF IInv, HasFile
  <2>2. /\ Len(file) \in Nat /\ flashPtr \in Nat /\ SectorSize \in Nat \ {0}
        /\ flashPtr < Len(file) + SectorSize
    BY <1>2, <2>1, FileType, ReflashAssumption DEF TypeOK, Within
  <2>3. Sector \cap Flash \subseteq Scope
    BY <2>1, <2>2, SectorInScope
  <2>4. CASE EraseSector
    BY <2>3, <2>4 DEF EraseSector, ErasedSector
  <2>5. ASSUME pc = "write", WordsLeft PROVE WordAt \subseteq Sector
    <3>1. idx + 4 <= SectorSize /\ idx \in Nat
      BY <2>1, <2>5, WordInSector DEF IInv, Writing, TypeOK
    <3>2. \A i \in 0..3 : idx + i \in Offsets /\ flashPtr + idx + i = flashPtr + (idx + i)
      BY <2>2, <3>1 DEF Offsets
    <3> QED
      BY <3>2 DEF WordAt, WordSize, Sector
  <2>6. CASE WriteWord
    BY <2>3, <2>5, <2>6 DEF WriteWord, ProgrammedWord
  <2>7. CASE PowerFails
    <3>1. \A part \in TornParts : {flashPtr + o : o \in part} \subseteq Sector
      BY ReflashAssumption DEF Sector, Offsets
    <3> QED
      BY <2>3, <2>5, <2>7, <3>1 DEF PowerFails, Spoil
  <2>8. CASE UNCHANGED vars
    BY <2>8 DEF vars
  <2>9. CASE NextSector
    BY <2>9 DEF NextSector
  <2> QED
    BY <1>2, <2>4, <2>6, <2>7, <2>8, <2>9 DEF Next, Step, PowerOn, PowerOff, ReportAll, Report,
       Open, Compare, Read, ReadError, ReportError
<1>3. CASE pc \notin {"erase", "write"}
  <2>1. UNCHANGED flash
    BY <1>3 DEF Next, Step, PowerOn, PowerOff, ReportAll, Report, Open, Compare, Read,
       EraseSector, WriteWord, NextSector, ReadError, ReportError, PowerFails, vars
  <2> QED
    BY <2>1
<1> QED
  BY <1>2, <1>3

\* Outside the sectors of the file and the one that follows nothing changes.
THEOREM NothingOutOfScope == Spec => StaysInScope
<1>1. IInv /\ Aligned /\ [Next]_vars => [\A a \in Flash \ Scope : flash'[a] = flash[a]]_vars
  BY ScopeStep
<1> QED
  BY <1>1, InvHolds, AlignedHolds, PTL DEF Spec, StaysInScope

\* The start of the firmware implements the abstract update.
THEOREM Refinement == Spec => ImplementsUpdate
<1>1. Init => Update!UpdateInit
  BY DEF Init, Told, Update!UpdateInit
<1>2. ASSUME IInv, IInv', Aligned, [Next]_vars
      PROVE  [Update!UpdateNext]_(Update!updateVars)
  <2>1. CASE UNCHANGED vars
    BY <2>1 DEF vars, Update!updateVars, Told, Scope, SectorsOfFile
  <2>2. CASE Told'
    <3>1. CASE UNCHANGED <<flash, file>>
      <4>1. file # NoFile /\ Agrees(Len(file))
        BY <1>2, <2>2, <3>1 DEF IInv, HasFile, AtEnd, Told, Agrees
      <4>2. Update!Finish
        BY <2>2, <3>1, <4>1 DEF Update!Finish, Update!GoalHeld, Agrees, Told, Scope, SectorsOfFile
      <4> QED
        BY <4>2 DEF Update!UpdateNext
    <3>2. CASE ~UNCHANGED <<flash, file>>
      <4>1. FALSE
        BY <1>2, <2>2, <3>2 DEF IInv, AtEnd, Told, Next, Step, PowerOn, PowerOff, ReportAll,
           Report, Open, Compare, Read, EraseSector, WriteWord, NextSector, ReadError,
           ReportError, PowerFails, vars
      <4> QED
        BY <4>1
    <3> QED
      BY <3>1, <3>2
  <2>3. CASE ~Told' /\ flash' = flash
    BY <2>3 DEF Update!UpdateNext, Update!Start, Told
  <2>4. CASE ~Told' /\ flash' # flash
    <3>1. pc \in {"erase", "write"} /\ file' = file
      BY <1>2, <2>4 DEF Next, Step, PowerOn, PowerOff, ReportAll, Report, Open, Compare, Read,
         EraseSector, WriteWord, NextSector, ReadError, ReportError, PowerFails, vars
    <3>2. ~Told
      BY <1>2, <3>1 DEF IInv, AtEnd
    <3>3. DOMAIN flash' = DOMAIN flash /\ DOMAIN flash = Flash
      BY <1>2 DEF IInv, TypeOK
    <3>4. \A a \in Flash \ Scope : flash'[a] = flash[a]
      BY <1>2, ScopeStep
    <3>5. Update!Change
      BY <2>4, <3>1, <3>2, <3>3, <3>4 DEF Update!Change, Told, Scope, SectorsOfFile
    <3> QED
      BY <3>5 DEF Update!UpdateNext
  <2> QED
    BY <2>2, <2>3, <2>4
<1> QED
  BY <1>1, <1>2, InvHolds, AlignedHolds, PTL DEF Spec, ImplementsUpdate, Update!UpdateSpec
=============================================================================
