------------------------- MODULE MassStorage_proofs -------------------------
(***************************************************************************)
(* Proofs about the USB disk, for cards, blocks and packets of every size, *)
(* any number of failures, and every set of commands whose ranges end      *)
(* below the last block that 32 bits number (AddressesFit).                *)
(***************************************************************************)
EXTENDS MassStorageDriver, TLAPS

-----------------------------------------------------------------------------
(* Arithmetic of packets and blocks.  A transfer is counted in packets: the  *)
(* counters of memory.c are the bytes of so many packets.                   *)

Bytes(k) == k * PacketSize      \* the bytes of k packets
Nth(b)   == b * PerBlock        \* the packets before block b

LEMMA DivBounds ==
  ASSUME NEW n \in Nat \ {0}, NEW x \in Int
  PROVE  /\ x \div n \in Int
         /\ n * (x \div n) <= x /\ x < n * (x \div n) + n
  OBVIOUS

\* Division is determined by its bounds.
LEMMA Division ==
  ASSUME NEW n \in Nat \ {0}, NEW q \in Int, NEW r \in 0..(n - 1)
  PROVE  (q * n + r) \div n = q /\ (q * n + r) % n = r
<1> DEFINE x == q * n + r
           k == x \div n
<1>1. x \in Int /\ k \in Int /\ n * k <= x /\ x < n * k + n
  BY DivBounds
<1> HIDE DEF k
<1>2. n * (q - k) < n /\ n * (q - k) > 0 - n
  BY <1>1
<1>3. (q - k >= 1 => n * (q - k) >= n) /\ (q - k <= -1 => n * (q - k) <= 0 - n)
  BY <1>1
<1>4. k = q
  BY <1>1, <1>2, <1>3
<1>5. x % n \in 0..(n - 1) /\ x = n * k + (x % n)
  BY <1>1 DEF k
<1>6. x % n = r
  BY <1>4, <1>5
<1> QED
  BY <1>4, <1>6 DEF k

\* The packets of a block, and the bytes of a block.
LEMMA Sizes ==
  /\ PacketSize \in Nat \ {0} /\ PerBlock \in Nat \ {0}
  /\ BlockSize = Bytes(PerBlock)
<1>1. PacketSize \in Nat \ {0} /\ BlockSize \in Nat \ {0} /\ BlockSize % PacketSize = 0
  BY MassAssumption
<1> DEFINE k == BlockSize \div PacketSize
<1>2. k \in Int /\ BlockSize = PacketSize * k + (BlockSize % PacketSize)
  BY <1>1
<1> HIDE DEF k
<1>3. BlockSize = PacketSize * k
  BY <1>1, <1>2
<1>4. k > 0
  BY <1>1, <1>2, <1>3
<1> QED
  BY <1>1, <1>2, <1>3, <1>4 DEF k, PerBlock, Bytes

LEMMA BytesRise ==
  ASSUME NEW k \in Int
  PROVE  /\ Bytes(k) \in Int
         /\ Bytes(k + 1) = Bytes(k) + PacketSize
         /\ Bytes(k - 1) = Bytes(k) - PacketSize
         /\ Bytes(0) = 0 /\ Bytes(1) = PacketSize
         /\ k >= 0 => Bytes(k) >= 0
         /\ Bytes(k) = 0 <=> k = 0
         /\ Bytes(k) \div PacketSize = k
<1>1. PacketSize \in Nat \ {0}
  BY Sizes
<1>2. (k * PacketSize + 0) \div PacketSize = k
  BY <1>1, Division
<1>3. Bytes(k) \div PacketSize = k
  BY <1>1, <1>2 DEF Bytes
<1>4. /\ Bytes(k) \in Int
      /\ Bytes(k + 1) = Bytes(k) + PacketSize /\ Bytes(k - 1) = Bytes(k) - PacketSize
      /\ Bytes(0) = 0 /\ Bytes(1) = PacketSize
  BY <1>1 DEF Bytes
<1>5. (k >= 0 => Bytes(k) >= 0) /\ (Bytes(k) = 0 <=> k = 0)
  BY <1>1 DEF Bytes
<1> QED
  BY <1>3, <1>4, <1>5

LEMMA BytesOrder ==
  ASSUME NEW k \in Int, NEW l \in Int
  PROVE  /\ k <= l => Bytes(k) <= Bytes(l)
         /\ k < l => Bytes(k) + PacketSize <= Bytes(l)
         /\ Bytes(k) = Bytes(l) => k = l
         /\ Bytes(k - l) = Bytes(k) - Bytes(l)
         /\ Bytes(k + l) = Bytes(k) + Bytes(l)
<1>1. PacketSize \in Nat \ {0}
  BY Sizes
<1>2. l - k >= 0 => (l - k) * PacketSize >= 0
  BY <1>1
<1>3. l - k >= 1 => (l - k) * PacketSize >= PacketSize
  BY <1>1
<1>4. k - l >= 1 => (k - l) * PacketSize >= PacketSize
  BY <1>1
<1>5. (l - k) * PacketSize = l * PacketSize - k * PacketSize /\ l * PacketSize \in Int
      /\ (k - l) * PacketSize = k * PacketSize - l * PacketSize /\ k * PacketSize \in Int
      /\ (k + l) * PacketSize = k * PacketSize + l * PacketSize
  BY <1>1
<1> QED
  BY <1>1, <1>2, <1>3, <1>4, <1>5 DEF Bytes

LEMMA NthRise ==
  ASSUME NEW b \in Int
  PROVE  /\ Nth(b) \in Int /\ Nth(0) = 0
         /\ Nth(b + 1) = Nth(b) + PerBlock
         /\ b >= 0 => Nth(b) >= 0
<1>1. PerBlock \in Nat \ {0}
  BY Sizes
<1>2. /\ (b + 1) * PerBlock = b * PerBlock + PerBlock
      /\ b * PerBlock \in Int /\ 0 * PerBlock = 0
      /\ b >= 0 => b * PerBlock >= 0
  BY <1>1
<1> QED
  BY <1>1, <1>2 DEF Nth

LEMMA NthOrder ==
  ASSUME NEW b \in Int, NEW c \in Int
  PROVE  /\ Nth(b + c) = Nth(b) + Nth(c)
         /\ Nth(b - c) = Nth(b) - Nth(c)
         /\ b <= c => Nth(b) <= Nth(c)
         /\ b < c => Nth(b) + PerBlock <= Nth(c)
<1>1. PerBlock \in Nat \ {0}
  BY Sizes
<1>2. (c - b >= 0 => (c - b) * PerBlock >= 0) /\ (c - b >= 1 => (c - b) * PerBlock >= PerBlock)
  BY <1>1
<1>3. /\ (c - b) * PerBlock = c * PerBlock - b * PerBlock
      /\ (b - c) * PerBlock = b * PerBlock - c * PerBlock
      /\ (b + c) * PerBlock = b * PerBlock + c * PerBlock
      /\ b * PerBlock \in Int /\ c * PerBlock \in Int
  BY <1>1
<1> QED
  BY <1>1, <1>2, <1>3 DEF Nth

\* A number of blocks in bytes; an offset is at the start of a block when no
\* packet of a block lies before it.
LEMMA BlockBytes ==
  ASSUME NEW b \in Nat
  PROVE  b * BlockSize = Bytes(Nth(b))
<1>1. b * (PerBlock * PacketSize) = (b * PerBlock) * PacketSize
  BY Sizes
<1> QED
  BY <1>1, Sizes DEF Bytes, Nth

LEMMA Aligned ==
  ASSUME NEW b \in Nat, NEW i \in 0..(PerBlock - 1)
  PROVE  Bytes(Nth(b) + i) % BlockSize = Bytes(i)
<1>1. PerBlock \in Nat \ {0} /\ PacketSize \in Nat \ {0}
  BY Sizes
<1>2. Bytes(i) \in Int /\ Bytes(i) >= 0 /\ Bytes(i) + PacketSize <= Bytes(PerBlock)
  BY <1>1, BytesRise, BytesOrder
<1> DEFINE r == Bytes(i)
<1>3. BlockSize \in Nat \ {0} /\ r \in 0..(BlockSize - 1) /\ b \in Int
  BY <1>1, <1>2, Sizes, MassAssumption
<1> HIDE DEF r
<1>4. (b * BlockSize + r) % BlockSize = r
  BY <1>3, Division
<1>5. Bytes(Nth(b) + i) = Bytes(Nth(b)) + Bytes(i)
  BY <1>1, BytesOrder, NthRise
<1> QED
  BY <1>4, <1>5, BlockBytes DEF r

LEMMA CardSize == Nth(BlockCount) \in Nat
<1>1. BlockCount \in Nat /\ PerBlock \in Nat
  BY Sizes, MassAssumption
<1>2. BlockCount * PerBlock \in Nat
  BY <1>1
<1> QED
  BY <1>2 DEF Nth

\* What fits the card is far from the end of the counters.
LEMMA NoWrap ==
  ASSUME NEW k \in Nat, k <= Nth(BlockCount)
  PROVE  Bytes(k) \in 0..(Word - 1) /\ Bytes(k) % Word = Bytes(k) /\ Nth(BlockCount) \in Nat
<1>1. BlockCount \in Nat \ {0} /\ Word \in Nat /\ Word > BlockCount * BlockSize
  BY MassAssumption
<1>2. BlockCount * BlockSize = Bytes(Nth(BlockCount))
  BY <1>1, BlockBytes
<1>3. Nth(BlockCount) \in Int /\ 0 <= Nth(BlockCount)
  BY <1>1, NthRise
<1>4. Bytes(k) \in Int /\ 0 <= Bytes(k) /\ Bytes(k) <= Bytes(Nth(BlockCount)) /\ Bytes(Nth(BlockCount)) \in Int
  BY <1>3, BytesRise, BytesOrder
<1>5. Bytes(k) \in 0..(Word - 1)
  BY <1>1, <1>2, <1>4
<1> HIDE DEF Bytes
<1>6. Bytes(k) % Word = Bytes(k)
  BY <1>1, <1>5
<1> QED
  BY <1>3, <1>5, <1>6

\* The block of a cell.
LEMMA BlockOfCell ==
  ASSUME NEW b \in Int, NEW a \in Int
  PROVE  a \div PerBlock = b <=> a - Nth(b) \in 0..(PerBlock - 1)
<1>1. PerBlock \in Nat \ {0}
  BY Sizes
<1>2. a - Nth(b) \in 0..(PerBlock - 1) => (b * PerBlock + (a - Nth(b))) \div PerBlock = b
  BY <1>1, Division
<1>3. b * PerBlock \in Int /\ b * PerBlock + (a - Nth(b)) = a
  BY <1>1 DEF Nth
<1>4. PerBlock * (a \div PerBlock) <= a /\ a < PerBlock * (a \div PerBlock) + PerBlock
      /\ a \div PerBlock \in Int
  BY <1>1, DivBounds
<1>5. PerBlock * b = b * PerBlock
  BY <1>1
<1>6. ASSUME a \div PerBlock = b  PROVE  a - Nth(b) \in 0..(PerBlock - 1)
  BY <1>1, <1>3, <1>4, <1>5, <1>6 DEF Nth
<1> QED
  BY <1>2, <1>3, <1>6

\* p packets of the card lie before block blk of a transfer of n blocks, and q are
\* left from there: the offset and the length after i packets, and how they move.
IsPosition(p, q, n, blk, i) ==
  /\ p \in Nat /\ q \in Nat /\ p + PerBlock <= Nth(BlockCount) /\ q <= Nth(BlockCount)
  /\ q >= PerBlock /\ (q = PerBlock <=> blk = n - 1)
  /\ OffsetAfter(Bytes(p + i)) = Bytes(p + i + 1)
  /\ (Bytes(q - i) - PacketSize) % Word = Bytes(q - i - 1)
  /\ Bytes(q - i - 1) = 0 <=> blk = n - 1 /\ i = PerBlock - 1

LEMMA Position ==
  ASSUME NEW lba \in Nat, NEW n \in Nat, lba + n <= BlockCount,
         NEW blk \in 0..(n - 1), NEW i \in 0..(PerBlock - 1)
  PROVE  IsPosition(Nth(lba + blk), Nth(n - blk), n, blk, i)
<1> DEFINE p == Nth(lba + blk)
           q == Nth(n - blk)
<1> HIDE DEF p, q
<1>2. /\ PerBlock \in Nat \ {0} /\ PacketSize \in Nat \ {0} /\ BlockSize = Bytes(PerBlock)
      /\ BlockCount \in Nat \ {0} /\ Word \in Nat
  BY Sizes, MassAssumption
<1>3. /\ p \in Nat /\ q \in Nat /\ p + PerBlock <= Nth(BlockCount) /\ q <= Nth(BlockCount)
      /\ p + i + 1 <= Nth(BlockCount)
      /\ q >= PerBlock /\ (q = PerBlock <=> blk = n - 1)
      /\ Nth(BlockCount) \in Nat
  <2>1. lba + blk \in Nat /\ n - blk \in Nat /\ n - blk >= 1
        /\ lba + blk < BlockCount /\ n - blk <= BlockCount /\ 1 \in Int
    BY <1>2
  <2> DEFINE x == lba + blk
             y == n - blk
  <2>a. /\ x \in Int /\ x >= 0 /\ x < BlockCount /\ y \in Int /\ y >= 1 /\ y <= BlockCount
        /\ p = Nth(x) /\ q = Nth(y) /\ BlockCount \in Int /\ BlockCount >= 0
    BY <1>2, <2>1 DEF p, q
  <2> HIDE DEF x, y
  <2>b. y \in Int /\ y >= 0
    BY <2>a
  <2>2. p \in Nat /\ q \in Nat /\ Nth(BlockCount) \in Nat
    <3>1. p \in Nat
      BY <2>a, NthRise
    <3>2. q \in Nat
      BY <2>a, <2>b, NthRise
    <3>3. Nth(BlockCount) \in Nat
      BY CardSize
    <3> QED
      BY <3>1, <3>2, <3>3
  <2>3. p + PerBlock <= Nth(BlockCount) /\ q <= Nth(BlockCount)
    BY <2>a, NthOrder
  <2>4. Nth(1) = PerBlock
    BY <1>2 DEF Nth
  <2>5. q >= PerBlock /\ (y > 1 => q >= PerBlock + PerBlock)
    BY <1>2, <2>2, <2>a, <2>1, <2>4, NthOrder
  <2>6. y = 1 => q = PerBlock
    BY <2>4, <2>a
  <2>7. y = 1 <=> blk = n - 1
    BY <2>1 DEF y
  <2>8. q = PerBlock <=> blk = n - 1
    BY <1>2, <2>2, <2>5, <2>6, <2>7, <2>a
  <2>9. p + i + 1 <= Nth(BlockCount)
    BY <1>2, <2>2, <2>3
  <2> QED
    BY <2>2, <2>3, <2>5, <2>8, <2>9
<1>4. OffsetAfter(Bytes(p + i)) = Bytes(p + i + 1) /\ (Bytes(q - i) - PacketSize) % Word = Bytes(q - i - 1)
  <2>1. p + i \in Nat /\ q - i - 1 \in Nat /\ q - i - 1 <= Nth(BlockCount) /\ q - i \in Int
    BY <1>2, <1>3
  <2>2. Bytes(p + i + 1) = Bytes(p + i) + PacketSize /\ Bytes(q - i - 1) = Bytes(q - i) - PacketSize
    <3> DEFINE x == p + i
               y == q - i
    <3>1. x \in Int /\ y \in Int
      BY <2>1
    <3> HIDE DEF x, y
    <3>2. Bytes(x + 1) = Bytes(x) + PacketSize /\ Bytes(y - 1) = Bytes(y) - PacketSize
      BY <3>1, BytesRise
    <3> QED
      BY <3>2 DEF x, y
  <2>3. p + i + 1 \in Nat /\ p + i + 1 <= Nth(BlockCount)
    BY <1>3, <2>1
  <2>4. Bytes(p + i + 1) % Word = Bytes(p + i + 1) /\ Bytes(q - i - 1) % Word = Bytes(q - i - 1)
    BY <2>1, <2>3, NoWrap
  <2> QED
    BY <2>2, <2>4 DEF OffsetAfter
<1>5. Bytes(q - i - 1) = 0 <=> blk = n - 1 /\ i = PerBlock - 1
  <2>1. q - i - 1 \in Int /\ (q - i - 1 = 0 <=> q = i + 1)
    BY <1>3
  <2>2. Bytes(q - i - 1) = 0 <=> q - i - 1 = 0
    BY <2>1, BytesRise
  <2> QED
    BY <1>2, <1>3, <2>1, <2>2
<1> QED
  BY <1>3, <1>4, <1>5 DEF IsPosition, p, q

-----------------------------------------------------------------------------
(* The functions of the firmware, one by one: what each leaves in the device *)
(* it is given.                                                             *)

Fields == {"bot", "cbw", "sig", "csw", "xfer", "rOff", "rLen", "wOff", "wLen", "brc", "boff",
           "cnt", "buf", "mounted", "tx", "txbuf", "txctr", "rx", "rxbuf", "rxctr", "card"}
IsDevice(d) == DOMAIN d = Fields /\ DOMAIN d.csw = {"tag", "residue", "status"}

\* e is a device that differs from d in some of the fields of S only.
Differ(e, d, S) == IsDevice(e) /\ \A f \in Fields \ S : e[f] = d[f]

\* e has the status wrapper of d, but for what is left of the data.
SameTag(e, d) == e.csw.tag = d.csw.tag /\ e.csw.status = d.csw.status

LEMMA AfterAbort ==
  ASSUME NEW d, IsDevice(d), NEW dir
  PROVE  LET e == Bot_Abort(d, dir)
         IN  /\ Differ(e, d, {"tx", "rx"})
             /\ e.tx = IF dir \in {"IN", "BOTH"} THEN "STALL" ELSE d.tx
             /\ e.rx = IF dir \in {"OUT", "BOTH"} THEN "STALL" ELSE d.rx
  BY DEF IsDevice, Differ, Bot_Abort, Fields

LEMMA AfterCswSent ==
  ASSUME NEW d, IsDevice(d), NEW status
  PROVE  LET e == Set_CSW(d, status, TRUE)
         IN  /\ Differ(e, d, {"csw", "txbuf", "bot", "tx"})
             /\ e.csw.tag = d.csw.tag /\ e.csw.residue = d.csw.residue /\ e.csw.status = status
             /\ e.txbuf = Status(e.csw) /\ e.bot = "CSW_SEND" /\ e.tx = "VALID"
  BY DEF IsDevice, Differ, Set_CSW, Status, Fields

LEMMA AfterCswHeld ==
  ASSUME NEW d, IsDevice(d), NEW status
  PROVE  LET e == Set_CSW(d, status, FALSE)
         IN  /\ Differ(e, d, {"csw", "txbuf", "bot", "tx"})
             /\ e.csw.tag = d.csw.tag /\ e.csw.residue = d.csw.residue /\ e.csw.status = status
             /\ e.txbuf = Status(e.csw) /\ e.bot = "ERROR" /\ e.tx = d.tx
  BY DEF IsDevice, Differ, Set_CSW, Status, Fields

LEMMA AfterRefuse ==
  ASSUME NEW d, IsDevice(d), NEW dir
  PROVE  LET e == Refuse(d, dir)
         IN  /\ Differ(e, d, {"csw", "txbuf", "bot", "tx", "rx"})
             /\ e.csw.tag = d.csw.tag /\ e.csw.residue = d.csw.residue /\ e.csw.status = "FAILED"
             /\ e.txbuf = Status(e.csw) /\ e.bot = "ERROR"
             /\ e.tx = IF dir \in {"IN", "BOTH"} THEN "STALL" ELSE d.tx
             /\ e.rx = IF dir \in {"OUT", "BOTH"} THEN "STALL" ELSE d.rx
<1> DEFINE m == Bot_Abort(d, dir)
           e == Refuse(d, dir)
<1>1. /\ Differ(m, d, {"tx", "rx"})
      /\ m.tx = IF dir \in {"IN", "BOTH"} THEN "STALL" ELSE d.tx
      /\ m.rx = IF dir \in {"OUT", "BOTH"} THEN "STALL" ELSE d.rx
  BY AfterAbort
<1>2. e = Set_CSW(m, "FAILED", FALSE)
  BY DEF Refuse
<1> HIDE DEF m, e
<1>3. IsDevice(m) /\ m.csw = d.csw
  BY <1>1 DEF Differ, Fields
<1>4. /\ Differ(e, m, {"csw", "txbuf", "bot", "tx"})
      /\ e.csw.tag = m.csw.tag /\ e.csw.residue = m.csw.residue /\ e.csw.status = "FAILED"
      /\ e.txbuf = Status(e.csw) /\ e.bot = "ERROR" /\ e.tx = m.tx
  BY <1>2, <1>3, AfterCswHeld
<1>5. Differ(e, d, {"csw", "txbuf", "bot", "tx", "rx"}) /\ e.rx = m.rx
  BY <1>1, <1>4 DEF Differ, Fields
<1>6. /\ e.csw.tag = d.csw.tag /\ e.csw.residue = d.csw.residue
      /\ e.tx = IF dir \in {"IN", "BOTH"} THEN "STALL" ELSE d.tx
      /\ e.rx = IF dir \in {"OUT", "BOTH"} THEN "STALL" ELSE d.rx
  BY <1>1, <1>3, <1>4, <1>5
<1> QED
  BY <1>4, <1>5, <1>6 DEF e

LEMMA AfterInfo ==
  ASSUME NEW d, IsDevice(d), NEW length
  PROVE  LET e == Transfer_Data_Request(d, length)
         IN  /\ Differ(e, d, {"csw", "txbuf", "bot", "tx"})
             /\ e.csw.tag = d.csw.tag /\ e.csw.status = "PASSED"
             /\ e.csw.residue = (d.csw.residue - length) % Word
             /\ e.txbuf = Info(length) /\ e.bot = "DATA_IN_LAST" /\ e.tx = "VALID"
  BY DEF IsDevice, Differ, Transfer_Data_Request, ResidueAfter, Fields

\* A block of the card, read and written as a whole.
LEMMA CardTakesBlock ==
  ASSUME NEW d, d.mounted = TRUE, NEW b \in 0..(BlockCount - 1)
  PROVE  /\ CardTakes(d, Bytes(Nth(b)))
         /\ Bytes(Nth(b)) \div PacketSize = Nth(b)
<1>1. BlockCount \in Nat \ {0} /\ PerBlock \in Nat \ {0} /\ BlockSize \in Nat \ {0} /\ PacketSize \in Nat \ {0}
  BY Sizes, MassAssumption
<1> b \in Int /\ BlockCount \in Int /\ b < BlockCount /\ b >= 0
  BY <1>1
<1>a. Nth(b) \in Int /\ Nth(BlockCount) \in Int /\ Nth(b) >= 0
  BY NthRise
<1>b. Nth(b) + PerBlock <= Nth(BlockCount)
  BY NthOrder
<1>2. Nth(b) \in Int /\ Nth(b) + 0 = Nth(b) /\ Nth(b) < Nth(BlockCount) /\ Nth(BlockCount) \in Int
      /\ Nth(b) >= 0
  BY <1>1, <1>a, <1>b
<1>3. Bytes(Nth(b)) % BlockSize = 0
  BY <1>1, <1>2, Aligned, BytesRise
<1>4. Bytes(Nth(b)) < BlockCount * BlockSize
  <2>1. BlockCount * BlockSize = Bytes(Nth(BlockCount))
    BY <1>1, BlockBytes
  <2>2. Bytes(Nth(b)) + PacketSize <= Bytes(Nth(BlockCount)) /\ Bytes(Nth(b)) \in Int /\ Bytes(Nth(BlockCount)) \in Int
    BY <1>2, BytesRise, BytesOrder
  <2> QED
    BY <1>1, <2>1, <2>2
<1>5. Bytes(Nth(b)) \div PacketSize = Nth(b)
  BY <1>2, BytesRise
<1> QED
  BY <1>3, <1>4, <1>5 DEF CardTakes

LEMMA BlockRead ==
  ASSUME NEW d, IsDevice(d), d.mounted = TRUE, NEW b \in 0..(BlockCount - 1)
  PROVE  LET e == MAL_Read(d, Bytes(Nth(b)))
         IN  /\ Differ(e, d, {"buf"})
             /\ DOMAIN e.buf = 1..PerBlock
             /\ \A j \in 1..PerBlock : e.buf[j] = d.card[Nth(b) + j - 1]
  BY CardTakesBlock DEF MAL_Read, IsDevice, Differ, Fields

LEMMA BlockWritten ==
  ASSUME NEW d, IsDevice(d), d.mounted = TRUE, NEW b \in 0..(BlockCount - 1)
  PROVE  LET e == MAL_Write(d, Bytes(Nth(b)))
         IN  /\ Differ(e, d, {"card"})
             /\ \A a \in Cells : e.card[a] = IF a - Nth(b) \in 0..(PerBlock - 1)
                                             THEN d.buf[a - Nth(b) + 1] ELSE d.card[a]
  BY CardTakesBlock DEF MAL_Write, IsDevice, Differ, Fields

\* Where a read stands: i packets of block blk of the range have been sent.
Loaded(d, b) ==
  DOMAIN d.buf = 1..PerBlock /\ \A j \in 1..PerBlock : d.buf[j] = d.card[Nth(b) + j - 1]
ReadPoint(d, lba, n, blk, i) ==
  /\ d.rOff = Bytes(Nth(lba + blk) + i) /\ d.rLen = Bytes(Nth(n - blk) - i)
  /\ d.brc = (IF i = 0 THEN 0 ELSE Bytes(PerBlock - i))
  /\ i > 0 => d.boff = Bytes(i) /\ Loaded(d, lba + blk)

\* One packet of a read, from d to e: packet i of block blk is in the endpoint.
PacketRead(e, d, lba, n, blk, i) ==
  /\ Differ(e, d, {"rOff", "rLen", "xfer", "brc", "boff", "buf", "txbuf", "tx", "csw", "bot"})
  /\ DOMAIN e.buf = 1..PerBlock
  /\ SameTag(e, d) /\ e.csw.residue = (d.csw.residue - PacketSize) % Word
  /\ e.txbuf = Packet(d.card[Nth(lba + blk) + i]) /\ e.tx = "VALID"
  /\ blk = n - 1 /\ i = PerBlock - 1 => e.bot = "DATA_IN_LAST" /\ e.xfer = "IDLE" /\ e.brc = 0
  /\ ~(blk = n - 1 /\ i = PerBlock - 1) =>
       /\ e.bot = d.bot /\ e.xfer = "ONGOING"
       /\ e.rOff = Bytes(Nth(lba + blk) + i + 1)
       /\ e.rLen = Bytes(Nth(n - blk) - i - 1) /\ e.rLen # 0
       /\ e.brc = Bytes(PerBlock - i - 1) /\ e.boff = Bytes(i + 1)
       /\ Loaded(e, lba + blk)

\* The start of a block of the card does not wrap.
LEMMA OffsetFits ==
  ASSUME NEW l \in Nat, l <= BlockCount
  PROVE  l * BlockSize \in 0..(Word - 1) /\ (l * BlockSize) % Word = l * BlockSize
<1>1. BlockCount \in Nat /\ BlockSize \in Nat /\ Word \in Nat /\ Word > BlockCount * BlockSize
  BY MassAssumption
<1>2. (BlockCount - l) * BlockSize >= 0
  BY <1>1
<1>3. (BlockCount - l) * BlockSize = BlockCount * BlockSize - l * BlockSize
      /\ l * BlockSize \in Nat /\ BlockCount * BlockSize \in Nat
  BY <1>1
<1>4. l * BlockSize \in 0..(Word - 1)
  BY <1>1, <1>2, <1>3
<1> DEFINE x == l * BlockSize
<1> HIDE DEF x
<1>5. x \in 0..(Word - 1) => x % Word = x
  BY <1>1
<1> QED
  BY <1>4, <1>5 DEF x

LEMMA ReadStep ==
  ASSUME NEW d, IsDevice(d), DOMAIN d.buf = 1..PerBlock, d.mounted = TRUE,
         NEW lba \in Nat, NEW n \in Nat, lba + n <= BlockCount,
         NEW blk \in 0..(n - 1), NEW i \in 0..(PerBlock - 1),
         \/ d.xfer = "IDLE" /\ d.cbw.lba = lba /\ d.cbw.n = n /\ blk = 0 /\ i = 0 /\ d.brc = 0
         \/ d.xfer = "ONGOING" /\ ReadPoint(d, lba, n, blk, i)
  PROVE  PacketRead(Read_Memory(d), d, lba, n, blk, i)
<1> DEFINE begun == IF d.xfer = "IDLE"
                    THEN [d EXCEPT !.rOff = (d.cbw.lba * Mass_Block_Size(d)) % Word,
                                   !.rLen = d.cbw.n * Mass_Block_Size(d),
                                   !.xfer = "ONGOING"]
                    ELSE d
           filled == IF begun.brc = 0
                     THEN [MAL_Read(begun, begun.rOff) EXCEPT
                             !.brc = (Mass_Block_Size(d) - PacketSize) % Word,
                             !.boff = PacketSize]
                     ELSE [begun EXCEPT !.brc = @ - PacketSize,
                                        !.boff = @ + PacketSize]
           piece == filled.boff \div PacketSize
           sent  == [filled EXCEPT
                       !.txbuf = Packet(IF piece \in 1..PerBlock
                                        THEN filled.buf[piece] ELSE Junk),
                       !.tx = "VALID",
                       !.rOff = OffsetAfter(@),
                       !.rLen = (@ - PacketSize) % Word,
                       !.csw = ResidueAfter(@, PacketSize)]
           final == IF sent.rLen = 0
                    THEN [sent EXCEPT !.brc = 0, !.boff = 0, !.rOff = 0,
                                      !.bot = "DATA_IN_LAST", !.xfer = "IDLE"]
                    ELSE sent
           p == Nth(lba + blk)
           q == Nth(n - blk)
<1>1. Read_Memory(d) = final
  BY DEF Read_Memory
<1> HIDE DEF p, q
<1>2. /\ PerBlock \in Nat \ {0} /\ PacketSize \in Nat \ {0} /\ BlockSize = Bytes(PerBlock)
      /\ BlockCount \in Nat \ {0} /\ Word \in Nat
  BY Sizes, MassAssumption
<1>3. /\ p \in Nat /\ q \in Nat /\ p + PerBlock <= Nth(BlockCount) /\ q <= Nth(BlockCount)
      /\ q >= PerBlock /\ (q = PerBlock <=> blk = n - 1)
      /\ OffsetAfter(Bytes(p + i)) = Bytes(p + i + 1)
      /\ (Bytes(q - i) - PacketSize) % Word = Bytes(q - i - 1)
      /\ Bytes(q - i - 1) = 0 <=> blk = n - 1 /\ i = PerBlock - 1
  <2>1. IsPosition(p, q, n, blk, i)
    BY Position DEF p, q
  <2> QED
    BY <2>1 DEF IsPosition
<1>4. /\ Differ(begun, d, {"rOff", "rLen", "xfer"})
      /\ begun.rOff = Bytes(p + i) /\ begun.rLen = Bytes(q - i) /\ begun.xfer = "ONGOING"
  <2>1. CASE d.xfer = "IDLE"
    <3>1. /\ (d.cbw.lba * Mass_Block_Size(d)) % Word = Bytes(Nth(lba))
          /\ d.cbw.n * Mass_Block_Size(d) = Bytes(Nth(n))
      <4>1. Mass_Block_Size(d) = BlockSize /\ lba <= BlockCount
        BY <1>2 DEF Mass_Block_Size
      <4>2. (lba * BlockSize) % Word = lba * BlockSize
        BY <4>1, OffsetFits
      <4> QED
        BY <2>1, <4>1, <4>2, BlockBytes
    <3>2. lba + blk = lba /\ n - blk = n /\ p + i = p /\ q - i = q
      BY <1>3, <2>1
    <3>3. Bytes(p + i) = Bytes(Nth(lba)) /\ Bytes(q - i) = Bytes(Nth(n))
      BY <3>2 DEF p, q
    <3> QED
      BY <2>1, <3>1, <3>3 DEF IsDevice, Differ, Fields
  <2>2. CASE d.xfer = "ONGOING"
    BY <2>2 DEF ReadPoint, Differ, begun, p, q
  <2> QED
    BY <2>1, <2>2
<1> HIDE DEF begun
<1>5. /\ Differ(filled, begun, {"buf", "brc", "boff"})
      /\ filled.brc = Bytes(PerBlock - i - 1) /\ filled.boff = Bytes(i + 1)
      /\ DOMAIN filled.buf = 1..PerBlock
      /\ \A j \in 1..PerBlock : filled.buf[j] = d.card[p + j - 1]
  <2>1. IsDevice(begun) /\ begun.mounted = TRUE /\ begun.card = d.card /\ begun.brc = d.brc
        /\ begun.boff = d.boff /\ begun.buf = d.buf
    BY <1>4 DEF Differ, Fields
  <2>2. CASE i = 0
    <3> DEFINE m == MAL_Read(begun, begun.rOff)
    <3>1. lba + blk \in 0..(BlockCount - 1) /\ begun.rOff = Bytes(Nth(lba + blk)) /\ begun.brc = 0
      <4>1. lba + blk \in 0..(BlockCount - 1) /\ p + i = p
        BY <1>2, <1>3, <2>2
      <4>2. begun.rOff = Bytes(p)
        BY <1>4, <4>1
      <4>3. begun.brc = 0
        BY <2>1, <2>2 DEF ReadPoint
      <4> QED
        BY <4>1, <4>2, <4>3 DEF p
    <3>2. /\ Differ(m, begun, {"buf"}) /\ DOMAIN m.buf = 1..PerBlock
          /\ \A j \in 1..PerBlock : m.buf[j] = begun.card[p + j - 1]
      <4> DEFINE b == lba + blk
      <4>1. b \in 0..(BlockCount - 1) /\ begun.rOff = Bytes(Nth(b))
        BY <3>1
      <4> HIDE DEF b
      <4>2. LET e == MAL_Read(begun, Bytes(Nth(b)))
            IN  /\ Differ(e, begun, {"buf"})
                /\ DOMAIN e.buf = 1..PerBlock
                /\ \A j \in 1..PerBlock : e.buf[j] = begun.card[Nth(b) + j - 1]
        BY <2>1, <4>1, BlockRead
      <4> QED
        BY <4>1, <4>2 DEF p, b
    <3>3. Bytes(PerBlock - i - 1) = BlockSize - PacketSize /\ Bytes(i + 1) = PacketSize
      BY <1>2, <2>2, BytesRise
    <3>4. (Mass_Block_Size(d) - PacketSize) % Word = BlockSize - PacketSize
      <4>1. PerBlock - 1 \in Nat /\ PerBlock - 1 <= Nth(BlockCount)
        BY <1>2, <1>3, CardSize
      <4>2. Bytes(PerBlock - 1) % Word = Bytes(PerBlock - 1) /\ Bytes(PerBlock - 1) = BlockSize - PacketSize
        BY <1>2, <4>1, NoWrap, BytesRise
      <4> QED
        BY <4>2 DEF Mass_Block_Size
    <3> HIDE DEF m
    <3>5. filled = [m EXCEPT !.brc = (Mass_Block_Size(d) - PacketSize) % Word, !.boff = PacketSize]
      BY <3>1 DEF m
    <3> HIDE DEF filled
    <3>6. /\ Differ(filled, m, {"brc", "boff"})
          /\ filled.brc = BlockSize - PacketSize /\ filled.boff = PacketSize
      BY <3>2, <3>4, <3>5 DEF IsDevice, Differ, Fields
    <3>7. Differ(filled, begun, {"buf", "brc", "boff"}) /\ filled.buf = m.buf
      BY <3>2, <3>6 DEF Differ, Fields
    <3> QED
      BY <2>1, <3>2, <3>3, <3>6, <3>7
  <2>3. CASE i > 0
    <3>1. /\ begun.brc = Bytes(PerBlock - i) /\ begun.boff = Bytes(i) /\ Loaded(d, lba + blk)
      BY <2>1, <2>3 DEF ReadPoint
    <3>a. PerBlock - i \in Int /\ PerBlock - i # 0 /\ i \in Int
      BY <1>2
    <3>2. /\ Bytes(PerBlock - i) # 0 /\ Bytes(PerBlock - i - 1) = Bytes(PerBlock - i) - PacketSize
          /\ Bytes(i + 1) = Bytes(i) + PacketSize
      BY <3>a, BytesRise
    <3>3. filled = [begun EXCEPT !.brc = @ - PacketSize, !.boff = @ + PacketSize]
      BY <3>1, <3>2
    <3> HIDE DEF filled
    <3>4. /\ Differ(filled, begun, {"brc", "boff"})
          /\ filled.brc = begun.brc - PacketSize /\ filled.boff = begun.boff + PacketSize
      BY <2>1, <3>3 DEF IsDevice, Differ, Fields
    <3>5. Differ(filled, begun, {"buf", "brc", "boff"}) /\ filled.buf = d.buf
      BY <2>1, <3>4 DEF Differ, Fields
    <3> QED
      BY <2>1, <3>1, <3>2, <3>4, <3>5 DEF Loaded, p
  <2> HIDE DEF filled
  <2>4. i = 0 \/ i > 0
    OBVIOUS
  <2> QED
    BY <2>2, <2>3, <2>4
<1> HIDE DEF filled
<1>6. /\ Differ(filled, d, {"rOff", "rLen", "xfer", "buf", "brc", "boff"})
      /\ filled.rOff = Bytes(p + i) /\ filled.rLen = Bytes(q - i) /\ filled.xfer = "ONGOING"
  BY <1>4, <1>5 DEF Differ, Fields
<1>7. piece = i + 1 /\ piece \in 1..PerBlock
  <2>1. i + 1 \in Int /\ i + 1 \in 1..PerBlock
    BY <1>2
  <2>2. Bytes(i + 1) \div PacketSize = i + 1
    BY <2>1, BytesRise
  <2> QED
    BY <1>5, <2>1, <2>2
<1> HIDE DEF piece
<1>8. OffsetAfter(filled.rOff) = Bytes(p + i + 1) /\ (filled.rLen - PacketSize) % Word = Bytes(q - i - 1)
  BY <1>3, <1>6
<1>9. /\ Differ(sent, filled, {"txbuf", "tx", "rOff", "rLen", "csw"})
      /\ sent.txbuf = Packet(filled.buf[i + 1]) /\ sent.tx = "VALID"
      /\ sent.rOff = Bytes(p + i + 1) /\ sent.rLen = Bytes(q - i - 1)
      /\ SameTag(sent, filled) /\ sent.csw.residue = (filled.csw.residue - PacketSize) % Word
  BY <1>6, <1>7, <1>8 DEF IsDevice, Differ, Fields, ResidueAfter, SameTag
<1> HIDE DEF sent
<1>10. sent.rLen = 0 <=> blk = n - 1 /\ i = PerBlock - 1
  BY <1>3, <1>9
<1>11. /\ Differ(sent, d, {"rOff", "rLen", "xfer", "brc", "boff", "buf", "txbuf", "tx", "csw"})
       /\ sent.xfer = "ONGOING" /\ sent.brc = filled.brc /\ sent.boff = filled.boff
       /\ sent.buf = filled.buf /\ filled.csw = d.csw /\ sent.card = d.card
  BY <1>6, <1>9 DEF Differ, Fields
<1>12. /\ sent.txbuf = Packet(d.card[p + i]) /\ Loaded(sent, lba + blk)
       /\ SameTag(sent, d) /\ sent.csw.residue = (d.csw.residue - PacketSize) % Word
  <2>1. filled.buf[i + 1] = d.card[p + (i + 1) - 1] /\ p + (i + 1) - 1 = p + i
    BY <1>3, <1>5, <1>7
  <2>2. sent.txbuf = Packet(d.card[p + i])
    BY <1>9, <2>1
  <2>3. Loaded(sent, lba + blk)
    BY <1>5, <1>11 DEF Loaded, p
  <2> QED
    BY <1>9, <1>11, <2>2, <2>3 DEF SameTag
<1>13. CASE blk = n - 1 /\ i = PerBlock - 1
  <2>1. final = [sent EXCEPT !.brc = 0, !.boff = 0, !.rOff = 0, !.bot = "DATA_IN_LAST", !.xfer = "IDLE"]
    BY <1>10, <1>13
  <2> HIDE DEF final
  <2>2. /\ Differ(final, sent, {"brc", "boff", "rOff", "bot", "xfer"})
        /\ final.brc = 0 /\ final.bot = "DATA_IN_LAST" /\ final.xfer = "IDLE"
    BY <1>11, <2>1 DEF IsDevice, Differ, Fields
  <2>3. /\ Differ(final, d, {"rOff", "rLen", "xfer", "brc", "boff", "buf", "txbuf", "tx", "csw", "bot"})
        /\ final.csw = sent.csw /\ final.txbuf = sent.txbuf /\ final.tx = sent.tx /\ final.buf = sent.buf
    BY <1>11, <2>2 DEF Differ, Fields
  <2> QED
    BY <1>1, <1>5, <1>9, <1>11, <1>12, <1>13, <2>2, <2>3 DEF SameTag, PacketRead, p
<1>14. CASE ~(blk = n - 1 /\ i = PerBlock - 1)
  <2>1. final = sent
    BY <1>10, <1>14
  <2> HIDE DEF final
  <2>2. /\ Differ(final, d, {"rOff", "rLen", "xfer", "brc", "boff", "buf", "txbuf", "tx", "csw", "bot"})
        /\ final.bot = d.bot
    BY <1>11, <2>1 DEF Differ, Fields
  <2>3. Bytes(p + i + 1) = Bytes(Nth(lba + blk) + i + 1) /\ Bytes(q - i - 1) = Bytes(Nth(n - blk) - i - 1)
    BY DEF p, q
  <2> QED
    BY <1>1, <1>5, <1>9, <1>10, <1>11, <1>12, <1>14, <2>1, <2>2, <2>3 DEF Loaded, PacketRead, p
<1> QED
  BY <1>13, <1>14

\* Where a write stands: the i packets of block blk that arrived so far.
Filled(d, t, b, i) ==
  DOMAIN d.buf = 1..PerBlock /\ \A j \in 1..i : d.buf[j] = <<t, Nth(b) + j - 1>>
WritePoint(d, lba, n, blk, i) ==
  d.wOff = Bytes(Nth(lba + blk) + i) /\ d.wLen = Bytes(Nth(n - blk) - i)

\* One packet of a write of the command with tag t, from d to e.
PacketWritten(e, d, t, lba, n, blk, i) ==
  /\ Differ(e, d, {"wOff", "wLen", "xfer", "buf", "cnt", "card", "csw", "rx", "bot", "txbuf", "tx"})
  /\ e.csw.tag = d.csw.tag /\ e.csw.residue = (d.csw.residue - PacketSize) % Word
  /\ e.rx = "VALID"
  /\ i < PerBlock - 1 => e.card = d.card /\ e.cnt = Bytes(i + 1) /\ Filled(e, t, lba + blk, i + 1)
  /\ i = PerBlock - 1 =>
       /\ e.cnt = 0 /\ Filled(e, t, lba + blk, PerBlock)
       /\ \A a \in Cells : e.card[a] = IF a - Nth(lba + blk) \in 0..(PerBlock - 1)
                                       THEN <<t, a>> ELSE d.card[a]
  /\ blk = n - 1 /\ i = PerBlock - 1 =>
       /\ e.bot = "CSW_SEND" /\ e.csw.status = "PASSED" /\ e.txbuf = Status(e.csw)
       /\ e.tx = "VALID" /\ e.xfer = "IDLE"
  /\ ~(blk = n - 1 /\ i = PerBlock - 1) =>
       /\ e.bot = d.bot /\ e.csw.status = d.csw.status /\ e.txbuf = d.txbuf /\ e.tx = d.tx
       /\ e.xfer = "ONGOING"
       /\ e.wOff = Bytes(Nth(lba + blk) + i + 1) /\ e.wLen = Bytes(Nth(n - blk) - i - 1)

LEMMA WriteStep ==
  ASSUME NEW d, IsDevice(d), d.mounted = TRUE, NEW t,
         NEW lba \in Nat, NEW n \in Nat, lba + n <= BlockCount,
         NEW blk \in 0..(n - 1), NEW i \in 0..(PerBlock - 1),
         d.cnt = Bytes(i), Filled(d, t, lba + blk, i),
         d.rxbuf.val = <<t, Nth(lba + blk) + i>>,
         \/ d.xfer = "IDLE" /\ d.cbw.lba = lba /\ d.cbw.n = n /\ blk = 0 /\ i = 0
         \/ d.xfer = "ONGOING" /\ WritePoint(d, lba, n, blk, i)
  PROVE  PacketWritten(Write_Memory(d), d, t, lba, n, blk, i)
<1> DEFINE begun == IF d.xfer = "IDLE"
                    THEN [d EXCEPT !.wOff = (d.cbw.lba * Mass_Block_Size(d)) % Word,
                                   !.wLen = d.cbw.n * Mass_Block_Size(d),
                                   !.xfer = "ONGOING"]
                    ELSE d
           slot   == begun.cnt \div PacketSize + 1
           filled == [begun EXCEPT !.buf[slot] = d.rxbuf.val,
                                   !.cnt = @ + PacketSize,
                                   !.wOff = OffsetAfter(@),
                                   !.wLen = (@ - PacketSize) % Word]
           flushed == IF BlockIsComplete(filled)
                      THEN MAL_Write(Rewound(filled), BlockStart(filled))
                      ELSE filled
           taken == [flushed EXCEPT
                       !.csw = ResidueAfter(@, PacketSize),
                       !.rx = "VALID"]
           zero  == [taken EXCEPT !.cnt = 0]
           sent  == Set_CSW(zero, "PASSED", TRUE)
           final == IF taken.wLen = 0 THEN [sent EXCEPT !.xfer = "IDLE"] ELSE taken
           p == Nth(lba + blk)
           q == Nth(n - blk)
           last == blk = n - 1 /\ i = PerBlock - 1
<1>1. Write_Memory(d) = final
  BY DEF Write_Memory
<1> HIDE DEF p, q
<1>2. /\ PerBlock \in Nat \ {0} /\ PacketSize \in Nat \ {0} /\ BlockSize = Bytes(PerBlock)
      /\ BlockCount \in Nat \ {0} /\ Word \in Nat
  BY Sizes, MassAssumption
<1>3. /\ p \in Nat /\ q \in Nat /\ p + PerBlock <= Nth(BlockCount) /\ q <= Nth(BlockCount)
      /\ q >= PerBlock /\ (q = PerBlock <=> blk = n - 1)
      /\ OffsetAfter(Bytes(p + i)) = Bytes(p + i + 1)
      /\ (Bytes(q - i) - PacketSize) % Word = Bytes(q - i - 1)
      /\ Bytes(q - i - 1) = 0 <=> last
  <2>1. IsPosition(p, q, n, blk, i)
    BY Position DEF p, q
  <2> QED
    BY <2>1 DEF IsPosition
<1> HIDE DEF last
<1>4. /\ Differ(begun, d, {"wOff", "wLen", "xfer"})
      /\ begun.wOff = Bytes(p + i) /\ begun.wLen = Bytes(q - i) /\ begun.xfer = "ONGOING"
  <2>1. CASE d.xfer = "IDLE"
    <3>1. /\ (d.cbw.lba * Mass_Block_Size(d)) % Word = Bytes(Nth(lba))
          /\ d.cbw.n * Mass_Block_Size(d) = Bytes(Nth(n))
      <4>1. Mass_Block_Size(d) = BlockSize /\ lba <= BlockCount
        BY <1>2 DEF Mass_Block_Size
      <4>2. (lba * BlockSize) % Word = lba * BlockSize
        BY <4>1, OffsetFits
      <4> QED
        BY <2>1, <4>1, <4>2, BlockBytes
    <3>2. lba + blk = lba /\ n - blk = n /\ p + i = p /\ q - i = q
      BY <1>3, <2>1
    <3>3. Bytes(p + i) = Bytes(Nth(lba)) /\ Bytes(q - i) = Bytes(Nth(n))
      BY <3>2 DEF p, q
    <3> QED
      BY <2>1, <3>1, <3>3 DEF IsDevice, Differ, Fields
  <2>2. CASE d.xfer = "ONGOING"
    BY <2>2 DEF WritePoint, Differ, begun, p, q
  <2> QED
    BY <2>1, <2>2
<1> HIDE DEF begun
<1>5. /\ IsDevice(begun) /\ begun.mounted = TRUE /\ begun.card = d.card /\ begun.buf = d.buf
      /\ begun.cnt = Bytes(i)
  BY <1>4 DEF Differ, Fields
<1>6. slot = i + 1 /\ slot \in 1..PerBlock /\ Bytes(i + 1) = Bytes(i) + PacketSize
  <2>1. i \in Int
    OBVIOUS
  <2>2. Bytes(i) \div PacketSize = i /\ Bytes(i + 1) = Bytes(i) + PacketSize
    BY <2>1, BytesRise
  <2> QED
    BY <1>2, <1>5, <2>2
<1> HIDE DEF slot
<1>7. /\ Differ(filled, begun, {"buf", "cnt", "wOff", "wLen"})
      /\ filled.cnt = Bytes(i + 1) /\ filled.wOff = Bytes(p + i + 1) /\ filled.wLen = Bytes(q - i - 1)
      /\ Filled(filled, t, lba + blk, i + 1)
  <2>1. /\ Differ(filled, begun, {"buf", "cnt", "wOff", "wLen"})
        /\ filled.cnt = begun.cnt + PacketSize
        /\ filled.wOff = OffsetAfter(begun.wOff) /\ filled.wLen = (begun.wLen - PacketSize) % Word
        /\ filled.buf = [begun.buf EXCEPT ![slot] = d.rxbuf.val]
    BY <1>5 DEF IsDevice, Differ, Fields
  <2> HIDE DEF filled
  <2>2. /\ DOMAIN filled.buf = 1..PerBlock
        /\ \A j \in 1..(i + 1) : filled.buf[j] = <<t, p + j - 1>>
    <3>1. DOMAIN d.buf = 1..PerBlock /\ \A j \in 1..i : d.buf[j] = <<t, p + j - 1>>
      BY DEF Filled, p
    <3>2. d.rxbuf.val = <<t, p + i>> /\ p + (i + 1) - 1 = p + i
      BY <1>3 DEF p
    <3>3. ASSUME NEW j \in 1..(i + 1)  PROVE filled.buf[j] = <<t, p + j - 1>>
      <4>1. CASE j = i + 1
        BY <1>5, <1>6, <2>1, <3>1, <3>2, <4>1
      <4>2. CASE j # i + 1
        BY <1>2, <1>5, <1>6, <2>1, <3>1, <4>2
      <4> QED
        BY <4>1, <4>2
    <3> QED
      BY <1>5, <2>1, <3>1, <3>3
  <2> QED
    BY <1>3, <1>4, <1>5, <1>6, <2>1, <2>2 DEF Filled, p
<1> HIDE DEF filled
<1>8. /\ Differ(filled, d, {"wOff", "wLen", "xfer", "buf", "cnt"}) /\ filled.xfer = "ONGOING"
  BY <1>4, <1>7 DEF Differ, Fields
<1>9. BlockIsComplete(filled) <=> i = PerBlock - 1
  <2> DEFINE b == n - blk - 1
             k == PerBlock - i - 1
  <2>1. b \in Nat /\ k \in 0..(PerBlock - 1) /\ k \in Int /\ (k = 0 <=> i = PerBlock - 1)
    BY <1>2
  <2>2. q = Nth(b) + PerBlock /\ Nth(b) \in Int
    <3>1. b + 1 = n - blk /\ b \in Int
      BY <2>1
    <3> HIDE DEF b
    <3>2. Nth(b + 1) = Nth(b) + PerBlock /\ Nth(b) \in Int
      BY <3>1, NthRise
    <3> QED
      BY <3>1, <3>2 DEF q
  <2>3. q - i - 1 = Nth(b) + k
    BY <1>2, <2>2
  <2> HIDE DEF b, k
  <2>4. Bytes(Nth(b) + k) % BlockSize = Bytes(k) /\ (Bytes(k) = 0 <=> k = 0)
    BY <2>1, Aligned, BytesRise
  <2>5. Mass_Block_Size(filled) = BlockSize
    BY <1>8 DEF Mass_Block_Size, Differ, Fields
  <2> QED
    BY <1>7, <2>1, <2>3, <2>4, <2>5 DEF BlockIsComplete
<1>10. /\ Differ(flushed, d, {"wOff", "wLen", "xfer", "buf", "cnt", "card"}) /\ flushed.xfer = "ONGOING"
       /\ flushed.wOff = Bytes(p + i + 1) /\ flushed.wLen = Bytes(q - i - 1)
       /\ flushed.buf = filled.buf
       /\ i < PerBlock - 1 => flushed.card = d.card /\ flushed.cnt = Bytes(i + 1)
       /\ i = PerBlock - 1 =>
            /\ flushed.cnt = 0
            /\ \A a \in Cells : flushed.card[a] = IF a - p \in 0..(PerBlock - 1)
                                                  THEN <<t, a>> ELSE d.card[a]
  <2>1. CASE i < PerBlock - 1
    <3>1. flushed = filled
      BY <1>2, <1>9, <2>1
    <3> QED
      BY <1>2, <1>7, <1>8, <2>1, <3>1 DEF Differ, Fields
  <2>2. CASE i = PerBlock - 1
    <3> DEFINE m == Rewound(filled)
               b == lba + blk
    <3>1. Differ(m, filled, {"cnt"}) /\ m.cnt = 0
      BY <1>7 DEF Rewound, IsDevice, Differ, Fields
    <3> HIDE DEF m
    <3>2. /\ IsDevice(m) /\ m.mounted = TRUE /\ m.buf = filled.buf /\ m.card = d.card
          /\ m.xfer = "ONGOING" /\ m.wOff = filled.wOff /\ m.wLen = filled.wLen
          /\ Differ(m, d, {"wOff", "wLen", "xfer", "buf", "cnt"})
      BY <1>8, <3>1 DEF Differ, Fields
    <3>3. b \in 0..(BlockCount - 1) /\ p = Nth(b)
      BY <1>2 DEF p
    <3>4. BlockStart(filled) = Bytes(p)
      <4>1. p + i + 1 = p + PerBlock /\ p \in Int /\ PerBlock \in Int /\ p \in Nat /\ p <= Nth(BlockCount)
        BY <1>2, <1>3, <2>2, CardSize
      <4>2. Bytes(p + PerBlock) = Bytes(p) + Bytes(PerBlock) /\ Bytes(p) \in Int /\ Bytes(PerBlock) \in Int
        <5>1. Bytes(p) \in Int
          BY <4>1, BytesRise
        <5>2. Bytes(PerBlock) \in Int
          BY <4>1, BytesRise
        <5>3. Bytes(p + PerBlock) = Bytes(p) + Bytes(PerBlock)
          BY <4>1, BytesOrder
        <5> QED
          BY <5>1, <5>2, <5>3
      <4>3. Bytes(p) % Word = Bytes(p)
        BY <4>1, NoWrap
      <4>4. Mass_Block_Size(filled) = BlockSize
        BY <1>8 DEF Mass_Block_Size, Differ, Fields
      <4>5. filled.wOff = Bytes(p) + Bytes(PerBlock)
        BY <1>7, <4>1, <4>2
      <4>6. filled.wOff - Mass_Block_Size(filled) = Bytes(p)
        BY <1>2, <4>2, <4>4, <4>5
      <4> QED
        BY <4>3, <4>6 DEF BlockStart
    <3>5. flushed = MAL_Write(m, Bytes(Nth(b)))
      BY <1>9, <2>2, <3>3, <3>4 DEF m
    <3> HIDE DEF flushed, b
    <3>6. /\ Differ(flushed, m, {"card"})
          /\ \A a \in Cells : flushed.card[a] = IF a - Nth(b) \in 0..(PerBlock - 1)
                                                THEN m.buf[a - Nth(b) + 1] ELSE m.card[a]
      BY <3>2, <3>3, <3>5, BlockWritten
    <3>7. /\ Differ(flushed, d, {"wOff", "wLen", "xfer", "buf", "cnt", "card"}) /\ flushed.xfer = "ONGOING"
          /\ flushed.wOff = filled.wOff /\ flushed.wLen = filled.wLen
          /\ flushed.buf = filled.buf /\ flushed.cnt = 0
      BY <3>1, <3>2, <3>6 DEF Differ, Fields
    <3>8. ASSUME NEW a \in Cells
          PROVE  flushed.card[a] = IF a - p \in 0..(PerBlock - 1) THEN <<t, a>> ELSE d.card[a]
      <4>1. a \in Int
        BY <1>2 DEF Cells
      <4>2. ASSUME a - p \in 0..(PerBlock - 1)  PROVE m.buf[a - p + 1] = <<t, a>>
        <5>1. a - p + 1 \in 1..(i + 1) /\ p + (a - p + 1) - 1 = a
          BY <1>2, <1>3, <2>2, <4>1, <4>2
        <5>2. filled.buf[a - p + 1] = <<t, p + (a - p + 1) - 1>>
          BY <1>7, <5>1 DEF Filled, p
        <5> QED
          BY <3>2, <5>1, <5>2
      <4> QED
        BY <3>2, <3>3, <3>6, <4>2
    <3> QED
      BY <1>2, <1>7, <2>2, <3>7, <3>8
  <2> HIDE DEF flushed
  <2>3. i < PerBlock - 1 \/ i = PerBlock - 1
    BY <1>2
  <2> QED
    BY <2>1, <2>2, <2>3
<1> HIDE DEF flushed
<1>11. /\ Differ(taken, flushed, {"csw", "rx"}) /\ taken.rx = "VALID"
       /\ SameTag(taken, flushed) /\ taken.csw.residue = (flushed.csw.residue - PacketSize) % Word
  BY <1>10 DEF IsDevice, Differ, Fields, ResidueAfter, SameTag
<1> HIDE DEF taken
<1>12. /\ Differ(taken, d, {"wOff", "wLen", "xfer", "buf", "cnt", "card", "csw", "rx"})
       /\ taken.xfer = "ONGOING" /\ taken.wOff = flushed.wOff /\ taken.wLen = flushed.wLen
       /\ taken.buf = flushed.buf /\ taken.cnt = flushed.cnt /\ taken.card = flushed.card
       /\ flushed.csw = d.csw
  BY <1>10, <1>11 DEF Differ, Fields
<1>13. /\ SameTag(taken, d) /\ taken.csw.residue = (d.csw.residue - PacketSize) % Word
       /\ Filled(taken, t, lba + blk, i + 1)
  BY <1>7, <1>10, <1>11, <1>12 DEF SameTag, Filled
<1>14. CASE last
  <2>0. i = PerBlock - 1 /\ blk = n - 1 /\ i + 1 = PerBlock /\ ~(i < PerBlock - 1)
    BY <1>2, <1>14 DEF last
  <2>1. final = [sent EXCEPT !.xfer = "IDLE"]
    BY <1>3, <1>10, <1>12, <1>14
  <2> HIDE DEF final
  <2>2. Differ(zero, taken, {"cnt"}) /\ zero.cnt = 0
    BY <1>12 DEF IsDevice, Differ, Fields
  <2> HIDE DEF zero
  <2>3. IsDevice(zero)
    BY <2>2 DEF Differ
  <2>4. /\ Differ(sent, zero, {"csw", "txbuf", "bot", "tx"})
        /\ sent.csw.tag = zero.csw.tag /\ sent.csw.residue = zero.csw.residue /\ sent.csw.status = "PASSED"
        /\ sent.txbuf = Status(sent.csw) /\ sent.bot = "CSW_SEND" /\ sent.tx = "VALID"
    BY <2>3, AfterCswSent
  <2> HIDE DEF sent
  <2>5. Differ(final, sent, {"xfer"}) /\ final.xfer = "IDLE"
    BY <2>1, <2>4 DEF IsDevice, Differ, Fields
  <2>6. /\ Differ(final, d, {"wOff", "wLen", "xfer", "buf", "cnt", "card", "csw", "rx", "bot", "txbuf", "tx"})
        /\ final.buf = taken.buf /\ final.cnt = 0 /\ final.card = flushed.card
        /\ final.csw = sent.csw /\ zero.csw = taken.csw /\ final.rx = taken.rx /\ final.bot = sent.bot
        /\ final.txbuf = sent.txbuf /\ final.tx = sent.tx
    BY <1>12, <2>2, <2>4, <2>5 DEF Differ, Fields
  <2>7. Filled(final, t, lba + blk, PerBlock)
    BY <1>13, <2>0, <2>6 DEF Filled
  <2>8. /\ final.csw.tag = d.csw.tag /\ final.csw.residue = (d.csw.residue - PacketSize) % Word
        /\ final.rx = "VALID" /\ final.bot = "CSW_SEND" /\ final.csw.status = "PASSED"
        /\ final.txbuf = Status(final.csw) /\ final.tx = "VALID" /\ final.xfer = "IDLE"
    BY <1>11, <1>13, <2>4, <2>5, <2>6 DEF SameTag
  <2>9. \A a \in Cells : final.card[a] = IF a - Nth(lba + blk) \in 0..(PerBlock - 1)
                                         THEN <<t, a>> ELSE d.card[a]
    BY <1>10, <2>0, <2>6 DEF p
  <2> QED
    BY <1>1, <2>0, <2>6, <2>7, <2>8, <2>9 DEF PacketWritten
<1>15. CASE ~last
  <2>1. final = taken
    BY <1>3, <1>10, <1>12, <1>15
  <2> HIDE DEF final
  <2>2. /\ Differ(final, d, {"wOff", "wLen", "xfer", "buf", "cnt", "card", "csw", "rx", "bot", "txbuf", "tx"})
        /\ final.bot = d.bot /\ final.txbuf = d.txbuf /\ final.tx = d.tx
    BY <1>12, <2>1 DEF Differ, Fields
  <2>3. /\ final.csw.tag = d.csw.tag /\ final.csw.residue = (d.csw.residue - PacketSize) % Word
        /\ final.rx = "VALID" /\ final.csw.status = d.csw.status /\ final.xfer = "ONGOING"
    BY <1>11, <1>12, <1>13, <2>1 DEF SameTag
  <2>4. i < PerBlock - 1 => final.card = d.card /\ final.cnt = Bytes(i + 1)
    BY <1>10, <1>12, <2>1
  <2>5. i = PerBlock - 1 =>
          /\ final.cnt = 0
          /\ \A a \in Cells : final.card[a] = IF a - Nth(lba + blk) \in 0..(PerBlock - 1)
                                              THEN <<t, a>> ELSE d.card[a]
    BY <1>10, <1>12, <2>1 DEF p
  <2>6. Filled(final, t, lba + blk, i + 1) /\ (i = PerBlock - 1 => i + 1 = PerBlock)
    BY <1>2, <1>13, <2>1
  <2>7. final.wOff = Bytes(Nth(lba + blk) + i + 1) /\ final.wLen = Bytes(Nth(n - blk) - i - 1)
    BY <1>10, <1>12, <2>1 DEF p, q
  <2>8. ~(blk = n - 1 /\ i = PerBlock - 1)
    BY <1>15 DEF last
  <2>9. i = PerBlock - 1 => Filled(final, t, lba + blk, PerBlock)
    BY <2>6
  <2> QED
    BY <1>1, <2>2, <2>3, <2>4, <2>5, <2>6, <2>7, <2>8, <2>9 DEF PacketWritten
<1> QED
  BY <1>14, <1>15

\* What a command does with the decoded wrapper of m.  A refusal:
Refused(e, m) ==
  /\ Differ(e, m, {"csw", "txbuf", "bot", "tx", "rx"})
  /\ e.csw.tag = m.csw.tag /\ e.csw.residue = m.csw.residue /\ e.csw.status = "FAILED"
  /\ e.txbuf = Status(e.csw) /\ e.bot = "ERROR" /\ e.tx = "STALL"
  /\ e.rx = m.rx \/ e.rx = "STALL"
\* The status at once:
AnsweredAtOnce(e, m) ==
  /\ m.cbw.op \in {"TEST_UNIT_READY", "START_STOP_UNIT"} \/ m.cbw.len = 0
  /\ m.cbw.op # "READ10" /\ m.cbw.op # "WRITE10"
  /\ Differ(e, m, {"csw", "txbuf", "bot", "tx", "mounted"})
  /\ e.mounted = m.mounted \/ e.mounted = TRUE
  /\ e.csw.tag = m.csw.tag /\ e.csw.residue = m.csw.residue /\ e.csw.status = "PASSED"
  /\ e.txbuf = Status(e.csw) /\ e.bot = "CSW_SEND" /\ e.tx = "VALID"
\* A read that announces data of the host:
WrongWay(e, m) ==
  /\ m.cbw.op = "READ10" /\ m.cbw.dir # "IN"
  /\ Differ(e, m, {"csw", "txbuf", "bot", "tx", "rx"})
  /\ e.csw.tag = m.csw.tag /\ e.csw.residue = m.csw.residue /\ e.csw.status = "FAILED"
  /\ e.txbuf = Status(e.csw) /\ e.bot = "CSW_SEND" /\ e.tx = "VALID" /\ e.rx = "STALL"
\* A reply of length bytes:
ReplyPrepared(e, m, length) ==
  /\ m.cbw.op = "INQUIRY" \/ m.cbw.op = "READ_CAPACITY10"
  /\ Differ(e, m, {"csw", "txbuf", "bot", "tx", "mounted"})
  /\ e.mounted = m.mounted \/ e.mounted = TRUE
  /\ e.csw.tag = m.csw.tag /\ e.csw.status = "PASSED"
  /\ e.csw.residue = (m.csw.residue - length) % Word
  /\ e.txbuf = Info(length) /\ e.bot = "DATA_IN_LAST" /\ e.tx = "VALID"
\* The first packet of a read; a write that waits for its first packet:
ReadBegun(e, m, r) ==
  /\ m.cbw.op = "READ10" /\ m.cbw.dir = "IN" /\ AddressOk(m)
  /\ Differ(r, m, {"bot"}) /\ r.bot = "DATA_IN"
  /\ e = Read_Memory(r)
WriteBegun(e, m) ==
  /\ m.cbw.op = "WRITE10" /\ m.cbw.dir = "OUT" /\ AddressOk(m)
  /\ Differ(e, m, {"bot", "rx"}) /\ e.bot = "DATA_OUT" /\ e.rx = "VALID"
\* Nothing:
Ignored(e, m) ==
  m.cbw.op = "FORMAT_UNIT" /\ Differ(e, m, {"mounted"}) /\ e.mounted = TRUE

Served(e, m) ==
  \/ Refused(e, m)
  \/ AnsweredAtOnce(e, m)
  \/ WrongWay(e, m)
  \/ \E length \in 0..InfoLength : ReplyPrepared(e, m, length)
  \/ \E r : ReadBegun(e, m, r)
  \/ WriteBegun(e, m)
  \/ Ignored(e, m)

\* The command blocks of a driver whose ranges do not wrap.
FitBlocks == {c \in CommandBlocks : c.lba + c.n < Word}

LEMMA BlockTypes ==
  ASSUME NEW c \in FitBlocks
  PROVE  /\ c.op \in Ops /\ c.lba \in Nat /\ c.n \in Nat /\ c.len \in 0..(Word - 1)
         /\ c.lba + c.n < Word
         /\ c.dir \in {"IN", "OUT"} /\ c.form \in {"ok", "short", "badsig", "badlun"}
  BY DEF FitBlocks, CommandBlocks

LEMMA RefuseServes ==
  ASSUME NEW m, IsDevice(m), NEW dir \in {"IN", "BOTH"}
  PROVE  Refused(Refuse(m, dir), m) /\ (dir = "BOTH" => Refuse(m, dir).rx = "STALL")
<1> DEFINE e == Refuse(m, dir)
<1>1. /\ Differ(e, m, {"csw", "txbuf", "bot", "tx", "rx"})
      /\ e.csw.tag = m.csw.tag /\ e.csw.residue = m.csw.residue /\ e.csw.status = "FAILED"
      /\ e.txbuf = Status(e.csw) /\ e.bot = "ERROR"
      /\ e.tx = IF dir \in {"IN", "BOTH"} THEN "STALL" ELSE m.tx
      /\ e.rx = IF dir \in {"OUT", "BOTH"} THEN "STALL" ELSE m.rx
  BY AfterRefuse
<1> HIDE DEF e
<1> QED
  BY <1>1 DEF Refused, e

LEMMA StatusServes ==
  ASSUME NEW m, IsDevice(m), NEW k, k = m \/ k = MAL_GetStatus(m),
         m.cbw.op \in {"TEST_UNIT_READY", "START_STOP_UNIT"} \/ m.cbw.len = 0,
         m.cbw.op # "READ10", m.cbw.op # "WRITE10"
  PROVE  AnsweredAtOnce(Set_CSW(k, "PASSED", TRUE), m)
<1> DEFINE e == Set_CSW(k, "PASSED", TRUE)
<1>1. Differ(k, m, {"mounted"}) /\ (k.mounted = m.mounted \/ k.mounted = TRUE)
  BY DEF MAL_GetStatus, IsDevice, Differ, Fields
<1>2. IsDevice(k) /\ k.csw = m.csw
  BY <1>1 DEF Differ, Fields
<1>3. /\ Differ(e, k, {"csw", "txbuf", "bot", "tx"})
      /\ e.csw.tag = k.csw.tag /\ e.csw.residue = k.csw.residue /\ e.csw.status = "PASSED"
      /\ e.txbuf = Status(e.csw) /\ e.bot = "CSW_SEND" /\ e.tx = "VALID"
  BY <1>2, AfterCswSent
<1> HIDE DEF e
<1>4. Differ(e, m, {"csw", "txbuf", "bot", "tx", "mounted"}) /\ e.mounted = k.mounted
  BY <1>1, <1>3 DEF Differ, Fields
<1> QED
  BY <1>1, <1>2, <1>3, <1>4 DEF AnsweredAtOnce, e

LEMMA ReplyServes ==
  ASSUME NEW m, IsDevice(m), NEW k, k = m \/ k = MAL_GetStatus(m), NEW length,
         m.cbw.op = "INQUIRY" \/ m.cbw.op = "READ_CAPACITY10"
  PROVE  ReplyPrepared(Transfer_Data_Request(k, length), m, length)
<1> DEFINE e == Transfer_Data_Request(k, length)
<1>1. Differ(k, m, {"mounted"}) /\ (k.mounted = m.mounted \/ k.mounted = TRUE)
  BY DEF MAL_GetStatus, IsDevice, Differ, Fields
<1>2. IsDevice(k) /\ k.csw = m.csw
  BY <1>1 DEF Differ, Fields
<1>3. /\ Differ(e, k, {"csw", "txbuf", "bot", "tx"})
      /\ e.csw.tag = k.csw.tag /\ e.csw.status = "PASSED"
      /\ e.csw.residue = (k.csw.residue - length) % Word
      /\ e.txbuf = Info(length) /\ e.bot = "DATA_IN_LAST" /\ e.tx = "VALID"
  BY <1>2, AfterInfo
<1> HIDE DEF e
<1>4. Differ(e, m, {"csw", "txbuf", "bot", "tx", "mounted"}) /\ e.mounted = k.mounted
  BY <1>1, <1>3 DEF Differ, Fields
<1> QED
  BY <1>1, <1>2, <1>3, <1>4 DEF ReplyPrepared, e

LEMMA ReadServes ==
  ASSUME NEW m, IsDevice(m), m.cbw.op = "READ10"
  PROVE  Served(SCSI_Read10_Cmd(m), m)
<1>1. CASE ~AddressOk(m)
  BY <1>1, RefuseServes DEF SCSI_Read10_Cmd, Served
<1>2. CASE AddressOk(m) /\ m.cbw.dir = "IN"
  <2> DEFINE r == [m EXCEPT !.bot = "DATA_IN"]
  <2>1. Differ(r, m, {"bot"}) /\ r.bot = "DATA_IN"
    BY DEF IsDevice, Differ, Fields
  <2>2. SCSI_Read10_Cmd(m) = Read_Memory(r)
    BY <1>2 DEF SCSI_Read10_Cmd
  <2> HIDE DEF r
  <2>3. ReadBegun(SCSI_Read10_Cmd(m), m, r)
    BY <1>2, <2>1, <2>2 DEF ReadBegun
  <2> QED
    BY <2>3 DEF Served
<1>3. CASE AddressOk(m) /\ m.cbw.dir # "IN"
  <2> DEFINE k == Bot_Abort(m, "BOTH")
             e == Set_CSW(k, "FAILED", TRUE)
  <2>1. Differ(k, m, {"tx", "rx"}) /\ k.rx = "STALL"
    BY AfterAbort
  <2>2. SCSI_Read10_Cmd(m) = e
    BY <1>3 DEF SCSI_Read10_Cmd
  <2> HIDE DEF k
  <2>3. IsDevice(k) /\ k.csw = m.csw
    BY <2>1 DEF Differ, Fields
  <2>4. /\ Differ(e, k, {"csw", "txbuf", "bot", "tx"})
        /\ e.csw.tag = k.csw.tag /\ e.csw.residue = k.csw.residue /\ e.csw.status = "FAILED"
        /\ e.txbuf = Status(e.csw) /\ e.bot = "CSW_SEND" /\ e.tx = "VALID"
    BY <2>3, AfterCswSent
  <2> HIDE DEF e
  <2>5. Differ(e, m, {"csw", "txbuf", "bot", "tx", "rx"}) /\ e.rx = "STALL"
    BY <2>1, <2>4 DEF Differ, Fields
  <2>6. WrongWay(e, m)
    BY <1>3, <2>3, <2>4, <2>5 DEF WrongWay
  <2> QED
    BY <2>2, <2>6 DEF Served
<1> QED
  BY <1>1, <1>2, <1>3

LEMMA WriteServes ==
  ASSUME NEW m, IsDevice(m), m.cbw.op = "WRITE10"
  PROVE  Served(SCSI_Write10_Cmd(m), m)
<1>1. CASE ~AddressOk(m)
  BY <1>1, RefuseServes DEF SCSI_Write10_Cmd, Served
<1>2. CASE AddressOk(m) /\ m.cbw.dir = "OUT"
  <2> DEFINE e == [m EXCEPT !.bot = "DATA_OUT", !.rx = "VALID"]
  <2>1. Differ(e, m, {"bot", "rx"}) /\ e.bot = "DATA_OUT" /\ e.rx = "VALID"
    BY DEF IsDevice, Differ, Fields
  <2>2. SCSI_Write10_Cmd(m) = e
    BY <1>2 DEF SCSI_Write10_Cmd
  <2> HIDE DEF e
  <2>3. WriteBegun(e, m)
    BY <1>2, <2>1 DEF WriteBegun
  <2> QED
    BY <2>2, <2>3 DEF Served
<1>3. CASE AddressOk(m) /\ m.cbw.dir # "OUT"
  BY <1>3, RefuseServes DEF SCSI_Write10_Cmd, Served
<1> QED
  BY <1>1, <1>2, <1>3

LEMMA CommandServed ==
  ASSUME NEW m, IsDevice(m), m.cbw \in FitBlocks
  PROVE  Served(SCSI_Command(m), m)
<1> DEFINE op == m.cbw.op
<1>1. op \in Ops /\ m.cbw.len \in Nat
  BY BlockTypes
<1>2. CASE op = "TEST_UNIT_READY"
  <2>1. SCSI_Command(m) = Set_CSW(MAL_GetStatus(m), "PASSED", TRUE)
    BY <1>2 DEF SCSI_Command
  <2> QED
    BY <1>2, <2>1, StatusServes DEF Served
<1>3. CASE op = "START_STOP_UNIT"
  <2>1. SCSI_Command(m) = Set_CSW(m, "PASSED", TRUE)
    BY <1>3 DEF SCSI_Command
  <2> QED
    BY <1>3, <2>1, StatusServes DEF Served
<1>4. CASE op = "INQUIRY"
  <2> DEFINE length == MinOf(m.cbw.len, InfoLength)
  <2>1. SCSI_Command(m) = Transfer_Data_Request(m, length)
    BY <1>4 DEF SCSI_Command
  <2>2. length \in 0..InfoLength
    BY <1>1, MassAssumption DEF MinOf
  <2> HIDE DEF length
  <2>3. ReplyPrepared(SCSI_Command(m), m, length)
    BY <1>4, <2>1, ReplyServes
  <2> QED
    BY <2>2, <2>3 DEF Served
<1>5. CASE op = "READ_CAPACITY10"
  <2>1. SCSI_Command(m) = Transfer_Data_Request(MAL_GetStatus(m), InfoLength)
    BY <1>5 DEF SCSI_Command
  <2>2. ReplyPrepared(SCSI_Command(m), m, InfoLength)
    BY <1>5, <2>1, ReplyServes
  <2>3. InfoLength \in 0..InfoLength
    BY MassAssumption
  <2> QED
    BY <2>2, <2>3 DEF Served
<1>6. CASE op = "READ10"
  <2>1. SCSI_Command(m) = SCSI_Read10_Cmd(m)
    BY <1>6 DEF SCSI_Command
  <2> QED
    BY <1>6, <2>1, ReadServes
<1>7. CASE op = "WRITE10"
  <2>1. SCSI_Command(m) = SCSI_Write10_Cmd(m)
    BY <1>7 DEF SCSI_Command
  <2> QED
    BY <1>7, <2>1, WriteServes
<1>8. CASE op = "VERIFY10"
  <2>1. SCSI_Command(m) = IF m.cbw.len = 0 THEN Set_CSW(m, "PASSED", TRUE) ELSE Refuse(m, "BOTH")
    BY <1>8 DEF SCSI_Command
  <2>2. CASE m.cbw.len = 0
    BY <1>8, <2>1, <2>2, StatusServes DEF Served
  <2>3. CASE m.cbw.len # 0
    BY <2>1, <2>3, RefuseServes DEF Served
  <2> QED
    BY <2>2, <2>3
<1>9. CASE op = "FORMAT_UNIT"
  <2> DEFINE e == MAL_GetStatus(m)
  <2>1. SCSI_Command(m) = e
    BY <1>9 DEF SCSI_Command
  <2>2. Differ(e, m, {"mounted"}) /\ e.mounted = TRUE
    BY DEF MAL_GetStatus, IsDevice, Differ, Fields
  <2> HIDE DEF e
  <2> QED
    BY <1>9, <2>1, <2>2 DEF Served, Ignored
<1>10. CASE op = "MODE_SELECT6"
  <2> DEFINE dir == IF m.cbw.len = 0 \/ m.cbw.dir = "IN" THEN "IN" ELSE "BOTH"
  <2>1. SCSI_Command(m) = Refuse(m, dir) /\ dir \in {"IN", "BOTH"}
    BY <1>10 DEF SCSI_Command
  <2> HIDE DEF dir
  <2> QED
    BY <2>1, RefuseServes DEF Served
<1>11. CASE op = "UNKNOWN"
  <2>1. SCSI_Command(m) = Refuse(m, "BOTH")
    BY <1>11 DEF SCSI_Command
  <2> QED
    BY <2>1, RefuseServes DEF Served
<1> QED
  BY <1>1, <1>2, <1>3, <1>4, <1>5, <1>6, <1>7, <1>8, <1>9, <1>10, <1>11 DEF Ops

\* The wrapper that the OUT endpoint holds, as CBW_Decode reads it.
WrapperIn(d) == IF d.rxbuf.kind = "cbw" THEN d.rxbuf.block ELSE [NoCommand EXCEPT !.form = "short"]

Decoded(m, d, block) ==
  /\ Differ(m, d, {"cbw", "sig", "csw"})
  /\ m.cbw = block
  /\ m.csw.tag = (IF d.rxbuf.kind = "cbw" THEN d.rxbuf.tag ELSE d.csw.tag)
  /\ m.csw.residue = block.len /\ m.csw.status = d.csw.status
  /\ m.sig = (IF block.form \in {"short", "badsig"} THEN "bad" ELSE "valid")

WrapperServed(e, d, m) ==
  /\ Decoded(m, d, WrapperIn(d))
  /\ WrapperIn(d).form = "ok" => Served(e, m)
  /\ WrapperIn(d).form # "ok" => Refused(e, m) /\ e.rx = "STALL"

LEMMA DecodeServes ==
  ASSUME NEW d, IsDevice(d), WrapperIn(d) \in FitBlocks
  PROVE  \E m : WrapperServed(CBW_Decode(d), d, m)
<1> DEFINE block   == IF d.rxbuf.kind = "cbw" THEN d.rxbuf.block
                      ELSE [NoCommand EXCEPT !.form = "short"]
           m == [d EXCEPT
                  !.cbw = block,
                  !.sig = IF block.form \in {"short", "badsig"} THEN "bad" ELSE "valid",
                  !.csw = [@ EXCEPT !.tag = IF d.rxbuf.kind = "cbw"
                                            THEN d.rxbuf.tag ELSE d.csw.tag,
                                    !.residue = block.len]]
<1>1. CBW_Decode(d) = IF block.form = "ok" THEN SCSI_Command(m) ELSE Refuse(m, "BOTH")
  BY DEF CBW_Decode
<1>2. block = WrapperIn(d)
  BY DEF WrapperIn
<1> HIDE DEF block
<1>a. Differ(m, d, {"cbw", "sig", "csw"})
  BY DEF IsDevice, Differ, Fields
<1>b. /\ m.cbw = block
      /\ m.sig = IF block.form \in {"short", "badsig"} THEN "bad" ELSE "valid"
  BY DEF IsDevice, Fields
<1>c. m.csw.residue = block.len /\ m.csw.status = d.csw.status
  BY DEF IsDevice, Fields
<1>d. m.csw.tag = IF d.rxbuf.kind = "cbw" THEN d.rxbuf.tag ELSE d.csw.tag
  BY DEF IsDevice, Fields
<1> HIDE DEF m
<1>3. Decoded(m, d, block)
  BY <1>a, <1>b, <1>c, <1>d DEF Decoded
<1> HIDE DEF m
<1>4. IsDevice(m) /\ m.cbw \in FitBlocks
  BY <1>2, <1>3 DEF Decoded, Differ
<1>5. block.form = "ok" => Served(CBW_Decode(d), m)
  BY <1>1, <1>4, CommandServed
<1>6. block.form # "ok" => Refused(CBW_Decode(d), m) /\ CBW_Decode(d).rx = "STALL"
  BY <1>1, <1>4, RefuseServes
<1> QED
  BY <1>2, <1>3, <1>5, <1>6 DEF WrapperServed

\* A packet that the state machine does not expect.
PhaseError(e, d) ==
  /\ Differ(e, d, {"csw", "txbuf", "bot", "tx", "rx"})
  /\ e.csw.tag = d.csw.tag /\ e.csw.residue = d.csw.residue /\ e.csw.status = "PHASE_ERROR"
  /\ e.txbuf = Status(e.csw) /\ e.bot = "ERROR" /\ e.rx = "STALL"
  /\ e.tx = (IF d.bot = "DATA_OUT" THEN d.tx ELSE "STALL")

LEMMA OutServes ==
  ASSUME NEW d, IsDevice(d)
  PROVE  /\ d.bot = "IDLE" => Mass_Storage_Out(d) = CBW_Decode(d)
         /\ d.bot = "DATA_OUT" /\ d.cbw.op = "WRITE10" => Mass_Storage_Out(d) = Write_Memory(d)
         /\ d.bot # "IDLE" /\ ~(d.bot = "DATA_OUT" /\ d.cbw.op = "WRITE10") =>
              PhaseError(Mass_Storage_Out(d), d)
<1>1. ASSUME d.bot # "IDLE", ~(d.bot = "DATA_OUT" /\ d.cbw.op = "WRITE10")
      PROVE  PhaseError(Mass_Storage_Out(d), d)
  <2> DEFINE dir == IF d.bot = "DATA_OUT" THEN "OUT" ELSE "BOTH"
             k == Bot_Abort(d, dir)
             e == Set_CSW(k, "PHASE_ERROR", FALSE)
  <2>1. Mass_Storage_Out(d) = e
    BY <1>1 DEF Mass_Storage_Out
  <2>2. /\ Differ(k, d, {"tx", "rx"}) /\ k.rx = "STALL"
        /\ k.tx = (IF d.bot = "DATA_OUT" THEN d.tx ELSE "STALL")
    BY AfterAbort
  <2> HIDE DEF k
  <2>3. IsDevice(k) /\ k.csw = d.csw
    BY <2>2 DEF Differ, Fields
  <2>4. /\ Differ(e, k, {"csw", "txbuf", "bot", "tx"})
        /\ e.csw.tag = k.csw.tag /\ e.csw.residue = k.csw.residue /\ e.csw.status = "PHASE_ERROR"
        /\ e.txbuf = Status(e.csw) /\ e.bot = "ERROR" /\ e.tx = k.tx
    BY <2>3, AfterCswHeld
  <2> HIDE DEF e
  <2>5. Differ(e, d, {"csw", "txbuf", "bot", "tx", "rx"}) /\ e.rx = "STALL"
    BY <2>2, <2>4 DEF Differ, Fields
  <2> QED
    BY <2>1, <2>2, <2>3, <2>4, <2>5 DEF PhaseError
<1>2. d.bot = "IDLE" => Mass_Storage_Out(d) = CBW_Decode(d)
  BY DEF Mass_Storage_Out
<1>3. d.bot = "DATA_OUT" /\ d.cbw.op = "WRITE10" => Mass_Storage_Out(d) = Write_Memory(d)
  BY DEF Mass_Storage_Out
<1> QED
  BY <1>1, <1>2, <1>3

\* The host has taken the status, or the last packet of the data.
StatusTaken(e, d) ==
  /\ Differ(e, d, {"bot", "rx"}) /\ e.bot = "IDLE" /\ e.rx = "VALID"
DataTaken(e, d) ==
  /\ Differ(e, d, {"csw", "txbuf", "bot", "tx", "rx"})
  /\ e.csw.tag = d.csw.tag /\ e.csw.residue = d.csw.residue /\ e.csw.status = "PASSED"
  /\ e.txbuf = Status(e.csw) /\ e.bot = "CSW_SEND" /\ e.tx = "VALID" /\ e.rx = "VALID"

LEMMA InServes ==
  ASSUME NEW d, IsDevice(d)
  PROVE  /\ d.bot = "CSW_SEND" \/ d.bot = "ERROR" => StatusTaken(Mass_Storage_In(d), d)
         /\ d.bot = "DATA_IN" /\ d.cbw.op = "READ10" => Mass_Storage_In(d) = Read_Memory(d)
         /\ d.bot = "DATA_IN_LAST" => DataTaken(Mass_Storage_In(d), d)
         /\ /\ d.bot # "CSW_SEND" /\ d.bot # "ERROR" /\ d.bot # "DATA_IN_LAST"
            /\ ~(d.bot = "DATA_IN" /\ d.cbw.op = "READ10")
            => Mass_Storage_In(d) = d
<1>1. ASSUME d.bot = "CSW_SEND" \/ d.bot = "ERROR"
      PROVE  StatusTaken(Mass_Storage_In(d), d)
  <2>1. Mass_Storage_In(d) = [[d EXCEPT !.bot = "IDLE"] EXCEPT !.rx = "VALID"]
    BY <1>1 DEF Mass_Storage_In, OpenForCommand
  <2> QED
    BY <2>1 DEF StatusTaken, IsDevice, Differ, Fields
<1>2. d.bot = "DATA_IN" /\ d.cbw.op = "READ10" => Mass_Storage_In(d) = Read_Memory(d)
  BY DEF Mass_Storage_In
<1>3. ASSUME d.bot = "DATA_IN_LAST"
      PROVE  DataTaken(Mass_Storage_In(d), d)
  <2> DEFINE k == Set_CSW(d, "PASSED", TRUE)
             e == [k EXCEPT !.rx = "VALID"]
  <2>1. Mass_Storage_In(d) = e
    BY <1>3 DEF Mass_Storage_In, OpenForCommand, StatusAfterData
  <2>2. /\ Differ(k, d, {"csw", "txbuf", "bot", "tx"})
        /\ k.csw.tag = d.csw.tag /\ k.csw.residue = d.csw.residue /\ k.csw.status = "PASSED"
        /\ k.txbuf = Status(k.csw) /\ k.bot = "CSW_SEND" /\ k.tx = "VALID"
    BY AfterCswSent
  <2> HIDE DEF k
  <2>3. Differ(e, k, {"rx"}) /\ e.rx = "VALID"
    BY <2>2 DEF IsDevice, Differ, Fields
  <2> HIDE DEF e
  <2>4. /\ Differ(e, d, {"csw", "txbuf", "bot", "tx", "rx"})
        /\ e.csw = k.csw /\ e.txbuf = k.txbuf /\ e.bot = k.bot /\ e.tx = k.tx
    BY <2>2, <2>3 DEF Differ, Fields
  <2> QED
    BY <2>1, <2>2, <2>3, <2>4 DEF DataTaken
<1>4. ASSUME d.bot # "CSW_SEND", d.bot # "ERROR", d.bot # "DATA_IN_LAST",
             ~(d.bot = "DATA_IN" /\ d.cbw.op = "READ10")
      PROVE  Mass_Storage_In(d) = d
  BY <1>4 DEF Mass_Storage_In
<1> QED
  BY <1>1, <1>2, <1>3, <1>4

\* The control requests: only the endpoints, the signature and the state move.
LEMMA ClearHaltDoes ==
  ASSUME NEW d, IsDevice(d), NEW ep
  PROVE  LET e == ClearHalt(d, ep)
         IN  /\ Differ(e, d, {"tx", "rx"})
             /\ d.sig # "valid" => e.tx = "STALL" /\ e.rx = "STALL"
             /\ d.sig = "valid" /\ ep = "IN" =>
                  e.rx = d.rx /\ e.tx = IF d.tx = "STALL" THEN "VALID" ELSE d.tx
             /\ d.sig = "valid" /\ ep # "IN" =>
                  e.tx = d.tx /\ e.rx = IF d.rx = "STALL" THEN "VALID" ELSE d.rx
<1> DEFINE k == IF ep = "IN" THEN [d EXCEPT !.tx = IF @ = "STALL" THEN "VALID" ELSE @]
                ELSE [d EXCEPT !.rx = IF @ = "STALL" THEN "VALID" ELSE @]
           e == ClearHalt(d, ep)
<1>1. e = Mass_Storage_ClearFeature(k)
  BY DEF ClearHalt
<1>2. /\ Differ(k, d, {"tx", "rx"})
      /\ ep = "IN" => k.rx = d.rx /\ k.tx = IF d.tx = "STALL" THEN "VALID" ELSE d.tx
      /\ ep # "IN" => k.tx = d.tx /\ k.rx = IF d.rx = "STALL" THEN "VALID" ELSE d.rx
  BY DEF IsDevice, Differ, Fields
<1> HIDE DEF k, e
<1>3. IsDevice(k) /\ k.sig = d.sig
  BY <1>2 DEF Differ, Fields
<1>4. CASE d.sig = "valid"
  <2>1. e = k
    BY <1>1, <1>3, <1>4 DEF Mass_Storage_ClearFeature
  <2> QED
    BY <1>2, <1>4, <2>1 DEF e
<1>5. CASE d.sig # "valid"
  <2>1. e = Bot_Abort(k, "BOTH")
    BY <1>1, <1>3, <1>5 DEF Mass_Storage_ClearFeature
  <2>2. Differ(e, k, {"tx", "rx"}) /\ e.tx = "STALL" /\ e.rx = "STALL"
    BY <1>3, <2>1, AfterAbort
  <2>3. Differ(e, d, {"tx", "rx"})
    BY <1>2, <2>2 DEF Differ, Fields
  <2> QED
    BY <1>5, <2>2, <2>3 DEF e
<1> QED
  BY <1>4, <1>5

LEMMA PortsDo ==
  ASSUME NEW d, IsDevice(d)
  PROVE  /\ LET e == MASS_NoData_Setup(d)
            IN  Differ(e, d, {"sig", "bot"}) /\ e.sig = "valid" /\ e.bot = "IDLE"
         /\ LET e == MASS_Reset(d)
            IN  /\ Differ(e, d, {"tx", "txctr", "rx", "rxctr", "sig", "bot"})
                /\ e.tx = "NAK" /\ e.txctr = FALSE /\ e.rx = "VALID" /\ e.rxctr = FALSE
                /\ e.sig = "valid" /\ e.bot = "IDLE"
         /\ LET e == Taken(d)
            IN  Differ(e, d, {"tx", "txctr"}) /\ e.tx = "NAK" /\ e.txctr = TRUE
         /\ LET e == [d EXCEPT !.txctr = FALSE]
            IN  Differ(e, d, {"txctr"}) /\ e.txctr = FALSE
         /\ LET e == [d EXCEPT !.rxctr = FALSE]
            IN  Differ(e, d, {"rxctr"}) /\ e.rxctr = FALSE
<1>1. LET e == MASS_NoData_Setup(d)
      IN  Differ(e, d, {"sig", "bot"}) /\ e.sig = "valid" /\ e.bot = "IDLE"
  BY DEF MASS_NoData_Setup, IsDevice, Differ, Fields
<1>2. LET e == MASS_Reset(d)
      IN  /\ Differ(e, d, {"tx", "txctr", "rx", "rxctr", "sig", "bot"})
          /\ e.tx = "NAK" /\ e.txctr = FALSE /\ e.rx = "VALID" /\ e.rxctr = FALSE
          /\ e.sig = "valid" /\ e.bot = "IDLE"
  BY DEF MASS_Reset, IsDevice, Differ, Fields
<1>3. LET e == Taken(d)
      IN  Differ(e, d, {"tx", "txctr"}) /\ e.tx = "NAK" /\ e.txctr = TRUE
  BY DEF Taken, IsDevice, Differ, Fields
<1>4. LET e == [d EXCEPT !.txctr = FALSE]
      IN  Differ(e, d, {"txctr"}) /\ e.txctr = FALSE
  BY DEF IsDevice, Differ, Fields
<1>5. LET e == [d EXCEPT !.rxctr = FALSE]
      IN  Differ(e, d, {"rxctr"}) /\ e.rxctr = FALSE
  BY DEF IsDevice, Differ, Fields
<1> QED
  BY <1>1, <1>2, <1>3, <1>4, <1>5

LEMMA ReceiveDoes ==
  ASSUME NEW d, IsDevice(d), NEW packet
  PROVE  LET e == Receive(d, packet)
         IN  /\ Differ(e, d, {"rx", "rxbuf", "rxctr"})
             /\ e.rx = "NAK" /\ e.rxbuf = packet /\ e.rxctr = TRUE
  BY DEF Receive, IsDevice, Differ, Fields

-----------------------------------------------------------------------------
(* Types, in every state: after a cut transfer too.                          *)

BotStates == {"IDLE", "DATA_OUT", "DATA_IN", "DATA_IN_LAST", "CSW_SEND", "ERROR"}
PortStates == {"NAK", "VALID", "STALL"}
IsReply(packet) ==
  /\ packet.kind \in {"none", "csw", "data", "info"}
  /\ packet.kind \in {"data", "info"} => packet.size \in Nat

\* Every device but for the state of a transfer; and the whole.
Typed(d) ==
  /\ IsDevice(d) /\ DOMAIN d.buf = 1..PerBlock
  /\ d.bot \in BotStates /\ d.xfer \in {"IDLE", "ONGOING"} /\ d.sig \in {"valid", "bad"}
  /\ d.tx \in PortStates /\ d.rx \in PortStates
  /\ d.txctr \in BOOLEAN /\ d.rxctr \in BOOLEAN /\ d.mounted \in BOOLEAN
  /\ d.rOff \in 0..(Word - 1) /\ d.rLen \in 0..(Word - 1)
  /\ d.wOff \in 0..(Word - 1) /\ d.wLen \in 0..(Word - 1)
  /\ d.csw.residue \in 0..(Word - 1)
  /\ d.cbw \in FitBlocks
  /\ IsReply(d.txbuf)
Addressed(d) ==
  /\ d.bot = "DATA_IN" => AddressOk(d) /\ d.xfer = "ONGOING"
  /\ d.bot = "DATA_OUT" => AddressOk(d)

\* A device that differs in no counter and no buffer is typed as before.
Visible == {"bot", "sig", "csw", "txbuf", "tx", "rx", "txctr", "rxctr", "rxbuf", "mounted"}
LEMMA TypedFrame ==
  ASSUME NEW d, Typed(d), NEW e, Differ(e, d, Visible),
         e.bot \in BotStates, e.sig \in {"valid", "bad"}, e.tx \in PortStates, e.rx \in PortStates,
         e.txctr \in BOOLEAN, e.rxctr \in BOOLEAN, e.mounted \in BOOLEAN,
         e.csw.residue \in 0..(Word - 1), IsReply(e.txbuf)
  PROVE  Typed(e)
<1>1. /\ IsDevice(e) /\ e.buf = d.buf /\ e.xfer = d.xfer /\ e.cbw = d.cbw
      /\ e.rOff = d.rOff /\ e.rLen = d.rLen /\ e.wOff = d.wOff /\ e.wLen = d.wLen
  BY DEF Differ, Fields, Visible
<1> QED
  BY <1>1 DEF Typed

LEMMA Modulo ==
  ASSUME NEW x \in Int
  PROVE  x % Word \in 0..(Word - 1)
<1>1. Word \in Nat /\ Word > 0
  <2>1. BlockCount * BlockSize \in Nat
    BY MassAssumption
  <2> QED
    BY <2>1, MassAssumption
<1> QED
  BY <1>1

LEMMA AddressKept ==
  ASSUME NEW d, NEW e, e.cbw = d.cbw, e.mounted = d.mounted, AddressOk(d)
  PROVE  AddressOk(e)
  BY DEF AddressOk, Mass_Block_Count, Mass_Block_Size

\* The range of a fitting command that passed SCSI_Address_Management is on the card.
LEMMA AddressMeans ==
  ASSUME NEW d, d.cbw \in FitBlocks, AddressOk(d)
  PROVE  /\ d.cbw.lba + d.cbw.n <= Mass_Block_Count(d)
         /\ d.cbw.len = d.cbw.n * Mass_Block_Size(d)
<1> DEFINE x == d.cbw.lba + d.cbw.n
<1>1. x \in Nat /\ x < Word /\ Word \in Nat
  BY BlockTypes, MassAssumption
<1>2. x % Word <= Mass_Block_Count(d) /\ d.cbw.len = d.cbw.n * Mass_Block_Size(d)
  BY DEF AddressOk
<1> HIDE DEF x
<1>3. x % Word = x
  BY <1>1
<1> QED
  BY <1>2, <1>3 DEF x

\* It fits the counters.
LEMMA RangeFits ==
  ASSUME NEW d, d.cbw \in FitBlocks, d.mounted \in BOOLEAN, AddressOk(d)
  PROVE  /\ d.cbw.lba * Mass_Block_Size(d) \in 0..(Word - 1)
         /\ d.cbw.n * Mass_Block_Size(d) \in 0..(Word - 1)
<1>1. d.cbw.lba \in Nat /\ d.cbw.n \in Nat /\ BlockCount \in Nat /\ BlockSize \in Nat
      /\ Word \in Nat /\ Word > BlockCount * BlockSize
  BY BlockTypes, MassAssumption
<1>2. CASE d.mounted = TRUE
  <2> DEFINE l == d.cbw.lba
             n == d.cbw.n
  <2>1. l + n <= BlockCount /\ Mass_Block_Size(d) = BlockSize
    BY <1>2, AddressMeans DEF Mass_Block_Count, Mass_Block_Size
  <2>2. l \in Nat /\ n \in Nat
    BY <1>1
  <2> HIDE DEF l, n
  <2>3. (BlockCount - l) * BlockSize >= 0 /\ (BlockCount - n) * BlockSize >= 0
    BY <1>1, <2>1, <2>2
  <2>4. /\ (BlockCount - l) * BlockSize = BlockCount * BlockSize - l * BlockSize
        /\ (BlockCount - n) * BlockSize = BlockCount * BlockSize - n * BlockSize
        /\ l * BlockSize \in Nat /\ n * BlockSize \in Nat /\ BlockCount * BlockSize \in Nat
    BY <1>1, <2>2
  <2>5. l * BlockSize \in 0..(Word - 1) /\ n * BlockSize \in 0..(Word - 1)
    BY <1>1, <2>3, <2>4
  <2> QED
    BY <2>1, <2>5 DEF l, n
<1>3. CASE d.mounted = FALSE
  <2>1. Mass_Block_Size(d) = 0
    BY <1>3 DEF Mass_Block_Size
  <2>2. BlockCount * BlockSize >= 0
    BY <1>1
  <2> QED
    BY <1>1, <2>1, <2>2
<1> QED
  BY <1>2, <1>3

LEMMA TypedRead ==
  ASSUME NEW d, Typed(d), d.bot = "DATA_IN", AddressOk(d)
  PROVE  LET e == Read_Memory(d)
         IN  /\ Typed(e) /\ Addressed(e)
             /\ Differ(e, d, {"rOff", "rLen", "xfer", "brc", "boff", "buf", "txbuf", "tx", "csw", "bot"})
<1> DEFINE begun == IF d.xfer = "IDLE"
                    THEN [d EXCEPT !.rOff = (d.cbw.lba * Mass_Block_Size(d)) % Word,
                                   !.rLen = d.cbw.n * Mass_Block_Size(d),
                                   !.xfer = "ONGOING"]
                    ELSE d
           filled == IF begun.brc = 0
                     THEN [MAL_Read(begun, begun.rOff) EXCEPT
                             !.brc = (Mass_Block_Size(d) - PacketSize) % Word,
                             !.boff = PacketSize]
                     ELSE [begun EXCEPT !.brc = @ - PacketSize,
                                        !.boff = @ + PacketSize]
           piece == filled.boff \div PacketSize
           packet == Packet(IF piece \in 1..PerBlock THEN filled.buf[piece] ELSE Junk)
           sent  == [filled EXCEPT
                       !.txbuf = packet,
                       !.tx = "VALID",
                       !.rOff = OffsetAfter(@),
                       !.rLen = (@ - PacketSize) % Word,
                       !.csw = ResidueAfter(@, PacketSize)]
           final == IF sent.rLen = 0
                    THEN [sent EXCEPT !.brc = 0, !.boff = 0, !.rOff = 0,
                                      !.bot = "DATA_IN_LAST", !.xfer = "IDLE"]
                    ELSE sent
<1>1. Read_Memory(d) = final
  BY DEF Read_Memory
<1>2. PacketSize \in Nat \ {0} /\ Word \in Nat /\ Word > 0
  <2>1. BlockCount * BlockSize \in Nat
    BY MassAssumption
  <2> QED
    BY <2>1, MassAssumption
<1>3. /\ Differ(begun, d, {"rOff", "rLen", "xfer"}) /\ begun.xfer = "ONGOING"
      /\ begun.rOff \in 0..(Word - 1) /\ begun.rLen \in 0..(Word - 1)
  <2>1. CASE d.xfer = "IDLE"
    <3> DEFINE x == (d.cbw.lba * Mass_Block_Size(d)) % Word
               y == d.cbw.n * Mass_Block_Size(d)
    <3>1. x \in 0..(Word - 1) /\ y \in 0..(Word - 1)
      <4>1. d.cbw.lba * Mass_Block_Size(d) \in Int /\ y \in 0..(Word - 1)
        BY RangeFits DEF Typed
      <4> QED
        BY <4>1, Modulo
    <3>2. begun = [d EXCEPT !.rOff = x, !.rLen = y, !.xfer = "ONGOING"]
      BY <2>1
    <3> HIDE DEF x, y, begun
    <3> QED
      BY <3>1, <3>2 DEF Typed, IsDevice, Differ, Fields
  <2>2. CASE d.xfer = "ONGOING"
    BY <2>2 DEF Typed, Differ
  <2> QED
    BY <2>1, <2>2 DEF Typed
<1> HIDE DEF begun
<1>4. Differ(filled, begun, {"buf", "brc", "boff"}) /\ DOMAIN filled.buf = 1..PerBlock
  <2>1. IsDevice(begun) /\ DOMAIN begun.buf = 1..PerBlock
    BY <1>3 DEF Typed, Differ, Fields
  <2> DEFINE m == MAL_Read(begun, begun.rOff)
  <2>2. Differ(m, begun, {"buf"}) /\ DOMAIN m.buf = 1..PerBlock
    BY <2>1 DEF MAL_Read, IsDevice, Differ, Fields
  <2> HIDE DEF m
  <2>3. CASE begun.brc = 0
    <3>1. filled = [m EXCEPT !.brc = (Mass_Block_Size(d) - PacketSize) % Word, !.boff = PacketSize]
      BY <2>3 DEF m
    <3> HIDE DEF filled
    <3>2. Differ(filled, m, {"brc", "boff"})
      BY <2>2, <3>1 DEF IsDevice, Differ, Fields
    <3> QED
      BY <2>2, <3>2 DEF Differ, Fields
  <2>4. CASE begun.brc # 0
    <3>1. filled = [begun EXCEPT !.brc = @ - PacketSize, !.boff = @ + PacketSize]
      BY <2>4
    <3> HIDE DEF filled
    <3> QED
      BY <2>1, <3>1 DEF IsDevice, Differ, Fields
  <2> QED
    BY <2>3, <2>4
<1> HIDE DEF filled
<1>5. /\ Differ(filled, d, {"rOff", "rLen", "xfer", "buf", "brc", "boff"}) /\ filled.xfer = "ONGOING"
      /\ filled.rOff \in 0..(Word - 1) /\ filled.rLen \in 0..(Word - 1) /\ filled.csw = d.csw
  BY <1>3, <1>4 DEF Differ, Fields
<1>6. IsReply(packet)
  BY <1>2 DEF IsReply, Packet
<1> HIDE DEF packet, piece
<1>7. /\ OffsetAfter(filled.rOff) \in 0..(Word - 1)
      /\ (filled.rLen - PacketSize) % Word \in 0..(Word - 1)
      /\ (d.csw.residue - PacketSize) % Word \in 0..(Word - 1)
  <2>1. /\ filled.rOff + PacketSize \in Int /\ filled.rLen - PacketSize \in Int
        /\ d.csw.residue - PacketSize \in Int
    BY <1>2, <1>5 DEF Typed
  <2> QED
    BY <2>1, Modulo DEF OffsetAfter
<1>8. /\ Differ(sent, filled, {"txbuf", "tx", "rOff", "rLen", "csw"})
      /\ sent.txbuf = packet /\ sent.tx = "VALID"
      /\ sent.rOff = OffsetAfter(filled.rOff) /\ sent.rLen = (filled.rLen - PacketSize) % Word
      /\ sent.csw.residue = (filled.csw.residue - PacketSize) % Word
  BY <1>5 DEF IsDevice, Differ, Fields, ResidueAfter
<1> HIDE DEF sent
<1>9. /\ Differ(sent, d, {"rOff", "rLen", "xfer", "brc", "boff", "buf", "txbuf", "tx", "csw"})
      /\ sent.xfer = "ONGOING" /\ sent.buf = filled.buf
  BY <1>5, <1>8 DEF Differ, Fields
<1>10. CASE sent.rLen = 0
  <2>1. final = [sent EXCEPT !.brc = 0, !.boff = 0, !.rOff = 0, !.bot = "DATA_IN_LAST", !.xfer = "IDLE"]
    BY <1>10
  <2> HIDE DEF final
  <2>2. /\ Differ(final, sent, {"brc", "boff", "rOff", "bot", "xfer"})
        /\ final.bot = "DATA_IN_LAST" /\ final.xfer = "IDLE" /\ final.rOff = 0
    BY <1>9, <2>1 DEF IsDevice, Differ, Fields
  <2>3. /\ Differ(final, d, {"rOff", "rLen", "xfer", "brc", "boff", "buf", "txbuf", "tx", "csw", "bot"})
        /\ final.csw = sent.csw /\ final.txbuf = sent.txbuf /\ final.tx = sent.tx /\ final.buf = sent.buf
        /\ final.rLen = sent.rLen
    BY <1>9, <2>2 DEF Differ, Fields
  <2>4. /\ final.cbw = d.cbw /\ final.sig = d.sig /\ final.rx = d.rx /\ final.txctr = d.txctr
        /\ final.rxctr = d.rxctr /\ final.mounted = d.mounted /\ final.wOff = d.wOff /\ final.wLen = d.wLen
        /\ IsDevice(final)
    BY <2>3 DEF Differ, Fields
  <2>5. Typed(final)
    BY <1>2, <1>4, <1>5, <1>6, <1>7, <1>8, <1>9, <2>2, <2>3, <2>4 DEF Typed, BotStates, PortStates
  <2>6. Addressed(final)
    BY <2>2 DEF Addressed
  <2> QED
    BY <1>1, <2>3, <2>5, <2>6
<1>11. CASE sent.rLen # 0
  <2>1. final = sent
    BY <1>11
  <2> HIDE DEF final
  <2>3. Differ(final, d, {"rOff", "rLen", "xfer", "brc", "boff", "buf", "txbuf", "tx", "csw", "bot"})
    BY <1>9, <2>1 DEF Differ, Fields
  <2>4. /\ final.cbw = d.cbw /\ final.sig = d.sig /\ final.rx = d.rx /\ final.txctr = d.txctr
        /\ final.rxctr = d.rxctr /\ final.mounted = d.mounted /\ final.wOff = d.wOff /\ final.wLen = d.wLen
        /\ IsDevice(final) /\ final.bot = d.bot
    BY <1>9, <2>1 DEF Differ, Fields
  <2>5. Typed(final)
    BY <1>2, <1>4, <1>5, <1>6, <1>7, <1>8, <1>9, <2>1, <2>4 DEF Typed, BotStates, PortStates
  <2>6. Addressed(final)
    BY <1>9, <2>1, <2>4, AddressKept DEF Addressed
  <2> QED
    BY <1>1, <2>3, <2>5, <2>6
<1> QED
  BY <1>10, <1>11

LEMMA TypedWrite ==
  ASSUME NEW d, Typed(d), d.bot = "DATA_OUT", AddressOk(d)
  PROVE  LET e == Write_Memory(d)
         IN  /\ Typed(e) /\ Addressed(e)
             /\ Differ(e, d, {"wOff", "wLen", "xfer", "buf", "cnt", "card", "csw", "rx", "bot", "txbuf", "tx"})
<1> DEFINE begun == IF d.xfer = "IDLE"
                    THEN [d EXCEPT !.wOff = (d.cbw.lba * Mass_Block_Size(d)) % Word,
                                   !.wLen = d.cbw.n * Mass_Block_Size(d),
                                   !.xfer = "ONGOING"]
                    ELSE d
           slot   == begun.cnt \div PacketSize + 1
           filled == [begun EXCEPT !.buf[slot] = d.rxbuf.val,
                                   !.cnt = @ + PacketSize,
                                   !.wOff = OffsetAfter(@),
                                   !.wLen = (@ - PacketSize) % Word]
           flushed == IF BlockIsComplete(filled)
                      THEN MAL_Write(Rewound(filled), BlockStart(filled))
                      ELSE filled
           taken == [flushed EXCEPT
                       !.csw = ResidueAfter(@, PacketSize),
                       !.rx = "VALID"]
           zero  == [taken EXCEPT !.cnt = 0]
           sent  == Set_CSW(zero, "PASSED", TRUE)
           final == IF taken.wLen = 0 THEN [sent EXCEPT !.xfer = "IDLE"] ELSE taken
<1>1. Write_Memory(d) = final
  BY DEF Write_Memory
<1>2. PacketSize \in Nat \ {0} /\ Word \in Nat /\ Word > 0
  <2>1. BlockCount * BlockSize \in Nat
    BY MassAssumption
  <2> QED
    BY <2>1, MassAssumption
<1>3. /\ Differ(begun, d, {"wOff", "wLen", "xfer"}) /\ begun.xfer = "ONGOING"
      /\ begun.wOff \in 0..(Word - 1) /\ begun.wLen \in 0..(Word - 1)
  <2>1. CASE d.xfer = "IDLE"
    <3> DEFINE x == (d.cbw.lba * Mass_Block_Size(d)) % Word
               y == d.cbw.n * Mass_Block_Size(d)
    <3>1. x \in 0..(Word - 1) /\ y \in 0..(Word - 1)
      <4>1. d.cbw.lba * Mass_Block_Size(d) \in Int /\ y \in 0..(Word - 1)
        BY RangeFits DEF Typed
      <4> QED
        BY <4>1, Modulo
    <3>2. begun = [d EXCEPT !.wOff = x, !.wLen = y, !.xfer = "ONGOING"]
      BY <2>1
    <3> HIDE DEF x, y, begun
    <3> QED
      BY <3>1, <3>2 DEF Typed, IsDevice, Differ, Fields
  <2>2. CASE d.xfer = "ONGOING"
    BY <2>2 DEF Typed, Differ
  <2> QED
    BY <2>1, <2>2 DEF Typed
<1> HIDE DEF begun, slot
<1>4. IsDevice(begun) /\ DOMAIN begun.buf = 1..PerBlock
  BY <1>3 DEF Typed, Differ, Fields
<1>5. /\ Differ(filled, begun, {"buf", "cnt", "wOff", "wLen"}) /\ DOMAIN filled.buf = 1..PerBlock
      /\ filled.wOff = OffsetAfter(begun.wOff) /\ filled.wLen = (begun.wLen - PacketSize) % Word
  BY <1>4 DEF IsDevice, Differ, Fields
<1> HIDE DEF filled
<1>6. filled.wOff \in 0..(Word - 1) /\ filled.wLen \in 0..(Word - 1)
  <2>1. begun.wOff + PacketSize \in Int /\ begun.wLen - PacketSize \in Int
    BY <1>2, <1>3
  <2> QED
    BY <1>5, <2>1, Modulo DEF OffsetAfter
<1>7. Differ(filled, d, {"wOff", "wLen", "xfer", "buf", "cnt"}) /\ filled.xfer = "ONGOING"
  BY <1>3, <1>5 DEF Differ, Fields
<1>8. /\ Differ(flushed, d, {"wOff", "wLen", "xfer", "buf", "cnt", "card"}) /\ flushed.xfer = "ONGOING"
      /\ flushed.buf = filled.buf /\ flushed.wOff = filled.wOff /\ flushed.wLen = filled.wLen
  <2>1. CASE ~BlockIsComplete(filled)
    <3>1. flushed = filled
      BY <2>1
    <3> QED
      BY <1>7, <3>1 DEF Differ, Fields
  <2>2. CASE BlockIsComplete(filled)
    <3> DEFINE m == Rewound(filled)
    <3>1. Differ(m, filled, {"cnt"})
      BY <1>7 DEF Rewound, IsDevice, Differ, Fields
    <3>2. flushed = MAL_Write(m, BlockStart(filled))
      BY <2>2
    <3> HIDE DEF m, flushed
    <3>3. Differ(flushed, m, {"card"})
      BY <3>1, <3>2 DEF MAL_Write, IsDevice, Differ, Fields
    <3> QED
      BY <1>7, <3>1, <3>3 DEF Differ, Fields
  <2> QED
    BY <2>1, <2>2
<1> HIDE DEF flushed
<1>9. Differ(taken, flushed, {"csw", "rx"}) /\ taken.rx = "VALID"
      /\ taken.csw.residue = (flushed.csw.residue - PacketSize) % Word
  BY <1>8 DEF IsDevice, Differ, Fields, ResidueAfter
<1> HIDE DEF taken
<1>10. /\ Differ(taken, d, {"wOff", "wLen", "xfer", "buf", "cnt", "card", "csw", "rx"})
       /\ taken.xfer = "ONGOING" /\ taken.buf = filled.buf
       /\ taken.wOff = filled.wOff /\ taken.wLen = filled.wLen /\ flushed.csw = d.csw
  BY <1>8, <1>9 DEF Differ, Fields
<1>11. taken.csw.residue \in 0..(Word - 1)
  <2>1. d.csw.residue - PacketSize \in Int
    BY <1>2 DEF Typed
  <2> QED
    BY <1>9, <1>10, <2>1, Modulo
<1>12. CASE taken.wLen = 0
  <2>1. final = [sent EXCEPT !.xfer = "IDLE"]
    BY <1>12
  <2> HIDE DEF final
  <2>2. Differ(zero, taken, {"cnt"})
    BY <1>10 DEF IsDevice, Differ, Fields
  <2> HIDE DEF zero
  <2>3. IsDevice(zero)
    BY <2>2 DEF Differ
  <2>4. /\ Differ(sent, zero, {"csw", "txbuf", "bot", "tx"})
        /\ sent.csw.residue = zero.csw.residue
        /\ sent.txbuf = Status(sent.csw) /\ sent.bot = "CSW_SEND" /\ sent.tx = "VALID"
    BY <2>3, AfterCswSent
  <2> HIDE DEF sent
  <2>5. Differ(final, sent, {"xfer"}) /\ final.xfer = "IDLE"
    BY <2>1, <2>4 DEF IsDevice, Differ, Fields
  <2>6. /\ Differ(final, d, {"wOff", "wLen", "xfer", "buf", "cnt", "card", "csw", "rx", "bot", "txbuf", "tx"})
        /\ final.buf = taken.buf /\ final.wOff = taken.wOff /\ final.wLen = taken.wLen
        /\ final.csw = sent.csw /\ zero.csw = taken.csw /\ final.rx = taken.rx /\ final.bot = sent.bot
        /\ final.txbuf = sent.txbuf /\ final.tx = sent.tx
    BY <1>10, <2>2, <2>4, <2>5 DEF Differ, Fields
  <2>7. /\ final.cbw = d.cbw /\ final.sig = d.sig /\ final.txctr = d.txctr
        /\ final.rxctr = d.rxctr /\ final.mounted = d.mounted /\ final.rOff = d.rOff /\ final.rLen = d.rLen
        /\ IsDevice(final)
    BY <2>6 DEF Differ, Fields
  <2>8. IsReply(sent.txbuf)
    BY <2>4 DEF IsReply, Status
  <2>9. Typed(final)
    BY <1>5, <1>6, <1>9, <1>10, <1>11, <2>4, <2>5, <2>6, <2>7, <2>8 DEF Typed, BotStates, PortStates
  <2>10. Addressed(final)
    BY <2>4, <2>6 DEF Addressed
  <2> QED
    BY <1>1, <2>6, <2>9, <2>10
<1>13. CASE taken.wLen # 0
  <2>1. final = taken
    BY <1>13
  <2> HIDE DEF final
  <2>2. Differ(final, d, {"wOff", "wLen", "xfer", "buf", "cnt", "card", "csw", "rx", "bot", "txbuf", "tx"})
    BY <1>10, <2>1 DEF Differ, Fields
  <2>3. /\ final.cbw = d.cbw /\ final.sig = d.sig /\ final.txctr = d.txctr /\ final.tx = d.tx
        /\ final.rxctr = d.rxctr /\ final.mounted = d.mounted /\ final.rOff = d.rOff /\ final.rLen = d.rLen
        /\ final.bot = d.bot /\ final.txbuf = d.txbuf /\ IsDevice(final)
    BY <1>10, <2>1 DEF Differ, Fields
  <2>4. Typed(final)
    BY <1>5, <1>6, <1>9, <1>10, <1>11, <2>1, <2>3 DEF Typed, BotStates, PortStates
  <2>5. Addressed(final)
    BY <2>3, AddressKept DEF Addressed
  <2> QED
    BY <1>1, <2>2, <2>4, <2>5
<1> QED
  BY <1>12, <1>13

LEMMA TypedServed ==
  ASSUME NEW m, Typed(m), m.bot = "IDLE", NEW e, Served(e, m)
  PROVE  Typed(e) /\ Addressed(e)
<1>0. /\ IsDevice(m) /\ m.sig \in {"valid", "bad"} /\ m.tx \in PortStates /\ m.rx \in PortStates
      /\ m.txctr \in BOOLEAN /\ m.rxctr \in BOOLEAN /\ m.mounted \in BOOLEAN
      /\ m.csw.residue \in 0..(Word - 1) /\ IsReply(m.txbuf) /\ m.cbw \in FitBlocks
  BY DEF Typed
<1>a. IsReply(Status(e.csw))
  BY DEF IsReply, Status
<1>1. ASSUME Refused(e, m) \/ WrongWay(e, m)
      PROVE  Typed(e) /\ Addressed(e)
  <2>1. /\ Differ(e, m, {"csw", "txbuf", "bot", "tx", "rx"}) /\ e.csw.residue = m.csw.residue
        /\ e.txbuf = Status(e.csw) /\ e.bot \in {"ERROR", "CSW_SEND"} /\ e.tx \in PortStates
        /\ e.rx = m.rx \/ e.rx = "STALL"
    BY <1>1 DEF Refused, WrongWay, PortStates
  <2>2. /\ Differ(e, m, Visible) /\ e.sig = m.sig /\ e.txctr = m.txctr /\ e.rxctr = m.rxctr
        /\ e.mounted = m.mounted
    BY <2>1 DEF Differ, Fields, Visible
  <2>3. e.rx \in PortStates /\ e.bot \in BotStates
    BY <1>0, <2>1 DEF PortStates, BotStates
  <2>4. Typed(e)
    BY <1>0, <1>a, <2>1, <2>2, <2>3, TypedFrame
  <2>5. Addressed(e)
    BY <2>1 DEF Addressed
  <2> QED
    BY <2>4, <2>5
<1>2. ASSUME AnsweredAtOnce(e, m)
      PROVE  Typed(e) /\ Addressed(e)
  <2>1. /\ Differ(e, m, {"csw", "txbuf", "bot", "tx", "mounted"}) /\ e.csw.residue = m.csw.residue
        /\ e.txbuf = Status(e.csw) /\ e.bot = "CSW_SEND" /\ e.tx = "VALID" /\ e.mounted \in BOOLEAN
    BY <1>0, <1>2 DEF AnsweredAtOnce
  <2>2. Differ(e, m, Visible) /\ e.sig = m.sig /\ e.txctr = m.txctr /\ e.rxctr = m.rxctr /\ e.rx = m.rx
    BY <2>1 DEF Differ, Fields, Visible
  <2>3. e.tx \in PortStates /\ e.bot \in BotStates
    BY <2>1 DEF PortStates, BotStates
  <2>4. Typed(e)
    BY <1>0, <1>a, <2>1, <2>2, <2>3, TypedFrame
  <2>5. Addressed(e)
    BY <2>1 DEF Addressed
  <2> QED
    BY <2>4, <2>5
<1>3. ASSUME NEW length \in 0..InfoLength, ReplyPrepared(e, m, length)
      PROVE  Typed(e) /\ Addressed(e)
  <2>1. /\ Differ(e, m, {"csw", "txbuf", "bot", "tx", "mounted"})
        /\ e.csw.residue = (m.csw.residue - length) % Word
        /\ e.txbuf = Info(length) /\ e.bot = "DATA_IN_LAST" /\ e.tx = "VALID" /\ e.mounted \in BOOLEAN
    BY <1>0, <1>3 DEF ReplyPrepared
  <2>2. Differ(e, m, Visible) /\ e.sig = m.sig /\ e.txctr = m.txctr /\ e.rxctr = m.rxctr /\ e.rx = m.rx
    BY <2>1 DEF Differ, Fields, Visible
  <2>3. e.tx \in PortStates /\ e.bot \in BotStates
    BY <2>1 DEF PortStates, BotStates
  <2>4. IsReply(e.txbuf)
    BY <2>1, MassAssumption DEF IsReply, Info
  <2>5. e.csw.residue \in 0..(Word - 1)
    <3>1. m.csw.residue - length \in Int
      BY <1>0, MassAssumption
    <3> QED
      BY <2>1, <3>1, Modulo
  <2>6. Typed(e)
    BY <1>0, <2>1, <2>2, <2>3, <2>4, <2>5, TypedFrame
  <2>7. Addressed(e)
    BY <2>1 DEF Addressed
  <2> QED
    BY <2>6, <2>7
<1>4. ASSUME NEW r, ReadBegun(e, m, r)
      PROVE  Typed(e) /\ Addressed(e)
  <2>1. Differ(r, m, {"bot"}) /\ r.bot = "DATA_IN" /\ AddressOk(m) /\ e = Read_Memory(r)
    BY <1>4 DEF ReadBegun
  <2>2. /\ Differ(r, m, Visible) /\ r.sig = m.sig /\ r.txctr = m.txctr /\ r.rxctr = m.rxctr
        /\ r.tx = m.tx /\ r.rx = m.rx /\ r.mounted = m.mounted /\ r.csw = m.csw /\ r.txbuf = m.txbuf
        /\ r.cbw = m.cbw
    BY <2>1 DEF Differ, Fields, Visible
  <2>3. r.bot \in BotStates
    BY <2>1 DEF BotStates
  <2>4. Typed(r)
    BY <1>0, <2>2, <2>3, TypedFrame
  <2>5. AddressOk(r)
    BY <2>1, <2>2, AddressKept
  <2> QED
    BY <2>1, <2>4, <2>5, TypedRead
<1>5. ASSUME WriteBegun(e, m)
      PROVE  Typed(e) /\ Addressed(e)
  <2>1. Differ(e, m, {"bot", "rx"}) /\ e.bot = "DATA_OUT" /\ e.rx = "VALID" /\ AddressOk(m)
    BY <1>5 DEF WriteBegun
  <2>2. /\ Differ(e, m, Visible) /\ e.sig = m.sig /\ e.txctr = m.txctr /\ e.rxctr = m.rxctr
        /\ e.tx = m.tx /\ e.mounted = m.mounted /\ e.csw = m.csw /\ e.txbuf = m.txbuf /\ e.cbw = m.cbw
    BY <2>1 DEF Differ, Fields, Visible
  <2>3. e.rx \in PortStates /\ e.bot \in BotStates
    BY <2>1 DEF PortStates, BotStates
  <2>4. Typed(e)
    BY <1>0, <2>2, <2>3, TypedFrame
  <2>5. Addressed(e)
    BY <2>1, <2>2, AddressKept DEF Addressed
  <2> QED
    BY <2>4, <2>5
<1>6. ASSUME Ignored(e, m)
      PROVE  Typed(e) /\ Addressed(e)
  <2>1. Differ(e, m, {"mounted"}) /\ e.mounted \in BOOLEAN
    BY <1>6 DEF Ignored
  <2>2. /\ Differ(e, m, Visible) /\ e.sig = m.sig /\ e.txctr = m.txctr /\ e.rxctr = m.rxctr
        /\ e.tx = m.tx /\ e.rx = m.rx /\ e.csw = m.csw /\ e.txbuf = m.txbuf /\ e.bot = m.bot
    BY <2>1 DEF Differ, Fields, Visible
  <2>3. e.bot \in BotStates /\ e.bot = "IDLE"
    BY <2>2 DEF BotStates
  <2>4. Typed(e)
    BY <1>0, <2>1, <2>2, <2>3, TypedFrame
  <2>5. Addressed(e)
    BY <2>3 DEF Addressed
  <2> QED
    BY <2>4, <2>5
<1> QED
  BY <1>1, <1>2, <1>3, <1>4, <1>5, <1>6 DEF Served

LEMMA TypedDecode ==
  ASSUME NEW d, Typed(d), d.bot = "IDLE", WrapperIn(d) \in FitBlocks
  PROVE  Typed(CBW_Decode(d)) /\ Addressed(CBW_Decode(d))
<1> DEFINE e == CBW_Decode(d)
           block == WrapperIn(d)
<1>1. IsDevice(d)
  BY DEF Typed
<1>2. PICK m : WrapperServed(e, d, m)
  BY <1>1, DecodeServes
<1> HIDE DEF e, block
<1>3. /\ Decoded(m, d, block) /\ block \in FitBlocks
      /\ block.form = "ok" => Served(e, m)
      /\ block.form # "ok" => Refused(e, m)
  BY <1>2 DEF WrapperServed, block
<1>4. /\ Differ(m, d, {"cbw", "sig", "csw"}) /\ m.cbw = block /\ m.csw.residue = block.len
      /\ m.sig \in {"valid", "bad"}
  BY <1>3 DEF Decoded
<1>5. /\ IsDevice(m) /\ m.buf = d.buf /\ m.bot = d.bot /\ m.xfer = d.xfer /\ m.tx = d.tx /\ m.rx = d.rx
      /\ m.txctr = d.txctr /\ m.rxctr = d.rxctr /\ m.mounted = d.mounted
      /\ m.rOff = d.rOff /\ m.rLen = d.rLen /\ m.wOff = d.wOff /\ m.wLen = d.wLen /\ m.txbuf = d.txbuf
  BY <1>4 DEF Differ, Fields
<1>6. block.len \in 0..(Word - 1)
  BY <1>3, BlockTypes
<1>7. Typed(m)
  BY <1>3, <1>4, <1>5, <1>6 DEF Typed
<1>8. Served(e, m)
  BY <1>3 DEF Served
<1> QED
  BY <1>5, <1>7, <1>8, TypedServed DEF e

LEMMA TypedOut ==
  ASSUME NEW d, Typed(d), Addressed(d), WrapperIn(d) \in FitBlocks
  PROVE  Typed(Mass_Storage_Out(d)) /\ Addressed(Mass_Storage_Out(d))
<1> DEFINE e == Mass_Storage_Out(d)
<1>1. IsDevice(d)
  BY DEF Typed
<1>2. CASE d.bot = "IDLE"
  BY <1>1, <1>2, OutServes, TypedDecode
<1>3. CASE d.bot = "DATA_OUT" /\ d.cbw.op = "WRITE10"
  <2>1. AddressOk(d)
    BY <1>3 DEF Addressed
  <2> QED
    BY <1>1, <1>3, <2>1, OutServes, TypedWrite
<1>4. CASE d.bot # "IDLE" /\ ~(d.bot = "DATA_OUT" /\ d.cbw.op = "WRITE10")
  <2>1. PhaseError(e, d)
    BY <1>1, <1>4, OutServes
  <2> HIDE DEF e
  <2>2. /\ Differ(e, d, {"csw", "txbuf", "bot", "tx", "rx"}) /\ e.csw.residue = d.csw.residue
        /\ e.txbuf = Status(e.csw) /\ e.bot = "ERROR" /\ e.rx = "STALL"
        /\ e.tx = d.tx \/ e.tx = "STALL"
    BY <2>1 DEF PhaseError
  <2>3. /\ Differ(e, d, Visible) /\ e.sig = d.sig /\ e.txctr = d.txctr /\ e.rxctr = d.rxctr
        /\ e.mounted = d.mounted
    BY <2>2 DEF Differ, Fields, Visible
  <2>4. e.bot \in BotStates /\ e.rx \in PortStates /\ e.tx \in PortStates
    BY <2>2 DEF BotStates, PortStates, Typed
  <2>5. IsReply(e.txbuf)
    BY <2>2 DEF IsReply, Status
  <2>6. e.sig \in {"valid", "bad"} /\ e.txctr \in BOOLEAN /\ e.rxctr \in BOOLEAN
        /\ e.mounted \in BOOLEAN /\ e.csw.residue \in 0..(Word - 1)
    BY <2>2, <2>3 DEF Typed
  <2>7. Typed(e)
    BY <2>3, <2>4, <2>5, <2>6, TypedFrame
  <2>8. Addressed(e)
    BY <2>2 DEF Addressed
  <2> QED
    BY <2>7, <2>8 DEF e
<1> QED
  BY <1>2, <1>3, <1>4

LEMMA TypedIn ==
  ASSUME NEW d, Typed(d), Addressed(d)
  PROVE  Typed(Mass_Storage_In(d)) /\ Addressed(Mass_Storage_In(d))
<1> DEFINE e == Mass_Storage_In(d)
<1>1. IsDevice(d)
  BY DEF Typed
<1>a. /\ d.sig \in {"valid", "bad"} /\ d.tx \in PortStates /\ d.txctr \in BOOLEAN /\ d.rxctr \in BOOLEAN
      /\ d.mounted \in BOOLEAN /\ d.csw.residue \in 0..(Word - 1) /\ IsReply(d.txbuf)
  BY DEF Typed
<1>2. CASE d.bot = "CSW_SEND" \/ d.bot = "ERROR"
  <2>1. StatusTaken(e, d)
    BY <1>1, <1>2, InServes
  <2> HIDE DEF e
  <2>2. Differ(e, d, {"bot", "rx"}) /\ e.bot = "IDLE" /\ e.rx = "VALID"
    BY <2>1 DEF StatusTaken
  <2>3. /\ Differ(e, d, Visible) /\ e.sig = d.sig /\ e.txctr = d.txctr /\ e.rxctr = d.rxctr
        /\ e.mounted = d.mounted /\ e.tx = d.tx /\ e.csw = d.csw /\ e.txbuf = d.txbuf
    BY <2>2 DEF Differ, Fields, Visible
  <2>4. e.bot \in BotStates /\ e.rx \in PortStates
    BY <2>2 DEF BotStates, PortStates
  <2>5. Typed(e)
    BY <1>a, <2>3, <2>4, TypedFrame
  <2>6. Addressed(e)
    BY <2>2 DEF Addressed
  <2> QED
    BY <2>5, <2>6 DEF e
<1>3. CASE d.bot = "DATA_IN" /\ d.cbw.op = "READ10"
  <2>1. AddressOk(d)
    BY <1>3 DEF Addressed
  <2> QED
    BY <1>1, <1>3, <2>1, InServes, TypedRead
<1>4. CASE d.bot = "DATA_IN_LAST"
  <2>1. DataTaken(e, d)
    BY <1>1, <1>4, InServes
  <2> HIDE DEF e
  <2>2. /\ Differ(e, d, {"csw", "txbuf", "bot", "tx", "rx"}) /\ e.csw.residue = d.csw.residue
        /\ e.txbuf = Status(e.csw) /\ e.bot = "CSW_SEND" /\ e.rx = "VALID" /\ e.tx = "VALID"
    BY <2>1 DEF DataTaken
  <2>3. /\ Differ(e, d, Visible) /\ e.sig = d.sig /\ e.txctr = d.txctr /\ e.rxctr = d.rxctr
        /\ e.mounted = d.mounted
    BY <2>2 DEF Differ, Fields, Visible
  <2>4. e.bot \in BotStates /\ e.rx \in PortStates /\ e.tx \in PortStates
    BY <2>2 DEF BotStates, PortStates
  <2>5. IsReply(e.txbuf)
    BY <2>2 DEF IsReply, Status
  <2>6. Typed(e)
    BY <1>a, <2>2, <2>3, <2>4, <2>5, TypedFrame
  <2>7. Addressed(e)
    BY <2>2 DEF Addressed
  <2> QED
    BY <2>6, <2>7 DEF e
<1>5. CASE /\ d.bot # "CSW_SEND" /\ d.bot # "ERROR" /\ d.bot # "DATA_IN_LAST"
           /\ ~(d.bot = "DATA_IN" /\ d.cbw.op = "READ10")
  BY <1>1, <1>5, InServes
<1> QED
  BY <1>2, <1>3, <1>4, <1>5

\* The OUT handler only reads its buffer; the card changes in the data stage of a write.
LEMMA OutKeepsBuffer ==
  ASSUME NEW d, Typed(d), Addressed(d), WrapperIn(d) \in FitBlocks
  PROVE  /\ Mass_Storage_Out(d).rxbuf = d.rxbuf
         /\ d.bot # "DATA_OUT" => Mass_Storage_Out(d).card = d.card
<1> DEFINE e == Mass_Storage_Out(d)
<1>1. IsDevice(d)
  BY DEF Typed
<1>2. CASE d.bot = "IDLE"
  <2>1. e = CBW_Decode(d)
    BY <1>1, <1>2, OutServes
  <2>2. PICK m : WrapperServed(CBW_Decode(d), d, m)
    BY <1>1, DecodeServes
  <2> HIDE DEF e
  <2>3. Decoded(m, d, WrapperIn(d)) /\ Served(e, m)
    BY <2>1, <2>2 DEF WrapperServed, Served
  <2>4. Differ(m, d, {"cbw", "sig", "csw"}) /\ m.cbw = WrapperIn(d) /\ m.csw.residue = WrapperIn(d).len
        /\ m.sig \in {"valid", "bad"}
    BY <2>3 DEF Decoded
  <2>5. m.rxbuf = d.rxbuf /\ m.card = d.card
    BY <2>4 DEF Differ, Fields
  <2>6. ASSUME NEW r, ReadBegun(e, m, r)  PROVE e.rxbuf = m.rxbuf /\ e.card = m.card
    <3>1. Differ(r, m, {"bot"}) /\ r.bot = "DATA_IN" /\ AddressOk(m) /\ e = Read_Memory(r)
      BY <2>6 DEF ReadBegun
    <3>2. /\ IsDevice(m) /\ m.buf = d.buf /\ m.xfer = d.xfer /\ m.tx = d.tx /\ m.rx = d.rx
          /\ m.txctr = d.txctr /\ m.rxctr = d.rxctr /\ m.mounted = d.mounted /\ m.bot = d.bot
          /\ m.rOff = d.rOff /\ m.rLen = d.rLen /\ m.wOff = d.wOff /\ m.wLen = d.wLen /\ m.txbuf = d.txbuf
      BY <2>4 DEF Differ, Fields
    <3>3. WrapperIn(d).len \in 0..(Word - 1)
      BY BlockTypes
    <3>4. Typed(m)
      BY <2>4, <3>2, <3>3 DEF Typed
    <3>5. /\ Differ(r, m, Visible) /\ r.sig = m.sig /\ r.txctr = m.txctr /\ r.rxctr = m.rxctr
          /\ r.tx = m.tx /\ r.rx = m.rx /\ r.mounted = m.mounted /\ r.csw = m.csw /\ r.txbuf = m.txbuf
          /\ r.cbw = m.cbw /\ r.rxbuf = m.rxbuf /\ r.card = m.card
      BY <3>1 DEF Differ, Fields, Visible
    <3>6. r.bot \in BotStates
      BY <3>1 DEF BotStates
    <3>7. Typed(r)
      BY <3>4, <3>5, <3>6, TypedFrame DEF Typed
    <3>8. AddressOk(r)
      BY <3>1, <3>5, AddressKept
    <3>9. Differ(Read_Memory(r), r, {"rOff", "rLen", "xfer", "brc", "boff", "buf", "txbuf", "tx", "csw", "bot"})
      BY <3>1, <3>7, <3>8, TypedRead
    <3> QED
      BY <3>1, <3>5, <3>9 DEF Differ, Fields
  <2>7. CASE \E r : ReadBegun(e, m, r)
    BY <2>5, <2>6, <2>7 DEF e
  <2>8. CASE \/ Refused(e, m) \/ AnsweredAtOnce(e, m) \/ WrongWay(e, m)
             \/ \E length \in 0..InfoLength : ReplyPrepared(e, m, length)
             \/ WriteBegun(e, m) \/ Ignored(e, m)
    <3>1. Differ(e, m, {"csw", "txbuf", "bot", "tx", "rx", "mounted"})
      BY <2>8 DEF Refused, AnsweredAtOnce, WrongWay, ReplyPrepared, WriteBegun, Ignored, Differ, Fields
    <3>2. e.rxbuf = m.rxbuf /\ e.card = m.card
      BY <3>1 DEF Differ, Fields
    <3> QED
      BY <2>5, <3>2 DEF e
  <2> QED
    BY <2>3, <2>7, <2>8 DEF Served
<1>3. CASE d.bot = "DATA_OUT" /\ d.cbw.op = "WRITE10"
  <2>1. AddressOk(d) /\ e = Write_Memory(d)
    BY <1>1, <1>3, OutServes DEF Addressed
  <2>2. Differ(e, d, {"wOff", "wLen", "xfer", "buf", "cnt", "card", "csw", "rx", "bot", "txbuf", "tx"})
    BY <1>3, <2>1, TypedWrite
  <2> HIDE DEF e
  <2> QED
    BY <1>3, <2>2 DEF Differ, Fields, e
<1>4. CASE d.bot # "IDLE" /\ ~(d.bot = "DATA_OUT" /\ d.cbw.op = "WRITE10")
  <2>1. PhaseError(e, d)
    BY <1>1, <1>4, OutServes
  <2> HIDE DEF e
  <2> QED
    BY <2>1 DEF PhaseError, Differ, Fields, e
<1> QED
  BY <1>2, <1>3, <1>4

-----------------------------------------------------------------------------
(* The types of the state.                                                   *)

Phases == {"ready", "cbw", "in", "out", "csw", "recover", "clear_in", "clear_out"}

\* A command as the host's drivers send it.
Regular(c) ==
  /\ c \in FitBlocks
  /\ c.op \in {"READ10", "WRITE10"} => c.n > 0
  /\ c.op \in {"TEST_UNIT_READY", "START_STOP_UNIT"} => c.len = 0 \/ c.dir = "IN"

Shape ==
  /\ Typed(dev) /\ Addressed(dev)
  /\ dev.rxctr => WrapperIn(dev) \in FitBlocks
  /\ phase \in Phases /\ tag \in 0..MaxCommands /\ faults \in 0..MaxFaults
  /\ Regular(cmd)
  /\ moved \in Nat /\ abandoned \in BOOLEAN /\ leftover \in BOOLEAN

LEMMA NoCommandRegular ==
  Regular(NoCommand) /\ [NoCommand EXCEPT !.form = "short"] \in FitBlocks
<1>1. 0 \in 0..(Word - 1)
  <2>1. BlockCount * BlockSize \in Nat
    BY MassAssumption
  <2> QED
    BY <2>1, MassAssumption
<1>2. NoCommand \in CommandBlocks /\ [NoCommand EXCEPT !.form = "short"] \in CommandBlocks
  BY <1>1 DEF NoCommand, CommandBlocks, Ops
<1>3. NoCommand.lba = 0 /\ NoCommand.n = 0
  BY DEF NoCommand
<1>a. 0 + 0 < Word
  BY <1>1, MassAssumption
<1>4. [NoCommand EXCEPT !.form = "short"].lba = 0 /\ [NoCommand EXCEPT !.form = "short"].n = 0
  BY DEF NoCommand
<1> QED
  BY <1>2, <1>3, <1>a, <1>4 DEF Regular, FitBlocks, NoCommand

LEMMA BootTyped ==
  ASSUME NEW card
  PROVE  /\ Typed(Boot(card)) /\ Addressed(Boot(card)) /\ Boot(card).rxctr = FALSE
         /\ LET d == Boot(card)
            IN  /\ d.bot = "IDLE" /\ d.sig = "valid" /\ d.xfer = "IDLE" /\ d.brc = 0 /\ d.cnt = 0
                /\ d.csw.tag = 0 /\ d.txbuf = Empty /\ d.card = card
                /\ d.tx = "NAK" /\ d.txctr = FALSE /\ d.rx = "VALID" /\ d.rxctr = FALSE
<1> DEFINE d == Boot(card)
<1>1. IsDevice(d)
  BY DEF Boot, IsDevice, Fields
<1>2. /\ d.bot = "IDLE" /\ d.sig = "valid" /\ d.xfer = "IDLE" /\ d.brc = 0 /\ d.cnt = 0
      /\ d.csw.tag = 0 /\ d.txbuf = Empty /\ d.card = card
      /\ d.tx = "NAK" /\ d.txctr = FALSE /\ d.rx = "VALID" /\ d.rxctr = FALSE
      /\ d.rOff = 0 /\ d.rLen = 0 /\ d.wOff = 0 /\ d.wLen = 0 /\ d.csw.residue = 0
      /\ d.cbw = NoCommand /\ d.mounted = FALSE /\ DOMAIN d.buf = 1..PerBlock
  BY DEF Boot
<1> HIDE DEF d
<1>3. 0 \in 0..(Word - 1)
  <2>1. BlockCount * BlockSize \in Nat
    BY MassAssumption
  <2> QED
    BY <2>1, MassAssumption
<1>4. IsReply(d.txbuf)
  BY <1>2 DEF IsReply, Empty
<1>5. d.cbw \in FitBlocks
  BY <1>2, NoCommandRegular DEF Regular
<1>6. Typed(d)
  BY <1>1, <1>2, <1>3, <1>4, <1>5 DEF Typed, BotStates, PortStates
<1>7. Addressed(d)
  BY <1>2 DEF Addressed
<1> QED
  BY <1>2, <1>6, <1>7 DEF d

LEMMA InitShape == Init => Shape
<1> SUFFICES ASSUME Init PROVE Shape
  OBVIOUS
<1>1. Typed(dev) /\ Addressed(dev) /\ dev.rxctr = FALSE
  BY BootTyped DEF Init
<1>2. Regular(cmd)
  BY NoCommandRegular DEF Init
<1>3. tag \in 0..MaxCommands /\ faults \in 0..MaxFaults
  BY MassAssumption DEF Init
<1> QED
  BY <1>1, <1>2, <1>3 DEF Init, Shape, Phases

\* A control request, or a packet on the bus, changes no more than the ports.
LEMMA TypedPorts ==
  ASSUME NEW d, Typed(d), Addressed(d),
         NEW e, Differ(e, d, {"bot", "sig", "tx", "rx", "txctr", "rxctr", "rxbuf"}),
         e.bot = d.bot \/ e.bot = "IDLE", e.sig \in {"valid", "bad"},
         e.tx \in PortStates, e.rx \in PortStates, e.txctr \in BOOLEAN, e.rxctr \in BOOLEAN
  PROVE  Typed(e) /\ Addressed(e)
<1>1. /\ Differ(e, d, Visible) /\ e.csw = d.csw /\ e.txbuf = d.txbuf /\ e.mounted = d.mounted
      /\ e.cbw = d.cbw /\ e.xfer = d.xfer
  BY DEF Differ, Fields, Visible
<1>2. /\ e.mounted \in BOOLEAN /\ e.csw.residue \in 0..(Word - 1) /\ IsReply(e.txbuf)
      /\ e.bot \in BotStates
  BY <1>1 DEF Typed, BotStates
<1>3. Typed(e)
  BY <1>1, <1>2, TypedFrame
<1>4. Addressed(e)
  BY <1>1, AddressKept DEF Addressed
<1> QED
  BY <1>3, <1>4

LEMMA ShapeStep == Shape /\ [Next]_vars => Shape'
<1> SUFFICES ASSUME Shape, [Next]_vars PROVE Shape'
  OBVIOUS
<1>0. /\ Typed(dev) /\ Addressed(dev) /\ IsDevice(dev)
      /\ dev.rxctr => WrapperIn(dev) \in FitBlocks
      /\ dev.tx \in PortStates /\ dev.rx \in PortStates /\ dev.sig \in {"valid", "bad"}
      /\ dev.txctr \in BOOLEAN /\ dev.rxctr \in BOOLEAN /\ IsReply(dev.txbuf)
  BY DEF Shape, Typed
<1>a. /\ phase \in Phases /\ tag \in 0..MaxCommands /\ faults \in 0..MaxFaults
      /\ Regular(cmd) /\ moved \in Nat /\ abandoned \in BOOLEAN /\ leftover \in BOOLEAN
  BY DEF Shape
<1>b. tag \in Nat /\ faults \in Nat /\ MaxCommands \in Nat /\ MaxFaults \in Nat
      /\ tag <= MaxCommands /\ faults <= MaxFaults
  BY <1>a, MassAssumption
<1>1. ASSUME NEW c \in Commands, Begin(c)  PROVE Shape'
  <2>1. Regular(c)
    BY MassAssumption, HostAssumption, AddressesFit DEF Regular, FitBlocks
  <2>2. tag' \in 0..MaxCommands
    BY <1>1, <1>b DEF Begin
  <2>3. leftover' \in BOOLEAN
    BY <1>1, <1>a DEF Begin
  <2> QED
    BY <1>0, <1>1, <1>a, <2>1, <2>2, <2>3 DEF Begin, Shape, Phases
<1>2. ASSUME ServeIn  PROVE Shape'
  <2> DEFINE d == [dev EXCEPT !.txctr = FALSE]
  <2>1. Differ(d, dev, {"txctr"}) /\ d.txctr = FALSE
    BY <1>0, PortsDo
  <2>2. dev' = Mass_Storage_In(d)
    BY <1>2 DEF ServeIn
  <2> HIDE DEF d
  <2>3. /\ Differ(d, dev, {"bot", "sig", "tx", "rx", "txctr", "rxctr", "rxbuf"})
        /\ d.bot = dev.bot /\ d.sig = dev.sig /\ d.tx = dev.tx /\ d.rx = dev.rx /\ d.rxctr = dev.rxctr
        /\ d.rxbuf = dev.rxbuf /\ IsDevice(d)
    BY <2>1 DEF Differ, Fields
  <2>4. Typed(d) /\ Addressed(d)
    BY <1>0, <2>1, <2>3, TypedPorts
  <2>5. Typed(dev') /\ Addressed(dev')
    BY <2>2, <2>4, TypedIn
  <2>6. dev'.rxctr = dev.rxctr /\ dev'.rxbuf = dev.rxbuf
    <3> DEFINE e == Mass_Storage_In(d)
    <3>1. CASE d.bot = "CSW_SEND" \/ d.bot = "ERROR"
      <4>1. StatusTaken(e, d)
        BY <2>3, <3>1, InServes
      <4> HIDE DEF e
      <4> QED
        BY <2>2, <2>3, <4>1 DEF StatusTaken, Differ, Fields, e
    <3>2. CASE d.bot = "DATA_IN_LAST"
      <4>1. DataTaken(e, d)
        BY <2>3, <3>2, InServes
      <4> HIDE DEF e
      <4> QED
        BY <2>2, <2>3, <4>1 DEF DataTaken, Differ, Fields, e
    <3>3. CASE d.bot = "DATA_IN" /\ d.cbw.op = "READ10"
      <4>1. e = Read_Memory(d) /\ AddressOk(d)
        BY <2>3, <2>4, <3>3, InServes DEF Addressed
      <4>2. Differ(e, d, {"rOff", "rLen", "xfer", "brc", "boff", "buf", "txbuf", "tx", "csw", "bot"})
        BY <2>4, <3>3, <4>1, TypedRead
      <4> HIDE DEF e
      <4> QED
        BY <2>2, <2>3, <4>2 DEF Differ, Fields, e
    <3>4. CASE /\ d.bot # "CSW_SEND" /\ d.bot # "ERROR" /\ d.bot # "DATA_IN_LAST"
               /\ ~(d.bot = "DATA_IN" /\ d.cbw.op = "READ10")
      BY <2>2, <2>3, <3>4, InServes
    <3> QED
      BY <3>1, <3>2, <3>3, <3>4
  <2>7. dev'.rxctr => WrapperIn(dev') \in FitBlocks
    BY <1>0, <2>6 DEF WrapperIn
  <2>8. UNCHANGED <<host, faults, abandoned, leftover>>
    BY <1>2 DEF ServeIn
  <2> QED
    BY <1>a, <2>5, <2>7, <2>8 DEF Shape, host
<1>3. ASSUME ServeOut  PROVE Shape'
  <2> DEFINE d == [dev EXCEPT !.rxctr = FALSE]
  <2>1. Differ(d, dev, {"rxctr"}) /\ d.rxctr = FALSE
    BY <1>0, PortsDo
  <2>2. dev' = Mass_Storage_Out(d) /\ dev.rxctr
    BY <1>3 DEF ServeOut
  <2> HIDE DEF d
  <2>3. /\ Differ(d, dev, {"bot", "sig", "tx", "rx", "txctr", "rxctr", "rxbuf"})
        /\ d.bot = dev.bot /\ d.sig = dev.sig /\ d.tx = dev.tx /\ d.rx = dev.rx /\ d.txctr = dev.txctr
        /\ d.rxbuf = dev.rxbuf /\ IsDevice(d)
    BY <2>1 DEF Differ, Fields
  <2>4. Typed(d) /\ Addressed(d)
    BY <1>0, <2>1, <2>3, TypedPorts
  <2>5. WrapperIn(d) \in FitBlocks
    BY <1>0, <2>2, <2>3 DEF WrapperIn
  <2>6. Typed(dev') /\ Addressed(dev')
    BY <2>2, <2>4, <2>5, TypedOut
  <2>7. dev'.rxbuf = dev.rxbuf
    <3>1. Mass_Storage_Out(d).rxbuf = d.rxbuf
      BY <2>4, <2>5, OutKeepsBuffer
    <3> QED
      BY <2>2, <2>3, <3>1
  <2>8. dev'.rxctr => WrapperIn(dev') \in FitBlocks
    BY <1>0, <2>2, <2>7 DEF WrapperIn
  <2>9. UNCHANGED <<host, faults, abandoned, leftover>>
    BY <1>3 DEF ServeOut
  <2> QED
    BY <1>a, <2>6, <2>8, <2>9 DEF Shape, host
<1>4. ASSUME SendWrapper  PROVE Shape'
  <2> DEFINE packet == [kind |-> "cbw", tag |-> tag, block |-> cmd]
  <2>1. dev' = Receive(dev, packet)
    BY <1>4 DEF SendWrapper
  <2> HIDE DEF packet
  <2>2. Differ(dev', dev, {"rx", "rxbuf", "rxctr"}) /\ dev'.rx = "NAK" /\ dev'.rxbuf = packet /\ dev'.rxctr = TRUE
    BY <1>0, <2>1, ReceiveDoes
  <2>3. WrapperIn(dev') = cmd
    BY <2>2 DEF WrapperIn, packet
  <2>4. /\ Differ(dev', dev, {"bot", "sig", "tx", "rx", "txctr", "rxctr", "rxbuf"})
        /\ dev'.bot = dev.bot /\ dev'.sig = dev.sig /\ dev'.tx = dev.tx /\ dev'.txctr = dev.txctr
    BY <2>2 DEF Differ, Fields
  <2>5. Typed(dev') /\ Addressed(dev')
    BY <1>0, <2>2, <2>4, TypedPorts DEF PortStates
  <2>6. cmd \in FitBlocks
    BY <1>a DEF Regular
  <2>7. phase' \in Phases /\ UNCHANGED <<cmd, tag, got, moved, halted, answer, faults, abandoned, leftover>>
    BY <1>4 DEF SendWrapper, Phases
  <2> QED
    BY <1>a, <2>3, <2>5, <2>6, <2>7 DEF Shape
<1>5. ASSUME SendData  PROVE Shape'
  <2> DEFINE packet == Packet(<<tag, cmd.lba * PerBlock + moved \div PacketSize>>)
  <2>1. dev' = Receive(dev, packet)
    BY <1>5 DEF SendData
  <2> HIDE DEF packet
  <2>2. Differ(dev', dev, {"rx", "rxbuf", "rxctr"}) /\ dev'.rx = "NAK" /\ dev'.rxbuf = packet /\ dev'.rxctr = TRUE
    BY <1>0, <2>1, ReceiveDoes
  <2>3. packet.kind = "data"
    BY DEF Packet, packet
  <2>4. WrapperIn(dev') \in FitBlocks
    BY <2>2, <2>3, NoCommandRegular DEF WrapperIn
  <2>5. /\ Differ(dev', dev, {"bot", "sig", "tx", "rx", "txctr", "rxctr", "rxbuf"})
        /\ dev'.bot = dev.bot /\ dev'.sig = dev.sig /\ dev'.tx = dev.tx /\ dev'.txctr = dev.txctr
    BY <2>2 DEF Differ, Fields
  <2>6. Typed(dev') /\ Addressed(dev')
    BY <1>0, <2>2, <2>5, TypedPorts DEF PortStates
  <2>7. moved' \in Nat
    BY <1>5, <1>a, MassAssumption DEF SendData
  <2>8. phase' \in Phases /\ UNCHANGED <<cmd, tag, got, halted, answer, faults, abandoned, leftover>>
    BY <1>5 DEF SendData, Phases
  <2> QED
    BY <1>a, <2>4, <2>6, <2>7, <2>8 DEF Shape
<1>6. ASSUME Taken(dev) = dev'  PROVE /\ Typed(dev') /\ Addressed(dev')
                                      /\ dev'.rxctr => WrapperIn(dev') \in FitBlocks
  <2>1. Differ(dev', dev, {"tx", "txctr"}) /\ dev'.tx = "NAK" /\ dev'.txctr = TRUE
    BY <1>0, <1>6, PortsDo
  <2>2. /\ Differ(dev', dev, {"bot", "sig", "tx", "rx", "txctr", "rxctr", "rxbuf"})
        /\ dev'.bot = dev.bot /\ dev'.sig = dev.sig /\ dev'.rx = dev.rx /\ dev'.rxctr = dev.rxctr
        /\ dev'.rxbuf = dev.rxbuf
    BY <2>1 DEF Differ, Fields
  <2>3. Typed(dev') /\ Addressed(dev')
    BY <1>0, <2>1, <2>2, TypedPorts DEF PortStates
  <2> QED
    BY <1>0, <2>2, <2>3 DEF WrapperIn
<1>7. ASSUME TakeData  PROVE Shape'
  <2>1. Typed(dev') /\ Addressed(dev') /\ (dev'.rxctr => WrapperIn(dev') \in FitBlocks)
    BY <1>6, <1>7 DEF TakeData
  <2>2. SizeOf(dev.txbuf) \in Nat
    BY <1>0 DEF SizeOf, IsReply
  <2>3. moved' \in Nat
    BY <1>7, <1>a, <2>2 DEF TakeData
  <2>4. phase' \in Phases /\ UNCHANGED <<cmd, tag, halted, answer, faults, abandoned, leftover>>
    BY <1>7 DEF TakeData, Phases
  <2> QED
    BY <1>a, <2>1, <2>3, <2>4 DEF Shape
<1>8. ASSUME TakeStatus  PROVE Shape'
  <2>1. Typed(dev') /\ Addressed(dev') /\ (dev'.rxctr => WrapperIn(dev') \in FitBlocks)
    BY <1>6, <1>8 DEF TakeStatus
  <2>2. phase' \in Phases /\ UNCHANGED <<cmd, tag, got, moved, halted, faults, abandoned, leftover>>
    BY <1>8 DEF TakeStatus, Phases
  <2> QED
    BY <1>a, <2>1, <2>2 DEF Shape
<1>9. ASSUME NEW ep, dev' = ClearHalt(dev, ep)
      PROVE  /\ Typed(dev') /\ Addressed(dev')
             /\ dev'.rxctr => WrapperIn(dev') \in FitBlocks
  <2> DEFINE e == ClearHalt(dev, ep)
  <2>1. /\ Differ(e, dev, {"tx", "rx"})
        /\ dev.sig # "valid" => e.tx = "STALL" /\ e.rx = "STALL"
        /\ dev.sig = "valid" /\ ep = "IN" =>
             e.rx = dev.rx /\ e.tx = IF dev.tx = "STALL" THEN "VALID" ELSE dev.tx
        /\ dev.sig = "valid" /\ ep # "IN" =>
             e.tx = dev.tx /\ e.rx = IF dev.rx = "STALL" THEN "VALID" ELSE dev.rx
    BY <1>0, ClearHaltDoes
  <2> HIDE DEF e
  <2>2. e.tx \in PortStates /\ e.rx \in PortStates
    BY <1>0, <2>1 DEF PortStates
  <2>3. /\ Differ(e, dev, {"bot", "sig", "tx", "rx", "txctr", "rxctr", "rxbuf"})
        /\ e.bot = dev.bot /\ e.sig = dev.sig /\ e.txctr = dev.txctr /\ e.rxctr = dev.rxctr
        /\ e.rxbuf = dev.rxbuf
    BY <2>1 DEF Differ, Fields
  <2>4. Typed(e) /\ Addressed(e)
    BY <1>0, <2>2, <2>3, TypedPorts
  <2>5. e.rxctr => WrapperIn(e) \in FitBlocks
    BY <1>0, <2>3 DEF WrapperIn
  <2> QED
    BY <1>9, <2>4, <2>5 DEF e
<1>10. ASSUME ClearStall  PROVE Shape'
  <2>1. Typed(dev') /\ Addressed(dev') /\ (dev'.rxctr => WrapperIn(dev') \in FitBlocks)
    BY <1>9, <1>10 DEF ClearStall
  <2>2. phase' \in Phases /\ UNCHANGED <<cmd, tag, got, moved, answer, faults, abandoned, leftover>>
    BY <1>10, <1>a DEF ClearStall, Phases
  <2> QED
    BY <1>a, <2>1, <2>2 DEF Shape
<1>11. ASSUME StallIsFatal \/ TimeOut  PROVE Shape'
  BY <1>0, <1>11, <1>a DEF StallIsFatal, TimeOut, Shape, Phases
<1>12. ASSUME GiveUp  PROVE Shape'
  <2>1. faults' \in 0..MaxFaults
    BY <1>12, <1>b DEF GiveUp
  <2> QED
    BY <1>0, <1>12, <1>a, <2>1 DEF GiveUp, Shape, Phases
<1>13. ASSUME BotReset  PROVE Shape'
  <2>1. phase' \in Phases /\ UNCHANGED <<cmd, tag, got, moved, halted, faults>>
    BY <1>13 DEF BotReset, Phases
  <2>2. abandoned' \in BOOLEAN /\ leftover' \in BOOLEAN
    BY <1>13, <1>a DEF BotReset
  <2>3. ASSUME dev' = MASS_NoData_Setup(dev)
        PROVE  /\ Typed(dev') /\ Addressed(dev')
               /\ dev'.rxctr => WrapperIn(dev') \in FitBlocks
    <3>1. Differ(dev', dev, {"sig", "bot"}) /\ dev'.sig = "valid" /\ dev'.bot = "IDLE"
      BY <1>0, <2>3, PortsDo
    <3>2. /\ Differ(dev', dev, {"bot", "sig", "tx", "rx", "txctr", "rxctr", "rxbuf"})
          /\ dev'.tx = dev.tx /\ dev'.rx = dev.rx /\ dev'.txctr = dev.txctr /\ dev'.rxctr = dev.rxctr
          /\ dev'.rxbuf = dev.rxbuf
      BY <3>1 DEF Differ, Fields
    <3>3. Typed(dev') /\ Addressed(dev')
      BY <1>0, <3>1, <3>2, TypedPorts
    <3> QED
      BY <1>0, <3>2, <3>3 DEF WrapperIn
  <2>4. Typed(dev') /\ Addressed(dev') /\ (dev'.rxctr => WrapperIn(dev') \in FitBlocks)
    BY <1>9, <1>13, <2>3 DEF BotReset
  <2> QED
    BY <1>a, <2>1, <2>2, <2>4 DEF Shape
<1>14. ASSUME BusReset  PROVE Shape'
  <2>1. /\ Differ(dev', dev, {"tx", "txctr", "rx", "rxctr", "sig", "bot"})
        /\ dev'.tx = "NAK" /\ dev'.txctr = FALSE /\ dev'.rx = "VALID" /\ dev'.rxctr = FALSE
        /\ dev'.sig = "valid" /\ dev'.bot = "IDLE"
    BY <1>0, <1>14, PortsDo DEF BusReset
  <2>2. Differ(dev', dev, {"bot", "sig", "tx", "rx", "txctr", "rxctr", "rxbuf"})
    BY <2>1 DEF Differ, Fields
  <2>3. Typed(dev') /\ Addressed(dev')
    BY <1>0, <2>1, <2>2, TypedPorts DEF PortStates
  <2>4. phase' \in Phases /\ UNCHANGED <<cmd, tag, got, moved, halted, faults>> /\ leftover' = FALSE
        /\ abandoned' \in BOOLEAN
    BY <1>14, <1>a DEF BusReset, Phases
  <2> QED
    BY <1>a, <2>1, <2>3, <2>4 DEF Shape
<1>15. ASSUME PowerCycle  PROVE Shape'
  <2>1. Typed(dev') /\ Addressed(dev') /\ dev'.rxctr = FALSE
    BY <1>15, BootTyped DEF PowerCycle
  <2>2. phase' \in Phases /\ UNCHANGED <<cmd, tag, got, moved, halted, abandoned>> /\ leftover' = FALSE
    BY <1>15 DEF PowerCycle, Phases
  <2>3. faults' \in 0..MaxFaults
    BY <1>15, <1>b DEF PowerCycle
  <2> QED
    BY <1>a, <2>1, <2>2, <2>3 DEF Shape
<1>16. ASSUME UNCHANGED vars  PROVE Shape'
  BY <1>0, <1>16, <1>a DEF vars, Shape
<1> QED
  BY <1>1, <1>2, <1>3, <1>4, <1>5, <1>7, <1>8, <1>10, <1>11, <1>12, <1>13, <1>14, <1>15, <1>16
     DEF Next, Bus, Recover

-----------------------------------------------------------------------------
(* A transfer as a whole, counted in packets.                                *)

\* s packets of the read c have been prepared, and more remain.
Reads(d, c, s) ==
  \E blk \in 0..(c.n - 1), i \in 1..PerBlock :
    /\ s = Nth(blk) + i
    /\ d.rLen = Bytes(Nth(c.n - blk) - i) /\ d.rOff = Bytes(Nth(c.lba + blk) + i)
    /\ d.brc = Bytes(PerBlock - i) /\ d.boff = Bytes(i)
    /\ Loaded(d, c.lba + blk)
    /\ d.csw.residue = Bytes(Nth(c.n) - s)

\* s packets of the write c with tag t have been stored, and more remain.
Writes(d, c, t, s) ==
  \E blk \in 0..(c.n - 1), i \in 0..(PerBlock - 1) :
    /\ s = Nth(blk) + i
    /\ d.xfer = "ONGOING" => WritePoint(d, c.lba, c.n, blk, i)
    /\ d.xfer = "IDLE" => s = 0
    /\ d.cnt = Bytes(i) /\ Filled(d, t, c.lba + blk, i)
    /\ d.csw.residue = Bytes(Nth(c.n) - s)
    /\ \A a \in Nth(c.lba)..(Nth(c.lba + blk) - 1) : d.card[a] = <<t, a>>

\* A range that passed SCSI_Address_Management and is not empty.
InRange(c) == c.lba \in Nat /\ c.n \in Nat \ {0} /\ c.lba + c.n <= BlockCount

LEMMA RangeOfCommand ==
  ASSUME NEW d, AddressOk(d), d.mounted \in BOOLEAN, Regular(d.cbw),
         d.cbw.op = "READ10" \/ d.cbw.op = "WRITE10"
  PROVE  InRange(d.cbw) /\ d.mounted = TRUE /\ d.cbw.len = Bytes(Nth(d.cbw.n))
<1>1. d.cbw.lba \in Nat /\ d.cbw.n \in Nat /\ d.cbw.n > 0
  BY BlockTypes DEF Regular
<1>2. d.cbw.lba + d.cbw.n <= Mass_Block_Count(d) /\ d.cbw.len = d.cbw.n * Mass_Block_Size(d)
  BY AddressMeans DEF Regular
<1>3. d.mounted = TRUE
  BY <1>1, <1>2 DEF Mass_Block_Count
<1>4. Mass_Block_Count(d) = BlockCount /\ Mass_Block_Size(d) = BlockSize
  BY <1>3 DEF Mass_Block_Count, Mass_Block_Size
<1>5. d.cbw.n * BlockSize = Bytes(Nth(d.cbw.n))
  BY <1>1, BlockBytes
<1> QED
  BY <1>1, <1>2, <1>3, <1>4, <1>5 DEF InRange

\* The packets of a range, and the place of the next one.
LEMMA RangePackets ==
  ASSUME NEW c, InRange(c), NEW blk \in 0..(c.n - 1), NEW i \in 0..(PerBlock - 1)
  PROVE  /\ Nth(c.n) \in Nat \ {0} /\ Nth(c.lba) \in Nat /\ Nth(blk) \in Nat /\ Nth(c.n) <= Nth(BlockCount)
         /\ Nth(blk) + i + 1 <= Nth(c.n)
         /\ Nth(blk) + i + 1 = Nth(c.n) <=> blk = c.n - 1 /\ i = PerBlock - 1
         /\ Nth(c.lba + blk) = Nth(c.lba) + Nth(blk)
         /\ Nth(c.n - blk) = Nth(c.n) - Nth(blk)
         /\ (Bytes(Nth(c.n) - Nth(blk) - i) - PacketSize) % Word = Bytes(Nth(c.n) - Nth(blk) - i - 1)
<1> DEFINE n == c.n
           l == c.lba
<1>1. n \in Nat \ {0} /\ l \in Nat /\ l + n <= BlockCount /\ PerBlock \in Nat \ {0} /\ BlockCount \in Nat
  BY Sizes, MassAssumption DEF InRange
<1> HIDE DEF n, l
<1>2. blk \in 0..(n - 1)
  BY DEF n
<1>3. n \in Int /\ l \in Int /\ blk \in Int /\ n >= 0 /\ l >= 0 /\ blk >= 0 /\ n >= 1 /\ blk < n
      /\ n <= BlockCount /\ BlockCount \in Int
  BY <1>1, <1>2
<1>4. Nth(n) \in Nat /\ Nth(l) \in Nat /\ Nth(blk) \in Nat /\ Nth(0) = 0 /\ 0 \in Int
  BY <1>3, NthRise
<1>5. Nth(l + blk) = Nth(l) + Nth(blk) /\ Nth(n - blk) = Nth(n) - Nth(blk)
      /\ Nth(blk) + PerBlock <= Nth(n) /\ Nth(n) <= Nth(BlockCount)
  BY <1>3, NthOrder
<1>6. IsPosition(Nth(l + blk), Nth(n - blk), n, blk, i)
  BY <1>1, <1>2, Position
<1>7. /\ Nth(n - blk) = PerBlock <=> blk = n - 1
      /\ (Bytes(Nth(n - blk) - i) - PacketSize) % Word = Bytes(Nth(n - blk) - i - 1)
  BY <1>6 DEF IsPosition
<1>8. Nth(n) # 0 /\ Nth(blk) + i + 1 <= Nth(n)
  BY <1>1, <1>4, <1>5
<1>9. Nth(blk) + i + 1 = Nth(n) <=> blk = n - 1 /\ i = PerBlock - 1
  <2> DEFINE x == Nth(n)
             y == Nth(blk)
  <2>1. x \in Nat /\ y \in Nat /\ y + PerBlock <= x /\ (x - y = PerBlock <=> blk = n - 1)
    BY <1>4, <1>5, <1>7
  <2> HIDE DEF x, y
  <2>2. y + i + 1 = x <=> blk = n - 1 /\ i = PerBlock - 1
    BY <1>1, <2>1
  <2> QED
    BY <2>2 DEF x, y
<1> QED
  BY <1>4, <1>5, <1>7, <1>8, <1>9 DEF n, l

LEMMA RangeAddress ==
  ASSUME NEW c, InRange(c), NEW s \in 0..(Nth(c.n) - 1)
  PROVE  Nth(c.lba) + s \in Cells /\ Nth(c.n) \in Nat \ {0} /\ Nth(c.lba) \in Nat
<1>1. c.n \in Int /\ c.lba \in Int /\ c.lba >= 0 /\ c.n >= 1 /\ c.lba + c.n \in Int
      /\ c.lba + c.n <= BlockCount /\ BlockCount \in Int /\ c.n >= 0 /\ 1 \in Int
  BY MassAssumption DEF InRange
<1>2. Nth(c.n) \in Nat /\ Nth(c.lba) \in Nat
  BY <1>1, NthRise
<1>3. Nth(c.lba + c.n) = Nth(c.lba) + Nth(c.n) /\ Nth(c.lba + c.n) <= Nth(BlockCount)
  <2> DEFINE x == c.lba
             y == c.n
             z == x + y
  <2>1. x \in Int /\ y \in Int /\ z \in Int /\ z <= BlockCount
    BY <1>1
  <2> HIDE DEF x, y
  <2>2. Nth(z) = Nth(x) + Nth(y)
    BY <2>1, NthOrder
  <2> HIDE DEF z
  <2>3. Nth(z) <= Nth(BlockCount)
    BY <1>1, <2>1, NthOrder
  <2> QED
    BY <2>2, <2>3 DEF x, y, z
<1>4. Nth(BlockCount) \in Nat
  BY CardSize
<1>5. Cells = 0..(Nth(BlockCount) - 1)
  BY DEF Cells, Nth
<1> QED
  BY <1>2, <1>3, <1>4, <1>5

\* One packet of the read c, from d to e: packet number s is in the endpoint.
PacketSent(e, d, c, s) ==
  /\ Differ(e, d, {"rOff", "rLen", "xfer", "brc", "boff", "buf", "txbuf", "tx", "csw", "bot"})
  /\ SameTag(e, d)
  /\ e.txbuf = Packet(d.card[Nth(c.lba) + s - 1]) /\ e.tx = "VALID"
  /\ s \in 1..Nth(c.n)
  /\ s = Nth(c.n) => e.bot = "DATA_IN_LAST" /\ e.xfer = "IDLE" /\ e.brc = 0 /\ e.csw.residue = 0
  /\ s # Nth(c.n) => e.bot = d.bot /\ e.xfer = "ONGOING" /\ Reads(e, c, s)

LEMMA PacketSends ==
  ASSUME NEW d, NEW e, NEW c, InRange(c), NEW blk \in 0..(c.n - 1), NEW i \in 0..(PerBlock - 1),
         PacketRead(e, d, c.lba, c.n, blk, i),
         d.csw.residue = Bytes(Nth(c.n) - (Nth(blk) + i))
  PROVE  PacketSent(e, d, c, Nth(blk) + i + 1)
<1> DEFINE n == c.n
           last == blk = n - 1 /\ i = PerBlock - 1
           s == Nth(blk) + i + 1
<1>1. /\ Nth(n) \in Nat \ {0} /\ Nth(c.lba) \in Nat /\ Nth(blk) \in Nat
      /\ s <= Nth(n) /\ (s = Nth(n) <=> last)
      /\ Nth(c.lba + blk) = Nth(c.lba) + Nth(blk)
      /\ Nth(n - blk) = Nth(n) - Nth(blk)
      /\ (Bytes(Nth(n) - Nth(blk) - i) - PacketSize) % Word = Bytes(Nth(n) - Nth(blk) - i - 1)
  BY RangePackets
<1>2. PerBlock \in Nat \ {0} /\ i \in Nat /\ i + 1 \in 1..PerBlock
  BY Sizes
<1>3. /\ Differ(e, d, {"rOff", "rLen", "xfer", "brc", "boff", "buf", "txbuf", "tx", "csw", "bot"})
      /\ SameTag(e, d) /\ e.csw.residue = (d.csw.residue - PacketSize) % Word
      /\ e.txbuf = Packet(d.card[Nth(c.lba + blk) + i]) /\ e.tx = "VALID"
      /\ last => e.bot = "DATA_IN_LAST" /\ e.xfer = "IDLE" /\ e.brc = 0
      /\ ~last =>
           /\ e.bot = d.bot /\ e.xfer = "ONGOING"
           /\ e.rOff = Bytes(Nth(c.lba + blk) + i + 1) /\ e.rLen = Bytes(Nth(n - blk) - i - 1)
           /\ e.brc = Bytes(PerBlock - i - 1) /\ e.boff = Bytes(i + 1) /\ Loaded(e, c.lba + blk)
  BY DEF PacketRead
<1>4. e.csw.residue = Bytes(Nth(n) - s)
  <2>1. Nth(n) - (Nth(blk) + i) = Nth(n) - Nth(blk) - i /\ Nth(n) - Nth(blk) - i - 1 = Nth(n) - s
    BY <1>1, <1>2
  <2> QED
    BY <1>1, <1>3, <2>1
<1>5. s \in 1..Nth(n) /\ Nth(c.lba) + s - 1 = Nth(c.lba + blk) + i
  BY <1>1, <1>2
<1>6. e.txbuf = Packet(d.card[Nth(c.lba) + s - 1])
  BY <1>3, <1>5
<1>7. s = Nth(n) => e.csw.residue = 0
  <2>1. s = Nth(n) => Nth(n) - s = 0
    BY <1>1, <1>5
  <2>2. Bytes(0) = 0
    BY BytesRise
  <2> QED
    BY <1>4, <2>1, <2>2
<1>8. ASSUME ~last  PROVE Reads(e, c, s)
  <2>1. s = Nth(blk) + (i + 1)
    BY <1>1, <1>2
  <2>2. /\ Nth(n - blk) - i - 1 = Nth(n - blk) - (i + 1)
        /\ Nth(c.lba + blk) + i + 1 = Nth(c.lba + blk) + (i + 1)
        /\ PerBlock - i - 1 = PerBlock - (i + 1)
    BY <1>1, <1>2
  <2>3. /\ e.rLen = Bytes(Nth(n - blk) - (i + 1)) /\ e.rOff = Bytes(Nth(c.lba + blk) + (i + 1))
        /\ e.brc = Bytes(PerBlock - (i + 1)) /\ e.boff = Bytes(i + 1) /\ Loaded(e, c.lba + blk)
    BY <1>3, <1>8, <2>2
  <2> DEFINE j == i + 1
  <2>4. j \in 1..PerBlock /\ s = Nth(blk) + j
        /\ e.rLen = Bytes(Nth(n - blk) - j) /\ e.rOff = Bytes(Nth(c.lba + blk) + j)
        /\ e.brc = Bytes(PerBlock - j) /\ e.boff = Bytes(j)
    BY <1>2, <2>1, <2>3
  <2> HIDE DEF j, s
  <2> QED
    BY <1>4, <2>3, <2>4 DEF Reads
<1> HIDE DEF s, last
<1>9. PacketSent(e, d, c, s)
  BY <1>1, <1>3, <1>5, <1>6, <1>7, <1>8 DEF PacketSent
<1> QED
  BY <1>9 DEF s

\* The first packet of a read, and the next one.
LEMMA ReadBegins ==
  ASSUME NEW d, IsDevice(d), DOMAIN d.buf = 1..PerBlock, d.mounted = TRUE,
         InRange(d.cbw), d.xfer = "IDLE", d.brc = 0,
         d.csw.residue = Bytes(Nth(d.cbw.n))
  PROVE  PacketSent(Read_Memory(d), d, d.cbw, 1)
<1> DEFINE c == d.cbw
<1>1. /\ c.lba \in Nat /\ c.n \in Nat /\ c.lba + c.n <= BlockCount
      /\ 0 \in 0..(c.n - 1) /\ 0 \in 0..(PerBlock - 1)
  BY Sizes DEF InRange
<1>a. c.n \in Int /\ 0 \in Int
  BY <1>1
<1>2. Nth(0) = 0 /\ Nth(c.n) \in Int
  <2> HIDE DEF c
  <2> QED
    BY <1>a, NthRise
<1>3. Nth(c.n) - (Nth(0) + 0) = Nth(c.n) /\ Nth(0) + 0 + 1 = 1
  BY <1>2
<1>4. PacketRead(Read_Memory(d), d, c.lba, c.n, 0, 0)
  BY <1>1, ReadStep
<1> DEFINE e == Read_Memory(d)
<1> HIDE DEF c, e
<1>5. PacketSent(e, d, c, Nth(0) + 0 + 1)
  BY <1>1, <1>3, <1>4, PacketSends DEF c, e
<1> QED
  BY <1>3, <1>5 DEF c, e

LEMMA ReadGoesOn ==
  ASSUME NEW d, IsDevice(d), DOMAIN d.buf = 1..PerBlock, d.mounted = TRUE,
         NEW c, InRange(c), d.xfer = "ONGOING",
         NEW s \in 1..(Nth(c.n) - 1), Reads(d, c, s)
  PROVE  PacketSent(Read_Memory(d), d, c, s + 1)
<1>1. PICK blk \in 0..(c.n - 1), i \in 1..PerBlock :
        /\ s = Nth(blk) + i
        /\ d.rLen = Bytes(Nth(c.n - blk) - i) /\ d.rOff = Bytes(Nth(c.lba + blk) + i)
        /\ d.brc = Bytes(PerBlock - i) /\ d.boff = Bytes(i)
        /\ Loaded(d, c.lba + blk)
        /\ d.csw.residue = Bytes(Nth(c.n) - s)
  BY DEF Reads
<1>2. /\ c.lba \in Nat /\ c.n \in Nat /\ c.lba + c.n <= BlockCount
      /\ PerBlock \in Nat \ {0} /\ 0 \in 0..(PerBlock - 1)
  BY Sizes DEF InRange
<1>3. ASSUME NEW b \in 0..(c.n - 1), NEW j \in 0..(PerBlock - 1),
             ReadPoint(d, c.lba, c.n, b, j), s = Nth(b) + j
      PROVE  PacketSent(Read_Memory(d), d, c, s + 1)
  <2>1. PacketRead(Read_Memory(d), d, c.lba, c.n, b, j)
    BY <1>2, <1>3, ReadStep
  <2> DEFINE e == Read_Memory(d)
  <2> HIDE DEF e
  <2>2. PacketSent(e, d, c, Nth(b) + j + 1)
    BY <1>1, <1>3, <2>1, PacketSends DEF e
  <2> QED
    BY <1>3, <2>2 DEF e
<1>4. CASE i < PerBlock
  <2>1. i \in 0..(PerBlock - 1) /\ i # 0
    BY <1>2, <1>4
  <2>2. ReadPoint(d, c.lba, c.n, blk, i)
    BY <1>1, <2>1 DEF ReadPoint
  <2> QED
    BY <1>1, <1>3, <2>1, <2>2
<1>5. CASE i = PerBlock
  <2> DEFINE b == blk + 1
  <2>a. blk \in Int /\ c.n \in Int /\ c.lba \in Int /\ blk >= 0 /\ blk < c.n
    BY <1>2
  <2>b. Nth(blk) \in Int /\ Nth(b) = Nth(blk) + PerBlock /\ Nth(c.n) \in Int
    BY <2>a, NthRise
  <2>1. b # c.n
    <3>1. Nth(b) = s /\ s # Nth(c.n)
      BY <1>1, <1>5, <2>b
    <3> QED
      BY <3>1
  <2>2. b \in 0..(c.n - 1) /\ s = Nth(b) + 0
    BY <1>1, <1>2, <1>5, <2>a, <2>b, <2>1
  <2>3. /\ Nth(c.n - blk) - PerBlock = Nth(c.n - b) - 0
        /\ Nth(c.lba + blk) + PerBlock = Nth(c.lba + b) + 0
    <3>1. Nth(c.n - blk) = Nth(c.n) - Nth(blk) /\ Nth(c.lba + blk) = Nth(c.lba) + Nth(blk)
      BY <2>a, NthOrder
    <3>2. b \in Int
      BY <2>a
    <3>3. Nth(c.n - b) = Nth(c.n) - Nth(b) /\ Nth(c.lba + b) = Nth(c.lba) + Nth(b)
      BY <2>a, <3>2, NthOrder
    <3>4. Nth(c.lba) \in Int
      BY <2>a, NthRise
    <3> HIDE DEF b
    <3> QED
      BY <1>2, <2>b, <3>1, <3>3, <3>4
  <2>4. Bytes(PerBlock - i) = 0
    <3>1. PerBlock - i = 0
      BY <1>2, <1>5
    <3> QED
      BY <3>1, BytesRise
  <2>5. ReadPoint(d, c.lba, c.n, b, 0)
    BY <1>1, <1>5, <2>3, <2>4 DEF ReadPoint
  <2> HIDE DEF b
  <2> QED
    BY <1>2, <1>3, <2>2, <2>5
<1> QED
  BY <1>2, <1>4, <1>5

\* The cells of block b have been written from the command with tag t.
BlockStored(e, d, t, b) ==
  \A a \in Cells : e.card[a] = IF a - Nth(b) \in 0..(PerBlock - 1) THEN <<t, a>> ELSE d.card[a]

\* One packet of the write c with tag t, from d to e: s packets have been stored.
PacketStored(e, d, c, t, s) ==
  /\ Differ(e, d, {"wOff", "wLen", "xfer", "buf", "cnt", "card", "csw", "rx", "bot", "txbuf", "tx"})
  /\ e.csw.tag = d.csw.tag /\ e.rx = "VALID" /\ s \in 1..Nth(c.n)
  /\ e.card = d.card \/ \E b \in c.lba..(c.lba + c.n - 1) : BlockStored(e, d, t, b)
  /\ s = Nth(c.n) =>
       /\ e.bot = "CSW_SEND" /\ e.csw.status = "PASSED" /\ e.txbuf = Status(e.csw) /\ e.tx = "VALID"
       /\ e.xfer = "IDLE" /\ e.cnt = 0 /\ e.csw.residue = 0
       /\ \A a \in CellsOf(c) : e.card[a] = <<t, a>>
  /\ s # Nth(c.n) =>
       /\ e.bot = d.bot /\ e.csw.status = d.csw.status /\ e.txbuf = d.txbuf /\ e.tx = d.tx
       /\ e.xfer = "ONGOING" /\ Writes(e, c, t, s)

LEMMA WriteGoesOn ==
  ASSUME NEW d, IsDevice(d), d.mounted = TRUE, d.xfer \in {"IDLE", "ONGOING"},
         NEW c, InRange(c), d.xfer = "IDLE" => d.cbw = c,
         NEW t, NEW s \in 0..(Nth(c.n) - 1), Writes(d, c, t, s),
         d.rxbuf.val = <<t, Nth(c.lba) + s>>
  PROVE  PacketStored(Write_Memory(d), d, c, t, s + 1)
<1> DEFINE e == Write_Memory(d)
<1>1. PICK blk \in 0..(c.n - 1), i \in 0..(PerBlock - 1) :
        /\ s = Nth(blk) + i
        /\ d.xfer = "ONGOING" => WritePoint(d, c.lba, c.n, blk, i)
        /\ d.xfer = "IDLE" => s = 0
        /\ d.cnt = Bytes(i) /\ Filled(d, t, c.lba + blk, i)
        /\ d.csw.residue = Bytes(Nth(c.n) - s)
        /\ \A a \in Nth(c.lba)..(Nth(c.lba + blk) - 1) : d.card[a] = <<t, a>>
  BY DEF Writes
<1> DEFINE n == c.n
           l == c.lba
           last == blk = n - 1 /\ i = PerBlock - 1
<1>2. /\ Nth(n) \in Nat \ {0} /\ Nth(l) \in Nat /\ Nth(blk) \in Nat
      /\ Nth(blk) + i + 1 <= Nth(n) /\ (Nth(blk) + i + 1 = Nth(n) <=> last)
      /\ Nth(l + blk) = Nth(l) + Nth(blk)
      /\ Nth(n - blk) = Nth(n) - Nth(blk)
      /\ (Bytes(Nth(n) - Nth(blk) - i) - PacketSize) % Word = Bytes(Nth(n) - Nth(blk) - i - 1)
  BY RangePackets
<1>3. /\ l \in Nat /\ n \in Nat /\ l + n <= BlockCount /\ PerBlock \in Nat \ {0}
      /\ blk \in Int /\ blk >= 0 /\ blk < n /\ n \in Int /\ l \in Int /\ i \in Nat
  BY Sizes DEF InRange
<1>4. d.xfer = "IDLE" => blk = 0 /\ i = 0
  <2>1. 0 < blk => Nth(0) + PerBlock <= Nth(blk)
    BY <1>3, NthOrder
  <2>2. Nth(0) = 0
    BY <1>3, NthRise
  <2> QED
    BY <1>1, <1>2, <1>3, <2>1, <2>2
<1>5. d.rxbuf.val = <<t, Nth(l + blk) + i>>
  <2>1. Nth(l) + s = Nth(l + blk) + i
    BY <1>1, <1>2, <1>3
  <2> QED
    BY <2>1
<1>6. PacketWritten(e, d, t, l, n, blk, i)
  <2>1. \/ d.xfer = "IDLE" /\ d.cbw.lba = l /\ d.cbw.n = n /\ blk = 0 /\ i = 0
        \/ d.xfer = "ONGOING" /\ WritePoint(d, l, n, blk, i)
    BY <1>1, <1>4
  <2>2. d.cnt = Bytes(i) /\ Filled(d, t, l + blk, i)
    BY <1>1
  <2> HIDE DEF e, l, n
  <2> QED
    BY <1>3, <1>5, <2>1, <2>2, WriteStep DEF e, n
<1> HIDE DEF e
<1>7. /\ Differ(e, d, {"wOff", "wLen", "xfer", "buf", "cnt", "card", "csw", "rx", "bot", "txbuf", "tx"})
      /\ e.csw.tag = d.csw.tag /\ e.csw.residue = (d.csw.residue - PacketSize) % Word
      /\ e.rx = "VALID"
      /\ i < PerBlock - 1 => e.card = d.card /\ e.cnt = Bytes(i + 1) /\ Filled(e, t, l + blk, i + 1)
      /\ i = PerBlock - 1 => e.cnt = 0 /\ Filled(e, t, l + blk, PerBlock) /\ BlockStored(e, d, t, l + blk)
      /\ last => /\ e.bot = "CSW_SEND" /\ e.csw.status = "PASSED" /\ e.txbuf = Status(e.csw)
                 /\ e.tx = "VALID" /\ e.xfer = "IDLE"
      /\ ~last => /\ e.bot = d.bot /\ e.csw.status = d.csw.status /\ e.txbuf = d.txbuf /\ e.tx = d.tx
                  /\ e.xfer = "ONGOING"
                  /\ e.wOff = Bytes(Nth(l + blk) + i + 1) /\ e.wLen = Bytes(Nth(n - blk) - i - 1)
  BY <1>6 DEF PacketWritten, BlockStored
<1>8. e.csw.residue = Bytes(Nth(n) - (s + 1))
  <2>1. Nth(n) - s = Nth(n) - Nth(blk) - i /\ Nth(n) - Nth(blk) - i - 1 = Nth(n) - (s + 1)
    BY <1>1, <1>2, <1>3
  <2> QED
    BY <1>1, <1>2, <1>7, <2>1
<1>9. s + 1 \in 1..Nth(n) /\ (s + 1 = Nth(n) <=> last) /\ s + 1 = Nth(blk) + i + 1
  BY <1>1, <1>2, <1>3
<1>10. e.card = d.card \/ \E b \in l..(l + n - 1) : BlockStored(e, d, t, b)
  <2>1. l + blk \in l..(l + n - 1)
    BY <1>3
  <2>2. i < PerBlock - 1 \/ i = PerBlock - 1
    BY <1>3
  <2> QED
    BY <1>7, <2>1, <2>2
\* What is on the card when a block is complete.
<1>11. ASSUME i = PerBlock - 1, NEW a \in Nth(l)..(Nth(l + blk) + PerBlock - 1)
       PROVE  e.card[a] = <<t, a>>
  <2>1. a - Nth(l) \in 0..(Nth(n) - 1) /\ Nth(l) + (a - Nth(l)) = a
    BY <1>2, <1>3, <1>11
  <2> DEFINE x == a - Nth(l)
  <2> HIDE DEF x
  <2>2. x \in 0..(Nth(n) - 1) /\ Nth(l) + x = a
    BY <2>1 DEF x
  <2>3. Nth(l) + x \in Cells
    BY <2>2, RangeAddress
  <2>4. e.card[a] = IF a - Nth(l + blk) \in 0..(PerBlock - 1) THEN <<t, a>> ELSE d.card[a]
    BY <1>7, <1>11, <2>2, <2>3 DEF BlockStored
  <2>5. a - Nth(l + blk) \in 0..(PerBlock - 1) \/ a \in Nth(l)..(Nth(l + blk) - 1)
    BY <1>2, <1>3
  <2> QED
    BY <1>1, <2>4, <2>5
<1>12. ASSUME s + 1 = Nth(n)
       PROVE  /\ e.bot = "CSW_SEND" /\ e.csw.status = "PASSED" /\ e.txbuf = Status(e.csw) /\ e.tx = "VALID"
              /\ e.xfer = "IDLE" /\ e.cnt = 0 /\ e.csw.residue = 0
              /\ \A a \in CellsOf(c) : e.card[a] = <<t, a>>
  <2>1. last
    BY <1>9, <1>12
  <2>2. Nth(n) - (s + 1) = 0
    BY <1>2, <1>12
  <2>3. e.csw.residue = 0
    <3>1. Bytes(0) = 0
      BY BytesRise
    <3> QED
      BY <1>8, <2>2, <3>1
  <2>4. ASSUME NEW a \in CellsOf(c)  PROVE e.card[a] = <<t, a>>
    <3>1. a \in Cells /\ a - Nth(l) \in 0..(Nth(n) - 1)
      BY <2>4 DEF CellsOf, Nth
    <3>2. a \in Int
      BY <3>1, CardSize DEF Cells, Nth
    <3>3. Nth(l + blk) + PerBlock = Nth(l) + Nth(n)
      BY <1>2, <1>3, <1>9, <1>12, <2>1
    <3>4. a \in Nth(l)..(Nth(l + blk) + PerBlock - 1)
      BY <1>2, <1>3, <3>1, <3>2, <3>3
    <3> QED
      BY <1>11, <2>1, <3>4
  <2> QED
    BY <1>7, <2>1, <2>3, <2>4
<1>13. ASSUME s + 1 # Nth(n)  PROVE Writes(e, c, t, s + 1)
  <2>1. ~last
    BY <1>9, <1>13
  <2>2. CASE i < PerBlock - 1
    <3> DEFINE j == i + 1
    <3>1. j \in 0..(PerBlock - 1) /\ s + 1 = Nth(blk) + j
          /\ Nth(l + blk) + i + 1 = Nth(l + blk) + j /\ Nth(n - blk) - i - 1 = Nth(n - blk) - j
      BY <1>1, <1>2, <1>3, <2>2
    <3>2. WritePoint(e, l, n, blk, j)
      BY <1>7, <2>1, <3>1 DEF WritePoint
    <3>3. e.cnt = Bytes(j) /\ Filled(e, t, l + blk, j) /\ e.xfer # "IDLE" /\ e.card = d.card
      BY <1>7, <2>1, <2>2
    <3> HIDE DEF j
    <3> QED
      BY <1>1, <1>8, <3>1, <3>2, <3>3 DEF Writes
  <2>3. CASE i = PerBlock - 1
    <3> DEFINE b == blk + 1
    <3>1. b \in 0..(n - 1) /\ b \in Int
      BY <1>3, <2>1, <2>3
    <3>2. Nth(b) = Nth(blk) + PerBlock
      BY <1>3, NthRise
    <3> HIDE DEF b
    <3>3. Nth(n - b) = Nth(n) - Nth(b) /\ Nth(l + b) = Nth(l) + Nth(b)
      BY <1>3, <3>1, NthOrder
    <3>4. /\ s + 1 = Nth(b) + 0
          /\ Nth(l + blk) + i + 1 = Nth(l + b) + 0 /\ Nth(n - blk) - i - 1 = Nth(n - b) - 0
          /\ Nth(l + b) - 1 = Nth(l + blk) + PerBlock - 1
      BY <1>1, <1>2, <1>3, <2>3, <3>2, <3>3
    <3>5. WritePoint(e, l, n, b, 0)
      BY <1>7, <2>1, <3>4 DEF WritePoint
    <3>6. e.cnt = Bytes(0)
      <4>1. Bytes(0) = 0
        BY BytesRise
      <4> QED
        BY <1>7, <2>3, <4>1
    <3>7. Filled(e, t, l + b, 0)
      BY <1>7, <2>3 DEF Filled
    <3>8. \A a \in Nth(l)..(Nth(l + b) - 1) : e.card[a] = <<t, a>>
      BY <1>11, <2>3, <3>4
    <3>9. e.xfer # "IDLE" /\ 0 \in 0..(PerBlock - 1)
      BY <1>3, <1>7, <2>1
    <3> QED
      BY <1>8, <3>1, <3>4, <3>5, <3>6, <3>7, <3>8, <3>9 DEF Writes
  <2> QED
    BY <1>3, <2>2, <2>3
<1>14. s + 1 # Nth(n) => /\ e.bot = d.bot /\ e.csw.status = d.csw.status /\ e.txbuf = d.txbuf
                          /\ e.tx = d.tx /\ e.xfer = "ONGOING"
  BY <1>7, <1>9
<1>15. PacketStored(e, d, c, t, s + 1)
  BY <1>7, <1>9, <1>10, <1>12, <1>13, <1>14 DEF PacketStored
<1> QED
  BY <1>15 DEF e

\* A write that waits for its first packet.
LEMMA WriteBegins ==
  ASSUME NEW d, DOMAIN d.buf = 1..PerBlock, NEW c, InRange(c), NEW t,
         d.xfer = "IDLE", d.cnt = 0, d.csw.residue = Bytes(Nth(c.n))
  PROVE  Writes(d, c, t, 0)
<1>1. c.n \in Int /\ c.lba \in Int /\ 0 \in 0..(c.n - 1) /\ 0 \in 0..(PerBlock - 1)
  BY Sizes DEF InRange
<1>2. Nth(0) = 0 /\ Nth(c.n) \in Int /\ Nth(c.lba) \in Int
  BY <1>1, NthRise
<1>3. Bytes(0) = 0
  BY BytesRise
<1>4. 0 = Nth(0) + 0 /\ Nth(c.n) - 0 = Nth(c.n) /\ c.lba + 0 = c.lba
  BY <1>1, <1>2
<1>5. Filled(d, t, c.lba + 0, 0)
  BY DEF Filled
<1>6. \A a \in Nth(c.lba)..(Nth(c.lba + 0) - 1) : d.card[a] = <<t, a>>
  BY <1>2, <1>4
<1>7. d.csw.residue = Bytes(Nth(c.n) - 0) /\ d.cnt = Bytes(0)
  BY <1>3, <1>4
<1> QED
  BY <1>1, <1>4, <1>5, <1>6, <1>7 DEF Writes

\* Neither depends on the endpoints.
LEMMA TransferFrame ==
  ASSUME NEW d, NEW e, NEW c, NEW t, NEW s, e.buf = d.buf, e.card = d.card, e.csw = d.csw
  PROVE  /\ /\ e.rLen = d.rLen /\ e.rOff = d.rOff /\ e.brc = d.brc /\ e.boff = d.boff
            /\ Reads(d, c, s)
            => Reads(e, c, s)
         /\ /\ e.wLen = d.wLen /\ e.wOff = d.wOff /\ e.cnt = d.cnt /\ e.xfer = d.xfer
            /\ Writes(d, c, t, s)
            => Writes(e, c, t, s)
<1>1. ASSUME e.rLen = d.rLen, e.rOff = d.rOff, e.brc = d.brc, e.boff = d.boff, Reads(d, c, s)
      PROVE  Reads(e, c, s)
  <2>1. PICK blk \in 0..(c.n - 1), i \in 1..PerBlock :
        /\ s = Nth(blk) + i
        /\ d.rLen = Bytes(Nth(c.n - blk) - i) /\ d.rOff = Bytes(Nth(c.lba + blk) + i)
        /\ d.brc = Bytes(PerBlock - i) /\ d.boff = Bytes(i)
        /\ Loaded(d, c.lba + blk)
        /\ d.csw.residue = Bytes(Nth(c.n) - s)
    BY <1>1 DEF Reads
  <2>2. Loaded(e, c.lba + blk)
    BY <2>1 DEF Loaded
  <2> QED
    BY <1>1, <2>1, <2>2 DEF Reads
<1>2. ASSUME e.wLen = d.wLen, e.wOff = d.wOff, e.cnt = d.cnt, e.xfer = d.xfer, Writes(d, c, t, s)
      PROVE  Writes(e, c, t, s)
  <2>1. PICK blk \in 0..(c.n - 1), i \in 0..(PerBlock - 1) :
        /\ s = Nth(blk) + i
        /\ d.xfer = "ONGOING" => WritePoint(d, c.lba, c.n, blk, i)
        /\ d.xfer = "IDLE" => s = 0
        /\ d.cnt = Bytes(i) /\ Filled(d, t, c.lba + blk, i)
        /\ d.csw.residue = Bytes(Nth(c.n) - s)
        /\ \A a \in Nth(c.lba)..(Nth(c.lba + blk) - 1) : d.card[a] = <<t, a>>
    BY <1>2 DEF Writes
  <2>2. (d.xfer = "ONGOING" => WritePoint(e, c.lba, c.n, blk, i)) /\ Filled(e, t, c.lba + blk, i)
    BY <1>2, <2>1 DEF WritePoint, Filled
  <2> QED
    BY <1>2, <2>1, <2>2 DEF Writes
<1> QED
  BY <1>1, <1>2

-----------------------------------------------------------------------------
(* As long as no reset has cut a transfer, the two sides agree: where the    *)
(* host is in its command, what the state machine of the device does, what  *)
(* the endpoints hold and how far the data are.                             *)

Active  == {"in", "out", "csw"}
Running == Active \cup {"recover"}
Serving == dev.csw.tag = tag
Quiet   == dev.bot = "IDLE" \/ (dev.txctr /\ dev.bot \in {"CSW_SEND", "ERROR"})
Wrapper == [kind |-> "cbw", tag |-> tag, block |-> cmd]

\* The endpoints belong to the state machine.
Ports ==
  /\ dev.tx # "NAK" => ~dev.txctr
  /\ dev.csw.tag \in Nat /\ dev.csw.tag <= tag
  /\ dev.txbuf.kind = "csw" => dev.txbuf.tag \in Nat /\ dev.txbuf.tag <= dev.csw.tag
  /\ dev.bot \in {"DATA_IN", "DATA_IN_LAST", "CSW_SEND"} => dev.tx = "VALID" \/ dev.txctr
  /\ dev.tx = "STALL" => dev.bot = "ERROR" \/ phase = "clear_in"
  /\ dev.bot = "ERROR" => dev.tx # "NAK" \/ dev.txctr
  /\ dev.bot \in {"CSW_SEND", "ERROR"} => dev.txbuf = Status(dev.csw)
  /\ dev.bot = "ERROR" => dev.csw.status \in {"FAILED", "PHASE_ERROR"}
  /\ dev.sig = "bad" => dev.bot = "ERROR" /\ dev.tx = "STALL" /\ dev.rx = "STALL" /\ Drained

\* Between two commands the device has finished, or is about to.
Between ==
  /\ phase \in {"ready", "cbw"} =>
       ~dev.rxctr /\ IF dev.txctr THEN dev.bot \in {"CSW_SEND", "ERROR"} ELSE dev.bot = "IDLE"
  /\ phase = "ready" /\ answer.kind # "botreset" /\ ~dev.txctr => dev.rx = "VALID"
  /\ phase = "cbw" => ~Serving /\ moved = 0 /\ got = <<>>
  /\ phase \in {"clear_in", "clear_out"} => Drained /\ dev.bot = "IDLE"

\* The wrapper is on its way: only a leftover packet can be taken meanwhile.
Waiting ==
  phase \in Running /\ ~Serving =>
    /\ Quiet
    /\ dev.rxctr => dev.rxbuf = Wrapper
    /\ phase \in Active => dev.rxctr
    /\ cmd.dir = "OUT" => moved = 0
    /\ phase \in Active /\ ~leftover => moved = 0
    /\ phase = "in" /\ moved = 0 => got = <<>>
    /\ phase = "csw" => cmd.len = 0 \/ cmd.dir = "IN"

\* The device serves the host's command, and one endpoint is in use at a time.
Working ==
  /\ phase \in {"in", "out"} => moved < cmd.len
  /\ phase = "in" => cmd.dir = "IN"
  /\ phase = "out" => cmd.dir = "OUT"
  /\ dev.bot \in {"DATA_IN", "DATA_OUT", "DATA_IN_LAST"} => phase \in Running /\ Serving /\ dev.sig = "valid"
  /\ phase \in Running /\ Serving =>
       /\ dev.rxctr => dev.rxbuf.kind = "data"
       /\ dev.sig = "valid" => dev.cbw = cmd
       /\ phase = "in" => ~dev.rxctr
       /\ phase = "out" => ~dev.txctr
       /\ phase = "csw" /\ dev.txctr => ~dev.rxctr

\* A packet that waits for the host without being an answer was left over.
Leftover ==
  dev.tx = "VALID" /\ dev.bot \in {"IDLE", "DATA_OUT"} =>
    /\ phase \notin {"recover", "clear_in"} => leftover
    /\ phase \in Active /\ dev.txbuf.kind = "csw" => dev.txbuf.tag < tag

\* A status meets a host that has no more data for the device.
Answering ==
  phase \in Active /\ Serving =>
    /\ phase = "out" /\ dev.bot = "CSW_SEND" => dev.rx = "STALL" /\ ~dev.rxctr /\ dev.csw.status = "FAILED"
    /\ dev.tx = "VALID" /\ dev.bot \in {"CSW_SEND", "ERROR"} => ~dev.rxctr
    /\ phase # "csw" /\ dev.bot = "ERROR" => dev.tx = "STALL"

\* The variables of memory.c are at rest outside the data states.
Transfer ==
  /\ dev.bot # "DATA_OUT" => dev.cnt = 0
  /\ dev.bot # "DATA_IN" => dev.brc = 0
  /\ dev.xfer = "ONGOING" => dev.bot = "DATA_IN" \/ dev.bot = "DATA_OUT"

\* What the host has of a read: its packets from 1 to t, or it took too much.
Expected(k) == Packet(dev.card[Nth(cmd.lba) + k - 1])
Sync(t) == moved = Bytes(t) /\ got = [k \in 1..t |-> Expected(k)]
InStep(t) == Sync(t) \/ moved > Bytes(t)

DataIn(s) ==
  /\ dev.txbuf = Expected(s)
  /\ phase = "in" => InStep(IF dev.txctr THEN s ELSE s - 1)
  /\ phase = "csw" /\ dev.txctr /\ s = Nth(cmd.n) => Sync(s)

Reading ==
  /\ dev.bot = "DATA_IN" =>
       /\ cmd.op = "READ10" /\ cmd.dir = "IN" /\ AddressOk(dev) /\ dev.xfer = "ONGOING" /\ ~dev.rxctr
       /\ \E s \in 1 .. (Nth(cmd.n) - 1) : Reads(dev, cmd, s) /\ DataIn(s)
  /\ dev.bot = "DATA_IN_LAST" /\ cmd.op = "READ10" =>
       AddressOk(dev) /\ cmd.dir = "IN" /\ dev.csw.residue = 0 /\ DataIn(Nth(cmd.n))

\* A reply of length bytes, and what its status will say.
InfoSent(length) ==
  /\ dev.txbuf = Info(length) /\ dev.csw.residue = (cmd.len - length) % Word
  /\ ~leftover /\ phase = "in" /\ ~dev.txctr => moved = 0
  /\ ~leftover /\ phase = "csw" /\ dev.txctr => moved = length /\ length <= cmd.len

Replying ==
  dev.bot = "DATA_IN_LAST" /\ cmd.op # "READ10" =>
    cmd.op # "WRITE10" /\ \E length \in 0..InfoLength : InfoSent(length)

DataOut(s) ==
  /\ dev.rxctr => dev.rxbuf = Packet(<<tag, Nth(cmd.lba) + s>>)
  /\ moved = Bytes(IF dev.rxctr THEN s + 1 ELSE s)

Writing ==
  dev.bot = "DATA_OUT" =>
    /\ cmd.op = "WRITE10" /\ cmd.dir = "OUT" /\ AddressOk(dev) /\ dev.rx # "STALL"
    /\ phase = "csw" => moved >= cmd.len
    /\ phase # "in"
    /\ \E s \in 0..(Nth(cmd.n) - 1) : Writes(dev, cmd, tag, s) /\ DataOut(s)

\* What the status says is so when the host comes to read it.
Written == \A a \in CellsOf(cmd) : dev.card[a] = <<tag, a>>
Truth ==
  /\ phase \in Active /\ Serving /\ dev.bot \in {"CSW_SEND", "ERROR"} /\ dev.sig = "valid"
  /\ ~dev.txctr /\ ~dev.rxctr
  => /\ phase = "csw" /\ dev.csw.status # "PHASE_ERROR" => leftover \/ dev.csw.residue = cmd.len - moved
     /\ phase # "csw" /\ dev.csw.status = "FAILED" => leftover \/ (dev.csw.residue = cmd.len /\ moved = 0)
     /\ phase = "csw" /\ dev.csw.status = "PASSED" /\ cmd.op = "READ10" => Sync(Nth(cmd.n))
     /\ dev.csw.status = "PASSED" /\ cmd.op = "WRITE10" => Written

\* No block on the card is torn, and the last answer was true.
Whole(card) ==
  \A a \in Cells : card[a][2] = a /\ card[a][1] = card[(a \div PerBlock) * PerBlock][1]
Reported ==
  /\ Passed /\ cmd.op = "READ10" => got = [i \in 1..Nth(cmd.n) |-> Expected(i)]
  /\ Passed /\ cmd.op = "WRITE10" => Written
  /\ Finished /\ ~leftover => answer.residue = cmd.len - moved

Linked ==
  /\ Ports /\ Between /\ Waiting /\ Working /\ Leftover /\ Answering /\ Transfer
  /\ Reading /\ Replying /\ Writing /\ Truth /\ Whole(dev.card) /\ Reported

IInv == Shape /\ (~abandoned => Linked)

\* Without a data state there is nothing to say of a transfer.
Resting == dev.bot # "DATA_IN" /\ dev.bot # "DATA_OUT" /\ dev.bot # "DATA_IN_LAST"

LEMMA RestingLinks == Resting => Reading /\ Replying /\ Writing
  BY DEF Resting, Reading, Replying, Writing

LEMMA RestingLinksNext == Resting' => Reading' /\ Replying' /\ Writing'
  BY DEF Resting, Reading, Replying, Writing

LEMMA InitLinked == Init => IInv
<1> SUFFICES ASSUME Init PROVE IInv
  OBVIOUS
<1>1. Shape
  BY InitShape
<1>2. /\ dev.bot = "IDLE" /\ dev.sig = "valid" /\ dev.xfer = "IDLE" /\ dev.brc = 0 /\ dev.cnt = 0
      /\ dev.csw.tag = 0 /\ dev.txbuf = Empty /\ dev.card = [a \in Cells |-> <<0, a>>]
      /\ dev.tx = "NAK" /\ dev.txctr = FALSE /\ dev.rx = "VALID" /\ dev.rxctr = FALSE
  BY BootTyped DEF Init
<1>3. phase = "ready" /\ tag = 0 /\ answer = Empty
  BY DEF Init
<1>4. Ports
  BY <1>2, <1>3 DEF Ports, Empty
<1>5. Between /\ Waiting /\ Working /\ Leftover /\ Answering /\ Transfer
  BY <1>2, <1>3 DEF Between, Waiting, Working, Leftover, Answering, Transfer, Running, Active
<1>6. Reading /\ Replying /\ Writing
  BY <1>2, RestingLinks DEF Resting
<1>7. Truth /\ Reported
  BY <1>3 DEF Truth, Active, Reported, Passed, Finished, Empty
<1>8. Whole(dev.card)
  <2>1. ASSUME NEW a \in Cells
        PROVE  dev.card[a][2] = a /\ dev.card[a][1] = dev.card[(a \div PerBlock) * PerBlock][1]
    <3> DEFINE b == a \div PerBlock
    <3>1. Cells = 0..(Nth(BlockCount) - 1) /\ Nth(BlockCount) \in Nat /\ PerBlock \in Nat \ {0}
      BY CardSize, Sizes DEF Cells, Nth
    <3>2. a \in Int /\ b \in Int /\ PerBlock * b <= a /\ a < PerBlock * b + PerBlock
      BY <3>1, DivBounds
    <3> HIDE DEF b
    <3>3. b >= 0
      <4>1. b <= -1 => PerBlock * b <= 0 - PerBlock
        BY <3>1, <3>2
      <4> QED
        BY <3>1, <3>2, <4>1
    <3>4. b * PerBlock = PerBlock * b /\ PerBlock * b >= 0
      BY <3>1, <3>2, <3>3
    <3>5. b * PerBlock \in Cells
      BY <3>1, <3>2, <3>4
    <3>6. dev.card[a] = <<0, a>> /\ dev.card[b * PerBlock] = <<0, b * PerBlock>>
      BY <1>2, <3>5
    <3> QED
      BY <3>6 DEF b
  <2> QED
    BY <2>1 DEF Whole
<1> QED
  BY <1>1, <1>4, <1>5, <1>6, <1>7, <1>8 DEF IInv, Linked

-----------------------------------------------------------------------------
(* Each step keeps the two sides in agreement.                               *)

\* Only a host that is ready has something reported.
LEMMA NothingReported ==
  ASSUME phase' # "ready" \/ answer'.kind # "csw"
  PROVE  Reported'
  BY DEF Reported, Passed, Finished

LEMMA BeginLinked ==
  ASSUME Shape, Linked, NEW c \in Commands, Begin(c)
  PROVE  Linked'
<1>1. /\ Ports /\ Between /\ Working /\ Leftover /\ Transfer /\ Whole(dev.card)
      /\ phase = "ready" /\ phase' = "cbw" /\ tag' = tag + 1 /\ got' = <<>> /\ moved' = 0
      /\ dev' = dev /\ leftover' = (leftover /\ dev.tx = "VALID") /\ tag \in Nat
  BY DEF Linked, Begin, Shape
<1>2. dev.csw.tag \in Nat /\ dev.csw.tag <= tag
  BY <1>1 DEF Ports
<1>3. dev'.csw.tag # tag' /\ dev'.csw.tag <= tag'
  BY <1>1, <1>2
<1>4. Resting
  BY <1>1 DEF Between, Resting
<1>5. Ports'
  BY <1>1, <1>3 DEF Ports, Drained
<1>6. Between'
  BY <1>1, <1>3 DEF Between, Serving
<1>7. Waiting' /\ Working' /\ Answering' /\ Truth'
  BY <1>1, <1>4 DEF Waiting, Working, Answering, Truth, Running, Active, Resting
<1>8. Leftover' /\ Transfer'
  BY <1>1 DEF Leftover, Transfer, Active
<1>9. Reading' /\ Replying' /\ Writing'
  BY <1>1, <1>4, RestingLinksNext DEF Resting
<1>10. Reported' /\ Whole(dev.card)'
  BY <1>1, NothingReported
<1> QED
  BY <1>5, <1>6, <1>7, <1>8, <1>9, <1>10 DEF Linked

\* Whatever makes the host give up, nothing else moves but a packet that it takes.
LEMMA RecoverLinked ==
  ASSUME Shape, Linked, phase \in Active \cup {"cbw"}, phase' = "recover",
         \/ dev' = dev
         \/ dev' = Taken(dev) /\ dev.tx = "VALID" /\ ~dev.txctr,
         moved' = moved \/ cmd.dir = "IN",
         UNCHANGED <<cmd, tag, leftover>>
  PROVE  Linked'
<1>0. /\ Ports /\ Between /\ Waiting /\ Working /\ Leftover /\ Transfer /\ Reading /\ Replying /\ Writing
      /\ Whole(dev.card)
  BY DEF Linked
<1>a. IsDevice(dev) /\ cmd.dir \in {"IN", "OUT"}
  BY BlockTypes DEF Shape, Typed, Regular
<1>1. /\ Differ(dev', dev, {"tx", "txctr"})
      /\ \/ dev'.tx = dev.tx /\ dev'.txctr = dev.txctr
         \/ dev'.tx = "NAK" /\ dev'.txctr = TRUE /\ dev.tx = "VALID" /\ ~dev.txctr
  <2>1. CASE dev' = dev
    BY <1>a, <2>1 DEF Differ
  <2>2. CASE dev' = Taken(dev) /\ dev.tx = "VALID" /\ ~dev.txctr
    BY <1>a, <2>2, PortsDo
  <2> QED
    BY <2>1, <2>2
<1>2. /\ dev'.bot = dev.bot /\ dev'.cbw = dev.cbw /\ dev'.sig = dev.sig /\ dev'.csw = dev.csw
      /\ dev'.xfer = dev.xfer /\ dev'.rOff = dev.rOff /\ dev'.rLen = dev.rLen
      /\ dev'.wOff = dev.wOff /\ dev'.wLen = dev.wLen /\ dev'.brc = dev.brc /\ dev'.boff = dev.boff
      /\ dev'.cnt = dev.cnt /\ dev'.buf = dev.buf /\ dev'.mounted = dev.mounted
      /\ dev'.txbuf = dev.txbuf /\ dev'.rx = dev.rx /\ dev'.rxbuf = dev.rxbuf
      /\ dev'.rxctr = dev.rxctr /\ dev'.card = dev.card
  BY <1>1 DEF Differ, Fields
<1>3. phase # "ready" /\ phase # "clear_in" /\ phase # "clear_out" /\ (phase \in Running \/ phase = "cbw")
  BY DEF Active, Running
<1>4. Ports'
  BY <1>0, <1>1, <1>2, <1>3 DEF Ports, Drained
<1>5. Between' /\ Answering' /\ Truth' /\ Leftover'
  BY DEF Between, Answering, Truth, Leftover, Active
<1>6. Waiting'
  <2> SUFFICES ASSUME dev.csw.tag # tag
               PROVE  Quiet' /\ (dev'.rxctr => dev'.rxbuf = Wrapper') /\ (cmd.dir = "OUT" => moved' = 0)
    BY <1>2 DEF Waiting, Serving, Active
  <2>1. Quiet /\ (dev.rxctr => dev.rxbuf = Wrapper) /\ (cmd.dir = "OUT" => moved = 0)
    BY <1>0, <1>3 DEF Waiting, Between, Serving, Quiet
  <2>2. Quiet'
    BY <1>1, <1>2, <2>1 DEF Quiet
  <2> QED
    BY <1>2, <1>a, <2>1, <2>2 DEF Wrapper
<1>7. Working'
  <2>1. phase = "cbw" => dev.csw.tag # tag
    BY <1>0 DEF Between, Serving
  <2>2. phase' \in Running /\ phase' # "in" /\ phase' # "out" /\ phase' # "csw"
    BY DEF Running
  <2> QED
    BY <1>0, <1>2, <1>3, <2>1, <2>2 DEF Working, Serving
<1>8. Transfer'
  BY <1>0, <1>2 DEF Transfer
<1>9. Reading'
  <2>1. AddressOk(dev) => AddressOk(dev')
    BY <1>2, AddressKept
  <2>2. \A s : DataIn(s) => DataIn(s)'
    BY <1>2 DEF DataIn, Expected
  <2>3. \A s : Reads(dev, cmd, s) => Reads(dev', cmd, s)
    BY <1>2, TransferFrame
  <2> QED
    BY <1>0, <1>2, <2>1, <2>2, <2>3 DEF Reading
<1>10. Replying'
  <2>1. \A length : InfoSent(length) => InfoSent(length)'
    BY <1>2 DEF InfoSent
  <2> QED
    BY <1>0, <1>2, <2>1 DEF Replying
<1>11. Writing'
  <2>1. AddressOk(dev) => AddressOk(dev')
    BY <1>2, AddressKept
  <2>2. ASSUME dev.bot = "DATA_OUT"  PROVE cmd.dir # "IN" /\ moved' = moved
    BY <1>0, <2>2 DEF Writing
  <2>3. \A s : dev.bot = "DATA_OUT" /\ DataOut(s) => DataOut(s)'
    BY <1>2, <2>2 DEF DataOut
  <2>4. \A s : Writes(dev, cmd, tag, s) => Writes(dev', cmd, tag, s)
    BY <1>2, TransferFrame
  <2> QED
    BY <1>0, <1>2, <2>1, <2>3, <2>4 DEF Writing
<1>12. Reported' /\ Whole(dev.card)'
  BY <1>0, <1>2, NothingReported
<1> QED
  BY <1>4, <1>5, <1>6, <1>7, <1>8, <1>9, <1>10, <1>11, <1>12 DEF Linked

\* A packet on the OUT endpoint.
LEMMA ReceiveFrame ==
  ASSUME IsDevice(dev), NEW packet, dev' = Receive(dev, packet)
  PROVE  /\ dev'.bot = dev.bot /\ dev'.cbw = dev.cbw /\ dev'.sig = dev.sig /\ dev'.csw = dev.csw
         /\ dev'.xfer = dev.xfer /\ dev'.rOff = dev.rOff /\ dev'.rLen = dev.rLen
         /\ dev'.wOff = dev.wOff /\ dev'.wLen = dev.wLen /\ dev'.brc = dev.brc /\ dev'.boff = dev.boff
         /\ dev'.cnt = dev.cnt /\ dev'.buf = dev.buf /\ dev'.mounted = dev.mounted
         /\ dev'.txbuf = dev.txbuf /\ dev'.tx = dev.tx /\ dev'.txctr = dev.txctr /\ dev'.card = dev.card
         /\ dev'.rx = "NAK" /\ dev'.rxbuf = packet /\ dev'.rxctr = TRUE
<1>1. Differ(dev', dev, {"rx", "rxbuf", "rxctr"}) /\ dev'.rx = "NAK" /\ dev'.rxbuf = packet /\ dev'.rxctr = TRUE
  BY ReceiveDoes
<1> QED
  BY <1>1 DEF Differ, Fields

LEMMA SendWrapperLinked ==
  ASSUME Shape, Linked, SendWrapper
  PROVE  Linked'
<1>0. /\ Ports /\ Between /\ Working /\ Leftover /\ Transfer /\ Whole(dev.card)
      /\ phase = "cbw" /\ dev.rx = "VALID" /\ ~dev.rxctr
      /\ dev' = Receive(dev, [kind |-> "cbw", tag |-> tag, block |-> cmd])
      /\ phase' = IF cmd.len = 0 THEN "csw" ELSE IF cmd.dir = "IN" THEN "in" ELSE "out"
      /\ UNCHANGED <<cmd, tag, got, moved, leftover>>
  BY DEF Linked, SendWrapper
<1>1. IsDevice(dev) /\ cmd.dir \in {"IN", "OUT"} /\ cmd.len \in Nat /\ tag \in Nat
  BY BlockTypes DEF Shape, Typed, Regular
<1>2. /\ dev'.bot = dev.bot /\ dev'.cbw = dev.cbw /\ dev'.sig = dev.sig /\ dev'.csw = dev.csw
      /\ dev'.xfer = dev.xfer /\ dev'.brc = dev.brc /\ dev'.cnt = dev.cnt
      /\ dev'.txbuf = dev.txbuf /\ dev'.tx = dev.tx /\ dev'.txctr = dev.txctr /\ dev'.card = dev.card
      /\ dev'.rx = "NAK" /\ dev'.rxctr = TRUE
      /\ dev'.rxbuf = [kind |-> "cbw", tag |-> tag, block |-> cmd]
  BY <1>0, <1>1, ReceiveFrame
<1>3. /\ dev.csw.tag # tag /\ dev.csw.tag \in Nat /\ dev.csw.tag <= tag
      /\ moved = 0 /\ got = <<>> /\ dev.sig # "bad"
      /\ IF dev.txctr THEN dev.bot \in {"CSW_SEND", "ERROR"} ELSE dev.bot = "IDLE"
  BY <1>0 DEF Between, Ports, Serving
<1>4. phase' \in Active
  BY <1>0 DEF Active
<1>5. Ports'
  BY <1>0, <1>2, <1>3 DEF Ports, Drained
<1>6. Between' /\ Answering' /\ Truth' /\ Transfer'
  BY <1>0, <1>2, <1>3, <1>4 DEF Between, Answering, Truth, Transfer, Serving, Active
<1>7. Waiting'
  <2>1. Quiet' /\ (dev'.rxctr => dev'.rxbuf = Wrapper')
    BY <1>0, <1>2, <1>3 DEF Quiet, Wrapper
  <2>2. phase' = "csw" => cmd.len = 0 \/ cmd.dir = "IN"
    BY <1>0
  <2> QED
    BY <1>0, <1>2, <1>3, <2>1, <2>2 DEF Waiting
<1>8. Resting
  BY <1>3 DEF Resting
<1>9. Working'
  <2>1. phase' \in {"in", "out"} => moved < cmd.len
    BY <1>0, <1>1, <1>3
  <2>2. (phase' = "in" => cmd.dir = "IN") /\ (phase' = "out" => cmd.dir = "OUT")
    BY <1>0, <1>1
  <2> QED
    BY <1>0, <1>2, <1>3, <1>8, <2>1, <2>2 DEF Working, Serving, Resting
<1>10. Leftover'
  <2>1. dev.txbuf.kind = "csw" => dev.txbuf.tag \in Nat /\ dev.txbuf.tag < tag
    BY <1>0, <1>1, <1>3 DEF Ports
  <2> QED
    BY <1>0, <1>2, <2>1 DEF Leftover
<1>11. Reading' /\ Replying' /\ Writing'
  BY <1>2, <1>8, RestingLinksNext DEF Resting
<1>12. Reported' /\ Whole(dev.card)'
  BY <1>0, <1>2, <1>4, NothingReported DEF Active
<1> QED
  BY <1>5, <1>6, <1>7, <1>9, <1>10, <1>11, <1>12 DEF Linked

LEMMA SendDataLinked ==
  ASSUME Shape, Linked, SendData
  PROVE  Linked'
<1> DEFINE packet == Packet(<<tag, cmd.lba * PerBlock + moved \div PacketSize>>)
<1>0. /\ Ports /\ Waiting /\ Working /\ Leftover /\ Answering /\ Transfer /\ Reading /\ Replying /\ Writing
      /\ Whole(dev.card)
      /\ phase = "out" /\ dev.rx = "VALID" /\ ~dev.rxctr
      /\ dev' = Receive(dev, packet)
      /\ moved' = moved + PacketSize
      /\ phase' = IF moved' >= cmd.len THEN "csw" ELSE "out"
      /\ UNCHANGED <<cmd, tag, got, leftover>>
  BY DEF Linked, SendData
<1> HIDE DEF packet
<1>1. IsDevice(dev) /\ cmd.len \in Nat /\ moved \in Nat /\ PacketSize \in Nat /\ moved' \in Nat
  BY <1>0, BlockTypes, MassAssumption DEF Shape, Typed, Regular
<1>2. /\ dev'.bot = dev.bot /\ dev'.cbw = dev.cbw /\ dev'.sig = dev.sig /\ dev'.csw = dev.csw
      /\ dev'.xfer = dev.xfer /\ dev'.rOff = dev.rOff /\ dev'.rLen = dev.rLen
      /\ dev'.wOff = dev.wOff /\ dev'.wLen = dev.wLen /\ dev'.brc = dev.brc /\ dev'.boff = dev.boff
      /\ dev'.cnt = dev.cnt /\ dev'.buf = dev.buf /\ dev'.mounted = dev.mounted
      /\ dev'.txbuf = dev.txbuf /\ dev'.tx = dev.tx /\ dev'.txctr = dev.txctr /\ dev'.card = dev.card
      /\ dev'.rx = "NAK" /\ dev'.rxbuf = packet /\ dev'.rxctr = TRUE
  BY <1>0, <1>1, ReceiveFrame
<1>3. /\ dev.csw.tag = tag /\ dev.sig # "bad" /\ ~dev.txctr /\ dev.bot # "CSW_SEND"
      /\ dev.bot = "ERROR" => dev.tx = "STALL"
      /\ cmd.dir = "OUT"
  <2>1. dev.csw.tag = tag
    BY <1>0 DEF Waiting, Serving, Running, Active
  <2> QED
    BY <1>0, <2>1 DEF Ports, Working, Answering, Serving, Running, Active
<1>4. phase' \in Active /\ phase' # "in" /\ phase' \in Running /\ phase \in Active /\ phase \in Running
      /\ phase' # "ready" /\ phase' # "cbw" /\ phase' # "clear_in" /\ phase' # "clear_out" /\ phase' # "recover"
  BY <1>0 DEF Active, Running
<1>5. Ports'
  BY <1>0, <1>2, <1>3 DEF Ports, Drained
<1>6. Between' /\ Waiting'
  BY <1>0, <1>2, <1>3, <1>4 DEF Between, Waiting, Serving
<1>7. Answering' /\ Truth' /\ Transfer' /\ Leftover'
  BY <1>0, <1>2, <1>3, <1>4 DEF Answering, Truth, Transfer, Leftover
<1>8. Working'
  <2>1. phase' \in {"in", "out"} => moved' < cmd.len
    BY <1>0, <1>1
  <2>2. packet.kind = "data"
    BY DEF packet, Packet
  <2> QED
    BY <1>0, <1>2, <1>3, <1>4, <2>1, <2>2 DEF Working, Serving
<1>9. Reading'
  BY <1>0, <1>2, <1>3 DEF Reading
<1>10. Replying'
  <2>1. \A length : InfoSent(length) => InfoSent(length)'
    BY <1>0, <1>2, <1>3, <1>4 DEF InfoSent
  <2> QED
    BY <1>0, <1>2, <2>1 DEF Replying
<1>11. Writing'
  <2> SUFFICES ASSUME dev.bot = "DATA_OUT" PROVE Writing'
    BY <1>2 DEF Writing
  <2>1. /\ cmd.op = "WRITE10" /\ cmd.dir = "OUT" /\ AddressOk(dev)
        /\ \E s \in 0..(Nth(cmd.n) - 1) : Writes(dev, cmd, tag, s) /\ DataOut(s)
    BY <1>0 DEF Writing
  <2>2. PICK s \in 0..(Nth(cmd.n) - 1) : Writes(dev, cmd, tag, s) /\ DataOut(s)
    BY <2>1
  <2>3. AddressOk(dev') /\ Writes(dev', cmd, tag, s)
    BY <1>2, <2>1, <2>2, AddressKept, TransferFrame
  <2>4. s \in Int /\ moved = Bytes(s)
    BY <1>0, <2>2 DEF DataOut
  <2>5. moved \div PacketSize = s /\ moved' = Bytes(s + 1)
    BY <1>0, <2>4, BytesRise
  <2>6. dev'.rxbuf = Packet(<<tag, Nth(cmd.lba) + s>>)
    BY <1>2, <2>5 DEF packet, Nth
  <2>7. DataOut(s)'
    BY <1>0, <1>2, <2>5, <2>6 DEF DataOut
  <2>8. phase' = "csw" => moved' >= cmd.len
    BY <1>0
  <2> QED
    BY <1>0, <1>2, <1>4, <2>1, <2>2, <2>3, <2>7, <2>8 DEF Writing
<1>12. Reported' /\ Whole(dev.card)'
  BY <1>0, <1>2, <1>4, NothingReported
<1> QED
  BY <1>5, <1>6, <1>7, <1>8, <1>9, <1>10, <1>11, <1>12 DEF Linked

\* The host has taken a packet from the IN endpoint.
LEMMA TakenFrame ==
  ASSUME IsDevice(dev), dev' = Taken(dev)
  PROVE  /\ dev'.bot = dev.bot /\ dev'.cbw = dev.cbw /\ dev'.sig = dev.sig /\ dev'.csw = dev.csw
         /\ dev'.xfer = dev.xfer /\ dev'.rOff = dev.rOff /\ dev'.rLen = dev.rLen
         /\ dev'.wOff = dev.wOff /\ dev'.wLen = dev.wLen /\ dev'.brc = dev.brc /\ dev'.boff = dev.boff
         /\ dev'.cnt = dev.cnt /\ dev'.buf = dev.buf /\ dev'.mounted = dev.mounted
         /\ dev'.txbuf = dev.txbuf /\ dev'.rx = dev.rx /\ dev'.rxctr = dev.rxctr /\ dev'.card = dev.card
         /\ dev'.rxbuf = dev.rxbuf /\ dev'.tx = "NAK" /\ dev'.txctr = TRUE
<1>1. Differ(dev', dev, {"tx", "txctr"}) /\ dev'.tx = "NAK" /\ dev'.txctr = TRUE
  BY PortsDo
<1> QED
  BY <1>1 DEF Differ, Fields

LEMMA GotGrows ==
  ASSUME NEW s \in Nat \ {0}, Sync(s - 1)
  PROVE  Append(got, Expected(s)) = [k \in 1..s |-> Expected(k)]
<1> DEFINE f == [k \in 1..(s - 1) |-> Expected(k)]
           g == [k \in 1..s |-> Expected(k)]
<1>1. got = f
  BY DEF Sync
<1> DEFINE S == {Expected(k) : k \in 1..s}
<1>2. f \in Seq(S) /\ Len(f) = s - 1 /\ Expected(s) \in S
  OBVIOUS
<1>3. \A k \in 1..(s - 1) : f[k] = Expected(k) /\ g[k] = Expected(k)
  OBVIOUS
<1> HIDE DEF f
<1> HIDE DEF S
<1>4. Append(f, Expected(s)) = g
  <2> DEFINE h == Append(f, Expected(s))
  <2>1. h \in Seq(S) /\ Len(h) = s /\ h[s] = Expected(s) /\ \A k \in 1..(s - 1) : h[k] = f[k]
    BY <1>2
  <2> HIDE DEF h
  <2>2. h = [k \in 1..s |-> h[k]]
    BY <2>1
  <2>3. \A k \in 1..s : k = s \/ k \in 1..(s - 1)
    OBVIOUS
  <2>4. \A k \in 1..s : h[k] = g[k]
    BY <1>3, <2>1, <2>3
  <2> QED
    BY <2>2, <2>4 DEF h
<1> QED
  BY <1>1, <1>4

\* The range of the command that the device serves.
LEMMA RangeServed ==
  ASSUME Shape, Working, dev.bot \in {"DATA_IN", "DATA_OUT", "DATA_IN_LAST"}, AddressOk(dev),
         cmd.op = "READ10" \/ cmd.op = "WRITE10"
  PROVE  /\ dev.cbw = cmd /\ InRange(cmd) /\ dev.mounted = TRUE /\ cmd.len = Bytes(Nth(cmd.n))
         /\ Nth(cmd.n) \in Nat \ {0}
<1>1. dev.cbw = cmd /\ dev.mounted \in BOOLEAN /\ Regular(cmd)
  BY DEF Working, Shape, Typed
<1>2. InRange(cmd) /\ dev.mounted = TRUE /\ cmd.len = Bytes(Nth(cmd.n))
  BY <1>1, RangeOfCommand
<1>3. 0 \in 0..(cmd.n - 1) /\ 0 \in 0..(PerBlock - 1)
  BY <1>2, Sizes DEF InRange
<1>4. Nth(cmd.n) \in Nat \ {0}
  BY <1>2, <1>3, RangePackets
<1> QED
  BY <1>1, <1>2, <1>4

\* One more packet of the range: the count of the host goes on.
LEMMA StepTaken ==
  ASSUME moved \in Nat, NEW s \in Nat \ {0}, InStep(s - 1), dev.txbuf = Expected(s),
         got' = Append(got, dev.txbuf), moved' = moved + PacketSize,
         dev'.card = dev.card, cmd' = cmd
  PROVE  InStep(s)' /\ (moved' <= Bytes(s) => Sync(s)')
<1>1. s - 1 \in Int /\ s \in Int /\ PacketSize \in Nat
  BY MassAssumption
<1>2. Bytes(s) \in Int /\ Bytes(s - 1) = Bytes(s) - PacketSize
  BY <1>1, BytesRise
<1>3. CASE Sync(s - 1)
  <2>1. moved' = Bytes(s)
    BY <1>1, <1>2, <1>3 DEF Sync
  <2>2. got' = [k \in 1..s |-> Expected(k)]
    BY <1>3, GotGrows
  <2>3. got' = [k \in 1..s |-> Expected(k)']
    BY <2>2 DEF Expected
  <2>4. Sync(s)'
    BY <2>1, <2>3 DEF Sync
  <2> QED
    BY <2>4 DEF InStep
<1>4. CASE moved > Bytes(s - 1)
  <2>1. moved' > Bytes(s)
    BY <1>1, <1>2, <1>4
  <2> QED
    BY <1>1, <1>2, <2>1 DEF InStep
<1> QED
  BY <1>3, <1>4 DEF InStep

LEMMA TakeDataLinked ==
  ASSUME Shape, Linked, TakeData
  PROVE  Linked'
<1>0. /\ Ports /\ Waiting /\ Working /\ Leftover /\ Answering /\ Transfer /\ Reading /\ Replying /\ Writing
      /\ Whole(dev.card)
      /\ phase = "in" /\ dev.tx = "VALID" /\ ~dev.txctr
      /\ dev' = Taken(dev) /\ got' = Append(got, dev.txbuf) /\ moved' = moved + SizeOf(dev.txbuf)
      /\ phase' = "recover" \/ phase' = "in" \/ phase' = "csw"
      /\ phase' # "recover" => moved' <= cmd.len
      /\ phase' = "in" => moved' < cmd.len /\ SizeOf(dev.txbuf) = PacketSize
      /\ phase' = "csw" => ~(moved' < cmd.len /\ SizeOf(dev.txbuf) = PacketSize)
      /\ UNCHANGED <<cmd, tag, leftover>>
  <2>1. cmd.len \in Nat /\ moved' \in Nat
    <3>1. SizeOf(dev.txbuf) \in Nat
      BY DEF Shape, Typed, IsReply, SizeOf
    <3> QED
      BY <3>1, BlockTypes DEF TakeData, Shape, Regular
  <2> QED
    BY <2>1 DEF Linked, TakeData
<1>1. /\ IsDevice(dev) /\ cmd.len \in Nat /\ moved \in Nat /\ PacketSize \in Nat \ {0}
      /\ SizeOf(dev.txbuf) \in Nat /\ moved' \in Nat
  <2>1. SizeOf(dev.txbuf) \in Nat
    BY DEF Shape, Typed, IsReply, SizeOf
  <2> QED
    BY <1>0, <2>1, BlockTypes, MassAssumption DEF Shape, Typed, Regular
<1>2. /\ dev'.bot = dev.bot /\ dev'.cbw = dev.cbw /\ dev'.sig = dev.sig /\ dev'.csw = dev.csw
      /\ dev'.xfer = dev.xfer /\ dev'.rOff = dev.rOff /\ dev'.rLen = dev.rLen
      /\ dev'.wOff = dev.wOff /\ dev'.wLen = dev.wLen /\ dev'.brc = dev.brc /\ dev'.boff = dev.boff
      /\ dev'.cnt = dev.cnt /\ dev'.buf = dev.buf /\ dev'.mounted = dev.mounted
      /\ dev'.txbuf = dev.txbuf /\ dev'.rx = dev.rx /\ dev'.rxctr = dev.rxctr /\ dev'.card = dev.card
      /\ dev'.rxbuf = dev.rxbuf /\ dev'.tx = "NAK" /\ dev'.txctr = TRUE
  BY <1>0, <1>1, TakenFrame
<1>3. phase \in Active /\ phase \in Running /\ cmd.dir = "IN" /\ phase # "csw"
  BY <1>0 DEF Active, Running, Working
<1>4. CASE phase' = "recover"
  BY <1>0, <1>3, <1>4, RecoverLinked
<1>5. CASE phase' # "recover"
  <2>1. /\ phase' \in Active /\ phase' \in Running /\ phase' # "out" /\ phase' # "ready" /\ phase' # "cbw"
        /\ phase' # "clear_in" /\ phase' # "clear_out"
    BY <1>0, <1>5 DEF Active, Running
  <2>2. Ports'
    BY <1>0, <1>2 DEF Ports, Drained
  <2>3. Between' /\ Leftover' /\ Truth' /\ Transfer'
    BY <1>0, <1>2, <2>1 DEF Between, Leftover, Truth, Transfer
  <2>4. Waiting'
    <3> SUFFICES ASSUME dev.csw.tag # tag PROVE Waiting'
      BY <1>0, <1>2 DEF Waiting, Serving
    <3>1. Quiet /\ dev.rxctr /\ dev.rxbuf = Wrapper
      BY <1>0, <1>3 DEF Waiting, Serving
    <3>2. dev.bot = "IDLE" /\ leftover
      BY <1>0, <3>1 DEF Quiet, Leftover
    <3>3. phase' = "in" => moved' # 0
      BY <1>0, <1>1
    <3> QED
      BY <1>0, <1>2, <1>3, <3>1, <3>2, <3>3 DEF Waiting, Quiet, Wrapper
  <2>5. Working'
    BY <1>0, <1>2, <1>3, <2>1 DEF Working, Serving
  <2>6. Answering'
    BY <1>0, <1>2, <1>3, <2>1 DEF Answering, Serving
  <2>7. ASSUME dev.bot = "DATA_IN" \/ (dev.bot = "DATA_IN_LAST" /\ cmd.op = "READ10"),
               NEW s \in 1..Nth(cmd.n), DataIn(s), Nth(cmd.n) \in Nat, cmd.len = Bytes(Nth(cmd.n))
        PROVE  DataIn(s)'
    <3>1. dev.txbuf = Expected(s) /\ InStep(s - 1)
      BY <1>0, <2>7 DEF DataIn
    <3>2. SizeOf(dev.txbuf) = PacketSize
      BY <3>1 DEF SizeOf, Expected, Packet
    <3>3. InStep(s)' /\ (moved' <= Bytes(s) => Sync(s)')
      <4>1. s \in Nat \ {0}
        BY <2>7
      <4> QED
        BY <1>0, <1>1, <1>2, <3>1, <3>2, <4>1, StepTaken
    <3>4. dev'.txbuf = Expected(s)'
      BY <1>0, <1>2, <3>1 DEF Expected
    <3>5. phase' = "csw" /\ s = Nth(cmd.n) => Sync(s)'
      BY <1>0, <2>7, <3>3
    <3> QED
      BY <1>0, <1>2, <3>3, <3>4, <3>5 DEF DataIn
  <2>8. Reading'
    <3>1. AddressOk(dev) => AddressOk(dev')
      BY <1>2, AddressKept
    <3>2. \A s : Reads(dev, cmd, s) => Reads(dev', cmd, s)
      BY <1>2, TransferFrame
    <3>3. ASSUME dev.bot = "DATA_IN"
          PROVE  \E s \in 1 .. (Nth(cmd.n) - 1) : Reads(dev', cmd, s) /\ DataIn(s)'
      <4>1. cmd.op = "READ10" /\ AddressOk(dev)
        BY <1>0, <3>3 DEF Reading
      <4>2. Nth(cmd.n) \in Nat /\ cmd.len = Bytes(Nth(cmd.n))
        BY <1>0, <3>3, <4>1, RangeServed
      <4>3. PICK s \in 1 .. (Nth(cmd.n) - 1) : Reads(dev, cmd, s) /\ DataIn(s)
        BY <1>0, <3>3 DEF Reading
      <4>4. s \in 1..Nth(cmd.n)
        BY <4>2
      <4>5. DataIn(s)'
        BY <2>7, <3>3, <4>2, <4>3, <4>4
      <4> QED
        BY <3>2, <4>3, <4>5
    <3>4. ASSUME dev.bot = "DATA_IN_LAST", cmd.op = "READ10"
          PROVE  DataIn(Nth(cmd.n))'
      <4>1. AddressOk(dev) /\ DataIn(Nth(cmd.n))
        BY <1>0, <3>4 DEF Reading
      <4>2. Nth(cmd.n) \in Nat \ {0} /\ cmd.len = Bytes(Nth(cmd.n))
        BY <1>0, <3>4, <4>1, RangeServed
      <4> DEFINE N == Nth(cmd.n)
      <4>3. N \in 1..N /\ N \in Nat /\ Nth(cmd'.n) = N
        BY <1>0, <4>2
      <4>4. \A s \in 1..N : DataIn(s) => DataIn(s)'
        BY <2>7, <3>4, <4>2
      <4>5. N = N'
        BY <1>0
      <4> HIDE DEF N
      <4>6. PICK s \in 1..N : s = N
        BY <4>3
      <4>7. DataIn(s)'
        BY <4>1, <4>4, <4>6 DEF N
      <4> QED
        BY <4>5, <4>6, <4>7 DEF N
    <3> QED
      BY <1>0, <1>2, <3>1, <3>3, <3>4 DEF Reading
  <2>9. Replying'
    <3>1. ASSUME NEW length \in 0..InfoLength, InfoSent(length)  PROVE InfoSent(length)'
      <4>1. SizeOf(dev.txbuf) = length
        BY <3>1 DEF InfoSent, Info, SizeOf
      <4>2. ~leftover => moved' = length
        BY <1>0, <1>1, <3>1, <4>1 DEF InfoSent
      <4> QED
        BY <1>0, <1>2, <1>5, <3>1, <4>2 DEF InfoSent
    <3> QED
      BY <1>0, <1>2, <3>1 DEF Replying
  <2>10. Writing'
    BY <1>0, <1>2 DEF Writing
  <2>11. Reported' /\ Whole(dev.card)'
    BY <1>0, <1>2, <2>1, NothingReported
  <2> QED
    BY <2>2, <2>3, <2>4, <2>5, <2>6, <2>8, <2>9, <2>10, <2>11 DEF Linked
<1> QED
  BY <1>4, <1>5

LEMMA TakeStatusLinked ==
  ASSUME Shape, Linked, TakeStatus
  PROVE  Linked'
<1>0. /\ Ports /\ Working /\ Leftover /\ Answering /\ Transfer /\ Reading /\ Replying /\ Truth /\ Whole(dev.card)
      /\ phase = "csw" /\ dev.tx = "VALID" /\ ~dev.txctr /\ dev' = Taken(dev)
      /\ \/ phase' = "recover"
         \/ /\ phase' = "ready" /\ answer' = dev.txbuf /\ dev.txbuf.kind = "csw"
            /\ dev.txbuf.tag = tag /\ dev.txbuf.status # "PHASE_ERROR"
      /\ UNCHANGED <<cmd, tag, got, moved, leftover>>
  BY DEF Linked, TakeStatus
<1>1. IsDevice(dev) /\ tag \in Nat /\ dev.bot \in BotStates /\ dev.sig \in {"valid", "bad"}
  BY DEF Shape, Typed
<1>2. phase \in Active /\ phase \in Running
  BY <1>0 DEF Active, Running
<1>3. CASE phase' = "recover"
  BY <1>0, <1>2, <1>3, RecoverLinked
<1>4. CASE phase' # "recover"
  <2>1. /\ phase' = "ready" /\ answer' = dev.txbuf /\ dev.txbuf.kind = "csw"
        /\ dev.txbuf.tag = tag /\ dev.txbuf.status # "PHASE_ERROR"
    BY <1>0, <1>4
  <2>2. /\ dev'.bot = dev.bot /\ dev'.cbw = dev.cbw /\ dev'.sig = dev.sig /\ dev'.csw = dev.csw
        /\ dev'.xfer = dev.xfer /\ dev'.brc = dev.brc /\ dev'.cnt = dev.cnt
        /\ dev'.txbuf = dev.txbuf /\ dev'.rx = dev.rx /\ dev'.rxctr = dev.rxctr /\ dev'.card = dev.card
        /\ dev'.rxbuf = dev.rxbuf /\ dev'.tx = "NAK" /\ dev'.txctr = TRUE
    BY <1>0, <1>1, TakenFrame
  <2>3. dev.bot # "IDLE" /\ dev.bot # "DATA_OUT"
    BY <1>0, <1>1, <1>2, <2>1 DEF Leftover
  <2>4. dev.bot # "DATA_IN" /\ dev.bot # "DATA_IN_LAST"
    <3>1. \A s : dev.txbuf # Expected(s)
      BY <2>1 DEF Expected, Packet
    <3>2. \A length : dev.txbuf # Info(length)
      BY <2>1 DEF Info
    <3>3. (\A s : ~DataIn(s)) /\ (\A length : ~InfoSent(length))
      BY <3>1, <3>2 DEF DataIn, InfoSent
    <3> QED
      BY <1>0, <3>3 DEF Reading, Replying
  <2>5. dev.bot \in {"CSW_SEND", "ERROR"}
    BY <1>1, <2>3, <2>4 DEF BotStates
  <2>6. /\ dev.txbuf = Status(dev.csw) /\ dev.csw.tag = tag /\ dev.sig = "valid"
        /\ dev.csw.status # "PHASE_ERROR" /\ answer'.residue = dev.csw.residue
        /\ answer'.status = dev.csw.status
    <3>1. dev.txbuf = Status(dev.csw) /\ dev.sig = "valid"
      BY <1>0, <1>1, <2>5 DEF Ports
    <3> QED
      BY <2>1, <3>1 DEF Status
  <2>7. ~dev.rxctr
    BY <1>0, <1>2, <2>5, <2>6 DEF Answering, Serving
  <2>8. /\ leftover \/ dev.csw.residue = cmd.len - moved
        /\ dev.csw.status = "PASSED" /\ cmd.op = "READ10" => Sync(Nth(cmd.n))
        /\ dev.csw.status = "PASSED" /\ cmd.op = "WRITE10" => Written
    BY <1>0, <1>2, <2>5, <2>6, <2>7 DEF Truth, Serving
  <2>9. Reported'
    <3>1. Passed' => dev.csw.status = "PASSED"
      BY <2>6 DEF Passed
    <3>2. Sync(Nth(cmd.n)) => got' = [i \in 1..Nth(cmd'.n) |-> Expected(i)']
      BY <1>0, <2>2 DEF Sync, Expected
    <3>3. Written => Written'
      BY <1>0, <2>2 DEF Written
    <3> QED
      BY <1>0, <2>6, <2>8, <3>1, <3>2, <3>3 DEF Reported
  <2>10. Ports'
    BY <1>0, <2>2, <2>6 DEF Ports, Drained
  <2>11. Between' /\ Transfer'
    BY <1>0, <2>1, <2>2, <2>5, <2>7 DEF Between, Transfer
  <2>12. Waiting' /\ Working' /\ Leftover' /\ Answering' /\ Truth'
    BY <2>1, <2>2, <2>3, <2>4 DEF Waiting, Working, Leftover, Answering, Truth, Active, Running
  <2>13. Reading' /\ Replying' /\ Writing'
    BY <2>2, <2>3, <2>4, RestingLinksNext DEF Resting
  <2>14. Whole(dev.card)'
    BY <1>0, <2>2
  <2> QED
    BY <2>9, <2>10, <2>11, <2>12, <2>13, <2>14 DEF Linked
<1> QED
  BY <1>3, <1>4

\* What was reported stays true while the host and the card do not move.
LEMMA ReportedFrame ==
  ASSUME Reported, UNCHANGED <<phase, cmd, tag, got, moved, answer>>, leftover' = leftover,
         dev'.card = dev.card
  PROVE  Reported'
  BY DEF Reported, Passed, Finished, Written, Expected

LEMMA SyncFrame ==
  ASSUME UNCHANGED <<cmd, got, moved>>, dev'.card = dev.card
  PROVE  \A s : /\ Expected(s)' = Expected(s)
                /\ Sync(s) => Sync(s)'
                /\ InStep(s) => InStep(s)'
  BY DEF Sync, InStep, Expected

LEMMA ServeInLinked ==
  ASSUME Shape, Linked, ServeIn
  PROVE  Linked'
<1> DEFINE d == [dev EXCEPT !.txctr = FALSE]
<1>0. /\ Ports /\ Between /\ Waiting /\ Working /\ Leftover /\ Answering /\ Transfer /\ Reading /\ Replying
      /\ Writing /\ Whole(dev.card) /\ Reported
      /\ dev.txctr /\ dev' = Mass_Storage_In(d)
      /\ UNCHANGED <<phase, cmd, tag, got, moved, answer, leftover>>
  BY DEF Linked, ServeIn, host
<1>1. IsDevice(dev) /\ dev.bot \in BotStates /\ dev.sig \in {"valid", "bad"} /\ moved \in Nat
  BY DEF Shape, Typed
<1>2. Differ(d, dev, {"txctr"}) /\ d.txctr = FALSE
  BY <1>1, PortsDo
<1> HIDE DEF d
<1>3. /\ IsDevice(d)
      /\ d.bot = dev.bot /\ d.cbw = dev.cbw /\ d.sig = dev.sig /\ d.csw = dev.csw
      /\ d.xfer = dev.xfer /\ d.rOff = dev.rOff /\ d.rLen = dev.rLen
      /\ d.wOff = dev.wOff /\ d.wLen = dev.wLen /\ d.brc = dev.brc /\ d.boff = dev.boff
      /\ d.cnt = dev.cnt /\ d.buf = dev.buf /\ d.mounted = dev.mounted
      /\ d.txbuf = dev.txbuf /\ d.tx = dev.tx /\ d.rx = dev.rx /\ d.rxbuf = dev.rxbuf
      /\ d.rxctr = dev.rxctr /\ d.card = dev.card
  BY <1>2 DEF Differ, Fields
<1>4. dev.tx = "NAK" /\ dev.sig = "valid"
  BY <1>0, <1>1 DEF Ports, Drained
<1>5. phase # "clear_in" /\ phase # "clear_out"
  BY <1>0 DEF Between, Drained
<1>6. CASE dev.bot \in {"CSW_SEND", "ERROR"}
  <2>1. StatusTaken(dev', d)
    BY <1>0, <1>3, <1>6, InServes
  <2>2. /\ dev'.bot = "IDLE" /\ dev'.rx = "VALID" /\ dev'.txctr = FALSE /\ dev'.tx = "NAK"
        /\ dev'.cbw = dev.cbw /\ dev'.sig = dev.sig /\ dev'.csw = dev.csw
        /\ dev'.xfer = dev.xfer /\ dev'.brc = dev.brc /\ dev'.cnt = dev.cnt
        /\ dev'.txbuf = dev.txbuf /\ dev'.rxbuf = dev.rxbuf /\ dev'.rxctr = dev.rxctr /\ dev'.card = dev.card
    BY <1>2, <1>3, <1>4, <2>1 DEF StatusTaken, Differ, Fields
  <2>3. Ports'
    BY <1>0, <1>4, <2>2 DEF Ports
  <2>4. Between' /\ Transfer'
    BY <1>0, <1>5, <1>6, <2>2 DEF Between, Transfer, Serving
  <2>5. Waiting'
    BY <1>0, <2>2 DEF Waiting, Quiet, Serving, Wrapper
  <2>6. Working'
    BY <1>0, <2>2 DEF Working, Serving
  <2>7. Leftover' /\ Answering' /\ Truth'
    BY <2>2 DEF Leftover, Answering, Truth
  <2>8. Reading' /\ Replying' /\ Writing'
    BY <2>2, RestingLinksNext DEF Resting
  <2>9. Whole(dev.card)' /\ Reported'
    BY <1>0, <2>2, ReportedFrame
  <2> QED
    BY <2>3, <2>4, <2>5, <2>6, <2>7, <2>8, <2>9 DEF Linked
<1>7. CASE dev.bot = "DATA_IN"
  <2>1. /\ cmd.op = "READ10" /\ cmd.dir = "IN" /\ AddressOk(dev) /\ dev.xfer = "ONGOING" /\ ~dev.rxctr
        /\ phase \in Running /\ dev.csw.tag = tag
    BY <1>0, <1>7 DEF Reading, Working, Serving
  <2>2. PICK s \in 1..(Nth(cmd.n) - 1) : Reads(dev, cmd, s) /\ DataIn(s)
    BY <1>0, <1>7 DEF Reading
  <2>3. dev.cbw = cmd /\ InRange(cmd) /\ dev.mounted = TRUE /\ Nth(cmd.n) \in Nat \ {0}
    BY <1>0, <1>7, <2>1, RangeServed
  <2>4. Reads(d, cmd, s)
    BY <1>3, <2>2, TransferFrame
  <2>5. DOMAIN d.buf = 1..PerBlock
    BY <1>3 DEF Shape, Typed
  <2>6. dev' = Read_Memory(d)
    BY <1>0, <1>3, <1>7, <2>1, <2>3, InServes
  <2>7. PacketSent(dev', d, cmd, s + 1)
    BY <1>3, <2>1, <2>2, <2>3, <2>4, <2>5, <2>6, ReadGoesOn
  <2>8. /\ dev'.cbw = dev.cbw /\ dev'.sig = dev.sig /\ dev'.csw.tag = dev.csw.tag
        /\ dev'.cnt = dev.cnt /\ dev'.mounted = dev.mounted /\ dev'.rx = dev.rx /\ dev'.rxbuf = dev.rxbuf
        /\ dev'.rxctr = dev.rxctr /\ dev'.card = dev.card /\ dev'.txctr = FALSE /\ dev'.tx = "VALID"
    BY <1>2, <1>3, <2>7 DEF PacketSent, Differ, Fields, SameTag
  <2>9. /\ dev'.txbuf = Packet(dev.card[Nth(cmd.lba) + (s + 1) - 1])
        /\ s + 1 \in 1..Nth(cmd.n) /\ s \in Int
        /\ s + 1 = Nth(cmd.n) =>
             dev'.bot = "DATA_IN_LAST" /\ dev'.xfer = "IDLE" /\ dev'.brc = 0 /\ dev'.csw.residue = 0
        /\ s + 1 # Nth(cmd.n) => dev'.bot = "DATA_IN" /\ dev'.xfer = "ONGOING" /\ Reads(dev', cmd, s + 1)
    BY <1>3, <1>7, <2>2, <2>7 DEF PacketSent
  <2>10. dev'.bot \in {"DATA_IN", "DATA_IN_LAST"} /\ dev'.txbuf.kind = "data"
    BY <2>9 DEF Packet
  <2>11. phase # "ready" /\ phase # "cbw"
    BY <2>1 DEF Running, Active
  <2>12. Ports'
    BY <1>0, <1>4, <2>8, <2>10 DEF Ports
  <2>13. Between' /\ Waiting'
    BY <1>0, <1>5, <2>1, <2>8, <2>11 DEF Between, Waiting, Serving
  <2>14. Working'
    BY <1>0, <1>4, <2>1, <2>3, <2>8, <2>10 DEF Working, Serving
  <2>15. Leftover' /\ Answering' /\ Truth'
    BY <2>10 DEF Leftover, Answering, Truth
  <2>16. Transfer'
    BY <1>0, <1>7, <2>8, <2>9 DEF Transfer
  <2>17. DataIn(s + 1)'
    <3>1. phase = "in" => InStep(s)
      BY <1>0, <2>2 DEF DataIn
    <3>2. phase' = "in" => InStep(s)'
      BY <1>0, <2>8, <3>1, SyncFrame
    <3>3. s + 1 - 1 = s
      BY <2>9
    <3>4. dev'.txbuf = Expected(s + 1)'
      BY <1>0, <2>8, <2>9 DEF Expected
    <3> QED
      BY <2>8, <3>2, <3>3, <3>4 DEF DataIn
  <2>18. AddressOk(dev')
    BY <2>1, <2>8, AddressKept
  <2>19. Reading'
    <3>1. CASE s + 1 = Nth(cmd.n)
      <4>1. DataIn(Nth(cmd.n))'
        BY <2>17, <3>1, <1>0
      <4> QED
        BY <1>0, <2>1, <2>9, <2>18, <3>1, <4>1 DEF Reading
    <3>2. CASE s + 1 # Nth(cmd.n)
      <4>1. s + 1 \in 1..(Nth(cmd.n) - 1)
        BY <2>3, <2>9, <3>2
      <4>2. dev'.bot = "DATA_IN" /\ Reads(dev', cmd, s + 1)
        BY <2>9, <3>2
      <4> DEFINE k == s + 1
      <4>3. k \in 1..(Nth(cmd.n) - 1) /\ Reads(dev', cmd, k) /\ DataIn(k)'
        BY <2>17, <4>1, <4>2
      <4>4. k' = k
        OBVIOUS
      <4> HIDE DEF k
      <4>5. \E j \in 1..(Nth(cmd'.n) - 1) : Reads(dev', cmd', j) /\ DataIn(j)'
        BY <1>0, <4>3, <4>4
      <4> QED
        BY <1>0, <2>1, <2>8, <2>9, <2>18, <3>2, <4>2, <4>5 DEF Reading
    <3> QED
      BY <3>1, <3>2
  <2>20. Replying' /\ Writing'
    BY <1>0, <2>1, <2>10 DEF Replying, Writing
  <2>21. Whole(dev.card)' /\ Reported'
    BY <1>0, <2>8, ReportedFrame
  <2> QED
    BY <2>12, <2>13, <2>14, <2>15, <2>16, <2>19, <2>20, <2>21 DEF Linked
<1>8. CASE dev.bot = "DATA_IN_LAST"
  <2>1. DataTaken(dev', d)
    BY <1>0, <1>3, <1>8, InServes
  <2>2. /\ dev'.cbw = dev.cbw /\ dev'.sig = dev.sig /\ dev'.csw.tag = dev.csw.tag
        /\ dev'.xfer = dev.xfer /\ dev'.brc = dev.brc
        /\ dev'.cnt = dev.cnt /\ dev'.mounted = dev.mounted /\ dev'.rxbuf = dev.rxbuf
        /\ dev'.rxctr = dev.rxctr /\ dev'.card = dev.card /\ dev'.txctr = FALSE /\ dev'.tx = "VALID"
        /\ dev'.rx = "VALID" /\ dev'.bot = "CSW_SEND" /\ dev'.csw.status = "PASSED"
        /\ dev'.csw.residue = dev.csw.residue /\ dev'.txbuf = Status(dev'.csw)
    BY <1>2, <1>3, <2>1 DEF DataTaken, Differ, Fields
  <2>3. phase \in Running /\ dev.csw.tag = tag
    BY <1>0, <1>8 DEF Working, Serving
  <2>4. phase # "ready" /\ phase # "cbw" /\ phase # "out" /\ (phase \in Active => ~dev.rxctr)
    BY <1>0, <2>3 DEF Working, Serving, Running, Active
  <2>5. dev'.txbuf.tag = dev'.csw.tag
    BY <2>2 DEF Status
  <2>6. Ports'
    BY <1>0, <1>4, <2>2, <2>5 DEF Ports
  <2>7. Between' /\ Waiting'
    BY <1>0, <1>5, <2>2, <2>3, <2>4 DEF Between, Waiting, Serving
  <2>8. Working'
    BY <1>0, <1>4, <2>2, <2>3 DEF Working, Serving
  <2>9. Leftover' /\ Answering'
    BY <1>0, <2>2, <2>4 DEF Leftover, Answering
  <2>10. Transfer'
    BY <1>0, <1>8, <2>2 DEF Transfer
  <2>11. Reading' /\ Replying' /\ Writing'
    BY <2>2, RestingLinksNext DEF Resting
  <2>12. Truth'
    <3>1. /\ phase = "csw" => leftover \/ dev.csw.residue = cmd.len - moved
          /\ phase = "csw" /\ cmd.op = "READ10" => Sync(Nth(cmd.n))
          /\ cmd.op # "WRITE10"
      <4>1. CASE cmd.op = "READ10"
        <5>1. AddressOk(dev) /\ dev.csw.residue = 0 /\ DataIn(Nth(cmd.n))
          BY <1>0, <1>8, <4>1 DEF Reading
        <5>2. cmd.len = Bytes(Nth(cmd.n)) /\ Nth(cmd.n) \in Nat
          BY <1>0, <1>8, <4>1, <5>1, RangeServed
        <5>3. phase = "csw" => Sync(Nth(cmd.n))
          BY <1>0, <5>1 DEF DataIn
        <5>4. phase = "csw" => moved = cmd.len
          BY <5>2, <5>3 DEF Sync
        <5> QED
          BY <1>1, <4>1, <5>1, <5>3, <5>4
      <4>2. CASE cmd.op # "READ10"
        <5>1. cmd.op # "WRITE10"
          BY <1>0, <1>8, <4>2 DEF Replying
        <5>2. PICK length \in 0..InfoLength : InfoSent(length)
          BY <1>0, <1>8, <4>2 DEF Replying
        <5>3. ~leftover /\ phase = "csw" => moved = length /\ length <= cmd.len
          BY <1>0, <5>2 DEF InfoSent
        <5>4. dev.csw.residue = (cmd.len - length) % Word
          BY <5>2 DEF InfoSent
        <5>5. cmd.len \in 0..(Word - 1) /\ Word \in Nat /\ length \in Nat
          BY BlockTypes, MassAssumption DEF Shape, Regular
        <5>6. length <= cmd.len => (cmd.len - length) % Word = cmd.len - length
          BY <5>5
        <5> QED
          BY <4>2, <5>1, <5>3, <5>4, <5>6
      <4> QED
        BY <4>1, <4>2
    <3>2. phase = "csw" /\ cmd.op = "READ10" => Sync(Nth(cmd.n))'
      BY <1>0, <2>2, <3>1, SyncFrame
    <3>3. Nth(cmd'.n) = Nth(cmd.n)
      BY <1>0
    <3> QED
      BY <1>0, <2>2, <3>1, <3>2, <3>3 DEF Truth
  <2>13. Whole(dev.card)' /\ Reported'
    BY <1>0, <2>2, ReportedFrame
  <2> QED
    BY <2>6, <2>7, <2>8, <2>9, <2>10, <2>11, <2>12, <2>13 DEF Linked
<1>9. CASE dev.bot = "IDLE" \/ dev.bot = "DATA_OUT"
  <2>1. dev' = d
    BY <1>0, <1>3, <1>9, InServes
  <2>2. phase # "ready" /\ phase # "cbw"
    BY <1>0, <1>9 DEF Between
  <2>3. Ports'
    BY <1>0, <1>3, <1>4, <1>9, <2>1 DEF Ports
  <2>4. Between' /\ Transfer'
    BY <1>0, <1>3, <1>5, <2>1, <2>2 DEF Between, Transfer
  <2>5. Waiting'
    BY <1>0, <1>2, <1>3, <1>9, <2>1 DEF Waiting, Working, Quiet, Serving, Wrapper
  <2>6. Working'
    BY <1>0, <1>2, <1>3, <2>1 DEF Working, Serving
  <2>7. Leftover' /\ Answering' /\ Truth'
    BY <1>3, <1>4, <1>9, <2>1 DEF Leftover, Answering, Truth
  <2>8. Reading' /\ Replying'
    BY <1>3, <1>9, <2>1 DEF Reading, Replying
  <2>9. Writing'
    <3>1. AddressOk(dev) => AddressOk(dev')
      BY <1>3, <2>1, AddressKept
    <3>2. \A s : DataOut(s) => DataOut(s)'
      BY <1>0, <1>3, <2>1 DEF DataOut
    <3>3. \A s : Writes(dev, cmd, tag, s) => Writes(dev', cmd, tag, s)
      BY <1>3, <2>1, TransferFrame
    <3> QED
      BY <1>0, <1>3, <2>1, <3>1, <3>2, <3>3 DEF Writing
  <2>10. Whole(dev.card)' /\ Reported'
    BY <1>0, <1>3, <2>1, ReportedFrame
  <2> QED
    BY <2>3, <2>4, <2>5, <2>6, <2>7, <2>8, <2>9, <2>10 DEF Linked
<1> QED
  BY <1>1, <1>6, <1>7, <1>8, <1>9 DEF BotStates

LEMMA ClearStallLinked ==
  ASSUME Shape, Linked, ClearStall
  PROVE  Linked'
<1>0. /\ Ports /\ Waiting /\ Working /\ Leftover /\ Answering /\ Transfer /\ Reading /\ Replying
      /\ Writing /\ Truth /\ Whole(dev.card)
      /\ ~dev.txctr /\ ~dev.rxctr /\ phase' = "csw"
      /\ \/ phase \in {"in", "csw"} /\ dev.tx = "STALL" /\ dev' = ClearHalt(dev, "IN")
         \/ phase = "out" /\ dev.rx = "STALL" /\ dev' = ClearHalt(dev, "OUT")
      /\ UNCHANGED <<cmd, tag, got, moved, leftover>>
  BY DEF Linked, ClearStall, Drained
<1>1. /\ IsDevice(dev) /\ dev.sig \in {"valid", "bad"} /\ dev.bot \in BotStates /\ moved \in Nat /\ cmd.len \in Nat
  BY BlockTypes DEF Shape, Typed, Regular
<1>2. phase \in Active /\ phase \in Running
  BY <1>0 DEF Active, Running
<1>3. dev.csw.tag = tag
  BY <1>0, <1>2 DEF Waiting, Serving
<1>4. \/ dev' = ClearHalt(dev, "IN") \/ dev' = ClearHalt(dev, "OUT")
  BY <1>0
<1>5. Differ(dev', dev, {"tx", "rx"})
  BY <1>1, <1>4, ClearHaltDoes
<1>6. /\ dev'.bot = dev.bot /\ dev'.cbw = dev.cbw /\ dev'.sig = dev.sig /\ dev'.csw = dev.csw
      /\ dev'.xfer = dev.xfer /\ dev'.brc = dev.brc /\ dev'.cnt = dev.cnt
      /\ dev'.txbuf = dev.txbuf /\ dev'.txctr = dev.txctr /\ dev'.rxctr = dev.rxctr /\ dev'.card = dev.card
  BY <1>5 DEF Differ, Fields
<1>7. dev.sig # "valid" =>
        /\ dev'.tx = "STALL" /\ dev'.rx = "STALL"
        /\ dev.tx = "STALL" /\ dev.rx = "STALL" /\ dev.bot = "ERROR"
  BY <1>0, <1>1, <1>4, ClearHaltDoes DEF Ports
<1>8. phase # "out" => dev.bot = "ERROR" /\ (dev.sig = "valid" => dev'.tx = "VALID")
  BY <1>0, <1>1, ClearHaltDoes DEF Ports
<1>9. phase = "out" =>
        /\ dev.sig = "valid" => dev'.tx = dev.tx /\ dev'.rx = "VALID"
        /\ dev.bot # "DATA_OUT" /\ dev.bot # "DATA_IN"
        /\ dev.bot = "DATA_IN_LAST" => cmd.op # "READ10"
  BY <1>0, <1>1, ClearHaltDoes DEF Reading, Writing, Working
<1>10. /\ dev.bot # "DATA_OUT" /\ dev.bot # "DATA_IN"
       /\ dev.bot = "DATA_IN_LAST" => phase = "out" /\ cmd.op # "READ10"
       /\ dev.bot = "IDLE" => phase = "out" /\ dev'.tx = dev.tx
  BY <1>1, <1>7, <1>8, <1>9
<1>11. Ports'
  BY <1>0, <1>1, <1>6, <1>7, <1>8, <1>9 DEF Ports, Drained
<1>12. Between' /\ Transfer' /\ Answering'
  BY <1>0, <1>6 DEF Between, Transfer, Answering
<1>13. Waiting'
  BY <1>0, <1>3, <1>6 DEF Waiting, Serving
<1>14. Working'
  BY <1>0, <1>2, <1>3, <1>6 DEF Working, Serving, Running, Active
<1>15. Leftover'
  BY <1>0, <1>2, <1>6, <1>10 DEF Leftover
<1>16. Reading' /\ Writing'
  BY <1>0, <1>6, <1>10 DEF Reading, Writing
<1>17. Replying'
  <2>1. \A length : InfoSent(length) => InfoSent(length)'
    BY <1>0, <1>6 DEF InfoSent
  <2> QED
    BY <1>0, <1>6, <2>1 DEF Replying
<1>18. Truth'
  <2> SUFFICES ASSUME dev.bot \in {"CSW_SEND", "ERROR"}, dev.sig = "valid"
               PROVE  Truth'
    BY <1>6 DEF Truth
  <2>1. phase # "csw" => dev.csw.status # "PASSED" /\ (dev.csw.status # "PHASE_ERROR" => dev.csw.status = "FAILED")
    <3>1. CASE dev.bot = "ERROR"
      BY <1>0, <3>1 DEF Ports
    <3>2. CASE dev.bot = "CSW_SEND"
      BY <1>0, <1>2, <1>3, <1>8, <3>2 DEF Answering, Serving
    <3> QED
      BY <3>1, <3>2
  <2>2. /\ phase = "csw" /\ dev.csw.status # "PHASE_ERROR" => leftover \/ dev.csw.residue = cmd.len - moved
        /\ phase # "csw" /\ dev.csw.status = "FAILED" => leftover \/ (dev.csw.residue = cmd.len /\ moved = 0)
        /\ phase = "csw" /\ dev.csw.status = "PASSED" /\ cmd.op = "READ10" => Sync(Nth(cmd.n))
        /\ dev.csw.status = "PASSED" /\ cmd.op = "WRITE10" => Written
    BY <1>0, <1>2, <1>3 DEF Truth, Serving
  <2>3. dev.csw.status # "PHASE_ERROR" => leftover \/ dev.csw.residue = cmd.len - moved
    BY <1>1, <2>1, <2>2
  <2>4. dev.csw.status = "PASSED" /\ cmd.op = "READ10" => Sync(Nth(cmd.n))'
    BY <1>0, <1>6, <2>1, <2>2, SyncFrame
  <2>5. Written => Written'
    BY <1>0, <1>6 DEF Written
  <2>6. Nth(cmd'.n) = Nth(cmd.n)
    BY <1>0
  <2> QED
    BY <1>0, <1>6, <2>2, <2>3, <2>4, <2>5, <2>6 DEF Truth
<1>19. Whole(dev.card)' /\ Reported'
  BY <1>0, <1>6, NothingReported
<1> QED
  BY <1>11, <1>12, <1>13, <1>14, <1>15, <1>16, <1>17, <1>18, <1>19 DEF Linked

\* A reset that does not cut a transfer finds the counters of memory.c at rest.
LEMMA AtRest ==
  ASSUME Shape, Linked, dev.xfer # "ONGOING"
  PROVE  dev.cnt = 0 /\ dev.brc = 0
<1>1. Transfer /\ Reading /\ Writing /\ dev.xfer = "IDLE"
  BY DEF Linked, Shape, Typed
<1>2. dev.brc = 0
  BY <1>1 DEF Transfer, Reading
<1>3. CASE dev.bot # "DATA_OUT"
  BY <1>1, <1>2, <1>3 DEF Transfer
<1>4. CASE dev.bot = "DATA_OUT"
  <2>1. PICK s : Writes(dev, cmd, tag, s)
    BY <1>1, <1>4 DEF Writing
  <2>2. PICK blk \in 0..(cmd.n - 1), i \in 0..(PerBlock - 1) : s = Nth(blk) + i /\ s = 0 /\ dev.cnt = Bytes(i)
    BY <1>1, <2>1 DEF Writes
  <2>3. cmd.n \in Nat /\ PerBlock \in Nat
    BY BlockTypes, Sizes DEF Shape, Regular
  <2>4. blk \in Int /\ blk >= 0 /\ i \in Nat
    BY <2>3
  <2>5. Nth(blk) \in Nat
    BY <2>4, NthRise
  <2>6. i = 0
    BY <2>2, <2>4, <2>5
  <2>7. Bytes(0) = 0
    BY BytesRise
  <2> QED
    BY <1>2, <2>2, <2>6, <2>7
<1> QED
  BY <1>3, <1>4

LEMMA BotResetLinked ==
  ASSUME Shape, Linked, BotReset, ~abandoned'
  PROVE  Linked'
<1>0. /\ Ports /\ Between /\ Leftover /\ Transfer /\ Whole(dev.card)
      /\ ~dev.txctr /\ ~dev.rxctr
      /\ UNCHANGED <<cmd, tag, got, moved>>
  BY DEF Linked, BotReset, Drained
<1>1. IsDevice(dev) /\ dev.sig \in {"valid", "bad"} /\ dev.tx \in PortStates /\ dev.csw.tag \in Nat
  BY <1>0 DEF Shape, Typed, Ports
<1>2. ASSUME Differ(dev', dev, {"sig", "bot", "tx", "rx"}), dev'.bot = "IDLE", dev'.sig = "valid",
             dev.cnt = 0, dev.brc = 0, dev.xfer # "ONGOING",
             phase' \in {"ready", "clear_in", "clear_out"},
             phase' = "ready" => answer'.kind = "botreset",
             dev'.tx = "STALL" => phase' = "clear_in",
             dev'.tx = "VALID" /\ phase' # "clear_in" => leftover'
      PROVE  Linked'
  <2>1. /\ dev'.csw = dev.csw /\ dev'.xfer = dev.xfer /\ dev'.brc = dev.brc /\ dev'.cnt = dev.cnt
        /\ dev'.txbuf = dev.txbuf /\ dev'.txctr = dev.txctr /\ dev'.rxctr = dev.rxctr /\ dev'.card = dev.card
    BY <1>2 DEF Differ, Fields
  <2>2. Ports'
    BY <1>0, <1>2, <2>1 DEF Ports
  <2>3. Between' /\ Transfer'
    BY <1>0, <1>2, <2>1 DEF Between, Transfer, Drained
  <2>4. Waiting' /\ Working' /\ Leftover' /\ Answering' /\ Truth'
    BY <1>2 DEF Waiting, Working, Leftover, Answering, Truth, Running, Active
  <2>5. Reading' /\ Replying' /\ Writing'
    BY <1>2, RestingLinksNext DEF Resting
  <2>6. Whole(dev.card)' /\ Reported'
    BY <1>0, <1>2, <2>1, NothingReported
  <2> QED
    BY <2>2, <2>3, <2>4, <2>5, <2>6 DEF Linked
<1>3. CASE phase = "recover"
  <2>1. /\ dev' = MASS_NoData_Setup(dev) /\ phase' = "clear_in"
        /\ abandoned' = (abandoned \/ dev.xfer = "ONGOING")
    BY <1>3 DEF BotReset
  <2>2. dev.xfer # "ONGOING"
    BY <2>1
  <2>3. dev.cnt = 0 /\ dev.brc = 0
    BY <2>2, AtRest
  <2>4. Differ(dev', dev, {"sig", "bot"}) /\ dev'.bot = "IDLE" /\ dev'.sig = "valid"
    BY <1>1, <2>1, PortsDo
  <2>5. Differ(dev', dev, {"sig", "bot", "tx", "rx"})
    BY <2>4 DEF Differ, Fields
  <2> QED
    BY <1>2, <2>1, <2>2, <2>3, <2>4, <2>5
<1>4. CASE phase = "clear_in"
  <2>1. dev' = ClearHalt(dev, "IN") /\ phase' = "clear_out" /\ leftover' = (dev'.tx = "VALID")
    BY <1>4 DEF BotReset
  <2>2. dev.bot = "IDLE" /\ dev.sig = "valid"
    BY <1>0, <1>1, <1>4 DEF Between, Ports
  <2>3. dev.xfer # "ONGOING"
    BY <1>0, <2>2 DEF Transfer
  <2>4. dev.cnt = 0 /\ dev.brc = 0
    BY <2>3, AtRest
  <2>5. Differ(dev', dev, {"tx", "rx"}) /\ dev'.tx # "STALL"
    BY <1>1, <2>1, <2>2, ClearHaltDoes
  <2>6. Differ(dev', dev, {"sig", "bot", "tx", "rx"}) /\ dev'.bot = dev.bot /\ dev'.sig = dev.sig
    BY <2>5 DEF Differ, Fields
  <2> QED
    BY <1>2, <2>1, <2>2, <2>3, <2>4, <2>5, <2>6
<1>5. CASE phase = "clear_out"
  <2>1. /\ dev' = ClearHalt(dev, "OUT") /\ phase' = "ready" /\ answer' = [kind |-> "botreset"]
        /\ leftover' = leftover
    BY <1>5 DEF BotReset
  <2>2. dev.bot = "IDLE" /\ dev.sig = "valid" /\ dev.tx # "STALL"
    BY <1>0, <1>1, <1>5 DEF Between, Ports
  <2>3. dev.xfer # "ONGOING"
    BY <1>0, <2>2 DEF Transfer
  <2>4. dev.cnt = 0 /\ dev.brc = 0
    BY <2>3, AtRest
  <2>5. Differ(dev', dev, {"tx", "rx"}) /\ dev'.tx = dev.tx
    BY <1>1, <2>1, <2>2, ClearHaltDoes
  <2>6. Differ(dev', dev, {"sig", "bot", "tx", "rx"}) /\ dev'.bot = dev.bot /\ dev'.sig = dev.sig
    BY <2>5 DEF Differ, Fields
  <2>7. dev'.tx = "VALID" => leftover'
    BY <1>0, <1>5, <2>1, <2>2, <2>5 DEF Leftover
  <2>8. answer'.kind = "botreset"
    BY <2>1
  <2> QED
    BY <1>2, <2>1, <2>2, <2>3, <2>4, <2>5, <2>6, <2>7, <2>8
<1> QED
  BY <1>3, <1>4, <1>5 DEF BotReset

LEMMA BusResetLinked ==
  ASSUME Shape, Linked, BusReset, ~abandoned'
  PROVE  Linked'
<1>0. /\ Ports /\ Whole(dev.card) /\ dev' = MASS_Reset(dev) /\ phase' = "ready"
      /\ answer' = [kind |-> "busreset"] /\ dev.xfer # "ONGOING"
      /\ UNCHANGED <<cmd, tag, got, moved>>
  BY DEF Linked, BusReset
<1>1. IsDevice(dev)
  BY DEF Shape, Typed
<1>2. dev.cnt = 0 /\ dev.brc = 0
  BY <1>0, AtRest
<1>3. /\ Differ(dev', dev, {"tx", "txctr", "rx", "rxctr", "sig", "bot"})
      /\ dev'.tx = "NAK" /\ dev'.txctr = FALSE /\ dev'.rx = "VALID" /\ dev'.rxctr = FALSE
      /\ dev'.sig = "valid" /\ dev'.bot = "IDLE"
  BY <1>0, <1>1, PortsDo
<1>4. /\ dev'.csw = dev.csw /\ dev'.xfer = dev.xfer /\ dev'.brc = dev.brc /\ dev'.cnt = dev.cnt
      /\ dev'.txbuf = dev.txbuf /\ dev'.card = dev.card
  BY <1>3 DEF Differ, Fields
<1>5. Ports'
  BY <1>0, <1>3, <1>4 DEF Ports
<1>6. Between' /\ Transfer'
  BY <1>0, <1>2, <1>3, <1>4 DEF Between, Transfer
<1>7. Waiting' /\ Working' /\ Leftover' /\ Answering' /\ Truth'
  BY <1>0, <1>3 DEF Waiting, Working, Leftover, Answering, Truth, Running, Active
<1>8. Reading' /\ Replying' /\ Writing'
  BY <1>3, RestingLinksNext DEF Resting
<1>9. Whole(dev.card)' /\ Reported'
  BY <1>0, <1>4, NothingReported
<1> QED
  BY <1>5, <1>6, <1>7, <1>8, <1>9 DEF Linked

LEMMA PowerCycleLinked ==
  ASSUME Shape, Linked, PowerCycle
  PROVE  Linked'
<1>0. /\ Whole(dev.card) /\ dev' = Boot(dev.card) /\ phase' = "ready"
      /\ answer' = [kind |-> "busreset"] /\ UNCHANGED <<cmd, tag, got, moved>>
  BY DEF Linked, PowerCycle
<1>1. /\ dev'.bot = "IDLE" /\ dev'.sig = "valid" /\ dev'.xfer = "IDLE" /\ dev'.brc = 0 /\ dev'.cnt = 0
      /\ dev'.csw.tag = 0 /\ dev'.txbuf = Empty /\ dev'.card = dev.card
      /\ dev'.tx = "NAK" /\ dev'.txctr = FALSE /\ dev'.rx = "VALID" /\ dev'.rxctr = FALSE
  BY <1>0, BootTyped
<1>2. Ports'
  <2>1. tag \in Nat
    BY DEF Shape
  <2> QED
    BY <1>0, <1>1, <2>1 DEF Ports, Empty
<1>3. Between' /\ Transfer'
  BY <1>0, <1>1 DEF Between, Transfer
<1>4. Waiting' /\ Working' /\ Leftover' /\ Answering' /\ Truth'
  BY <1>0, <1>1 DEF Waiting, Working, Leftover, Answering, Truth, Running, Active
<1>5. Reading' /\ Replying' /\ Writing'
  BY <1>1, RestingLinksNext DEF Resting
<1>6. Whole(dev.card)' /\ Reported'
  BY <1>0, <1>1, NothingReported
<1> QED
  BY <1>2, <1>3, <1>4, <1>5, <1>6 DEF Linked

\* A packet of the host has been handled: its command is being served.
Handled ==
  /\ phase \in Running
  /\ UNCHANGED <<phase, cmd, tag, got, moved, answer, leftover>>
  /\ dev'.csw.tag = tag /\ dev'.txctr = FALSE /\ dev'.rxctr = FALSE
  /\ dev'.sig = "valid" => dev'.cbw = cmd
  /\ dev'.bot \in {"DATA_IN", "DATA_OUT", "DATA_IN_LAST"} => dev'.sig = "valid"

LEMMA HandledLinks ==
  ASSUME Shape, Linked, Handled
  PROVE  /\ Between' /\ Waiting' /\ Working' /\ Reported'
         /\ phase \notin {"ready", "cbw", "clear_in", "clear_out"}
<1>1. phase \notin {"ready", "cbw", "clear_in", "clear_out"}
  BY DEF Handled, Running, Active
<1>2. Between' /\ Waiting'
  BY <1>1 DEF Handled, Between, Waiting, Serving
<1>3. Working'
  BY DEF Linked, Handled, Working, Serving
<1>4. Reported'
  BY <1>1, NothingReported DEF Handled
<1> QED
  BY <1>1, <1>2, <1>3, <1>4

\* The command is refused, or the packet was not expected.
LEMMA RefusedLinked ==
  ASSUME Shape, Linked, Handled,
         dev'.bot = "ERROR", dev'.tx = "STALL", dev'.txbuf = Status(dev'.csw),
         dev'.csw.status \in {"FAILED", "PHASE_ERROR"},
         dev'.sig = "bad" => dev'.rx = "STALL",
         dev'.cnt = 0, dev'.brc = 0, dev'.xfer # "ONGOING", dev'.card = dev.card,
         /\ phase \in Active /\ dev'.sig = "valid" /\ dev'.csw.status = "FAILED"
         => dev'.csw.residue = cmd.len /\ (leftover \/ moved = 0)
  PROVE  Linked'
<1>1. Between' /\ Waiting' /\ Working' /\ Reported'
  BY HandledLinks
<1>2. UNCHANGED <<phase, cmd, tag, moved, leftover>> /\ tag \in Nat /\ moved \in Nat /\ cmd.len \in Nat
  BY BlockTypes DEF Handled, Shape, Regular
<1>3. dev'.csw.tag = tag /\ dev'.txctr = FALSE /\ dev'.rxctr = FALSE
  BY DEF Handled
<1>4. dev'.txbuf.tag = tag
  BY <1>3 DEF Status
<1>5. Ports'
  BY <1>2, <1>3, <1>4 DEF Ports, Drained
<1>6. Leftover' /\ Answering' /\ Transfer'
  BY <1>3 DEF Leftover, Answering, Transfer
<1>7. Reading' /\ Replying' /\ Writing'
  BY RestingLinksNext DEF Resting
<1>8. Truth'
  <2>1. phase \in Active /\ dev'.sig = "valid" /\ dev'.csw.status = "FAILED"
        => leftover \/ (dev'.csw.residue = cmd.len - moved /\ dev'.csw.residue = cmd.len /\ moved = 0)
    BY <1>2
  <2> QED
    BY <1>2, <2>1 DEF Truth
<1>9. Whole(dev.card)'
  BY DEF Linked
<1> QED
  BY <1>1, <1>5, <1>6, <1>7, <1>8, <1>9 DEF Linked

\* The status is sent at once.
LEMMA AnsweredLinked ==
  ASSUME Shape, Linked, Handled,
         dev'.bot = "CSW_SEND", dev'.tx = "VALID", dev'.txbuf = Status(dev'.csw), dev'.sig = "valid",
         dev'.csw.status \in {"PASSED", "FAILED"},
         phase = "out" => dev'.rx = "STALL" /\ dev'.csw.status = "FAILED",
         dev'.cnt = 0, dev'.brc = 0, dev'.xfer # "ONGOING", Whole(dev'.card),
         phase = "csw" => leftover \/ dev'.csw.residue = cmd.len - moved,
         phase \in Active /\ phase # "csw" /\ dev'.csw.status = "FAILED" =>
           leftover \/ (dev'.csw.residue = cmd.len /\ moved = 0),
         dev'.csw.status = "PASSED" => cmd.op # "READ10" /\ (cmd.op = "WRITE10" => Written')
  PROVE  Linked'
<1>1. Between' /\ Waiting' /\ Working' /\ Reported'
  BY HandledLinks
<1>2. UNCHANGED <<phase, cmd, tag, moved, leftover>> /\ tag \in Nat
  BY DEF Handled, Shape
<1>3. dev'.csw.tag = tag /\ dev'.txctr = FALSE /\ dev'.rxctr = FALSE
  BY DEF Handled
<1>4. dev'.txbuf.tag = tag
  BY <1>3 DEF Status
<1>5. Ports'
  BY <1>2, <1>3, <1>4 DEF Ports, Drained
<1>6. Leftover' /\ Answering' /\ Transfer'
  BY <1>2, <1>3 DEF Leftover, Answering, Transfer
<1>7. Reading' /\ Replying' /\ Writing'
  BY RestingLinksNext DEF Resting
<1>8. Truth'
  BY <1>2 DEF Truth
<1>9. Whole(dev.card)'
  OBVIOUS
<1> QED
  BY <1>1, <1>5, <1>6, <1>7, <1>8, <1>9 DEF Linked

\* The first packet of a read, or the next one, is in the endpoint.
LEMMA SentReading ==
  ASSUME NEW d, NEW s \in Int, d.bot = "DATA_IN", PacketSent(dev', d, cmd, s), DataIn(s)', UNCHANGED cmd,
         cmd.op = "READ10", cmd.dir = "IN", AddressOk(dev'), ~dev'.rxctr, Nth(cmd.n) \in Nat \ {0}
  PROVE  Reading' /\ dev'.bot \in {"DATA_IN", "DATA_IN_LAST"}
<1>1. /\ s \in 1..Nth(cmd.n)
      /\ s = Nth(cmd.n) =>
           dev'.bot = "DATA_IN_LAST" /\ dev'.xfer = "IDLE" /\ dev'.brc = 0 /\ dev'.csw.residue = 0
      /\ s # Nth(cmd.n) => dev'.bot = "DATA_IN" /\ dev'.xfer = "ONGOING" /\ Reads(dev', cmd, s)
  BY DEF PacketSent
<1>2. CASE s = Nth(cmd.n)
  <2>1. DataIn(Nth(cmd.n))'
    BY <1>2
  <2> QED
    BY <1>1, <1>2, <2>1 DEF Reading
<1>3. CASE s # Nth(cmd.n)
  <2>1. s \in 1..(Nth(cmd.n) - 1)
    BY <1>1, <1>3
  <2>2. \E j \in 1..(Nth(cmd'.n) - 1) : Reads(dev', cmd', j) /\ DataIn(j)'
    BY <1>1, <1>3, <2>1
  <2> QED
    BY <1>1, <1>3, <2>2 DEF Reading
<1> QED
  BY <1>2, <1>3

\* A command wrapper reaches a device that has finished the last command.
LEMMA WrapperLinked ==
  ASSUME Shape, Linked, NEW d, Differ(d, dev, {"rxctr"}), d.rxctr = FALSE,
         ~Serving, dev.rxctr, ~dev.txctr, phase \in Running, dev.bot = "IDLE",
         dev' = CBW_Decode(d), UNCHANGED <<phase, cmd, tag, got, moved, answer, leftover>>
  PROVE  Linked'
<1>0. /\ Ports /\ Waiting /\ Working /\ Leftover /\ Transfer /\ Whole(dev.card)
      /\ dev.rxbuf = Wrapper
      /\ cmd.dir = "OUT" => moved = 0
      /\ phase \in Active => leftover \/ moved = 0
      /\ phase = "in" /\ moved = 0 => got = <<>>
      /\ phase = "csw" => cmd.len = 0 \/ cmd.dir = "IN"
  BY DEF Linked, Waiting
<1>1. /\ Regular(cmd) /\ cmd \in FitBlocks /\ dev.mounted \in BOOLEAN /\ DOMAIN dev.buf = 1..PerBlock
      /\ dev.xfer \in {"IDLE", "ONGOING"} /\ tag \in Nat /\ moved \in Nat /\ cmd.len \in Nat
      /\ cmd.dir \in {"IN", "OUT"} /\ dev.sig \in {"valid", "bad"}
  BY BlockTypes DEF Shape, Typed, Regular
<1>2. dev.cnt = 0 /\ dev.brc = 0 /\ dev.xfer = "IDLE" /\ dev.tx # "STALL" /\ phase # "clear_in"
  BY <1>0, <1>1 DEF Transfer, Ports, Running, Active
<1>3. WrapperIn(d) = cmd /\ d.rxbuf = dev.rxbuf /\ d.rxbuf.kind = "cbw" /\ d.rxbuf.tag = tag
  BY <1>0 DEF Differ, Fields, WrapperIn, Wrapper
<1>4. PICK m : WrapperServed(dev', d, m)
  BY <1>1, <1>3, DecodeServes DEF Differ
<1>5. /\ Differ(m, d, {"cbw", "sig", "csw"}) /\ m.cbw = cmd /\ m.csw.tag = tag /\ m.csw.residue = cmd.len
      /\ m.sig = (IF cmd.form \in {"short", "badsig"} THEN "bad" ELSE "valid")
  BY <1>3, <1>4 DEF WrapperServed, Decoded
<1>6. /\ IsDevice(m)
      /\ m.bot = "IDLE" /\ m.xfer = "IDLE" /\ m.brc = 0 /\ m.cnt = 0 /\ m.buf = dev.buf
      /\ m.mounted = dev.mounted /\ m.txbuf = dev.txbuf /\ m.tx = dev.tx /\ m.txctr = FALSE
      /\ m.rx = dev.rx /\ m.rxctr = FALSE /\ m.card = dev.card
  <2>1. m.txctr = dev.txctr /\ dev.txctr \in BOOLEAN
    BY <1>5 DEF Differ, Fields, Shape, Typed
  <2> QED
    BY <1>2, <1>5, <2>1 DEF Differ, Fields
<1>7. ASSUME dev'.cbw = m.cbw, dev'.csw.tag = m.csw.tag, dev'.txctr = m.txctr, dev'.rxctr = m.rxctr,
             dev'.sig = m.sig, dev'.bot \in {"DATA_IN", "DATA_OUT", "DATA_IN_LAST"} => cmd.form = "ok"
      PROVE  Handled
  BY <1>5, <1>6, <1>7 DEF Handled
<1>8. CASE Refused(dev', m) /\ (cmd.form # "ok" => dev'.rx = "STALL")
  <2>1. /\ dev'.cbw = m.cbw /\ dev'.txctr = m.txctr /\ dev'.rxctr = m.rxctr /\ dev'.sig = m.sig
        /\ dev'.cnt = m.cnt /\ dev'.brc = m.brc /\ dev'.xfer = m.xfer /\ dev'.card = m.card
        /\ dev'.csw.tag = m.csw.tag /\ dev'.csw.residue = m.csw.residue /\ dev'.csw.status = "FAILED"
        /\ dev'.txbuf = Status(dev'.csw) /\ dev'.bot = "ERROR" /\ dev'.tx = "STALL"
    BY <1>8 DEF Refused, Differ, Fields
  <2>2. Handled
    BY <1>7, <2>1
  <2>3. dev'.sig = "bad" => dev'.rx = "STALL"
    BY <1>5, <1>8, <2>1
  <2> QED
    BY <1>0, <1>5, <1>6, <2>1, <2>2, <2>3, RefusedLinked
<1>9. CASE cmd.form = "ok" /\ Served(dev', m) /\ ~Refused(dev', m)
  <2>0. m.sig = "valid"
    BY <1>5, <1>9
  <2>1. CASE AnsweredAtOnce(dev', m)
    <3>1. /\ dev'.cbw = m.cbw /\ dev'.txctr = m.txctr /\ dev'.rxctr = m.rxctr /\ dev'.sig = m.sig
          /\ dev'.cnt = m.cnt /\ dev'.brc = m.brc /\ dev'.xfer = m.xfer /\ dev'.card = m.card
          /\ dev'.csw.tag = m.csw.tag /\ dev'.csw.residue = m.csw.residue /\ dev'.csw.status = "PASSED"
          /\ dev'.txbuf = Status(dev'.csw) /\ dev'.bot = "CSW_SEND" /\ dev'.tx = "VALID"
          /\ m.cbw.op \in {"TEST_UNIT_READY", "START_STOP_UNIT"} \/ m.cbw.len = 0
          /\ m.cbw.op # "READ10" /\ m.cbw.op # "WRITE10"
      BY <2>1 DEF AnsweredAtOnce, Differ, Fields
    <3>2. Handled
      BY <1>7, <3>1
    <3>3. phase # "out"
      <4>1. phase = "out" => cmd.dir = "OUT" /\ moved < cmd.len
        BY <1>0 DEF Working
      <4>2. cmd.len = 0 \/ cmd.dir = "IN"
        BY <1>1, <1>5, <3>1 DEF Regular
      <4> QED
        BY <1>1, <4>1, <4>2
    <3>4. phase = "csw" => leftover \/ dev'.csw.residue = cmd.len - moved
      BY <1>0, <1>1, <1>5, <3>1 DEF Active
    <3> QED
      BY <1>0, <1>5, <1>6, <2>0, <3>1, <3>2, <3>3, <3>4, AnsweredLinked
  <2>2. CASE WrongWay(dev', m)
    <3>1. /\ dev'.cbw = m.cbw /\ dev'.txctr = m.txctr /\ dev'.rxctr = m.rxctr /\ dev'.sig = m.sig
          /\ dev'.cnt = m.cnt /\ dev'.brc = m.brc /\ dev'.xfer = m.xfer /\ dev'.card = m.card
          /\ dev'.csw.tag = m.csw.tag /\ dev'.csw.residue = m.csw.residue /\ dev'.csw.status = "FAILED"
          /\ dev'.txbuf = Status(dev'.csw) /\ dev'.bot = "CSW_SEND" /\ dev'.tx = "VALID"
          /\ dev'.rx = "STALL" /\ m.cbw.dir # "IN"
      BY <2>2 DEF WrongWay, Differ, Fields
    <3>2. Handled
      BY <1>7, <3>1
    <3>3. moved = 0
      BY <1>0, <1>1, <1>5, <3>1
    <3>4. dev'.csw.residue = cmd.len /\ dev'.csw.residue = cmd.len - moved
      BY <1>1, <1>5, <3>1, <3>3
    <3> QED
      BY <1>0, <1>5, <1>6, <2>0, <3>1, <3>2, <3>3, <3>4, AnsweredLinked
  <2>3. CASE \E length \in 0..InfoLength : ReplyPrepared(dev', m, length)
    <3>0. PICK length \in 0..InfoLength : ReplyPrepared(dev', m, length)
      BY <2>3
    <3>1. /\ dev'.cbw = m.cbw /\ dev'.txctr = m.txctr /\ dev'.rxctr = m.rxctr /\ dev'.sig = m.sig
          /\ dev'.cnt = m.cnt /\ dev'.brc = m.brc /\ dev'.xfer = m.xfer /\ dev'.card = m.card
          /\ dev'.csw.tag = m.csw.tag /\ dev'.csw.residue = (m.csw.residue - length) % Word
          /\ dev'.txbuf = Info(length) /\ dev'.bot = "DATA_IN_LAST" /\ dev'.tx = "VALID"
          /\ m.cbw.op = "INQUIRY" \/ m.cbw.op = "READ_CAPACITY10"
      BY <3>0 DEF ReplyPrepared, Differ, Fields
    <3>2. Handled
      BY <1>7, <1>9, <3>1
    <3>3. Between' /\ Waiting' /\ Working' /\ Reported'
      BY <3>2, HandledLinks
    <3>4. UNCHANGED <<phase, cmd, tag, moved, leftover>> /\ dev'.txctr = FALSE
      BY <1>6, <3>1
    <3>5. dev'.txbuf.kind = "info"
      BY <3>1 DEF Info
    <3>6. Ports'
      BY <1>1, <1>5, <2>0, <3>1, <3>4, <3>5 DEF Ports
    <3>7. Leftover' /\ Answering' /\ Truth' /\ Transfer'
      BY <1>6, <3>1 DEF Leftover, Answering, Truth, Transfer
    <3>8. Reading' /\ Writing'
      BY <1>5, <3>1, <3>4 DEF Reading, Writing
    <3>9. InfoSent(length)'
      <4>1. phase = "in" => leftover \/ moved = 0
        BY <1>0 DEF Active
      <4> QED
        BY <1>5, <3>1, <3>4, <4>1 DEF InfoSent
    <3>10. Replying'
      BY <1>5, <3>1, <3>4, <3>9 DEF Replying
    <3>11. Whole(dev.card)'
      BY <1>0, <1>6, <3>1
    <3> QED
      BY <3>3, <3>6, <3>7, <3>8, <3>10, <3>11 DEF Linked
  <2>4. CASE \E r : ReadBegun(dev', m, r)
    <3>0. PICK r : ReadBegun(dev', m, r)
      BY <2>4
    <3>1. /\ m.cbw.op = "READ10" /\ m.cbw.dir = "IN" /\ AddressOk(m)
          /\ Differ(r, m, {"bot"}) /\ r.bot = "DATA_IN" /\ dev' = Read_Memory(r)
      BY <3>0 DEF ReadBegun
    <3>2. /\ IsDevice(r) /\ r.cbw = cmd /\ r.xfer = "IDLE" /\ r.brc = 0 /\ r.cnt = 0 /\ r.buf = dev.buf
          /\ r.mounted = dev.mounted /\ r.csw = m.csw /\ r.card = dev.card /\ r.rx = dev.rx
          /\ r.txctr = FALSE /\ r.rxctr = FALSE /\ r.sig = "valid"
      BY <1>5, <1>6, <2>0, <3>1 DEF Differ, Fields
    <3>3. /\ InRange(cmd) /\ dev.mounted = TRUE /\ cmd.len = Bytes(Nth(cmd.n))
          /\ cmd.op = "READ10" /\ cmd.dir = "IN"
      BY <1>1, <1>5, <1>6, <3>1, RangeOfCommand
    <3>4. PacketSent(dev', r, cmd, 1)
      <4>1. /\ DOMAIN r.buf = 1..PerBlock /\ r.mounted = TRUE /\ InRange(r.cbw)
            /\ r.csw.residue = Bytes(Nth(r.cbw.n))
        BY <1>1, <1>5, <3>2, <3>3
      <4>2. PacketSent(Read_Memory(r), r, r.cbw, 1)
        BY <3>2, <4>1, ReadBegins
      <4> QED
        BY <3>1, <3>2, <4>2
    <3>5. /\ dev'.cbw = cmd /\ dev'.cnt = 0 /\ dev'.mounted = dev.mounted /\ dev'.rx = dev.rx
          /\ dev'.txctr = FALSE /\ dev'.rxctr = FALSE /\ dev'.sig = "valid" /\ dev'.card = dev.card
          /\ dev'.csw.tag = tag /\ dev'.tx = "VALID"
          /\ dev'.txbuf = Packet(dev.card[Nth(cmd.lba) + 1 - 1])
      BY <1>5, <3>2, <3>4 DEF PacketSent, Differ, Fields, SameTag
    <3>6. Handled
      BY <3>5 DEF Handled
    <3>7. Between' /\ Waiting' /\ Working' /\ Reported'
      BY <3>6, HandledLinks
    <3>8. UNCHANGED <<phase, cmd, tag, got, moved, leftover>>
      OBVIOUS
    <3>9. DataIn(1)'
      <4>1. phase = "in" => InStep(0)
        <5>1. <<>> = [k \in 1..0 |-> Expected(k)]
          OBVIOUS
        <5>2. Bytes(0) = 0
          BY BytesRise
        <5>3. phase = "in" /\ moved = 0 => Sync(0)
          BY <1>0, <5>1, <5>2 DEF Sync
        <5> QED
          BY <1>1, <5>2, <5>3 DEF InStep
      <4>2. phase' = "in" => InStep(0)'
        BY <3>5, <3>8, <4>1, SyncFrame
      <4>3. dev'.txbuf = Expected(1)'
        BY <3>5, <3>8 DEF Expected
      <4>4. 1 - 1 = 0
        OBVIOUS
      <4> QED
        BY <3>5, <4>2, <4>3, <4>4 DEF DataIn
    <3>10. AddressOk(dev')
      <4>1. dev'.cbw = m.cbw /\ dev'.mounted = m.mounted
        BY <1>5, <1>6, <3>5
      <4> QED
        BY <3>1, <4>1, AddressKept
    <3>11. Nth(cmd.n) \in Nat \ {0}
      <4>1. 0 \in 0..(cmd.n - 1) /\ 0 \in 0..(PerBlock - 1)
        BY <3>3, Sizes DEF InRange
      <4> QED
        BY <3>3, <4>1, RangePackets
    <3>12. Reading' /\ dev'.bot \in {"DATA_IN", "DATA_IN_LAST"}
      BY <3>1, <3>3, <3>4, <3>5, <3>8, <3>9, <3>10, <3>11, SentReading
    <3>13. dev'.txbuf.kind = "data"
      BY <3>5 DEF Packet
    <3>14. Ports'
      BY <1>1, <3>5, <3>8, <3>12, <3>13 DEF Ports
    <3>15. Leftover' /\ Answering' /\ Truth'
      BY <3>12 DEF Leftover, Answering, Truth
    <3>16. Transfer'
      BY <3>1, <3>4, <3>5, <3>12 DEF Transfer, PacketSent
    <3>17. Replying' /\ Writing'
      BY <3>3, <3>8, <3>12 DEF Replying, Writing
    <3>18. Whole(dev.card)'
      BY <1>0, <3>5
    <3> QED
      BY <3>7, <3>12, <3>14, <3>15, <3>16, <3>17, <3>18 DEF Linked
  <2>5. CASE WriteBegun(dev', m)
    <3>1. /\ m.cbw.op = "WRITE10" /\ m.cbw.dir = "OUT" /\ AddressOk(m)
          /\ Differ(dev', m, {"bot", "rx"}) /\ dev'.bot = "DATA_OUT" /\ dev'.rx = "VALID"
      BY <2>5 DEF WriteBegun
    <3>2. /\ dev'.cbw = cmd /\ dev'.xfer = "IDLE" /\ dev'.brc = 0 /\ dev'.cnt = 0 /\ dev'.buf = dev.buf
          /\ dev'.mounted = m.mounted /\ dev'.csw = m.csw /\ dev'.card = dev.card
          /\ dev'.txctr = FALSE /\ dev'.rxctr = FALSE /\ dev'.sig = "valid"
          /\ dev'.tx = dev.tx /\ dev'.txbuf = dev.txbuf
      BY <1>5, <1>6, <2>0, <3>1 DEF Differ, Fields
    <3>3. /\ InRange(cmd) /\ cmd.len = Bytes(Nth(cmd.n)) /\ cmd.op = "WRITE10" /\ cmd.dir = "OUT"
      BY <1>1, <1>5, <1>6, <3>1, RangeOfCommand
    <3>4. Handled
      BY <1>5, <3>2 DEF Handled
    <3>5. Between' /\ Waiting' /\ Working' /\ Reported'
      BY <3>4, HandledLinks
    <3>6. UNCHANGED <<phase, cmd, tag, got, moved, leftover>>
      OBVIOUS
    <3>7. Ports'
      <4>1. dev.txbuf.kind = "csw" => dev.txbuf.tag \in Nat /\ dev.txbuf.tag <= tag
        BY <1>0, <1>1 DEF Ports
      <4> QED
        BY <1>1, <1>2, <1>5, <3>1, <3>2, <3>6, <4>1 DEF Ports
    <3>8. Leftover'
      BY <1>0, <3>2, <3>6 DEF Leftover
    <3>9. Answering' /\ Truth' /\ Transfer' /\ Reading' /\ Replying'
      BY <3>1, <3>2 DEF Answering, Truth, Transfer, Reading, Replying
    <3>10. moved = 0 /\ (phase = "csw" => moved >= cmd.len) /\ phase # "in"
      BY <1>0, <1>1, <3>3 DEF Working
    <3>11. Writes(dev', cmd, tag, 0)
      BY <1>1, <1>5, <3>2, <3>3, WriteBegins
    <3>12. DataOut(0)'
      <4>1. Bytes(0) = 0
        BY BytesRise
      <4> QED
        BY <3>2, <3>6, <3>10, <4>1 DEF DataOut
    <3>13. 0 \in 0..(Nth(cmd.n) - 1)
      <4>1. 0 \in 0..(cmd.n - 1) /\ 0 \in 0..(PerBlock - 1)
        BY <3>3, Sizes DEF InRange
      <4>2. Nth(cmd.n) \in Nat \ {0}
        BY <3>3, <4>1, RangePackets
      <4> QED
        BY <4>2
    <3>14. AddressOk(dev')
      BY <1>5, <3>1, <3>2, AddressKept
    <3>15. \E s \in 0..(Nth(cmd'.n) - 1) : Writes(dev', cmd', tag', s) /\ DataOut(s)'
      BY <3>6, <3>11, <3>12, <3>13
    <3>16. Writing'
      BY <3>1, <3>3, <3>6, <3>10, <3>14, <3>15 DEF Writing
    <3>17. Whole(dev.card)'
      BY <1>0, <3>2
    <3> QED
      BY <3>5, <3>7, <3>8, <3>9, <3>16, <3>17 DEF Linked
  <2>6. CASE Ignored(dev', m)
    <3>1. /\ dev'.cbw = cmd /\ dev'.xfer = "IDLE" /\ dev'.brc = 0 /\ dev'.cnt = 0
          /\ dev'.csw = m.csw /\ dev'.card = dev.card
          /\ dev'.txctr = FALSE /\ dev'.rxctr = FALSE /\ dev'.sig = "valid"
          /\ dev'.tx = dev.tx /\ dev'.txbuf = dev.txbuf /\ dev'.bot = "IDLE"
      BY <1>5, <1>6, <2>0, <2>6 DEF Ignored, Differ, Fields
    <3>2. Handled
      BY <1>5, <3>1 DEF Handled
    <3>3. Between' /\ Waiting' /\ Working' /\ Reported'
      BY <3>2, HandledLinks
    <3>4. UNCHANGED <<phase, cmd, tag, leftover>>
      OBVIOUS
    <3>5. Ports'
      <4>1. dev.txbuf.kind = "csw" => dev.txbuf.tag \in Nat /\ dev.txbuf.tag <= tag
        BY <1>0, <1>1 DEF Ports
      <4> QED
        BY <1>1, <1>2, <1>5, <3>1, <3>4, <4>1 DEF Ports
    <3>6. Leftover' /\ Answering' /\ Truth' /\ Transfer'
      BY <1>0, <3>1, <3>4 DEF Leftover, Answering, Truth, Transfer
    <3>7. Reading' /\ Replying' /\ Writing'
      BY <3>1, RestingLinksNext DEF Resting
    <3>8. Whole(dev.card)'
      BY <1>0, <3>1
    <3> QED
      BY <3>3, <3>5, <3>6, <3>7, <3>8 DEF Linked
  <2> QED
    BY <1>9, <2>1, <2>2, <2>3, <2>4, <2>5, <2>6 DEF Served
<1> QED
  BY <1>3, <1>4, <1>8, <1>9 DEF WrapperServed

\* The first cell of the block that holds a cell.
LEMMA BlockHead ==
  ASSUME NEW a \in Cells
  PROVE  /\ a \in Int /\ a \div PerBlock \in Int
         /\ (a \div PerBlock) * PerBlock \in Cells
         /\ ((a \div PerBlock) * PerBlock) \div PerBlock = a \div PerBlock
<1> DEFINE b == a \div PerBlock
<1>1. Cells = 0..(Nth(BlockCount) - 1) /\ Nth(BlockCount) \in Nat /\ PerBlock \in Nat \ {0}
  BY CardSize, Sizes DEF Cells, Nth
<1>2. a \in Int /\ b \in Int /\ PerBlock * b <= a /\ a < PerBlock * b + PerBlock
  BY <1>1, DivBounds
<1> HIDE DEF b
<1>3. b >= 0
  <2>1. b <= -1 => PerBlock * b <= 0 - PerBlock
    BY <1>1, <1>2
  <2> QED
    BY <1>1, <1>2, <2>1
<1>4. b * PerBlock = PerBlock * b /\ PerBlock * b >= 0 /\ b * PerBlock \in Int /\ b * PerBlock + 0 = b * PerBlock
  BY <1>1, <1>2, <1>3
<1>5. (b * PerBlock + 0) \div PerBlock = b
  BY <1>1, <1>2, Division
<1> QED
  BY <1>1, <1>2, <1>4, <1>5 DEF b

\* A block that is stored as a whole leaves the card whole.
LEMMA StoredWhole ==
  ASSUME NEW d, NEW e, NEW t, NEW b \in 0..(BlockCount - 1), BlockStored(e, d, t, b), Whole(d.card)
  PROVE  Whole(e.card)
<1>1. ASSUME NEW a \in Cells
      PROVE  e.card[a][2] = a /\ e.card[a][1] = e.card[(a \div PerBlock) * PerBlock][1]
  <2> DEFINE h == (a \div PerBlock) * PerBlock
  <2>1. h \in Cells /\ (a - Nth(b) \in 0..(PerBlock - 1) <=> h - Nth(b) \in 0..(PerBlock - 1))
    <3>1. h \in Cells /\ a \in Int /\ h \in Int /\ h \div PerBlock = a \div PerBlock /\ b \in Int
      <4>1. BlockCount \in Nat
        BY MassAssumption
      <4>2. Cells \subseteq Int
        BY CardSize DEF Cells, Nth
      <4>3. h \in Cells /\ h \div PerBlock = a \div PerBlock
        BY BlockHead
      <4> HIDE DEF h
      <4> QED
        BY <4>1, <4>2, <4>3
    <3> HIDE DEF h
    <3> QED
      BY <3>1, BlockOfCell
  <2>2. d.card[a][2] = a /\ d.card[a][1] = d.card[h][1]
    BY DEF Whole
  <2> HIDE DEF h
  <2>3. CASE a - Nth(b) \in 0..(PerBlock - 1)
    <3>1. e.card[a] = <<t, a>> /\ e.card[h] = <<t, h>>
      BY <2>1, <2>3 DEF BlockStored
    <3> QED
      BY <3>1 DEF h
  <2>4. CASE ~(a - Nth(b) \in 0..(PerBlock - 1))
    <3>1. e.card[a] = d.card[a] /\ e.card[h] = d.card[h]
      BY <2>1, <2>4 DEF BlockStored
    <3> QED
      BY <2>2, <3>1 DEF h
  <2> QED
    BY <2>3, <2>4
<1> QED
  BY <1>1 DEF Whole

\* A data packet reaches a device that waits for it.
LEMMA DataLinked ==
  ASSUME Shape, Linked, NEW d, Differ(d, dev, {"rxctr"}), d.rxctr = FALSE,
         Serving, dev.rxctr, ~dev.txctr, phase \in Running, dev.bot = "DATA_OUT",
         dev' = Mass_Storage_Out(d), UNCHANGED <<phase, cmd, tag, got, moved, answer, leftover>>
  PROVE  /\ Linked'
         /\ cmd.op = "WRITE10" /\ phase # "in"
         /\ \A a \in Cells \ CellsOf(cmd) : dev'.card[a] = dev.card[a]
<1>0. /\ Ports /\ Working /\ Leftover /\ Transfer /\ Whole(dev.card) /\ dev.csw.tag = tag /\ dev.sig = "valid"
      /\ cmd.op = "WRITE10" /\ cmd.dir = "OUT" /\ AddressOk(dev)
      /\ phase = "csw" => moved >= cmd.len
      /\ phase # "in"
      /\ phase = "out" => moved < cmd.len
  BY DEF Linked, Writing, Working, Serving
<1>1. PICK s \in 0..(Nth(cmd.n) - 1) : Writes(dev, cmd, tag, s) /\ DataOut(s)
  BY DEF Linked, Writing
<1>2. /\ dev.cbw = cmd /\ InRange(cmd) /\ dev.mounted = TRUE /\ cmd.len = Bytes(Nth(cmd.n))
      /\ Nth(cmd.n) \in Nat \ {0}
  BY <1>0, RangeServed
<1>3. /\ IsDevice(d)
      /\ d.bot = dev.bot /\ d.cbw = dev.cbw /\ d.sig = dev.sig /\ d.csw = dev.csw
      /\ d.xfer = dev.xfer /\ d.wOff = dev.wOff /\ d.wLen = dev.wLen /\ d.brc = dev.brc
      /\ d.cnt = dev.cnt /\ d.buf = dev.buf /\ d.mounted = dev.mounted
      /\ d.txbuf = dev.txbuf /\ d.tx = dev.tx /\ d.txctr = dev.txctr /\ d.rxbuf = dev.rxbuf /\ d.card = dev.card
  BY DEF Differ, Fields
<1>4. Writes(d, cmd, tag, s)
  BY <1>1, <1>3, TransferFrame
<1>5. dev.rxbuf = Packet(<<tag, Nth(cmd.lba) + s>>) /\ moved = Bytes(s + 1)
  BY <1>1 DEF DataOut
<1>6. dev' = Write_Memory(d)
  BY <1>0, <1>2, <1>3, OutServes
<1>7. PacketStored(dev', d, cmd, tag, s + 1)
  <2>1. d.rxbuf.val = <<tag, Nth(cmd.lba) + s>>
    BY <1>3, <1>5 DEF Packet
  <2>2. d.xfer \in {"IDLE", "ONGOING"} /\ d.mounted = TRUE /\ d.cbw = cmd
    BY <1>2, <1>3 DEF Shape, Typed
  <2> QED
    BY <1>2, <1>3, <1>4, <1>6, <2>1, <2>2, WriteGoesOn
<1>8. /\ dev'.cbw = cmd /\ dev'.sig = "valid" /\ dev'.csw.tag = tag /\ dev'.brc = dev.brc
      /\ dev'.mounted = dev.mounted /\ dev'.txctr = FALSE /\ dev'.rxctr = FALSE /\ dev'.rx = "VALID"
  <2>1. dev.txctr = FALSE
    BY DEF Shape, Typed
  <2> QED
    BY <1>0, <1>2, <1>3, <1>7, <2>1 DEF PacketStored, Differ, Fields
<1>9. /\ s + 1 \in 1..Nth(cmd.n) /\ s \in Int
      /\ dev'.card = dev.card \/ \E b \in cmd.lba..(cmd.lba + cmd.n - 1) : BlockStored(dev', d, tag, b)
      /\ s + 1 = Nth(cmd.n) =>
           /\ dev'.bot = "CSW_SEND" /\ dev'.csw.status = "PASSED" /\ dev'.txbuf = Status(dev'.csw)
           /\ dev'.tx = "VALID" /\ dev'.xfer = "IDLE" /\ dev'.cnt = 0 /\ dev'.csw.residue = 0
           /\ \A a \in CellsOf(cmd) : dev'.card[a] = <<tag, a>>
      /\ s + 1 # Nth(cmd.n) =>
           /\ dev'.bot = "DATA_OUT" /\ dev'.txbuf = dev.txbuf /\ dev'.tx = dev.tx
           /\ dev'.xfer = "ONGOING" /\ Writes(dev', cmd, tag, s + 1)
  BY <1>1, <1>3, <1>7 DEF PacketStored
<1>10. Handled
  BY <1>8 DEF Handled
<1>11. Whole(dev'.card)
  <2>1. CASE dev'.card = dev.card
    BY <1>0, <2>1
  <2>2. CASE \E b \in cmd.lba..(cmd.lba + cmd.n - 1) : BlockStored(dev', d, tag, b)
    <3>1. PICK b \in cmd.lba..(cmd.lba + cmd.n - 1) : BlockStored(dev', d, tag, b)
      BY <2>2
    <3>2. b \in 0..(BlockCount - 1)
      BY <1>2, MassAssumption DEF InRange
    <3> QED
      BY <1>0, <1>3, <3>1, <3>2, StoredWhole
  <2> QED
    BY <1>9, <2>1, <2>2
<1>12. dev.brc = 0
  BY <1>0 DEF Transfer
<1>a. \A a \in Cells \ CellsOf(cmd) : dev'.card[a] = dev.card[a]
  <2>1. ASSUME NEW b \in cmd.lba..(cmd.lba + cmd.n - 1), BlockStored(dev', d, tag, b),
               NEW a \in Cells \ CellsOf(cmd)
        PROVE  dev'.card[a] = dev.card[a]
    <3>1. cmd.lba \in Int /\ cmd.n \in Int /\ b \in Int /\ cmd.lba <= b /\ b < cmd.lba + cmd.n
      BY <1>2 DEF InRange
    <3>2. /\ Nth(cmd.lba) <= Nth(b) /\ Nth(b) + PerBlock <= Nth(cmd.lba) + Nth(cmd.n)
          /\ Nth(cmd.lba) \in Int /\ Nth(b) \in Int /\ Nth(cmd.n) \in Int
      <4> DEFINE l == cmd.lba
                 n == cmd.n
                 z == l + n
      <4>1. l \in Int /\ n \in Int /\ z \in Int /\ l <= b /\ b < z
        BY <3>1
      <4> HIDE DEF l, n
      <4>2. Nth(z) = Nth(l) + Nth(n) /\ Nth(l) \in Int /\ Nth(b) \in Int /\ Nth(n) \in Int
        BY <3>1, <4>1, NthOrder, NthRise
      <4> HIDE DEF z
      <4>3. Nth(l) <= Nth(b) /\ Nth(b) + PerBlock <= Nth(z)
        BY <3>1, <4>1, NthOrder
      <4> QED
        BY <4>2, <4>3 DEF l, n
    <3>3. a \in Int /\ PerBlock \in Nat
      BY BlockHead, Sizes
    <3>4. ~(a - Nth(cmd.lba) \in 0..(Nth(cmd.n) - 1))
      BY DEF CellsOf, Nth
    <3>5. ~(a - Nth(b) \in 0..(PerBlock - 1))
      BY <3>2, <3>3, <3>4
    <3> QED
      BY <1>3, <2>1, <3>5 DEF BlockStored
  <2> QED
    BY <1>9, <2>1
<1>13. CASE s + 1 = Nth(cmd.n)
  <2>1. moved = cmd.len /\ moved \in Nat
    BY <1>2, <1>5, <1>13 DEF Shape
  <2>2. Written'
    BY <1>9, <1>13 DEF Written
  <2>3. phase # "out" /\ cmd.op # "READ10" /\ 0 = cmd.len - moved
    BY <1>0, <2>1
  <2>4. Linked'
    BY <1>8, <1>9, <1>10, <1>11, <1>12, <1>13, <2>2, <2>3, AnsweredLinked
  <2> QED
    BY <1>0, <1>a, <2>4
<1>14. CASE s + 1 # Nth(cmd.n)
  <2>1. /\ dev'.bot = "DATA_OUT" /\ dev'.txbuf = dev.txbuf /\ dev'.tx = dev.tx
        /\ dev'.xfer = "ONGOING" /\ Writes(dev', cmd, tag, s + 1) /\ s + 1 \in 0..(Nth(cmd.n) - 1)
    BY <1>2, <1>9, <1>14
  <2>2. Between' /\ Waiting' /\ Working' /\ Reported' /\ phase # "clear_in"
    BY <1>10, HandledLinks
  <2>3. UNCHANGED <<phase, cmd, tag, got, moved, leftover>>
    OBVIOUS
  <2>4. Ports'
    BY <1>0, <1>8, <2>1, <2>2, <2>3 DEF Ports
  <2>5. Leftover'
    BY <1>0, <2>1, <2>3 DEF Leftover
  <2>6. Answering' /\ Truth' /\ Transfer' /\ Reading' /\ Replying'
    BY <1>8, <1>12, <2>1 DEF Answering, Truth, Transfer, Reading, Replying
  <2>7. DataOut(s + 1)'
    BY <1>5, <1>8, <2>3 DEF DataOut
  <2>8. AddressOk(dev')
    BY <1>0, <1>2, <1>8, AddressKept
  <2>9. \E k \in 0..(Nth(cmd'.n) - 1) : Writes(dev', cmd', tag', k) /\ DataOut(k)'
    <3> DEFINE k == s + 1
    <3>1. k \in 0..(Nth(cmd'.n) - 1) /\ Writes(dev', cmd', tag', k) /\ DataOut(k)' /\ k' = k
      BY <2>1, <2>3, <2>7
    <3> HIDE DEF k
    <3> QED
      BY <3>1
  <2>10. Writing'
    BY <1>0, <1>8, <2>1, <2>3, <2>8, <2>9 DEF Writing
  <2>11. Whole(dev.card)'
    BY <1>11
  <2>12. Linked'
    BY <2>2, <2>4, <2>5, <2>6, <2>10, <2>11 DEF Linked
  <2> QED
    BY <1>0, <1>a, <2>12
<1> QED
  BY <1>13, <1>14

LEMMA ServeOutLinked ==
  ASSUME Shape, Linked, ServeOut
  PROVE  Linked'
<1> DEFINE d == [dev EXCEPT !.rxctr = FALSE]
<1>0. /\ Ports /\ Between /\ Waiting /\ Working /\ Transfer /\ Reading
      /\ dev.rxctr /\ ~dev.txctr /\ dev' = Mass_Storage_Out(d)
      /\ UNCHANGED <<phase, cmd, tag, got, moved, answer, leftover>>
  BY DEF Linked, ServeOut, host
<1>1. /\ IsDevice(dev) /\ dev.bot \in BotStates /\ dev.sig \in {"valid", "bad"} /\ phase \in Phases
      /\ dev.txctr = FALSE
  BY <1>0 DEF Shape, Typed
<1>2. Differ(d, dev, {"rxctr"}) /\ d.rxctr = FALSE
  BY <1>1, PortsDo
<1> HIDE DEF d
<1>3. IsDevice(d) /\ d.bot = dev.bot /\ d.csw = dev.csw /\ d.rxbuf = dev.rxbuf
  BY <1>2 DEF Differ, Fields
<1>4. phase \in Running /\ dev.sig = "valid"
  BY <1>0, <1>1 DEF Between, Ports, Drained, Running, Active, Phases
<1>5. CASE ~Serving
  <2>1. dev.bot = "IDLE"
    BY <1>0, <1>4, <1>5 DEF Waiting, Quiet
  <2>2. dev' = CBW_Decode(d)
    BY <1>0, <1>3, <2>1, OutServes
  <2> QED
    BY <1>0, <1>2, <1>4, <1>5, <2>1, <2>2, WrapperLinked
<1>6. CASE Serving /\ dev.bot = "DATA_OUT"
  BY <1>0, <1>2, <1>4, <1>6, DataLinked
<1>7. CASE Serving /\ dev.bot # "DATA_OUT"
  <2>0. /\ dev.bot # "DATA_IN" /\ dev.csw.tag = tag /\ dev.cbw = cmd /\ dev.rxbuf.kind = "data"
        /\ dev.cnt = 0 /\ dev.brc = 0 /\ dev.xfer # "ONGOING"
    BY <1>0, <1>4, <1>7 DEF Reading, Working, Serving, Transfer
  <2>1. CASE dev.bot = "IDLE"
    <3>1. dev' = CBW_Decode(d)
      BY <1>0, <1>3, <2>1, OutServes
    <3>2. WrapperIn(d) = [NoCommand EXCEPT !.form = "short"] /\ WrapperIn(d).form = "short"
      BY <1>3, <2>0 DEF WrapperIn, NoCommand
    <3>3. PICK m : WrapperServed(dev', d, m)
      BY <1>3, <3>1, <3>2, NoCommandRegular, DecodeServes
    <3>4. /\ Differ(m, d, {"cbw", "sig", "csw"}) /\ m.csw.tag = tag /\ m.sig = "bad"
          /\ Refused(dev', m) /\ dev'.rx = "STALL"
      BY <1>3, <2>0, <3>2, <3>3 DEF WrapperServed, Decoded
    <3>5. /\ dev'.csw.tag = tag /\ dev'.sig = "bad" /\ dev'.txctr = FALSE /\ dev'.rxctr = FALSE
          /\ dev'.cnt = 0 /\ dev'.brc = 0 /\ dev'.xfer # "ONGOING" /\ dev'.card = dev.card
          /\ dev'.bot = "ERROR" /\ dev'.tx = "STALL" /\ dev'.txbuf = Status(dev'.csw)
          /\ dev'.csw.status = "FAILED"
      BY <1>1, <1>2, <2>0, <3>4 DEF Refused, Differ, Fields
    <3>6. Handled
      BY <1>0, <1>4, <3>5 DEF Handled
    <3> QED
      BY <3>4, <3>5, <3>6, RefusedLinked
  <2>2. CASE dev.bot # "IDLE"
    <3>1. PhaseError(dev', d)
      BY <1>0, <1>3, <1>7, <2>2, OutServes
    <3>2. /\ dev'.csw.tag = tag /\ dev'.sig = "valid" /\ dev'.txctr = FALSE /\ dev'.rxctr = FALSE
          /\ dev'.cnt = 0 /\ dev'.brc = 0 /\ dev'.xfer # "ONGOING" /\ dev'.card = dev.card /\ dev'.cbw = cmd
          /\ dev'.bot = "ERROR" /\ dev'.tx = "STALL" /\ dev'.txbuf = Status(dev'.csw)
          /\ dev'.csw.status = "PHASE_ERROR"
      BY <1>1, <1>2, <1>3, <1>4, <1>7, <2>0, <3>1 DEF PhaseError, Differ, Fields
    <3>3. Handled
      BY <1>0, <1>4, <3>2 DEF Handled
    <3> QED
      BY <3>2, <3>3, RefusedLinked
  <2> QED
    BY <2>1, <2>2
<1> QED
  BY <1>5, <1>6, <1>7

-----------------------------------------------------------------------------
(* The invariant, and what it says.                                          *)

LEMMA LinkedStep == IInv /\ [Next]_vars => IInv'
<1> SUFFICES ASSUME IInv, [Next]_vars PROVE IInv'
  OBVIOUS
<1>1. Shape /\ Shape'
  BY ShapeStep DEF IInv
<1> SUFFICES ASSUME ~abandoned' PROVE Linked'
  BY <1>1 DEF IInv
<1>2. ~abandoned
  BY DEF Next, Begin, ServeIn, ServeOut, Bus, SendWrapper, SendData, TakeData, TakeStatus, ClearStall,
         StallIsFatal, TimeOut, Recover, BotReset, BusReset, GiveUp, PowerCycle, vars
<1>3. Linked
  BY <1>2 DEF IInv
<1>4. ASSUME NEW c \in Commands, Begin(c)  PROVE Linked'
  BY <1>1, <1>3, <1>4, BeginLinked
<1>5. CASE ServeIn
  BY <1>1, <1>3, <1>5, ServeInLinked
<1>6. CASE ServeOut
  BY <1>1, <1>3, <1>6, ServeOutLinked
<1>7. CASE SendWrapper
  BY <1>1, <1>3, <1>7, SendWrapperLinked
<1>8. CASE SendData
  BY <1>1, <1>3, <1>8, SendDataLinked
<1>9. CASE TakeData
  BY <1>1, <1>3, <1>9, TakeDataLinked
<1>10. CASE TakeStatus
  BY <1>1, <1>3, <1>10, TakeStatusLinked
<1>11. CASE ClearStall
  BY <1>1, <1>3, <1>11, ClearStallLinked
<1>12. CASE StallIsFatal
  <2>1. /\ phase \in Active \cup {"cbw"} /\ phase' = "recover" /\ dev' = dev /\ moved' = moved
        /\ UNCHANGED <<cmd, tag, leftover>>
    BY <1>12 DEF StallIsFatal, Active
  <2> QED
    BY <1>1, <1>3, <2>1, RecoverLinked
<1>13. CASE TimeOut
  <2>1. /\ phase \in Active \cup {"cbw"} /\ phase' = "recover" /\ dev' = dev /\ moved' = moved
        /\ UNCHANGED <<cmd, tag, leftover>>
    BY <1>13 DEF TimeOut, Stuck, Active
  <2> QED
    BY <1>1, <1>3, <2>1, RecoverLinked
<1>14. CASE GiveUp
  <2>1. /\ phase \in Active \cup {"cbw"} /\ phase' = "recover" /\ dev' = dev /\ moved' = moved
        /\ UNCHANGED <<cmd, tag, leftover>>
    BY <1>14 DEF GiveUp, Active
  <2> QED
    BY <1>1, <1>3, <2>1, RecoverLinked
<1>15. CASE BotReset
  BY <1>1, <1>3, <1>15, BotResetLinked
<1>16. CASE BusReset
  BY <1>1, <1>3, <1>16, BusResetLinked
<1>17. CASE PowerCycle
  BY <1>1, <1>3, <1>17, PowerCycleLinked
<1>18. CASE UNCHANGED vars
  <2>1. /\ dev' = dev /\ phase' = phase /\ cmd' = cmd /\ tag' = tag /\ got' = got /\ moved' = moved
        /\ answer' = answer /\ leftover' = leftover
    BY <1>18 DEF vars
  <2>2. Ports' /\ Between' /\ Waiting' /\ Working' /\ Leftover' /\ Answering' /\ Transfer'
    BY <1>3, <2>1 DEF Linked, Ports, Between, Waiting, Working, Leftover, Answering, Transfer,
                      Drained, Serving, Quiet, Wrapper
  <2>3. Reading'
    <3>1. \A s : DataIn(s) => DataIn(s)'
      BY <2>1, SyncFrame DEF DataIn
    <3> QED
      BY <1>3, <2>1, <3>1 DEF Linked, Reading
  <2>4. Replying' /\ Writing'
    BY <1>3, <2>1 DEF Linked, Replying, Writing, InfoSent, DataOut
  <2>5. Truth'
    <3>1. (Sync(Nth(cmd.n)) => Sync(Nth(cmd.n))') /\ (Written => Written') /\ Nth(cmd'.n) = Nth(cmd.n)
      BY <2>1, SyncFrame DEF Written
    <3> QED
      BY <1>3, <2>1, <3>1 DEF Linked, Truth, Serving
  <2>6. Reported' /\ Whole(dev.card)'
    BY <1>3, <2>1, ReportedFrame DEF Linked
  <2> QED
    BY <2>2, <2>3, <2>4, <2>5, <2>6 DEF Linked
<1> QED
  BY <1>4, <1>5, <1>6, <1>7, <1>8, <1>9, <1>10, <1>11, <1>12, <1>13, <1>14, <1>15, <1>16, <1>17, <1>18
     DEF Next, Bus, Recover

\* The invariant holds in every state: whatever is refused, stalled, cut or reset.
THEOREM IInvHolds == Spec => []IInv
<1>1. Init => IInv
  BY InitLinked
<1>2. IInv /\ [Next]_vars => IInv'
  BY LinkedStep
<1> QED
  BY <1>1, <1>2, PTL DEF Spec

\* The device and the host keep to their types, and the fill level of the block
\* buffer of memory.c stays inside it.
THEOREM TypeCorrect == Spec => []TypeOK
<1>1. ASSUME IInv PROVE TypeOK
  <2>1. Shape
    BY <1>1 DEF IInv
  <2>2. ASSUME ~abandoned PROVE dev.cnt \in 0..(BlockSize - PacketSize)
    <3>0. Linked
      BY <1>1, <2>2 DEF IInv
    <3>1. /\ PacketSize \in Nat \ {0} /\ PerBlock \in Nat \ {0} /\ BlockSize = Bytes(PerBlock)
      BY Sizes
    <3>2. Bytes(PerBlock - 1) = BlockSize - PacketSize /\ Bytes(0) = 0
      BY <3>1, BytesRise
    <3>3. ASSUME NEW i \in 0..(PerBlock - 1), dev.cnt = Bytes(i)
          PROVE  dev.cnt \in 0..(BlockSize - PacketSize)
      <4>1. i \in Int /\ PerBlock - 1 \in Int /\ i <= PerBlock - 1 /\ i >= 0
        BY <3>1
      <4>2. Bytes(i) <= Bytes(PerBlock - 1) /\ Bytes(i) >= 0 /\ Bytes(i) \in Int /\ Bytes(PerBlock - 1) \in Int
        BY <4>1, BytesOrder, BytesRise
      <4> QED
        BY <3>2, <3>3, <4>2
    <3>4. CASE dev.bot # "DATA_OUT"
      <4>1. dev.cnt = Bytes(0) /\ 0 \in 0..(PerBlock - 1)
        BY <3>0, <3>1, <3>2, <3>4 DEF Linked, Transfer
      <4> QED
        BY <3>3, <4>1
    <3>5. CASE dev.bot = "DATA_OUT"
      <4>1. PICK s : Writes(dev, cmd, tag, s)
        BY <3>0, <3>5 DEF Linked, Writing
      <4>2. PICK blk \in 0..(cmd.n - 1), i \in 0..(PerBlock - 1) : dev.cnt = Bytes(i)
        BY <4>1 DEF Writes
      <4> QED
        BY <3>3, <4>2
    <3> QED
      BY <3>4, <3>5
  <2> QED
    BY <2>1, <2>2 DEF Shape, Typed, BotStates, PortStates, Phases, TypeOK
<1> QED
  BY <1>1, IInvHolds, PTL

\* A READ(10) that ends well handed over the blocks asked for (Read_Memory, memory.c):
\* under AddressesFit, which the range check of the firmware needs.
THEOREM ReadCorrect == Spec => []ReadIsExact
<1>1. ASSUME IInv PROVE ReadIsExact
  <2>1. ~abandoned => Reported
    BY <1>1 DEF IInv, Linked
  <2> QED
    BY <2>1 DEF ReadIsExact, Reported, Expected, Nth
<1> QED
  BY <1>1, IInvHolds, PTL

\* A WRITE(10) that ends well is on the card (Write_Memory, memory.c).
THEOREM WriteCorrect == Spec => []WriteIsOnCard
<1>1. ASSUME IInv PROVE WriteIsOnCard
  <2>1. ~abandoned => Reported
    BY <1>1 DEF IInv, Linked
  <2> QED
    BY <2>1 DEF WriteIsOnCard, PassedWriteIsOnCard, Reported, Written
<1> QED
  BY <1>1, IInvHolds, PTL

\* No power failure and no refusal leaves a torn or displaced block on the card, when
\* no command's range wraps (AddressesFit).
THEOREM BlocksCorrect == Spec => []BlocksWhole
<1>1. ASSUME IInv PROVE BlocksWhole
  BY <1>1 DEF IInv, Linked, Whole, BlocksWhole
<1> QED
  BY <1>1, IInvHolds, PTL

\* The residue of a status is what the host knows was not moved (CSW.dDataResidue).
THEOREM ResidueCorrect == Spec => []ResidueIsExact
<1>1. ASSUME IInv PROVE ResidueIsExact
  BY <1>1 DEF IInv, Linked, Reported, ResidueIsExact
<1> QED
  BY <1>1, IInvHolds, PTL

\* A device that has answered takes the next command (Mass_Storage_In, usb_bot.c).
THEOREM ReadyCorrect == Spec => []AnsweredMeansReady
<1>1. ASSUME IInv PROVE AnsweredMeansReady
  BY <1>1 DEF IInv, Linked, Between, AnsweredMeansReady, Drained
<1> QED
  BY <1>1, IInvHolds, PTL

\* A wrapper of the wrong length or signature stalls the device until a reset
\* (Mass_Storage_ClearFeature, usb_prop.c).
THEOREM StallCorrect == Spec => []BadWrapperStaysStalled
<1>1. ASSUME IInv PROVE BadWrapperStaysStalled
  BY <1>1 DEF IInv, Linked, Ports, BadWrapperStaysStalled
<1> QED
  BY <1>1, IInvHolds, PTL

\* The handler of the IN endpoint leaves the card alone.
LEMMA InKeepsCard ==
  ASSUME Shape, Linked, ServeIn
  PROVE  dev'.card = dev.card
<1> DEFINE d == [dev EXCEPT !.txctr = FALSE]
<1>1. Typed(dev) /\ Addressed(dev) /\ IsDevice(dev) /\ dev.bot \in BotStates /\ dev' = Mass_Storage_In(d)
  BY DEF Shape, Typed, ServeIn
<1>2. Differ(d, dev, {"txctr"}) /\ d.txctr = FALSE
  BY <1>1, PortsDo
<1> HIDE DEF d
<1>3. /\ IsDevice(d) /\ d.bot = dev.bot /\ d.cbw = dev.cbw /\ d.card = dev.card
      /\ d.sig = dev.sig /\ d.tx = dev.tx /\ d.rx = dev.rx /\ d.rxctr = dev.rxctr
      /\ Differ(d, dev, {"bot", "sig", "tx", "rx", "txctr", "rxctr", "rxbuf"})
  BY <1>2 DEF Differ, Fields
<1>4. Typed(d) /\ Addressed(d)
  BY <1>1, <1>2, <1>3, TypedPorts DEF Typed
<1>5. CASE dev.bot = "DATA_IN" /\ dev.cbw.op = "READ10"
  <2>1. dev' = Read_Memory(d) /\ AddressOk(d)
    BY <1>1, <1>3, <1>4, <1>5, InServes DEF Addressed
  <2>2. Differ(Read_Memory(d), d, {"rOff", "rLen", "xfer", "brc", "boff", "buf", "txbuf", "tx", "csw", "bot"})
    BY <1>3, <1>4, <1>5, <2>1, TypedRead
  <2> QED
    BY <1>3, <2>1, <2>2 DEF Differ, Fields
<1>6. CASE ~(dev.bot = "DATA_IN" /\ dev.cbw.op = "READ10")
  <2>1. StatusTaken(dev', d) \/ DataTaken(dev', d) \/ dev' = d
    BY <1>1, <1>3, <1>6, InServes
  <2> QED
    BY <1>3, <2>1 DEF StatusTaken, DataTaken, Differ, Fields
<1> QED
  BY <1>5, <1>6

\* Only the data stage of a write changes the card, and only inside its range.
LEMMA OutChangesCard ==
  ASSUME Shape, Linked, ServeOut, dev'.card # dev.card
  PROVE  /\ cmd.op = "WRITE10" /\ phase \in {"out", "csw", "recover"}
         /\ \A a \in Cells \ CellsOf(cmd) : dev'.card[a] = dev.card[a]
<1> DEFINE d == [dev EXCEPT !.rxctr = FALSE]
<1>1. /\ Typed(dev) /\ Addressed(dev) /\ IsDevice(dev) /\ dev.rxctr /\ ~dev.txctr /\ dev' = Mass_Storage_Out(d)
      /\ WrapperIn(dev) \in FitBlocks
      /\ UNCHANGED <<phase, cmd, tag, got, moved, answer, leftover>>
  BY DEF Shape, Typed, ServeOut, host
<1>2. Differ(d, dev, {"rxctr"}) /\ d.rxctr = FALSE
  BY <1>1, PortsDo
<1> HIDE DEF d
<1>3. /\ IsDevice(d) /\ d.bot = dev.bot /\ d.card = dev.card /\ d.rxbuf = dev.rxbuf
      /\ d.sig = dev.sig /\ d.tx = dev.tx /\ d.rx = dev.rx /\ d.txctr = dev.txctr
      /\ Differ(d, dev, {"bot", "sig", "tx", "rx", "txctr", "rxctr", "rxbuf"})
  BY <1>2 DEF Differ, Fields
<1>4. Typed(d) /\ Addressed(d)
  BY <1>1, <1>2, <1>3, TypedPorts DEF Typed
<1>5. WrapperIn(d) \in FitBlocks
  BY <1>1, <1>3 DEF WrapperIn
<1>6. dev.bot = "DATA_OUT"
  BY <1>1, <1>3, <1>4, <1>5, OutKeepsBuffer
<1>7. phase \in Running /\ Serving
  BY <1>6 DEF Linked, Working
<1>8. /\ cmd.op = "WRITE10" /\ phase # "in"
      /\ \A a \in Cells \ CellsOf(cmd) : dev'.card[a] = dev.card[a]
  BY <1>1, <1>2, <1>6, <1>7, DataLinked
<1> QED
  BY <1>7, <1>8 DEF Running, Active

\* The card changes only inside the range of a WRITE(10) in progress, when no command's
\* range wraps (AddressesFit): SCSI_Address_Management, usb_scsi.c.
THEOREM CardCorrect == Spec => OnlyTheCommandWrites
<1>1. ASSUME IInv, [Next]_vars, ~abandoned, dev'.card # dev.card
      PROVE  /\ cmd.op = "WRITE10" /\ phase \in {"out", "csw", "recover"}
             /\ \A a \in Cells \ CellsOf(cmd) : dev'.card[a] = dev.card[a]
  <2>1. Shape /\ Linked /\ IsDevice(dev)
    BY <1>1 DEF IInv, Shape, Typed
  <2>2. ServeOut
    <3>1. ~ServeIn
      BY <1>1, <2>1, InKeepsCard
    <3>2. \A packet : dev' # Receive(dev, packet)
      BY <1>1, <2>1, ReceiveFrame
    <3>3. dev' # Taken(dev)
      BY <1>1, <2>1, TakenFrame
    <3>4. \A ep : dev' # ClearHalt(dev, ep)
      <4>1. ASSUME NEW ep, dev' = ClearHalt(dev, ep) PROVE FALSE
        <5>1. Differ(dev', dev, {"tx", "rx"})
          BY <2>1, <4>1, ClearHaltDoes
        <5> QED
          BY <1>1, <5>1 DEF Differ, Fields
      <4> QED
        BY <4>1
    <3>5. dev' # MASS_NoData_Setup(dev)
      <4>1. Differ(MASS_NoData_Setup(dev), dev, {"sig", "bot"})
        BY <2>1, PortsDo
      <4> QED
        BY <1>1, <4>1 DEF Differ, Fields
    <3>6. dev' # MASS_Reset(dev)
      <4>1. Differ(MASS_Reset(dev), dev, {"tx", "txctr", "rx", "rxctr", "sig", "bot"})
        BY <2>1, PortsDo
      <4> QED
        BY <1>1, <4>1 DEF Differ, Fields
    <3>7. dev' # Boot(dev.card)
      BY <1>1, BootTyped
    <3>8. dev' # dev
      BY <1>1
    <3> QED
      BY <1>1, <3>1, <3>2, <3>3, <3>4, <3>5, <3>6, <3>7, <3>8
         DEF Next, Begin, Bus, SendWrapper, SendData, TakeData, TakeStatus, ClearStall,
             StallIsFatal, TimeOut, Recover, BotReset, BusReset, GiveUp, PowerCycle, vars
  <2> QED
    BY <1>1, <2>1, <2>2, OutChangesCard
<1>2. ASSUME IInv, [Next]_vars
      PROVE  [~abandoned /\ dev'.card # dev.card =>
                /\ cmd.op = "WRITE10" /\ phase \in {"out", "csw", "recover"}
                /\ \A a \in Cells \ CellsOf(cmd) : dev'.card[a] = dev.card[a]]_vars
  BY <1>1, <1>2
<1> QED
  BY <1>2, IInvHolds, PTL DEF OnlyTheCommandWrites, Spec
=============================================================================
