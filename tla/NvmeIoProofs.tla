----------------------------- MODULE NvmeIoProofs ------------------------------
(****************************************************************************)
(* What the path of a read or a write promises (NvmePrpBuilder.cpp,         *)
(* NvmeCmdBuilder.cpp and the range check of NvmeDevice.cpp under           *)
(* src/src/SpcNvme), for every page size, buffer, placement of pages and    *)
(* width of the fields.  For BuildPrp the arithmetic is that of a number    *)
(* taken apart into a page and an offset: DivModUnique carries it, and each *)
(* of the three forms of a command has a lemma.                             *)
(****************************************************************************)
EXTENDS NvmeIo, TLAPS

\* A page and an offset below the page size determine the address and are determined by it.
LEMMA DivModUnique ==
    ASSUME NEW P \in Nat \ {0}, NEW q \in Nat, NEW r \in Nat, r < P
    PROVE  /\ (q * P + r) \div P = q
           /\ (q * P + r) % P = r
<1> DEFINE a == q * P + r
           d == a \div P
           m == a % P
<1>1. a \in Nat /\ d \in Nat /\ m \in Nat /\ m < P /\ a = d * P + m
  BY SMT
<1>2. d = q
  <2>1. ASSUME d > q PROVE FALSE
    <3>1. PICK k \in Nat : d = q + 1 + k
      BY <1>1, <2>1
    <3>2. d * P = q * P + P + k * P
      BY <3>1
    <3>3. k * P >= 0
      OBVIOUS
    <3> QED BY <1>1, <3>2, <3>3
  <2>2. ASSUME q > d PROVE FALSE
    <3>1. PICK k \in Nat : q = d + 1 + k
      BY <1>1, <2>2
    <3>2. q * P = d * P + P + k * P
      BY <1>1, <3>1
    <3>3. k * P >= 0
      OBVIOUS
    <3> QED BY <1>1, <3>2, <3>3
  <2> QED BY <1>1, <2>1, <2>2
<1> QED BY <1>1, <1>2

\* Every address is in one page, at an offset below the page size.
LEMMA AddressParts ==
    ASSUME NEW va \in Nat
    PROVE  /\ Page(va) \in Nat
           /\ Offset(va) \in 0 .. PageSize - 1
           /\ va = Page(va) * PageSize + Offset(va)
<1>1. \A P \in Nat \ {0} :
          va \div P \in Nat /\ va % P \in 0 .. P - 1 /\ va = (va \div P) * P + (va % P)
  BY SMT
<1> QED BY <1>1, PrpAssumption DEF Page, Offset

\* Bytes of one page are as far apart physically as they are virtually.
LEMMA SamePage ==
    ASSUME NEW va \in Nat, NEW k \in Nat, Offset(va) + k < PageSize
    PROVE  /\ Page(va + k) = Page(va)
           /\ Offset(va + k) = Offset(va) + k
           /\ Page(va) \in DOMAIN Frame => Pa(va + k) = Pa(va) + k
<1> DEFINE q == Page(va)
           r == Offset(va) + k
<1>1. q \in Nat /\ r \in Nat /\ r < PageSize /\ va + k = q * PageSize + r
  <2>1. q \in Nat /\ Offset(va) \in 0 .. PageSize - 1 /\ va = q * PageSize + Offset(va)
    BY AddressParts
  <2>2. q * PageSize \in Nat
    BY <2>1, PrpAssumption
  <2> QED BY <2>1, <2>2, PrpAssumption
<1>2. Page(va + k) = q /\ Offset(va + k) = r
  <2> HIDE DEF q, r
  <2> QED BY <1>1, DivModUnique, PrpAssumption DEF Page, Offset
<1>3. ASSUME q \in DOMAIN Frame
      PROVE  Frame[q] * PageSize + r = Frame[q] * PageSize + Offset(va) + k
  <2>1. Frame[q] * PageSize \in Nat
    BY <1>3, PrpAssumption
  <2> QED BY <2>1, AddressParts
<1> QED BY <1>2, <1>3 DEF Pa

\* A byte is at the same offset of its frame as of its page.
LEMMA PhysicalOffset ==
    ASSUME NEW va \in Nat, Page(va) \in DOMAIN Frame
    PROVE  Pa(va) \in Nat /\ Offset(Pa(va)) = Offset(va)
<1>1. Frame[Page(va)] \in Nat
  BY PrpAssumption
<1>2. Offset(va) \in Nat /\ Offset(va) < PageSize
  BY AddressParts, PrpAssumption
<1>3. (Frame[Page(va)] * PageSize + Offset(va)) % PageSize = Offset(va)
  BY <1>1, <1>2, DivModUnique, PrpAssumption
<1>4. Frame[Page(va)] * PageSize + Offset(va) \in Nat
  BY <1>1, <1>2, PrpAssumption
<1> QED BY <1>3, <1>4 DEF Pa, Offset

\* Counted from the start of a page, byte j is Page(j) pages further.
LEMMA FromPageStart ==
    ASSUME NEW c \in Nat, Offset(c) = 0, NEW j \in Nat
    PROVE  LET start == c + Page(j) * PageSize
           IN  /\ start \in Nat
               /\ Page(start) = Page(c) + Page(j)
               /\ Offset(start) = 0
               /\ c + j = start + Offset(j)
<1> DEFINE start == c + Page(j) * PageSize
           q     == Page(c) + Page(j)
<1>1. c = Page(c) * PageSize /\ Page(c) \in Nat
  BY AddressParts, PrpAssumption
<1>2. j = Page(j) * PageSize + Offset(j) /\ Page(j) \in Nat /\ Offset(j) \in Nat
  <2>1. Page(j) \in Nat /\ Offset(j) \in 0 .. PageSize - 1 /\ j = Page(j) * PageSize + Offset(j)
    BY AddressParts
  <2> QED BY <2>1, PrpAssumption
<1>3. start = q * PageSize + 0 /\ q \in Nat
  BY <1>1, <1>2, PrpAssumption
<1>4. start \in Nat /\ c + j = start + Offset(j)
  BY <1>2, PrpAssumption
<1>5. Page(start) = q /\ Offset(start) = 0
  <2> HIDE DEF q, start
  <2> QED BY <1>3, DivModUnique, PrpAssumption DEF Page, Offset
<1> QED BY <1>4, <1>5

\* The distance leads to the start of the next page.
LEMMA Distance ==
    ASSUME NEW va \in Nat
    PROVE  /\ GetDistanceToNextPage(va) \in 1 .. PageSize
           /\ Offset(va + GetDistanceToNextPage(va)) = 0
<1>1. va + (PageSize - Offset(va)) = (Page(va) + 1) * PageSize + 0
  BY AddressParts, PrpAssumption
<1>2. ((Page(va) + 1) * PageSize + 0) % PageSize = 0
  <2>1. Page(va) + 1 \in Nat
    BY AddressParts
  <2> QED BY <2>1, DivModUnique, PrpAssumption
<1>3. PageSize - Offset(va) \in 1 .. PageSize
  <2>1. Offset(va) \in 0 .. PageSize - 1
    BY AddressParts
  <2> QED BY <2>1, PrpAssumption
<1> QED BY <1>1, <1>2, <1>3 DEF GetDistanceToNextPage, Offset

\* The loop of BuildPrp2List writes an entry for every page of the rest, and no more entries
\* than the list page has when the rest is no longer than what they describe.
LEMMA EntriesSuffice ==
    ASSUME NEW left \in Nat, left <= ListEntries * PageSize
    PROVE  /\ Entries(left) \in 0 .. ListEntries
           /\ \A j \in 0 .. left - 1 : Page(j) + 1 \in 1 .. Entries(left)
<1> DEFINE n == Entries(left)
           m == (left + PageSize - 1) % PageSize
<1>1. left + PageSize - 1 \in Nat
  BY PrpAssumption
<1>2. n \in Nat /\ m \in 0 .. PageSize - 1 /\ left + PageSize - 1 = n * PageSize + m
  BY <1>1, AddressParts DEF Page, Offset, Entries
<1> HIDE DEF n, m
<1>3. n <= ListEntries
  <2>1. ASSUME n > ListEntries PROVE FALSE
    <3>1. PICK k \in Nat : n = ListEntries + 1 + k
      BY <1>2, <2>1, PrpAssumption
    <3>2. n * PageSize = ListEntries * PageSize + PageSize + k * PageSize
      BY <3>1, PrpAssumption
    <3>3. k * PageSize >= 0 /\ ListEntries * PageSize \in Nat /\ n * PageSize \in Nat
      BY <1>2, PrpAssumption
    <3> QED BY <1>2, <3>2, <3>3, PrpAssumption
  <2> QED BY <1>2, <2>1, PrpAssumption
<1>4. ASSUME NEW j \in 0 .. left - 1 PROVE Page(j) + 1 \in 1 .. n
  <2>1. /\ Page(j) \in Nat /\ Offset(j) \in 0 .. PageSize - 1
        /\ j = Page(j) * PageSize + Offset(j)
    BY AddressParts
  <2>2. ASSUME Page(j) >= n PROVE FALSE
    <3>1. PICK k \in Nat : Page(j) = n + k
      BY <1>2, <2>1, <2>2
    <3>2. Page(j) * PageSize = n * PageSize + k * PageSize
      BY <1>2, <3>1, PrpAssumption
    <3>3. k * PageSize >= 0 /\ n * PageSize \in Nat
      BY <1>2, PrpAssumption
    <3> QED BY <1>2, <2>1, <3>2, <3>3, PrpAssumption
  <2> QED BY <1>2, <2>1, <2>2
<1> QED BY <1>2, <1>3, <1>4, PrpAssumption DEF n

----------------------------------------------------------------------------
(* BuildPrp *)

\* The bytes up to the end of the first page are found through PRP1.
LEMMA FirstPage ==
    ASSUME NEW va \in Nat, NEW size \in Nat, Mapped(va, size), NEW i \in 0 .. size - 1,
           i < GetDistanceToNextPage(va), NEW prp, prp.prp1 = Pa(va)
    PROVE  CtrlByte(prp, size, i) = Pa(va + i)
<1>1. Page(va) \in DOMAIN Frame
  <2>1. 0 \in 0 .. size /\ va + 0 = va
    OBVIOUS
  <2> QED BY <2>1 DEF Mapped
<1>2. Offset(Pa(va)) = Offset(va) /\ Pa(va) \in Nat
  BY <1>1, PhysicalOffset
<1>3. Offset(va) \in Nat /\ i \in Nat /\ Offset(va) + i < PageSize
  <2>1. Offset(va) \in 0 .. PageSize - 1
    BY AddressParts
  <2> QED BY <2>1, PrpAssumption DEF GetDistanceToNextPage
<1>4. Pa(va + i) = Pa(va) + i
  BY <1>1, <1>3, SamePage
<1>5. i - (PageSize - Offset(prp.prp1)) < 0
  BY <1>2, <1>3, PrpAssumption
<1> QED BY <1>4, <1>5 DEF CtrlByte

\* When the rest fits into a page, PRP2 leads to it.
LEMMA SecondPage ==
    ASSUME NEW va \in Nat, NEW size \in Nat, Mapped(va, size), NEW i \in 0 .. size - 1,
           i >= GetDistanceToNextPage(va), size - GetDistanceToNextPage(va) <= PageSize,
           NEW prp, prp.prp1 = Pa(va), prp.prp2 = Pa(va + GetDistanceToNextPage(va))
    PROVE  CtrlByte(prp, size, i) = Pa(va + i)
<1> DEFINE first == GetDistanceToNextPage(va)
           c     == va + first
           j     == i - first
<1>1. Page(va) \in DOMAIN Frame
  <2>1. 0 \in 0 .. size /\ va + 0 = va
    OBVIOUS
  <2> QED BY <2>1 DEF Mapped
<1>2. Offset(Pa(va)) = Offset(va)
  BY <1>1, PhysicalOffset
<1>3. first \in 1 .. PageSize /\ Offset(c) = 0 /\ first = PageSize - Offset(prp.prp1)
  BY <1>2, Distance DEF GetDistanceToNextPage
<1>4. c \in Nat /\ j \in Nat /\ j < PageSize /\ va + i = c + j /\ first \in 0 .. size
  BY <1>3, PrpAssumption
<1>5. Page(c) \in DOMAIN Frame
  BY <1>4 DEF Mapped
<1> HIDE DEF first
<1>6. Pa(c + j) = Pa(c) + j
  <2>1. Offset(c) + j < PageSize
    BY <1>3, <1>4
  <2> QED BY <1>4, <1>5, <2>1, SamePage
<1>7. CtrlByte(prp, size, i) = prp.prp2 + j
  <2>1. ~(i - first < 0) /\ size - first <= PageSize
    BY <1>4 DEF first
  <2> QED BY <1>3, <2>1 DEF CtrlByte
<1> QED BY <1>4, <1>6, <1>7 DEF first

\* A longer rest is found through the list.
LEMMA ListedPages ==
    ASSUME NEW va \in Nat, NEW size \in Nat, Mapped(va, size), NEW i \in 0 .. size - 1,
           i >= GetDistanceToNextPage(va), size - GetDistanceToNextPage(va) > PageSize,
           size <= ListEntries * PageSize, NEW prp, prp.prp1 = Pa(va),
           prp.list = BuildPrp2List(va + GetDistanceToNextPage(va),
                                    size - GetDistanceToNextPage(va))
    PROVE  CtrlByte(prp, size, i) = Pa(va + i)
<1> DEFINE first == GetDistanceToNextPage(va)
           c     == va + first
           left  == size - first
           j     == i - first
           start == c + Page(j) * PageSize
<1>1. Page(va) \in DOMAIN Frame
  <2>1. 0 \in 0 .. size /\ va + 0 = va
    OBVIOUS
  <2> QED BY <2>1 DEF Mapped
<1>2. Offset(Pa(va)) = Offset(va)
  BY <1>1, PhysicalOffset
<1>3. first \in 1 .. PageSize /\ Offset(c) = 0 /\ first = PageSize - Offset(prp.prp1)
  BY <1>2, Distance DEF GetDistanceToNextPage
<1> HIDE DEF first
<1>4. c \in Nat /\ left \in Nat /\ j \in 0 .. left - 1 /\ va + i = c + j
  BY <1>3, PrpAssumption DEF first
<1>5. left <= ListEntries * PageSize
  <2>1. ListEntries * PageSize \in Nat
    BY PrpAssumption
  <2> QED BY <1>3, <2>1, PrpAssumption
<1>6. Page(j) + 1 \in 1 .. Entries(left)
  BY <1>4, <1>5, EntriesSuffice
<1>7. Page(j) \in Nat /\ Offset(j) \in 0 .. PageSize - 1
  BY <1>4, AddressParts
<1>8. prp.list[Page(j) + 1] = Pa(start)
  <2>1. (Page(j) + 1) - 1 = Page(j)
    BY <1>7
  <2>2. BuildPrp2List(c, left)[Page(j) + 1] = Pa(c + ((Page(j) + 1) - 1) * PageSize)
    BY <1>6 DEF BuildPrp2List
  <2> QED BY <2>1, <2>2 DEF first
<1>9. start \in Nat /\ Offset(start) = 0 /\ c + j = start + Offset(j) /\ Page(start) = Page(c) + Page(j)
  BY <1>3, <1>4, FromPageStart
<1>10. Pa(start + Offset(j)) = Pa(start) + Offset(j)
  <2>1. Offset(j) \in Nat /\ Offset(start) + Offset(j) < PageSize
    BY <1>7, <1>9, PrpAssumption
  <2>2. Page(start) = Page(va + i)
    BY <1>4, <1>9, <2>1, SamePage
  <2>3. Page(start) \in DOMAIN Frame
    BY <2>2 DEF Mapped
  <2> HIDE DEF start
  <2> QED BY <1>9, <2>1, <2>3, SamePage
<1>11. CtrlByte(prp, size, i) = prp.list[Page(j) + 1] + Offset(j)
  <2>1. ~(i - first < 0) /\ ~(size - first <= PageSize)
    BY <1>3, <1>4, PrpAssumption DEF first
  <2> QED BY <1>3, <2>1 DEF CtrlByte
<1> QED BY <1>4, <1>8, <1>9, <1>10, <1>11

\* A command built by BuildPrp tells the controller the place of every byte of the buffer, and
\* its list stays within the list page: for every alignment and every length up to what the
\* list page describes, unless there was no memory for a list that was needed.
THEOREM BuildPrpCovers ==
    ASSUME NEW va \in Nat, NEW size \in Nat, Mapped(va, size),
           size <= ListEntries * PageSize, NEW listPa \in Nat,
           NeedsList(va, size) => listPa # 0
    PROVE  Covers(BuildPrp(va, size, listPa), va, size)
<1> DEFINE first == GetDistanceToNextPage(va)
           left  == size - first
           prp   == BuildPrp(va, size, listPa)
<1>1. first \in 1 .. PageSize /\ PageSize \in Nat /\ ListEntries \in Nat
  BY Distance, PrpAssumption
<1>2. CASE first > size
  <2>1. prp = [prp1 |-> Pa(va), prp2 |-> 0, list |-> <<>>]
    BY <1>2 DEF BuildPrp
  <2>2. Len(prp.list) <= ListEntries
    BY <1>1, <2>1
  <2>3. \A i \in 0 .. size - 1 : i < first
    BY <1>1, <1>2
  <2> QED BY <2>1, <2>2, <2>3, FirstPage DEF Covers
<1>3. CASE ~(first > size) /\ left <= PageSize
  <2>1. prp = [prp1 |-> Pa(va), prp2 |-> Pa(va + first), list |-> <<>>]
    BY <1>3 DEF BuildPrp
  <2>2. Len(prp.list) <= ListEntries
    BY <1>1, <2>1
  <2>3. ASSUME NEW i \in 0 .. size - 1 PROVE CtrlByte(prp, size, i) = Pa(va + i)
    <3>1. CASE i < first
      BY <2>1, <3>1, FirstPage
    <3>2. CASE i >= first
      BY <1>3, <2>1, <3>2, SecondPage
    <3> QED BY <1>1, <3>1, <3>2
  <2> QED BY <2>2, <2>3 DEF Covers
<1>4. CASE ~(first > size) /\ ~(left <= PageSize)
  <2>1. left \in Nat /\ left > PageSize /\ left <= ListEntries * PageSize
    <3>1. ListEntries * PageSize \in Nat
      BY <1>1
    <3> QED BY <1>1, <1>4, <3>1
  <2>2. listPa # 0
    BY <1>1, <1>4, <2>1 DEF NeedsList
  <2>3. prp = [prp1 |-> Pa(va), prp2 |-> listPa, list |-> BuildPrp2List(va + first, left)]
    BY <1>4, <2>2 DEF BuildPrp
  <2>4. Len(prp.list) <= ListEntries
    <3>1. Entries(left) \in 0 .. ListEntries
      BY <2>1, EntriesSuffice
    <3>2. Len(BuildPrp2List(va + first, left)) = Entries(left)
      BY <1>1, <3>1 DEF BuildPrp2List
    <3> QED BY <1>1, <2>3, <3>1, <3>2
  <2>5. ASSUME NEW i \in 0 .. size - 1 PROVE CtrlByte(prp, size, i) = Pa(va + i)
    <3>1. CASE i < first
      BY <2>3, <3>1, FirstPage
    <3>2. CASE i >= first
      BY <2>1, <2>3, <3>2, ListedPages
    <3> QED BY <1>1, <3>1, <3>2
  <2> QED BY <2>4, <2>5 DEF Covers
<1> QED BY <1>2, <1>3, <1>4

----------------------------------------------------------------------------
(* The range check and the command *)

\* A number below the number of values of its field is kept by the field.
LEMMA FieldKeeps ==
    ASSUME NEW W \in Nat \ {0}, NEW x \in Nat, x < W
    PROVE  x % W = x
<1>1. (0 * W + x) % W = x
  BY DivModUnique
<1> QED BY <1>1

\* IsInValidIoRange, whose sums are 64 bits wide, lets through exactly the ranges that lie in
\* the namespace, as long as the range is not empty and does not end beyond 64 bits.
THEOREM RangeCheckExact ==
    ASSUME NEW nsid \in Nat \ {0}, NEW total \in 1 .. Word64, NEW offset \in Nat,
           NEW len \in Nat \ {0}, offset + len <= Word64
    PROVE  IsInValidIoRange(nsid, total, offset, len) <=> offset + len <= total
<1>1. Word64 \in Nat \ {0}
  BY WidthAssumption
<1>2. (offset + len - 1) % Word64 = offset + len - 1
  <2>1. offset + len - 1 \in Nat /\ offset + len - 1 < Word64
    BY <1>1
  <2> QED BY <1>1, <2>1, FieldKeeps
<1>3. (total - 1) % Word64 = total - 1
  <2>1. total - 1 \in Nat /\ total - 1 < Word64
    BY <1>1
  <2> QED BY <1>1, <2>1, FieldKeeps
<1> QED BY <1>1, <1>2, <1>3 DEF IsInValidIoRange

\* The case RangeCheckExact leaves out: a transfer length of 0 passes the check at every offset
\* inside the namespace but 0, and NLB then asks for as many blocks as it can count.
THEOREM EmptyRangePasses ==
    ASSUME NEW nsid \in Nat \ {0}, NEW total \in 1 .. Word64, NEW offset \in 1 .. total,
           NEW r, NEW listPa
    PROVE  /\ IsInValidIoRange(nsid, total, offset, 0)
           /\ BuiildCmd_ReadWrite(r, offset, 0, listPa).nlb = Word16 - 1
<1>1. Word64 \in Nat \ {0} /\ Word16 \in Nat \ {0}
  BY WidthAssumption
<1>2. (offset + 0 - 1) % Word64 = offset - 1 /\ (total - 1) % Word64 = total - 1
  <2>1. offset - 1 \in Nat /\ offset - 1 < Word64 /\ total - 1 \in Nat /\ total - 1 < Word64
    BY <1>1
  <2>2. offset + 0 - 1 = offset - 1
    OBVIOUS
  <2> QED BY <1>1, <2>1, <2>2, FieldKeeps
<1>3. (0 - 1) % Word16 = Word16 - 1
  BY <1>1
<1> QED BY <1>1, <1>2, <1>3 DEF IsInValidIoRange, BuiildCmd_ReadWrite

\* A transfer within MaxTxSize has no more blocks than NLB can count.
LEMMA BlocksFit ==
    ASSUME NEW blocks \in Nat, blocks * BlockSize <= UpdateMaxTxSize
    PROVE  blocks <= Word16
<1>1. Word16 \in Nat /\ BlockSize \in Nat \ {0} /\ UpdateMaxTxSize \in Nat
      /\ UpdateMaxTxSize <= Word16 * BlockSize
  BY WidthAssumption, IoAssumption
<1>2. blocks * BlockSize <= Word16 * BlockSize
  <2>1. Word16 * BlockSize \in Nat /\ blocks * BlockSize \in Nat
    BY <1>1
  <2> QED BY <1>1, <2>1
<1>3. ASSUME blocks > Word16 PROVE FALSE
  <2>1. PICK k \in Nat : blocks = Word16 + 1 + k
    BY <1>1, <1>3
  <2>2. blocks * BlockSize = Word16 * BlockSize + BlockSize + k * BlockSize
    BY <1>1, <2>1
  <2>3. k * BlockSize >= 0 /\ Word16 * BlockSize \in Nat
    BY <1>1
  <2> QED BY <1>1, <1>2, <2>2, <2>3
<1> QED BY <1>1, <1>3

\* The command of a read or a write that Storport may issue names the blocks of the CDB, and
\* its PRP entries the place of every byte of the data buffer.
THEOREM ReadWriteExact ==
    ASSUME NEW r, r.buf \in Nat, r.len \in Nat, r.len <= UpdateMaxTxSize,
           Mapped(r.buf, r.len), NEW offset, NEW blocks \in Nat \ {0},
           blocks * BlockSize = r.len,
           NEW listPa \in Nat, NeedsList(r.buf, r.len) => listPa # 0
    PROVE  LET cmd == BuiildCmd_ReadWrite(r, offset, blocks, listPa)
           IN  /\ cmd.lba = offset
               /\ cmd.nlb + 1 = blocks
               /\ Covers(cmd.prp, r.buf, r.len)
<1> DEFINE cmd == BuiildCmd_ReadWrite(r, offset, blocks, listPa)
<1>1. cmd.lba = offset /\ cmd.nlb = (blocks - 1) % Word16 /\ cmd.prp = BuildPrp(r.buf, r.len, listPa)
  BY DEF BuiildCmd_ReadWrite
<1>2. blocks <= Word16
  BY BlocksFit
<1>3. (blocks - 1) % Word16 = blocks - 1
  <2>1. Word16 \in Nat \ {0} /\ blocks - 1 \in Nat /\ blocks - 1 < Word16
    BY <1>2, WidthAssumption
  <2> QED BY <2>1, FieldKeeps
<1>4. r.len <= ListEntries * PageSize
  <2>1. ListEntries * PageSize \in Nat
    BY PrpAssumption
  <2> QED BY <2>1, IoAssumption
<1>5. Covers(cmd.prp, r.buf, r.len)
  BY <1>1, <1>4, BuildPrpCovers
<1> QED BY <1>1, <1>3, <1>5
=============================================================================
