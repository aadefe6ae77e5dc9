------------------------------ MODULE QueueLayout ------------------------------
(****************************************************************************)
(* Where CNvmeQueue (src/src/SpcNvme/NvmeQueue.cpp) puts its two rings in   *)
(* the one block of memory it allocates, and how large the controller takes *)
(* them for (NvmeCmdBuilder.cpp).  Addresses and sizes are bytes.           *)
(****************************************************************************)
EXTENDS Integers, TLAPS

PageBytes    == 4096
CommandBytes == 64   \* sizeof(NVME_COMMAND)
EntryBytes   == 16   \* sizeof(NVME_COMPLETION_ENTRY)

BytesToPages(n)  == (n + PageBytes - 1) \div PageBytes
RoundToPages(va) == BytesToPages(va) * PageBytes

CalcQueueBufferSize(depth) ==
    (BytesToPages(depth * CommandBytes) + BytesToPages(depth * EntryBytes)) * PageBytes

\* The test of InitQueueBuffer: it compares the end of the completion ring as it would be
\* without rounding.
BufferSuffices(buffer, size, depth) ==
    buffer + depth * CommandBytes + depth * EntryBytes <= buffer + size

\* The addresses of the two rings.
InitQueueBuffer(buffer, depth) ==
    [sub |-> RoundToPages(buffer), cpl |-> RoundToPages(buffer + depth * CommandBytes)]

\* QSIZE of the two create commands counts from 0.
QueueSize(depth) == depth - 1

\* Bytes the controller and the driver use of a ring at va.
RingEnd(va, depth, bytes) == va + (QueueSize(depth) + 1) * bytes

\* In a page-aligned block of the size CalcQueueBufferSize returns, InitQueueBuffer succeeds; the
\* rings start on a page, do not overlap and end within the block, for every depth a USHORT has.
\* The test in InitQueueBuffer alone would not show it: it leaves out the rounding.
THEOREM RingsFit ==
    ASSUME NEW depth \in 1 .. 65535, NEW page \in Nat
    PROVE  LET buffer == page * PageBytes
               size   == CalcQueueBufferSize(depth)
               rings  == InitQueueBuffer(buffer, depth)
           IN  /\ BufferSuffices(buffer, size, depth)
               /\ rings.sub = buffer /\ rings.cpl % PageBytes = 0
               /\ RingEnd(rings.sub, depth, CommandBytes) <= rings.cpl
               /\ RingEnd(rings.cpl, depth, EntryBytes) <= buffer + size
<1> DEFINE buffer == page * PageBytes
           size   == CalcQueueBufferSize(depth)
           rings  == InitQueueBuffer(buffer, depth)
           m      == BytesToPages(depth * CommandBytes)
           n      == BytesToPages(depth * EntryBytes)
<1>1. /\ m \in Nat /\ m * 4096 >= depth * 64
      /\ n \in Nat /\ n * 4096 >= depth * 16
  BY DEF BytesToPages, PageBytes, CommandBytes, EntryBytes
<1>2. rings.sub = buffer
  BY DEF InitQueueBuffer, RoundToPages, BytesToPages, PageBytes
<1>3. rings.cpl = (page + m) * 4096
  <2>1. (page * 4096 + depth * 64 + 4096 - 1) \div 4096 = page + (depth * 64 + 4096 - 1) \div 4096
    OBVIOUS
  <2> QED BY <2>1 DEF InitQueueBuffer, RoundToPages, BytesToPages, PageBytes, CommandBytes
<1>4. size = (m + n) * 4096
  BY DEF CalcQueueBufferSize, PageBytes
<1>5. buffer \in Nat /\ buffer = page * 4096
  BY DEF PageBytes
<1>6. buffer + depth * 64 + depth * 16 <= buffer + size
  <2> HIDE DEF m, n, size, buffer
  <2> QED BY <1>1, <1>4, <1>5
<1>7. rings.cpl % 4096 = 0
  <2>1. \A k \in Nat : (k * 4096) % 4096 = 0
    OBVIOUS
  <2>2. page + m \in Nat
    BY <1>1
  <2> QED BY <2>1, <2>2, <1>3
<1>8. BufferSuffices(buffer, size, depth)
  <2> HIDE DEF m, n, size, buffer
  <2> QED BY <1>6 DEF BufferSuffices, CommandBytes, EntryBytes
<1>9. RingEnd(rings.sub, depth, CommandBytes) <= rings.cpl
  <2> HIDE DEF m, n, size, rings, buffer
  <2> QED BY <1>1, <1>2, <1>3, <1>5 DEF RingEnd, QueueSize, CommandBytes
<1>10. RingEnd(rings.cpl, depth, EntryBytes) <= buffer + size
  <2> HIDE DEF m, n, size, rings, buffer
  <2> QED BY <1>1, <1>3, <1>4, <1>5 DEF RingEnd, QueueSize, EntryBytes
<1> HIDE DEF RingEnd, m, n
<1> QED BY <1>2, <1>7, <1>8, <1>9, <1>10 DEF PageBytes
=============================================================================
