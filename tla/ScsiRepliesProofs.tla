-------------------------- MODULE ScsiRepliesProofs --------------------------
(****************************************************************************)
(* Proofs about the replies of ScsiReplies: what they leave in the data     *)
(* buffer, for any length of the buffer, any size of the namespace and any  *)
(* mode pages.                                                              *)
(****************************************************************************)
EXTENDS ScsiReplies, TLAPS

\* A reply that stays in a buffer of this length, and is as long as it says.
Fits(reply, len) ==
    /\ reply.wrote <= len
    /\ reply.status = "SUCCESS" => reply.ret = reply.wrote

\* A refusal writes nothing.
LEMMA RefusedFits ==
    ASSUME NEW status, status # "SUCCESS", NEW size, NEW len \in Nat
    PROVE  /\ Fits(Refused(status), len) /\ Refused(status).status = status
           /\ Fits(Reply(status, size, 0), len) /\ Reply(status, size, 0).status = status
BY DEF Fits, Refused, Reply

\* A page that is cut to the buffer stays in it.
LEMMA CopiedFits ==
    ASSUME NEW size \in Nat, NEW len \in Nat
    PROVE  Fits(CopiedPage(size, len), len)
BY DEF Fits, CopiedPage, Reply, Smaller

\* The VPD pages but that of the serial number are cut to the buffer.
LEMMA VpdFits ==
    ASSUME NEW r, r.len \in Nat, r.page # "SERIAL_NUMBER"
    PROVE  Fits(HandleInquiryVPD(r), r.len)
<1>1. VpdSupportPages \in Nat /\ VpdIdentifier \in Nat /\ VpdBlockPage \in Nat
  BY ReplyAssumption DEF VpdSupportPages, VpdIdentifier, VpdBlockPage, HeaderSize
<1>2. /\ Fits(CopiedPage(VpdSupportPages, r.len), r.len)
      /\ Fits(CopiedPage(VpdIdentifier, r.len), r.len)
      /\ Fits(CopiedPage(VpdBlockPage, r.len), r.len)
      /\ Fits(Refused("ERROR"), r.len)
  BY <1>1, CopiedFits, RefusedFits
<1>3. HandleInquiryVPD(r) \in {CopiedPage(VpdSupportPages, r.len), CopiedPage(VpdIdentifier, r.len),
                               CopiedPage(VpdBlockPage, r.len), Refused("ERROR")}
  BY DEF HandleInquiryVPD
<1> QED BY <1>2, <1>3

\* INQUIRY, except for the serial number page.
LEMMA InquiryFits ==
    ASSUME NEW r, r.len \in Nat, r.page # "SERIAL_NUMBER"
    PROVE  Fits(Scsi_Inquiry6(r), r.len)
<1> DEFINE standard == IF r.len >= InquirySize THEN Reply("SUCCESS", r.len, r.len)
                                               ELSE Refused("DATA_OVERRUN")
<1>1. Fits(HandleInquiryVPD(r), r.len) /\ Fits(Refused("ERROR"), r.len)
  BY VpdFits, RefusedFits
<1>2. Fits(standard, r.len)
  BY RefusedFits DEF Fits, Reply
<1> HIDE DEF standard
<1>3. Scsi_Inquiry6(r) = HandleInquiryVPD(r) \/ Scsi_Inquiry6(r) = Refused("ERROR") \/ Scsi_Inquiry6(r) = standard
  BY Zenon DEF Scsi_Inquiry6, standard
<1> QED BY <1>1, <1>2, <1>3

\* READ CAPACITY: a reply that is not refused holds the address of the last block.
LEMMA CapacityFact ==
    ASSUME NEW r, r.len \in Nat, NEW working, NEW size \in Nat, NEW reply,
           Fits(reply, size), reply.wrote \in Nat
    PROVE  LET answer == CapacityReply(r, working, size, reply)
           IN  /\ Fits(answer, r.len)
               /\ answer.status = "SUCCESS" => answer.value = reply.value
<1> DEFINE answer == CapacityReply(r, working, size, reply)
           Goal   == Fits(answer, r.len) /\ (answer.status = "SUCCESS" => answer.value = reply.value)
<1>1. ASSUME NEW status, status # "SUCCESS", NEW long, answer = Reply(status, long, 0)
      PROVE  Goal
  BY <1>1, RefusedFits
<1>2. CASE answer = reply /\ ~(r.len < size)
  BY <1>2 DEF Fits
<1>3. CASE answer = Refused("INVALID_LUN") \/ answer = Refused("NO_DEVICE")
  BY <1>1, <1>3 DEF Refused
<1>4. CASE answer = Reply("DATA_OVERRUN", size, 0)
  BY <1>1, <1>4
<1>5. \/ answer = Refused("INVALID_LUN") \/ answer = Refused("NO_DEVICE")
      \/ answer = Reply("DATA_OVERRUN", size, 0)
      \/ answer = reply /\ ~(r.len < size)
  BY Zenon DEF CapacityReply
<1> QED BY <1>2, <1>3, <1>4, <1>5

\* READ CAPACITY of 10 and of 16 bytes: a reply stays in the buffer, and one that says
\* SUCCESS names the last block of the namespace, whatever its size.
THEOREM ReadCapacityExact ==
    ASSUME NEW r, r.len \in Nat, NEW working, NEW blocks \in 1 .. Word64,
           NEW reply \in {Scsi_ReadCapacity10(r, working, blocks), Scsi_ReadCapacity16(r, working, blocks)}
    PROVE  /\ Fits(reply, r.len)
           /\ reply.status = "SUCCESS" => reply.value = blocks - 1
<1>1. Word32 \in Nat \ {0} /\ Word64 \in Nat \ {0}
  BY WidthAssumption
<1>2. CASE reply = Scsi_ReadCapacity16(r, working, blocks)
  <2> DEFINE full == [Reply("SUCCESS", 12, 12) EXCEPT !.value = (blocks - 1) % Word64]
  <2>1. full = [status |-> "SUCCESS", ret |-> 12, wrote |-> 12, value |-> (blocks - 1) % Word64]
    BY DEF Reply
  <2>2. (blocks - 1) % Word64 = blocks - 1
    BY <1>1
  <2>3. Fits(full, 12) /\ full.wrote \in Nat /\ full.value = blocks - 1
    BY <2>1, <2>2 DEF Fits
  <2>4. reply = CapacityReply(r, working, 12, full)
    BY <1>2 DEF Scsi_ReadCapacity16
  <2> HIDE DEF full
  <2> QED BY <2>3, <2>4, CapacityFact
<1>3. CASE reply = Scsi_ReadCapacity10(r, working, blocks)
  <2> DEFINE full == [Reply("SUCCESS", 8, 8) EXCEPT !.value = (blocks - 1) % Word32]
             some == IF blocks > Word32 - 1 THEN Refused("INVALID_REQUEST") ELSE full
  <2>1. full = [status |-> "SUCCESS", ret |-> 8, wrote |-> 8, value |-> (blocks - 1) % Word32]
    BY DEF Reply
  <2>2. ~(blocks > Word32 - 1) => (blocks - 1) % Word32 = blocks - 1
    BY <1>1
  <2>3. Fits(full, 8) /\ full.wrote \in Nat
    BY <2>1 DEF Fits
  <2>4. Fits(Refused("INVALID_REQUEST"), 8) /\ Refused("INVALID_REQUEST").status # "SUCCESS"
        /\ Refused("INVALID_REQUEST").wrote \in Nat
    BY RefusedFits DEF Refused, Reply
  <2>5. Fits(some, 8) /\ some.wrote \in Nat /\ (some.status = "SUCCESS" => some.value = blocks - 1)
    BY <2>1, <2>2, <2>3, <2>4
  <2>6. reply = CapacityReply(r, working, 8, some)
    BY <1>3 DEF Scsi_ReadCapacity10
  <2> HIDE DEF some
  <2>7. LET answer == CapacityReply(r, working, 8, some)
        IN  Fits(answer, r.len) /\ (answer.status = "SUCCESS" => answer.value = some.value)
    BY <2>5, CapacityFact
  <2>8. reply.status = "SUCCESS" => some.status = "SUCCESS"
    <3>1. reply \in {Refused("INVALID_LUN"), Refused("NO_DEVICE"), Reply("DATA_OVERRUN", 8, 0), some}
      BY Zenon, <2>6 DEF CapacityReply
    <3> QED BY <3>1 DEF Refused, Reply
  <2> QED BY <2>5, <2>6, <2>7, <2>8
<1> QED BY <1>2, <1>3

\* MODE SENSE: a page that is copied takes from what is left what it adds to the reply.
LEMMA CopyFact ==
    ASSUME NEW dst \in [left : Nat, ret : Nat], NEW size \in Nat
    PROVE  /\ CopyToCdbBuffer(dst, size) \in [left : Nat, ret : Nat]
           /\ CopyToCdbBuffer(dst, size).left + CopyToCdbBuffer(dst, size).ret = dst.left + dst.ret
           /\ CopyToCdbBuffer(dst, size).ret \in dst.ret .. dst.ret + size
BY DEF CopyToCdbBuffer, Smaller

\* And so for one page code, which may stand for two pages.
LEMMA CopyPagesFact ==
    ASSUME NEW page \in ModePageCodes, NEW dst \in [left : Nat, ret : Nat]
    PROVE  /\ CopyModePages(page, dst).left \in Nat
           /\ CopyModePages(page, dst).left + CopyModePages(page, dst).ret = dst.left + dst.ret
           /\ CopyModePages(page, dst).ret \in dst.ret .. dst.ret + 44
<1> DEFINE one(d) == CopyToCdbBuffer(d, CachingSize)
           two(d) == CopyToCdbBuffer(d, ControlSize)
           Dst == [left : Nat, ret : Nat]
<1>1. \A d \in Dst : one(d) \in Dst /\ one(d).left + one(d).ret = d.left + d.ret /\ one(d).ret \in d.ret .. d.ret + 20
  BY CopyFact DEF CachingSize
<1>2. \A d \in Dst : two(d) \in Dst /\ two(d).left + two(d).ret = d.left + d.ret /\ two(d).ret \in d.ret .. d.ret + 12
  BY CopyFact DEF ControlSize
<1>3. CopyModePages(page, dst) \in {one(dst), two(dst), two(two(one(dst)))}
  BY DEF CopyModePages, ModePageCodes
<1> HIDE DEF one, two
<1>4. CASE CopyModePages(page, dst) = two(two(one(dst)))
  <2>1. one(dst) \in Dst /\ two(one(dst)) \in Dst /\ two(two(one(dst))) \in Dst
    BY <1>1, <1>2
  <2>2. /\ one(dst).left + one(dst).ret = dst.left + dst.ret /\ one(dst).ret \in dst.ret .. dst.ret + 20
        /\ two(one(dst)).left + two(one(dst)).ret = one(dst).left + one(dst).ret
        /\ two(one(dst)).ret \in one(dst).ret .. one(dst).ret + 12
        /\ two(two(one(dst))).left + two(two(one(dst))).ret = two(one(dst)).left + two(one(dst)).ret
        /\ two(two(one(dst))).ret \in two(one(dst)).ret .. two(one(dst)).ret + 12
    BY <1>1, <1>2, <2>1
  <2> QED BY <1>4, <2>1, <2>2
<1>5. CASE CopyModePages(page, dst) = one(dst)
  BY <1>1, <1>5
<1>6. CASE CopyModePages(page, dst) = two(dst)
  BY <1>2, <1>6
<1> QED BY <1>3, <1>4, <1>5, <1>6

\* MODE SENSE: the reply stays in the buffer, its header counts the bytes that follow it, and
\* the caching bits in it are those of the cache.
THEOREM ModeSenseFits ==
    ASSUME NEW r, r.len \in Nat, NEW cache
    PROVE  LET reply == Scsi_ModeSense6(r, cache)
           IN  /\ Fits(reply, r.len)
               /\ reply.status = "SUCCESS" =>
                     /\ reply.value.length = reply.ret - 1
                     /\ reply.value.bits \in {NULL, FillModePage_Caching(cache)}
<1> DEFINE reply == Scsi_ModeSense6(r, cache)
           dst  == CopyModePages(r.page, [left |-> r.len - HeaderSize, ret |-> HeaderSize])
           bits == IF r.page \in {"CACHING", "RETURN_ALL"} /\ dst.ret >= HeaderSize + 3
                   THEN FillModePage_Caching(cache) ELSE NULL
           full == [Reply("SUCCESS", dst.ret, dst.ret) EXCEPT
                       !.value = [length |-> (3 + dst.ret - HeaderSize) % 256, bits |-> bits]]
<1>1. CASE r.len < HeaderSize
  <2>1. reply = Reply("DATA_OVERRUN", HeaderSize, 0)
    BY <1>1 DEF Scsi_ModeSense6
  <2>2. "DATA_OVERRUN" # "SUCCESS"
    OBVIOUS
  <2>3. Fits(reply, r.len) /\ reply.status = "DATA_OVERRUN"
    BY Zenon, <2>1, <2>2, RefusedFits
  <2> QED BY <2>3
<1>2. CASE ~(r.len < HeaderSize) /\ r.page \notin ModePageCodes
  <2>1. reply = Reply("INVALID_REQUEST", HeaderSize, HeaderSize)
    BY <1>2 DEF Scsi_ModeSense6
  <2> QED BY <1>2, <2>1 DEF Fits, Reply, HeaderSize
<1>3. CASE ~(r.len < HeaderSize) /\ r.page \in ModePageCodes
  <2>1. reply = full
    BY <1>3 DEF Scsi_ModeSense6
  <2>2. dst.left \in Nat /\ dst.left + dst.ret = r.len /\ dst.ret \in 4 .. 48
    <3>1. [left |-> r.len - 4, ret |-> 4] \in [left : Nat, ret : Nat]
      BY <1>3 DEF HeaderSize
    <3>2. /\ CopyModePages(r.page, [left |-> r.len - 4, ret |-> 4]).left \in Nat
          /\ CopyModePages(r.page, [left |-> r.len - 4, ret |-> 4]).left
                + CopyModePages(r.page, [left |-> r.len - 4, ret |-> 4]).ret = (r.len - 4) + 4
          /\ CopyModePages(r.page, [left |-> r.len - 4, ret |-> 4]).ret \in 4 .. 4 + 44
      BY <1>3, <3>1, CopyPagesFact
    <3> QED BY <3>2 DEF HeaderSize
  <2>3. bits \in {NULL, FillModePage_Caching(cache)}
    OBVIOUS
  <2> HIDE DEF dst, bits
  <2>4. (3 + dst.ret - HeaderSize) % 256 = dst.ret - 1
    BY <2>2 DEF HeaderSize
  <2>5. full = [status |-> "SUCCESS", ret |-> dst.ret, wrote |-> dst.ret,
                value |-> [length |-> (3 + dst.ret - HeaderSize) % 256, bits |-> bits]]
    BY DEF Reply
  <2> HIDE DEF full, reply
  <2>6. reply.wrote = dst.ret /\ reply.ret = dst.ret
        /\ reply.value.length = dst.ret - 1 /\ reply.value.bits = bits
    BY <2>1, <2>4, <2>5
  <2> QED BY <2>2, <2>3, <2>6 DEF Fits, reply
<1> QED BY <1>1, <1>2, <1>3

\* MODE SELECT writes nothing.
LEMMA ModeSelectFits ==
    ASSUME NEW r, r.len \in Nat
    PROVE  Fits(Scsi_ModeSelect6(r), r.len)
<1>1. Scsi_ModeSelect6(r) \in {Reply("SUCCESS", 0, 0), Reply("INVALID_REQUEST", r.len, 0)}
  BY Zenon DEF Scsi_ModeSelect6
<1> QED BY <1>1 DEF Fits, Reply

\* MODE SELECT: when the loop ends in the buffer, the caching pages it has seen are those that
\* lie in the buffer and that no empty page comes before.
THEOREM CachingSeenExact ==
    ASSUME NEW r, PagesFollow(r), ~RunsPast(r)
    PROVE  CachingSeen(r) = {i \in DOMAIN r.pages :
                               /\ r.pages[i].code = "CACHING" /\ r.pages[i].length = CachingSize - 2
                               /\ r.pages[i].end <= r.len
                               /\ \A j \in 1 .. i : r.pages[j].length # 0}
<1> DEFINE n == Len(r.pages)
           Right(i) == r.pages[i].code = "CACHING" /\ r.pages[i].length = CachingSize - 2
<1>1. /\ n \in Nat /\ DOMAIN r.pages = 1 .. n
      /\ r.len \in Nat /\ r.bdl \in Nat /\ r.len < UlongRange
      /\ UlongRange \in Nat /\ 20 < UlongRange
  BY ReplyAssumption, WidthAssumption DEF PagesFollow, CachingSize
<1>2. \A i \in 1 .. n : /\ r.pages[i].length \in Nat /\ r.pages[i].end \in Nat
                        /\ r.pages[i].end = PageStart(r, i) + r.pages[i].length + 2
                        /\ PageStart(r, i) < r.len
  BY <1>1 DEF PagesFollow
<1>3. \A i \in 1 .. n : PageStart(r, i) \in Nat
  <2> TAKE i \in 1 .. n
  <2>1. CASE i = 1
    BY <1>1, <2>1 DEF PageStart, HeaderSize
  <2>2. CASE i # 1
    BY <1>2, <2>2 DEF PageStart
  <2> QED BY <2>1, <2>2
<1>4. \A i \in 1 .. n : ModeDataLeft(r, i) # 0
  <2> TAKE i \in 1 .. n
  <2>1. PageStart(r, i) \in Nat /\ PageStart(r, i) < r.len
    BY <1>2, <1>3
  <2>2. (r.len - PageStart(r, i)) % UlongRange = r.len - PageStart(r, i)
    BY <1>1, <2>1
  <2> QED BY <1>1, <2>1, <2>2 DEF ModeDataLeft
<1>5. ASSUME NEW i \in 1 .. n
      PROVE  i \in PagesSeen(r) <=> \A j \in 1 .. i - 1 : r.pages[j].length # 0
  <2>1. \A j \in 1 .. i : ModeDataLeft(r, j) # 0
    BY <1>1, <1>4
  <2> QED BY <1>1, <2>1 DEF PagesSeen
<1>6. ASSUME NEW i \in 1 .. n, Right(i), \A j \in 1 .. i : r.pages[j].length # 0
      PROVE  r.pages[i].end <= r.len
  <2>1. CASE i = n
    <3>1. r.pages[n].end = PageStart(r, n) + 20 /\ PageStart(r, n) \in Nat /\ PageStart(r, n) < r.len
      BY <1>2, <1>3, <1>6, <2>1 DEF CachingSize
    <3>2. ModeDataLeft(r, n + 1) = 0
      <4>1. \A j \in DOMAIN r.pages : r.pages[j].length # 0
        BY <1>1, <1>6, <2>1
      <4>2. PICK j \in 1 .. n + 1 : ModeDataLeft(r, j) = 0
        BY <4>1 DEF RunsPast
      <4>3. j = n + 1
        BY <1>1, <1>4, <4>2
      <4> QED BY <4>2, <4>3
    <3>3. PageStart(r, n + 1) = r.pages[n].end
      BY <1>1, <2>1 DEF PageStart
    <3>4. (r.len - r.pages[n].end) % UlongRange = 0
      BY <3>2, <3>3 DEF ModeDataLeft
    <3>5. ASSUME r.pages[n].end > r.len PROVE FALSE
      <4> DEFINE x == r.len - r.pages[n].end
      <4>1. x \in Int /\ -20 < x /\ x < 0
        BY <1>1, <3>1, <3>5
      <4>2. x % UlongRange = 0
        BY <3>4
      <4> HIDE DEF x
      <4>3. PICK k \in Int : x = UlongRange * k
        BY <1>1, <4>1, <4>2
      <4>4. k < 0 => UlongRange * k <= -UlongRange
        BY <1>1
      <4>5. k >= 0 => UlongRange * k >= 0
        BY <1>1
      <4> QED BY <1>1, <4>1, <4>3, <4>4, <4>5
    <3> QED BY <1>1, <1>2, <2>1, <3>5
  <2>2. CASE i # n
    <3>1. i + 1 \in 1 .. n /\ PageStart(r, i + 1) = r.pages[i].end
      BY <1>1, <2>2 DEF PageStart
    <3>2. PageStart(r, i + 1) < r.len
      BY <1>2, <3>1
    <3> QED BY <1>1, <1>2, <3>1, <3>2
  <2> QED BY <2>1, <2>2
<1>7. ASSUME NEW i \in 1 .. n, Right(i)
      PROVE  i \in PagesSeen(r) <=> /\ r.pages[i].end <= r.len
                                    /\ \A j \in 1 .. i : r.pages[j].length # 0
  <2>1. r.pages[i].length # 0
    BY <1>7 DEF CachingSize
  <2>2. (\A j \in 1 .. i - 1 : r.pages[j].length # 0) <=> \A j \in 1 .. i : r.pages[j].length # 0
    BY <1>1, <2>1
  <2>3. (\A j \in 1 .. i : r.pages[j].length # 0) => r.pages[i].end <= r.len
    BY <1>6, <1>7
  <2>4. i \in PagesSeen(r) <=> \A j \in 1 .. i - 1 : r.pages[j].length # 0
    BY <1>5
  <2> QED BY Zenon, <2>2, <2>3, <2>4
<1>8. PagesSeen(r) \subseteq 1 .. n
  BY <1>1 DEF PagesSeen
<1> HIDE DEF n
<1> QED BY <1>1, <1>7, <1>8 DEF CachingSeen
=============================================================================
