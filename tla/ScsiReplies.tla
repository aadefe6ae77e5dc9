------------------------------ MODULE ScsiReplies -----------------------------
(****************************************************************************)
(* The SCSI commands that the driver answers itself (ScsiHandler_CDB6.cpp,  *)
(* _CDB10.cpp, _CDB16.cpp and _InlineUtils.h under src/src/SpcNvme), as     *)
(* functions of the request.  A reply is the SRB status, the transfer       *)
(* length the driver reports, the bytes it writes into the data buffer, and *)
(* the value in them that matters later.  Sizes are those of the structures *)
(* in bytes; r.len is the length of the data buffer.                        *)
(****************************************************************************)
EXTENDS Widths, Sequences, FiniteSetsExt

CONSTANT NqnLength  \* characters of CtrlIdent.SUBNQN

HeaderSize  == 4     \* MODE_PARAMETER_HEADER and the headers of VPD pages
InquirySize == 36    \* INQUIRYDATABUFFERSIZE
CachingSize == 20    \* MODE_CACHING_PAGE
ControlSize == 12    \* MODE_CONTROL_PAGE and MODE_INFO_EXCEPTIONS

\* A ULONG holds more than the lengths of the structures here.
ASSUME ReplyAssumption == NqnLength \in Nat /\ CachingSize < UlongRange

Smaller(a, b) == IF a < b THEN a ELSE b
Larger(a, b)  == IF a < b THEN b ELSE a

Reply(status, ret, wrote) ==
    [status |-> status, ret |-> ret, wrote |-> wrote, value |-> NULL]

Refused(status) == Reply(status, 0, 0)

----------------------------------------------------------------------------
(* INQUIRY *)

\* A page that is built in memory of its own and copied as far as the buffer reaches.  The
\* result of the allocation is checked for one of the four, the others write through it.
CheckedPages   == {"SUPPORTED_PAGES"}
UncheckedPages == {"DEVICE_IDENTIFIERS", "BLOCK_LIMITS", "BLOCK_DEVICE_CHARACTERISTICS"}

CopiedPage(size, len) == Reply("SUCCESS", Smaller(size, len), Smaller(size, len))

VpdSupportPages == HeaderSize + 5
VpdIdentifier   == HeaderSize + 4 + NqnLength + 8 + 1
VpdBlockPage    == 64

\* The comma in "sn_len = (sn_len, 255)" makes the length 255, and the test refuses the
\* buffers that are large enough.
VpdSerialNumber(len) ==
    LET size == HeaderSize + 255 + 1
    IN  IF size < len THEN Reply("INSUFFICIENT_RESOURCES", size, 0)
                      ELSE Reply("SUCCESS", size, Larger(len, HeaderSize + 255))

HandleInquiryVPD(r) ==
    CASE r.page = "SUPPORTED_PAGES"    -> CopiedPage(VpdSupportPages, r.len)
      [] r.page = "SERIAL_NUMBER"      -> VpdSerialNumber(r.len)
      [] r.page = "DEVICE_IDENTIFIERS" -> CopiedPage(VpdIdentifier, r.len)
      [] r.page \in {"BLOCK_LIMITS", "BLOCK_DEVICE_CHARACTERISTICS"}
                                       -> CopiedPage(VpdBlockPage, r.len)
      [] OTHER                         -> Refused("ERROR")

\* Without EVPD only page 0 exists, and the whole buffer counts as transferred.
Scsi_Inquiry6(r) ==
    CASE r.evpd                          -> HandleInquiryVPD(r)
      [] ~r.evpd /\ r.page # "STANDARD"  -> Refused("ERROR")
      [] OTHER -> IF r.len >= InquirySize THEN Reply("SUCCESS", r.len, r.len)
                                          ELSE Refused("DATA_OVERRUN")

----------------------------------------------------------------------------
(* READ CAPACITY *)

\* The checks the two commands share, before the reply is built.
CapacityReply(r, working, size, reply) ==
    IF r.lun # 0 THEN Refused("INVALID_LUN")
    ELSE IF ~working THEN Refused("NO_DEVICE")
    ELSE IF r.len < size THEN Reply("DATA_OVERRUN", size, 0)
    ELSE reply

\* LogicalBlockAddress is the last LBA, 4 bytes of it here and 8 in READ CAPACITY (16).
Scsi_ReadCapacity10(r, working, blocks) ==
    CapacityReply(r, working, 8,
        IF blocks > Word32 - 1 THEN Refused("INVALID_REQUEST")
        ELSE [Reply("SUCCESS", 8, 8) EXCEPT !.value = (blocks - 1) % Word32])

\* Mutant of Scsi_ReadCapacity16: the number of blocks instead of the last one.
ReadCapacityCount(r, working, blocks) ==
    CapacityReply(r, working, 12, [Reply("SUCCESS", 12, 12) EXCEPT !.value = blocks])

Scsi_ReadCapacity16(r, working, blocks) ==
    CapacityReply(r, working, 12, [Reply("SUCCESS", 12, 12) EXCEPT !.value = (blocks - 1) % Word64])

----------------------------------------------------------------------------
(* MODE SENSE (6) and MODE SELECT (6) *)

\* Mutant of CopyToCdbBuffer: the page is not cut to the buffer.
CopyWholePage(dst, size) == [left |-> dst.left - size, ret |-> dst.ret + size]

CopyToCdbBuffer(dst, size) ==
    LET copied == Smaller(size, dst.left)
    IN  [left |-> dst.left - copied, ret |-> dst.ret + copied]

\* The page a MODE SENSE asks for, or all three of them one after the other.
ModePageCodes == {"CACHING", "CONTROL", "FAULT_REPORTING", "RETURN_ALL"}
CopyModePages(page, dst) ==
    CASE page = "CACHING"                        -> CopyToCdbBuffer(dst, CachingSize)
      [] page \in {"CONTROL", "FAULT_REPORTING"} -> CopyToCdbBuffer(dst, ControlSize)
      [] page = "RETURN_ALL" ->
            CopyToCdbBuffer(CopyToCdbBuffer(CopyToCdbBuffer(dst, CachingSize), ControlSize), ControlSize)

Bit(b) == IF b THEN 1 ELSE 0
FillModePage_Caching(cache) == [rcd |-> Bit(~cache.read), wce |-> Bit(cache.write)]

\* ModeDataLength starts at 3 and grows by every page copied.  The bits of the caching
\* page are in its third byte.
Scsi_ModeSense6(r, cache) ==
    LET dst  == CopyModePages(r.page, [left |-> r.len - HeaderSize, ret |-> HeaderSize])
        bits == IF r.page \in {"CACHING", "RETURN_ALL"} /\ dst.ret >= HeaderSize + 3
                THEN FillModePage_Caching(cache) ELSE NULL
    IN  IF r.len < HeaderSize THEN Reply("DATA_OVERRUN", HeaderSize, 0)
        ELSE IF r.page \notin ModePageCodes THEN Reply("INVALID_REQUEST", HeaderSize, HeaderSize)
        ELSE [Reply("SUCCESS", dst.ret, dst.ret) EXCEPT
                 !.value = [length |-> (3 + dst.ret - HeaderSize) % 256, bits |-> bits]]

\* A page of a MODE SELECT has its length field, and its end: the offset in the buffer
\* that the loop arrives at by adding the lengths.
PageStart(r, i) == IF i = 1 THEN HeaderSize + r.bdl ELSE r.pages[i - 1].end

\* The pages follow one another, each a header of two bytes longer than its length says, and
\* start in the buffer.
PagesFollow(r) ==
    /\ {r.len, r.bdl, Len(r.pages)} \subseteq Nat /\ r.len < UlongRange
    /\ DOMAIN r.pages = 1 .. Len(r.pages)
    /\ \A i \in DOMAIN r.pages :
          /\ {r.pages[i].length, r.pages[i].end} \subseteq Nat
          /\ r.pages[i].end = PageStart(r, i) + r.pages[i].length + 2
          /\ PageStart(r, i) < r.len
    /\ \A i, j \in DOMAIN r.pages : i < j => r.pages[i].end < r.pages[j].end

\* mode_data_size when the loop of MODE SELECT is at page i; it is a ULONG.
ModeDataLeft(r, i) == (r.len - PageStart(r, i)) % UlongRange

\* The pages the loop looks at: it ends when nothing is left or after an empty page.
PagesSeen(r) ==
    {i \in DOMAIN r.pages :
        /\ \A j \in 1 .. i : ModeDataLeft(r, j) # 0
        /\ \A j \in 1 .. i - 1 : r.pages[j].length # 0}

\* The loop runs past the pages that are there.
RunsPast(r) ==
    /\ \A j \in 1 .. Len(r.pages) + 1 : ModeDataLeft(r, j) # 0
    /\ \A j \in DOMAIN r.pages : r.pages[j].length # 0

\* The caching pages of the right length among them.
CachingSeen(r) ==
    {i \in PagesSeen(r) : r.pages[i].code = "CACHING" /\ r.pages[i].length = CachingSize - 2}

\* Mutant of SelectedCache: the first caching page decides.
SelectedCacheFirst(r, cache) ==
    IF CachingSeen(r) = {} THEN cache
    ELSE LET page == r.pages[Min(CachingSeen(r))]
         IN  [read |-> page.rcd = 0, write |-> page.wce # 0]

\* ReadCacheEnabled and WriteCacheEnabled after the loop.
SelectedCache(r, cache) ==
    IF CachingSeen(r) = {} THEN cache
    ELSE LET page == r.pages[Max(CachingSeen(r))]
         IN  [read |-> page.rcd = 0, write |-> page.wce # 0]

\* PF must be set; the answer does not depend on the pages.
Scsi_ModeSelect6(r) ==
    IF r.pf THEN Reply("SUCCESS", 0, 0)
            ELSE Reply("INVALID_REQUEST", r.len, 0)
=============================================================================
