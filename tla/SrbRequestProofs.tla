--------------------------- MODULE SrbRequestProofs ---------------------------
(****************************************************************************)
(* Proofs about SrbRequest: what the driver does with a request, for any    *)
(* number of extensions, any requests that keep TransferAssumption, any     *)
(* pool and any statuses the controller may end a command with.             *)
(*                                                                          *)
(* The invariant follows an extension that is not torn from one owner to    *)
(* the next: Storport, HwStartIo, a queue, its DPC.  A torn one may be in   *)
(* two hands at once, and nothing is claimed about it but its type.         *)
(****************************************************************************)
EXTENDS SrbRequest, NvmeIoProofs, ScsiRepliesProofs

(****************************************************************************)
(* The inductive invariant, in named parts.                                 *)
(****************************************************************************)

\* What is kept for each extension is kept for all of them, and one that Storport has passed
\* in has a request.
ShapeInv ==
    /\ DOMAIN req = Exts /\ DOMAIN cmd = Exts /\ DOMAIN answer = Exts /\ DOMAIN ended = Exts
    /\ \A e \in Exts : life[e] # "storport" => req[e] # NULL

\* A DPC has an extension exactly while it completes one.
DpcInv ==
    \A q \in Queues : IF dpc[q].pc = "idle" THEN dpc[q].srbext = NULL ELSE dpc[q].srbext \in Exts

\* Who may have the extension when a DPC with it is at a step of CompleteCmd.
OwnerAt(e, step) ==
    /\ step = "callback" => life[e] = "issued"
    /\ step = "complete" /\ ext[e].CompletionCB = NULL => life[e] = "issued"
    /\ step = "complete" /\ ext[e].CompletionCB # NULL => life[e] = "storport" \/ crashed
    /\ step = "cleanup" => life[e] = "storport"

\* One at a time: a queue, or one DPC, or neither.
OwnerInv(e) ==
    /\ dpc["adm"].srbext = e => dpc["io"].srbext # e
    /\ \A q \in Queues : dpc[q].srbext = e => OwnerAt(e, dpc[q].pc)
    /\ cmd[e] # NULL => life[e] = "issued" /\ ~DpcHas(e)
    /\ life[e] = "issued" => cmd[e] # NULL \/ DpcHas(e)
    /\ life[e] = "built" => ~DpcHas(e)

\* What the extension says about the request in it, and how often it was completed.
RequestInv(e) ==
    /\ req[e] = NULL => life[e] = "storport" /\ e \notin sent /\ answer[e] = NULL /\ ext[e].CompletionCB = NULL
    /\ life[e] # "storport" => given[e] = 0 /\ BuildIoStatus(req[e]) = "PENDING"
    /\ life[e] = "built" => e \notin sent /\ ext[e] = ZeroExt
    /\ InDriver(e) => e \in sent
    /\ e \in sent => Handler(req[e]) = IF ext[e].CompletionCB = NULL THEN "ReadWrite" ELSE "GetInfo"
    /\ ext[e].CompletionCB # NULL => FirmwareRequest(req[e])
    /\ life[e] = "storport" /\ req[e] # NULL /\ ~FirmwareRequest(req[e]) => given[e] = 1

\* The command that is at the controller was built from the request and the pointers in the
\* extension, after the range check.
ReadWriteCommand(e) ==
    LET rw == ParseReadWriteOffsetAndLen(req[e])
    IN  BuiildCmd_ReadWrite(req[e], rw.offset, rw.len,
                            IF ext[e].Prp2VA = NULL THEN 0 ELSE Pa(BlockAddr[ext[e].Prp2VA]))
FirmwareCommand(e) ==
    BuildCmd_GetFirmwareSlotsInfo(IF ext[e].ExtBuf = NULL THEN 0 ELSE BlockAddr[ext[e].ExtBuf])
InRange(e) ==
    LET rw == ParseReadWriteOffsetAndLen(req[e])
    IN  IsInValidIoRange(req[e].lun + 1, nsze, rw.offset, rw.len)

CommandInv(e) ==
    cmd[e] # NULL =>
        IF ext[e].CompletionCB = NULL
        THEN cmd[e] = ReadWriteCommand(e) /\ InRange(e)
        ELSE cmd[e] = FirmwareCommand(e)

\* The status of the completion entry reaches the answer of a read or a write; one that was
\* not sent is an ERROR because of its range, or because the adapter is going away.
AnswerInv(e) ==
    /\ ext[e].CompletionCB = NULL =>
          /\ \A q \in Queues : dpc[q].srbext = e => ext[e].NvmeCpl = ended[e]
          /\ e \in sent /\ life[e] = "storport" =>
                answer[e] = Answered(Refused(NvmeToSrbStatus(ended[e])))
    /\ req[e] # NULL /\ ReadWriteRequest(req[e]) /\ life[e] = "storport" /\ e \notin sent
          /\ State = "RUNNING" /\ req[e].lun = 0 /\ answer[e].status = "ERROR" => ~InRange(e)

Hands(e) == OwnerInv(e) /\ RequestInv(e) /\ CommandInv(e) /\ AnswerInv(e)
HandsInv == \A e \in Exts \ torn : Hands(e)

\* What the reply to a request must be, once it is given.
ReplyRight(e) ==
    answer[e] # NULL /\ ScsiRequest(req[e]) =>
        /\ answer[e].status = "SUCCESS" /\ req[e].op \in {"READ_CAPACITY", "READ_CAPACITY16"} =>
              answer[e].value = nsze - 1
        /\ e \notin sent /\ ~ReadWriteRequest(req[e])
              /\ ~(req[e].op = "INQUIRY" /\ req[e].page = "SERIAL_NUMBER") =>
              /\ answer[e].wrote <= req[e].len
              /\ answer[e].status = "SUCCESS" => answer[e].ret = answer[e].wrote
              /\ answer[e].status = "SUCCESS" /\ req[e].op = "MODE_SENSE" =>
                    answer[e].value.length = answer[e].ret - 1

RepliesInv == \A e \in Exts \ torn : ReplyRight(e)

\* What MODE SELECT last asked for is what the driver has.
CacheInv == cache = selected

\* The inductive invariant.
IInv == TypeOK /\ ShapeInv /\ DpcInv /\ HandsInv /\ BuffersHeld /\ NothingKept /\ RepliesInv /\ CacheInv

(****************************************************************************)
(* Lemmas about the operators.                                              *)
(****************************************************************************)

\* The null pointer is no extension and no block.
LEMMA NullFact == NULL \notin Exts /\ NULL \notin Blocks
BY RequestAssumption

\* A block from the pool was free.
LEMMA AllocFact == Alloc = NULL \/ Alloc \in Blocks \ heap
BY DEF Alloc

\* An address in a mapped page has a physical one.
LEMMA PaType ==
    ASSUME NEW va \in Nat, Page(va) \in DOMAIN Frame
    PROVE  Pa(va) \in Nat
<1>1. Frame[Page(va)] \in Nat /\ PageSize \in Nat /\ Offset(va) \in Nat
  BY PrpAssumption, AddressParts
<1> QED BY <1>1 DEF Pa

\* The physical address of a block is a number other than 0.
LEMMA BlockPa ==
    ASSUME NEW b \in Blocks
    PROVE  /\ BlockAddr[b] \in Nat /\ Mapped(BlockAddr[b], LogPageSize)
           /\ Pa(BlockAddr[b]) \in Nat \ {0}
<1>1. /\ BlockAddr[b] \in Nat /\ LogPageSize \in Nat /\ Pa(BlockAddr[b]) # 0
      /\ Mapped(BlockAddr[b], LogPageSize)
  BY PoolAssumption
<1>2. Page(BlockAddr[b]) \in DOMAIN Frame
  <2>1. Page(BlockAddr[b] + 0) \in DOMAIN Frame
    BY <1>1 DEF Mapped
  <2> QED BY <1>1, <2>1
<1> QED BY <1>1, <1>2, PaType

\* The PRP entries of a mapped buffer are numbers.
LEMMA BuildPrpType ==
    ASSUME NEW va \in Nat, NEW size \in Nat, Mapped(va, size), NEW listPa \in Nat
    PROVE  BuildPrp(va, size, listPa) \in Prp
<1> DEFINE first == GetDistanceToNextPage(va)
           left  == size - first
<1>1. first \in 1 .. PageSize /\ PageSize \in Nat \ {0}
  BY Distance, PrpAssumption
<1>2. \A i \in 0 .. size : Pa(va + i) \in Nat
  BY PaType DEF Mapped
<1>3. Pa(va) \in Nat
  <2>1. Pa(va + 0) \in Nat
    BY <1>2
  <2> QED BY <2>1
<1>4. CASE first > size
  BY <1>3, <1>4 DEF BuildPrp, Prp
<1>5. CASE ~(first > size) /\ left <= PageSize
  <2>1. Pa(va + first) \in Nat
    BY <1>1, <1>2, <1>5
  <2>2. BuildPrp(va, size, listPa) = [prp1 |-> Pa(va), prp2 |-> Pa(va + first), list |-> <<>>]
    BY <1>5 DEF BuildPrp
  <2> QED BY <1>3, <2>1, <2>2 DEF Prp
<1>6. CASE ~(first > size) /\ ~(left <= PageSize) /\ listPa = 0
  BY <1>3, <1>6 DEF BuildPrp, Prp
<1>7. CASE ~(first > size) /\ ~(left <= PageSize) /\ listPa # 0
  <2>1. Entries(left) \in Nat
    BY <1>1, <1>7 DEF Entries
  <2>2. ASSUME NEW i \in 1 .. Entries(left)
        PROVE  Pa(va + first + (i - 1) * PageSize) \in Nat
    <3>1. (i - 1) * PageSize < left
      <4>1. left + PageSize - 1 = Entries(left) * PageSize + ((left + PageSize - 1) % PageSize)
            /\ (left + PageSize - 1) % PageSize \in 0 .. PageSize - 1
        BY <1>1, <1>7 DEF Entries
      <4>2. i * PageSize <= Entries(left) * PageSize
        BY <1>1, <2>1
      <4> QED BY <1>1, <1>7, <2>1, <4>1, <4>2
    <3>2. (i - 1) * PageSize \in Nat
      BY <1>1, <2>1
    <3>3. first + (i - 1) * PageSize \in 0 .. size
      BY <1>1, <1>7, <3>1, <3>2
    <3>4. Pa(va + (first + (i - 1) * PageSize)) \in Nat
      BY <1>2, <3>3
    <3>5. va + (first + (i - 1) * PageSize) = va + first + (i - 1) * PageSize
      BY <1>1, <3>2
    <3> QED BY <3>4, <3>5
  <2>3. BuildPrp2List(va + first, left) \in Seq(Nat)
    BY <2>1, <2>2 DEF BuildPrp2List
  <2> QED BY <1>3, <1>7, <2>3 DEF BuildPrp, Prp
<1> QED BY <1>4, <1>5, <1>6, <1>7

\* Which operation codes have which handler; all others are refused.
LEMMA DispatchFact ==
    ASSUME NEW op
    PROVE  /\ StartIo_ScsiHandler(op) \in {"ModeSelect6", "ModeSense6", "Inquiry6", "ReadWrite",
                                           "ReadCapacity10", "ReadCapacity16", "Refuse"}
           /\ StartIo_ScsiHandler(op) = "ReadWrite" <=> op \in ReadOps \cup WriteOps
           /\ StartIo_ScsiHandler(op) = "ReadCapacity10" <=> op = "READ_CAPACITY"
           /\ StartIo_ScsiHandler(op) = "ReadCapacity16" <=> op = "READ_CAPACITY16"
           /\ StartIo_ScsiHandler(op) = "ModeSense6" <=> op = "MODE_SENSE"
           /\ StartIo_ScsiHandler(op) = "ModeSelect6" <=> op = "MODE_SELECT"
           /\ StartIo_ScsiHandler(op) = "Inquiry6" <=> op = "INQUIRY"
BY DEF StartIo_ScsiHandler, Dispatch6, Dispatch10, Dispatch12, Dispatch16, ReadOps, WriteOps

\* Which requests get which handler.
LEMMA HandlerFact ==
    ASSUME NEW r
    PROVE  /\ Handler(r) = "ReadWrite" <=> ReadWriteRequest(r)
           /\ Handler(r) = "GetInfo" /\ BuildIoStatus(r) = "PENDING" => FirmwareRequest(r)
           /\ FirmwareRequest(r) => Handler(r) = "GetInfo" /\ ~ScsiRequest(r)
           /\ ScsiRequest(r) => Handler(r) = StartIo_ScsiHandler(r.op)
           /\ ~ScsiRequest(r) => Handler(r) \in {"GetInfo", "RefuseIoctl"}
           /\ Handler(r) \in {"ModeSelect6", "ModeSense6", "Inquiry6", "ReadWrite", "ReadCapacity10",
                              "ReadCapacity16", "Refuse", "GetInfo", "RefuseIoctl"}
<1>1. BuildIoStatus(r) = "PENDING" => r.func \in {"EXECUTE_SCSI", "IO_CONTROL"}
  BY DEF BuildIoStatus, PnpStatus
<1>2. Handler(r) = IF r.func = "EXECUTE_SCSI" THEN StartIo_ScsiHandler(r.op)
                   ELSE IF StartIo_IoctlHandler(r) = "PENDING" THEN "GetInfo" ELSE "RefuseIoctl"
  BY DEF Handler
<1> QED BY <1>1, <1>2, DispatchFact DEF ReadWriteRequest, ScsiRequest, FirmwareRequest

\* What is known of a read or a write that Storport passes in.
LEMMA TransferFact ==
    ASSUME NEW w \in DOMAIN Workloads, NEW e \in Exts, NEW r \in Workloads[w][e], ReadWriteRequest(r)
    PROVE  /\ r.lun \in Nat /\ r.lba \in 0 .. Word64 - 1 /\ r.blocks \in Nat /\ r.buf \in Nat /\ r.len \in Nat
           /\ BlocksAsked(r) \in Nat /\ r.len = BlocksAsked(r) * BlockSize
           /\ r.len <= UpdateMaxTxSize /\ Mapped(r.buf, r.len)
           /\ ParseReadWriteOffsetAndLen(r) = [offset |-> r.lba, len |-> BlocksAsked(r)]
<1>1. /\ r.lun \in Nat /\ r.lba \in Nat /\ r.blocks \in Nat /\ r.buf \in Nat /\ r.len \in Nat
      /\ r.len = BlocksAsked(r) * BlockSize /\ r.len <= UpdateMaxTxSize
      /\ Mapped(r.buf, r.len) /\ CdbFits(r)
  BY TransferAssumption DEF ReadWriteRequest
<1>2. r.op \in ReadOps \cup WriteOps
  BY DEF ReadWriteRequest
<1>3. r.lba < Word64
  <2>1. r.lba < Word21 \/ r.lba < Word32 \/ r.lba < Word64
    BY <1>1, <1>2 DEF CdbFits, ReadOps, WriteOps
  <2> QED BY <1>1, <2>1, WidthAssumption
<1>4. BlocksAsked(r) \in Nat
  BY <1>1, WidthAssumption DEF BlocksAsked
<1>5. ParseReadWriteOffsetAndLen(r) = [offset |-> r.lba, len |-> BlocksAsked(r)]
  BY DEF ParseReadWriteOffsetAndLen, BlocksAsked
<1> QED BY <1>1, <1>3, <1>4, <1>5, WidthAssumption

\* The command of a read or a write is one.
LEMMA ReadWriteCommandType ==
    ASSUME NEW w \in DOMAIN Workloads, NEW e \in Exts, NEW r \in Workloads[w][e], ReadWriteRequest(r),
           NEW listPa \in Nat
    PROVE  BuiildCmd_ReadWrite(r, r.lba, BlocksAsked(r), listPa) \in Commands
<1> DEFINE c == BuiildCmd_ReadWrite(r, r.lba, BlocksAsked(r), listPa)
<1>1. /\ r.lun + 1 \in Nat /\ r.lba \in 0 .. Word64 - 1
      /\ (BlocksAsked(r) - 1) % Word16 \in 0 .. Word16 - 1
      /\ BuildPrp(r.buf, r.len, listPa) \in Prp
  BY TransferFact, BuildPrpType, WidthAssumption
<1>2. (r.op \in WriteOps) \in BOOLEAN
  OBVIOUS
<1>3. c = [q |-> "io", write |-> r.op \in WriteOps, nsid |-> r.lun + 1, lba |-> r.lba,
           nlb |-> (BlocksAsked(r) - 1) % Word16, prp |-> BuildPrp(r.buf, r.len, listPa)]
  BY DEF BuiildCmd_ReadWrite
<1>4. \A write \in BOOLEAN, nsid \in Nat, lba \in 0 .. Word64 - 1, nlb \in 0 .. Word16 - 1, prp \in Prp :
          [q |-> "io", write |-> write, nsid |-> nsid, lba |-> lba, nlb |-> nlb, prp |-> prp] \in Commands
  BY DEF Commands
<1> QED BY Zenon, <1>1, <1>2, <1>3, <1>4

\* The command for the firmware slots is one, with or without memory for the log page.
LEMMA FirmwareCommandType ==
    ASSUME NEW va \in {0} \cup {BlockAddr[b] : b \in Blocks}
    PROVE  BuildCmd_GetFirmwareSlotsInfo(va) \in Commands
<1>1. va \in Nat /\ LogPageSize \in Nat /\ Mapped(va, LogPageSize)
  BY PoolAssumption, PrpAssumption
<1>2. BuildPrp(va, LogPageSize, 0) \in Prp /\ LogPageSize \div 4 \in Nat
  BY <1>1, BuildPrpType
<1> QED BY <1>2 DEF Commands, BuildCmd_GetFirmwareSlotsInfo

(****************************************************************************)
(* TypeOK, ShapeInv and DpcInv.                                             *)
(****************************************************************************)

\* The type of ext.
ExtType ==
    [Prp2VA : Blocks \cup {NULL}, ExtBuf : Blocks \cup {NULL},
     CompletionCB : {NULL, "FirmwareInfo"}, NvmeCpl : CtrlStatuses \cup {NvmeSuccess}]

\* An extension keeps its type whichever of its fields is replaced.
LEMMA ExtUpdate ==
    ASSUME NEW f \in [Exts -> ExtType], NEW e \in Exts
    PROVE  /\ [f EXCEPT ![e] = ZeroExt] \in [Exts -> ExtType]
           /\ \A b \in Blocks \cup {NULL} :
                 /\ [f EXCEPT ![e].Prp2VA = b] \in [Exts -> ExtType]
                 /\ [f EXCEPT ![e].ExtBuf = b, ![e].CompletionCB = "FirmwareInfo"] \in [Exts -> ExtType]
           /\ [f EXCEPT ![e].ExtBuf = NULL, ![e].Prp2VA = NULL] \in [Exts -> ExtType]
           /\ \A status \in CtrlStatuses : [f EXCEPT ![e].NvmeCpl = status] \in [Exts -> ExtType]
BY DEF ExtType, ZeroExt

\* The type of dpc.
DpcType == [Queues -> [pc : {"idle", "callback", "complete", "cleanup"}, srbext : Exts \cup {NULL}]]

\* A DPC keeps its type.
LEMMA DpcUpdate ==
    ASSUME NEW d \in DpcType, NEW q \in Queues
    PROVE  /\ [d EXCEPT ![q] = IdleDpc] \in DpcType
           /\ \A e \in Exts : [d EXCEPT ![q] = [pc |-> "callback", srbext |-> e]] \in DpcType
           /\ \A step \in {"complete", "cleanup"} : [d EXCEPT ![q].pc = step] \in DpcType
BY DEF DpcType, IdleDpc

\* The cache bits are Boolean, whatever the pages of a MODE SELECT hold.
BitsType == [read : BOOLEAN, write : BOOLEAN]
\* MODE SELECT sets nothing else.
LEMMA SelectedType ==
    ASSUME NEW r, NEW c \in BitsType
    PROVE  SelectedCache(r, c) \in BitsType /\ CacheAsked(r, c) \in BitsType
<1>1. \A a, b \in BOOLEAN : [read |-> a, write |-> b] \in BitsType
  BY DEF BitsType
<1>2. SelectedCache(r, c) \in BitsType
  <2> DEFINE page == r.pages[Max(CachingSeen(r))]
  <2>1. [read |-> page.rcd = 0, write |-> page.wce # 0] \in BitsType
    BY Zenon, <1>1
  <2> QED BY Zenon, <2>1 DEF SelectedCache
<1>3. CacheAsked(r, c) \in BitsType
  <2> DEFINE asked == {i \in DOMAIN r.pages :
                         /\ r.pages[i].code = "CACHING" /\ r.pages[i].length = CachingSize - 2
                         /\ r.pages[i].end <= r.len
                         /\ \A j \in 1 .. i : r.pages[j].length # 0}
             page == r.pages[Max(asked)]
  <2>1. [read |-> page.rcd = 0, write |-> page.wce # 0] \in BitsType
    BY Zenon, <1>1
  <2> QED BY Zenon, <2>1 DEF CacheAsked
<1> QED BY <1>2, <1>3

\* What CompleteSrb changes.
LEMMA CompleteFact ==
    ASSUME TypeOK, ShapeInv, NEW e \in Exts, NEW reply, CompleteSrb(e, reply)
    PROVE  /\ life' = [life EXCEPT ![e] = "storport"] /\ life' \in [Exts -> Srb]
           /\ given' \in [Exts -> 0 .. 2]
           /\ \A x \in Exts \ {e} : given'[x] = given[x] /\ answer'[x] = answer[x] /\ life'[x] = life[x]
           /\ life'[e] = "storport"
           /\ given[e] = 0 => given'[e] = 1
           /\ DOMAIN answer' = Exts /\ answer'[e] = Answered(reply)
<1>1. given \in [Exts -> 0 .. 2] /\ life \in [Exts -> Srb] /\ "storport" \in Srb /\ DOMAIN answer = Exts
  BY DEF TypeOK, ShapeInv, Srb
<1>2. Smaller(given[e] + 1, 2) \in 0 .. 2 /\ (given[e] = 0 => Smaller(given[e] + 1, 2) = 1)
  BY <1>1 DEF Smaller
<1> QED BY <1>1, <1>2 DEF CompleteSrb

\* What CleanUp changes.
LEMMA CleanUpFact ==
    ASSUME TypeOK, NEW e \in Exts, CleanUp(e)
    PROVE  /\ ext' \in [Exts -> ExtType] /\ heap' \subseteq Blocks
           /\ \A x \in Exts \ {e} : ext'[x] = ext[x]
           /\ ext'[e].ExtBuf = NULL /\ ext'[e].Prp2VA = NULL
           /\ ext'[e].CompletionCB = ext[e].CompletionCB /\ ext'[e].NvmeCpl = ext[e].NvmeCpl
           /\ heap' = heap \ Holds(e)
<1>1. ext \in [Exts -> ExtType] /\ heap \subseteq Blocks
  BY DEF TypeOK, ExtType
<1>2. ext' \in [Exts -> ExtType]
  BY <1>1, ExtUpdate DEF CleanUp
<1>3. NULL \notin heap
  BY <1>1, NullFact
<1> QED BY <1>1, <1>2, <1>3 DEF CleanUp, Holds, ExtType

\* What SubmitEnds changes: the request is in the queue, or completed.
LEMMA SubmitFact ==
    ASSUME TypeOK, ShapeInv, NEW e \in Exts, NEW command, NEW busy, NEW other,
           SubmitEnds(e, command, busy, other)
    PROVE  /\ life' \in [Exts -> Srb] /\ given' \in [Exts -> 0 .. 2]
           /\ DOMAIN cmd' = Exts /\ DOMAIN answer' = Exts /\ sent' \subseteq Exts
           /\ \A x \in Exts \ {e} : /\ given'[x] = given[x] /\ answer'[x] = answer[x]
                                    /\ life'[x] = life[x] /\ cmd'[x] = cmd[x]
                                    /\ x \in sent' <=> x \in sent
           /\ \/ /\ life'[e] = "issued" /\ cmd'[e] = command /\ e \in sent'
                 /\ given' = given /\ answer' = answer
                 /\ SubmitStatus(command.q) = "SUCCESS"
              \/ /\ life'[e] = "storport" /\ cmd' = cmd /\ sent' = sent
                 /\ given[e] = 0 => given'[e] = 1
                 /\ SubmitStatus(command.q) # "SUCCESS"
                 /\ answer'[e] = Answered(Refused(IF SubmitStatus(command.q) = "DEVICE_BUSY"
                                                  THEN busy ELSE other))
<1>1. /\ given \in [Exts -> 0 .. 2] /\ life \in [Exts -> Srb] /\ "issued" \in Srb
      /\ DOMAIN answer = Exts /\ DOMAIN cmd = Exts /\ sent \subseteq Exts
  BY DEF TypeOK, ShapeInv, Srb
<1>2. CASE SubmitStatus(command.q) = "SUCCESS"
  BY <1>1, <1>2 DEF SubmitEnds
<1>3. CASE SubmitStatus(command.q) # "SUCCESS"
  <2> DEFINE status == IF SubmitStatus(command.q) = "DEVICE_BUSY" THEN busy ELSE other
  <2>1. CompleteSrb(e, Refused(status)) /\ cmd' = cmd /\ sent' = sent
    BY <1>3 DEF SubmitEnds
  <2> HIDE DEF status
  <2>2. /\ life' \in [Exts -> Srb] /\ given' \in [Exts -> 0 .. 2] /\ life'[e] = "storport"
        /\ \A x \in Exts \ {e} : given'[x] = given[x] /\ answer'[x] = answer[x] /\ life'[x] = life[x]
        /\ given[e] = 0 => given'[e] = 1
        /\ DOMAIN answer' = Exts /\ answer'[e] = Answered(Refused(status))
    BY <2>1, CompleteFact
  <2> QED BY <1>1, <1>3, <2>1, <2>2 DEF status
<1> QED BY <1>2, <1>3

\* Nothing a step can see of extension x changes.
SameFor(x) ==
    /\ life'[x] = life[x] /\ req'[x] = req[x] /\ ext'[x] = ext[x] /\ cmd'[x] = cmd[x]
    /\ given'[x] = given[x] /\ answer'[x] = answer[x] /\ ended'[x] = ended[x]
    /\ x \in sent' <=> x \in sent
    /\ \A q \in Queues : dpc[q].srbext = x \/ dpc'[q].srbext = x => dpc'[q] = dpc[q]

\* The rest of what the invariant of an extension depends on only goes one way.
Onward ==
    /\ nsze' = nsze /\ torn \subseteq torn'
    /\ State' = "RUNNING" => State = "RUNNING"

\* What all lemmas about a step assume, and what the first ones show of it.
Typed == TypeOK /\ ShapeInv /\ DpcInv
StepOf(e) == Typed' /\ Onward /\ \A x \in Exts \ {e} : SameFor(x)

\* HwBuildIo.
LEMMA BuildTypes ==
    ASSUME Typed, NEW e \in Exts, HwBuildIo(e)
    PROVE  StepOf(e)
<1> USE DEF Typed
<1>1. PICK r \in Workloads[load][e] :
          LET status  == BuildIoStatus(r)
              removes == r.func = "PNP" /\ r.adapter /\ r.action = "RemoveDevice"
          IN  /\ req' = [req EXCEPT ![e] = r]
              /\ ext' = [ext EXCEPT ![e] = ZeroExt]
              /\ State' = IF removes THEN "SHUTDOWN" ELSE State
              /\ IF status = "PENDING"
                 THEN /\ life' = [life EXCEPT ![e] = "built"]
                      /\ given' = [given EXCEPT ![e] = 0]
                      /\ answer' = [answer EXCEPT ![e] = NULL]
                 ELSE /\ life' = life
                      /\ given' = [given EXCEPT ![e] = 1]
                      /\ answer' = [answer EXCEPT ![e] = Answered(Refused(status))]
  BY Zenon DEF HwBuildIo, InitSrbExt
<1>2. /\ life[e] = "storport" /\ sent' = sent \ {e} /\ ended' = [ended EXCEPT ![e] = NvmeSuccess]
      /\ torn' = torn \/ torn' = torn \cup {e}
      /\ UNCHANGED <<cmd, heap, dpc, cache, nsze, load, crashed, selected>>
  BY DEF HwBuildIo
<1>3. ext' \in [Exts -> ExtType]
  BY <1>1, ExtUpdate DEF TypeOK, ExtType
<1>4. life' \in [Exts -> Srb] /\ given' \in [Exts -> 0 .. 2]
  <2>1. /\ life' = life \/ life' = [life EXCEPT ![e] = "built"]
        /\ given' = [given EXCEPT ![e] = 0] \/ given' = [given EXCEPT ![e] = 1]
    BY Zenon, <1>1
  <2>2. life \in [Exts -> Srb] /\ given \in [Exts -> 0 .. 2] /\ "built" \in Srb
    BY DEF TypeOK, Srb
  <2>3. 0 \in 0 .. 2 /\ 1 \in 0 .. 2
    OBVIOUS
  <2>4. \A n \in 0 .. 2 : [given EXCEPT ![e] = n] \in [Exts -> 0 .. 2]
    BY <2>2
  <2> QED BY <2>1, <2>2, <2>3, <2>4
<1>5. State' = State \/ State' = "SHUTDOWN"
  BY <1>1
<1>6. \A x \in Exts : req'[x] \in Workloads[load][x] \cup {NULL}
  BY <1>1 DEF TypeOK, ShapeInv
<1>7. TypeOK'
  BY <1>2, <1>3, <1>4, <1>5, <1>6 DEF TypeOK, ExtType
<1>8. ShapeInv'
  <2>1. r # NULL
    BY RequestAssumption DEF TypeOK
  <2>2. answer' = [answer EXCEPT ![e] = NULL] \/ answer' = [answer EXCEPT ![e] = Answered(Refused(BuildIoStatus(r)))]
    BY Zenon, <1>1
  <2>3. life' = life \/ life' = [life EXCEPT ![e] = "built"]
    BY Zenon, <1>1
  <2> QED BY <1>1, <1>2, <2>1, <2>2, <2>3 DEF ShapeInv, TypeOK
<1>9. DpcInv'
  BY <1>2 DEF DpcInv
<1>10. \A x \in Exts \ {e} : SameFor(x)
  BY <1>1, <1>2 DEF SameFor, TypeOK, ShapeInv
<1> QED BY <1>2, <1>5, <1>7, <1>8, <1>9, <1>10 DEF StepOf, Onward

\* A request that the driver answers itself.
LEMMA ReplyTypes ==
    ASSUME Typed, NEW e \in Exts, HwStartIo(e), StartIoReply(e)
    PROVE  StepOf(e)
<1> USE DEF Typed
<1>1. CompleteSrb(e, OwnReply(req[e])) /\ UNCHANGED <<ext, cmd, heap, sent>>
  BY DEF StartIoReply
<1>2. UNCHANGED <<req, dpc, State, nsze, load, ended, torn>> /\ life[e] = "built"
  BY DEF HwStartIo
<1>3. /\ life' \in [Exts -> Srb] /\ given' \in [Exts -> 0 .. 2] /\ DOMAIN answer' = Exts
      /\ life'[e] = "storport"
      /\ \A x \in Exts \ {e} : given'[x] = given[x] /\ answer'[x] = answer[x] /\ life'[x] = life[x]
  BY <1>1, CompleteFact
<1>4. cache \in BitsType /\ selected \in BitsType
  BY DEF TypeOK, BitsType
<1>5. {cache', selected'} \subseteq BitsType /\ crashed' \in BOOLEAN
  <2>1. \/ cache' \in BitsType /\ selected' = cache' /\ crashed' \in BOOLEAN
        \/ /\ cache' = SelectedCache(req[e], cache) /\ selected' = CacheAsked(req[e], selected)
           /\ crashed' \in {crashed}
        \/ UNCHANGED <<cache, selected, crashed>>
    BY Zenon DEF StartIoReply, BitsType
  <2>2. SelectedCache(req[e], cache) \in BitsType /\ CacheAsked(req[e], selected) \in BitsType
    BY <1>4, SelectedType
  <2>3. crashed \in BOOLEAN
    BY DEF TypeOK
  <2> QED BY Zenon, <2>1, <2>2, <2>3, <1>4
<1>6. TypeOK'
  BY <1>1, <1>2, <1>3, <1>5 DEF TypeOK, BitsType
<1>7. ShapeInv'
  BY <1>1, <1>2, <1>3 DEF ShapeInv
<1>8. DpcInv'
  BY <1>2 DEF DpcInv
<1>9. \A x \in Exts \ {e} : SameFor(x)
  BY <1>1, <1>2, <1>3 DEF SameFor
<1> QED BY <1>2, <1>6, <1>7, <1>8, <1>9 DEF StepOf, Onward

\* An INQUIRY without memory for its page.
LEMMA NoMemoryTypes ==
    ASSUME Typed, NEW e \in Exts, HwStartIo(e), InquiryNoMemory(e)
    PROVE  StepOf(e)
<1> USE DEF Typed
<1>1. /\ UNCHANGED <<req, dpc, State, nsze, load, ended, torn>> /\ life[e] = "built"
      /\ UNCHANGED <<ext, cmd, heap, cache, selected, sent>>
  BY DEF HwStartIo, InquiryNoMemory
<1>2. \/ CompleteSrb(e, Refused("INSUFFICIENT_RESOURCES")) /\ crashed' = crashed
      \/ UNCHANGED <<life, given, answer>> /\ crashed' = TRUE
  BY DEF InquiryNoMemory
<1>3. /\ life' \in [Exts -> Srb] /\ given' \in [Exts -> 0 .. 2] /\ DOMAIN answer' = Exts
      /\ life'[e] \in {"built", "storport"} /\ crashed' \in BOOLEAN
      /\ \A x \in Exts \ {e} : given'[x] = given[x] /\ answer'[x] = answer[x] /\ life'[x] = life[x]
  <2>1. /\ life \in [Exts -> Srb] /\ given \in [Exts -> 0 .. 2] /\ DOMAIN answer = Exts
        /\ crashed \in BOOLEAN
    BY DEF TypeOK, ShapeInv
  <2> QED BY <1>1, <1>2, <2>1, CompleteFact
<1>4. TypeOK'
  BY <1>1, <1>3 DEF TypeOK
<1>5. ShapeInv'
  BY <1>1, <1>3 DEF ShapeInv
<1>6. DpcInv'
  BY <1>1 DEF DpcInv
<1>7. \A x \in Exts \ {e} : SameFor(x)
  BY <1>1, <1>3 DEF SameFor
<1> QED BY <1>1, <1>4, <1>5, <1>6, <1>7 DEF StepOf, Onward

\* The physical address a list is known by, which is 0 without one.
ListPa(list) == IF list = NULL THEN 0 ELSE Pa(BlockAddr[list])

\* The request in a built extension.
LEMMA BuiltRequest ==
    ASSUME Typed, NEW e \in Exts, life[e] = "built"
    PROVE  req[e] # NULL /\ load \in DOMAIN Workloads /\ req[e] \in Workloads[load][e]
BY DEF Typed, TypeOK, ShapeInv

\* What Scsi_ReadWrite does: a range outside the namespace is an ERROR; the others get a list
\* when they need one and there is memory, and go to the queue.
LEMMA ReadWriteFact ==
    ASSUME Typed, NEW e \in Exts, life[e] = "built", ReadWrite(e)
    PROVE  LET r  == req[e]
               to(list) == BuiildCmd_ReadWrite(r, r.lba, BlocksAsked(r), ListPa(list))
           IN  /\ ReadWriteRequest(r)
               /\ UNCHANGED <<cache, selected, crashed>>
               /\ \/ /\ ~InRange(e)
                     /\ CompleteSrb(e, Refused("ERROR"))
                     /\ UNCHANGED <<ext, heap, cmd, sent>>
                  \/ /\ InRange(e)
                     /\ \E list \in {NULL} \cup (Blocks \ heap) :
                           /\ list # NULL => NeedsList(r.buf, r.len)
                           /\ ext' = [ext EXCEPT ![e].Prp2VA = list]
                           /\ heap' = heap \cup ({list} \ {NULL})
                           /\ SubmitEnds(e, to(list), "BUSY", "ERROR")
                           /\ to(list) \in Commands
<1> DEFINE r    == req[e]
           rw   == ParseReadWriteOffsetAndLen(r)
           list == IF NeedsList(r.buf, r.len) THEN Alloc ELSE NULL
           to(l) == BuiildCmd_ReadWrite(r, r.lba, BlocksAsked(r), ListPa(l))
<1>1. ReadWriteRequest(r) /\ UNCHANGED <<cache, selected, crashed>>
  BY HandlerFact DEF ReadWrite
<1>2. req[e] \in Workloads[load][e] /\ load \in DOMAIN Workloads
  BY BuiltRequest
<1>3. rw = [offset |-> r.lba, len |-> BlocksAsked(r)]
  BY <1>1, <1>2, TransferFact
<1>4. rw.offset = r.lba /\ rw.len = BlocksAsked(r)
  BY <1>3
<1>5. InRange(e) <=> IsInValidIoRange(r.lun + 1, nsze, rw.offset, rw.len)
  BY DEF InRange
<1>6. CASE ~InRange(e)
  <2>1. CompleteSrb(e, Refused("ERROR")) /\ UNCHANGED <<ext, heap, cmd, sent>>
    BY <1>5, <1>6 DEF ReadWrite
  <2> QED BY <1>1, <1>6, <2>1
<1>7. CASE InRange(e)
  <2>1. list \in {NULL} \cup (Blocks \ heap) /\ (list # NULL => NeedsList(r.buf, r.len))
    BY AllocFact
  <2>2. /\ ext' = [ext EXCEPT ![e].Prp2VA = list]
        /\ heap' = heap \cup ({list} \ {NULL})
        /\ SubmitEnds(e, BuiildCmd_ReadWrite(r, rw.offset, rw.len, ListPa(list)), "BUSY", "ERROR")
    BY <1>5, <1>7 DEF ReadWrite, ListPa
  <2>3. BuiildCmd_ReadWrite(r, rw.offset, rw.len, ListPa(list)) = to(list)
    BY <1>4
  <2>4. ListPa(list) \in Nat
    BY <2>1, BlockPa DEF ListPa
  <2>5. to(list) \in Commands
    BY <1>1, <1>2, <2>4, ReadWriteCommandType
  <2> HIDE DEF list, to
  <2>6. SubmitEnds(e, to(list), "BUSY", "ERROR")
    BY <2>2, <2>3
  <2> QED BY <1>1, <1>7, <2>1, <2>2, <2>5, <2>6 DEF to
<1> QED BY <1>6, <1>7

\* What Firmware_GetInfo does.
LEMMA GetInfoFact ==
    ASSUME Typed, NEW e \in Exts, GetInfo(e)
    PROVE  /\ Handler(req[e]) = "GetInfo"
           /\ UNCHANGED <<cache, selected, crashed>>
           /\ \E page \in {NULL} \cup (Blocks \ heap) :
                /\ ext' = [ext EXCEPT ![e].ExtBuf = page, ![e].CompletionCB = "FirmwareInfo"]
                /\ heap' = IF SubmitStatus("adm") = "SUCCESS" THEN heap \cup ({page} \ {NULL}) ELSE heap
                /\ SubmitEnds(e, BuildCmd_GetFirmwareSlotsInfo(IF page = NULL THEN 0 ELSE BlockAddr[page]),
                              "INTERNAL_ERROR", "INTERNAL_ERROR")
                /\ BuildCmd_GetFirmwareSlotsInfo(IF page = NULL THEN 0 ELSE BlockAddr[page]) \in Commands
<1> DEFINE page == Alloc
           va   == IF page = NULL THEN 0 ELSE BlockAddr[page]
<1>1. page \in {NULL} \cup (Blocks \ heap)
  BY AllocFact
<1>2. va \in {0} \cup {BlockAddr[b] : b \in Blocks}
  BY <1>1
<1>3. BuildCmd_GetFirmwareSlotsInfo(va) \in Commands
  BY <1>2, FirmwareCommandType
<1>4. /\ Handler(req[e]) = "GetInfo" /\ UNCHANGED <<cache, selected, crashed>>
      /\ ext' = [ext EXCEPT ![e].ExtBuf = page, ![e].CompletionCB = "FirmwareInfo"]
      /\ heap' = IF SubmitStatus("adm") = "SUCCESS" THEN heap \cup ({page} \ {NULL}) ELSE heap
      /\ SubmitEnds(e, BuildCmd_GetFirmwareSlotsInfo(va), "INTERNAL_ERROR", "INTERNAL_ERROR")
  BY DEF GetInfo
<1> HIDE DEF page
<1> QED BY <1>1, <1>3, <1>4

\* A read or a write.
LEMMA ReadWriteTypes ==
    ASSUME Typed, NEW e \in Exts, HwStartIo(e), ReadWrite(e)
    PROVE  StepOf(e)
<1> USE DEF Typed
<1>1. UNCHANGED <<req, dpc, State, nsze, load, ended, torn>> /\ life[e] = "built"
  BY DEF HwStartIo
<1>2. UNCHANGED <<cache, selected, crashed>>
  BY DEF ReadWrite
<1> DEFINE Goal ==
      /\ ext' \in [Exts -> ExtType] /\ heap' \subseteq Blocks
      /\ life' \in [Exts -> Srb] /\ given' \in [Exts -> 0 .. 2]
      /\ DOMAIN cmd' = Exts /\ DOMAIN answer' = Exts /\ sent' \subseteq Exts
      /\ cmd'[e] = cmd[e] \/ cmd'[e] \in Commands
      /\ \A x \in Exts \ {e} : /\ given'[x] = given[x] /\ answer'[x] = answer[x] /\ ext'[x] = ext[x]
                               /\ life'[x] = life[x] /\ cmd'[x] = cmd[x]
                               /\ x \in sent' <=> x \in sent
      /\ life'[e] = "built" => life[e] = "built"
<1>3. Goal
  <2>0. /\ ext \in [Exts -> ExtType] /\ heap \subseteq Blocks /\ sent \subseteq Exts
        /\ DOMAIN cmd = Exts
    BY DEF TypeOK, ExtType, ShapeInv
  <2>1. CASE CompleteSrb(e, Refused("ERROR")) /\ UNCHANGED <<ext, heap, cmd, sent>>
    BY <2>0, <2>1, CompleteFact
  <2>2. ASSUME NEW list \in {NULL} \cup (Blocks \ heap), NEW command \in Commands,
               ext' = [ext EXCEPT ![e].Prp2VA = list],
               heap' = heap \cup ({list} \ {NULL}),
               SubmitEnds(e, command, "BUSY", "ERROR")
        PROVE  Goal
    <3>1. ext' \in [Exts -> ExtType]
      BY <2>0, <2>2, ExtUpdate
    <3>2. \A x \in Exts \ {e} : ext'[x] = ext[x]
      BY <2>0, <2>2
    <3>3. heap' \subseteq Blocks
      BY <2>0, <2>2
    <3> QED BY <2>0, <2>2, <3>1, <3>2, <3>3, SubmitFact
  <2> QED BY <1>1, <2>1, <2>2, ReadWriteFact
<1>4. TypeOK'
  BY <1>1, <1>2, <1>3 DEF TypeOK, ExtType
<1>5. ShapeInv'
  BY <1>1, <1>3 DEF ShapeInv
<1>6. DpcInv'
  BY <1>1 DEF DpcInv
<1>7. \A x \in Exts \ {e} : SameFor(x)
  BY <1>1, <1>3 DEF SameFor
<1> QED BY <1>1, <1>4, <1>5, <1>6, <1>7 DEF StepOf, Onward

\* A request for the firmware slots.
LEMMA GetInfoTypes ==
    ASSUME Typed, NEW e \in Exts, HwStartIo(e), GetInfo(e)
    PROVE  StepOf(e)
<1> USE DEF Typed
<1>1. UNCHANGED <<req, dpc, State, nsze, load, ended, torn>> /\ life[e] = "built"
  BY DEF HwStartIo
<1>2. UNCHANGED <<cache, selected, crashed>>
  BY DEF GetInfo
<1>3. PICK page \in {NULL} \cup (Blocks \ heap), command \in Commands :
          /\ ext' = [ext EXCEPT ![e].ExtBuf = page, ![e].CompletionCB = "FirmwareInfo"]
          /\ heap' = IF SubmitStatus("adm") = "SUCCESS" THEN heap \cup ({page} \ {NULL}) ELSE heap
          /\ SubmitEnds(e, command, "INTERNAL_ERROR", "INTERNAL_ERROR")
  BY GetInfoFact
<1>4. /\ ext \in [Exts -> ExtType] /\ heap \subseteq Blocks /\ sent \subseteq Exts
      /\ DOMAIN cmd = Exts
  BY DEF TypeOK, ExtType, ShapeInv
<1>5. ext' \in [Exts -> ExtType] /\ (\A x \in Exts \ {e} : ext'[x] = ext[x])
  BY <1>3, <1>4, ExtUpdate
<1>6. heap' \subseteq Blocks
  BY <1>3, <1>4
<1>7. /\ life' \in [Exts -> Srb] /\ given' \in [Exts -> 0 .. 2]
      /\ DOMAIN cmd' = Exts /\ DOMAIN answer' = Exts /\ sent' \subseteq Exts
      /\ cmd'[e] = cmd[e] \/ cmd'[e] \in Commands
      /\ \A x \in Exts \ {e} : /\ given'[x] = given[x] /\ answer'[x] = answer[x]
                               /\ life'[x] = life[x] /\ cmd'[x] = cmd[x]
                               /\ x \in sent' <=> x \in sent
      /\ life'[e] \in {"storport", "issued"}
  BY <1>3, SubmitFact
<1>8. TypeOK'
  BY <1>1, <1>2, <1>5, <1>6, <1>7 DEF TypeOK, ExtType
<1>9. ShapeInv'
  BY <1>1, <1>7 DEF ShapeInv
<1>10. DpcInv'
  BY <1>1 DEF DpcInv
<1>11. \A x \in Exts \ {e} : SameFor(x)
  BY <1>1, <1>5, <1>7 DEF SameFor
<1> QED BY <1>1, <1>8, <1>9, <1>10, <1>11 DEF StepOf, Onward

\* CompleteCmd: the Pop.
LEMMA PopTypes ==
    ASSUME Typed, NEW q \in Queues, NEW e \in Exts, NEW status \in CtrlStatuses,
           dpc[q].pc = "idle", cmd[e] # NULL, cmd[e].q = q,
           cmd' = [cmd EXCEPT ![e] = NULL],
           dpc' = [dpc EXCEPT ![q] = [pc |-> "callback", srbext |-> e]],
           ext' = [ext EXCEPT ![e].NvmeCpl = status],
           ended' = [ended EXCEPT ![e] = status],
           UNCHANGED <<life, req, heap, cache, State, nsze, load, crashed, given, answer, sent, torn, selected>>
    PROVE  StepOf(e)
<1> USE DEF Typed
<1>1. /\ ext \in [Exts -> ExtType] /\ dpc \in DpcType
      /\ DOMAIN cmd = Exts /\ DOMAIN ended = Exts
  BY DEF TypeOK, ExtType, DpcType, ShapeInv
<1>2. ext' \in [Exts -> ExtType] /\ (\A x \in Exts \ {e} : ext'[x] = ext[x])
  BY <1>1, ExtUpdate
<1>3. /\ dpc' \in DpcType /\ dpc'[q] = [pc |-> "callback", srbext |-> e]
      /\ \A p \in Queues \ {q} : dpc'[p] = dpc[p]
  BY <1>1, DpcUpdate DEF DpcType
<1>4. DOMAIN cmd' = Exts /\ DOMAIN ended' = Exts /\ cmd'[e] = NULL /\ (\A x \in Exts \ {e} : cmd'[x] = cmd[x] /\ ended'[x] = ended[x])
  BY <1>1
<1>5. TypeOK'
  BY <1>2, <1>3, <1>4 DEF TypeOK, ExtType, DpcType
<1>6. ShapeInv'
  BY <1>4 DEF ShapeInv
<1>7. DpcInv'
  BY <1>3 DEF DpcInv
<1>8. dpc[q].srbext = NULL
  BY DEF DpcInv
<1>9. \A x \in Exts \ {e} : SameFor(x)
  BY <1>2, <1>3, <1>4, <1>8, NullFact DEF SameFor
<1> QED BY <1>5, <1>6, <1>7, <1>9 DEF StepOf, Onward

\* A DPC that is at work goes on to a step, with the same extension.
DpcGoes(q, step) ==
    /\ dpc' = [dpc EXCEPT ![q].pc = step]
    /\ UNCHANGED <<req, cmd, cache, State, nsze, load, sent, ended, torn, selected>>

\* A DPC that goes on keeps the types.
LEMMA GoesTypes ==
    ASSUME Typed, NEW q \in Queues, dpc[q].pc # "idle", NEW step \in {"complete", "cleanup"},
           DpcGoes(q, step),
           life' \in [Exts -> Srb], given' \in [Exts -> 0 .. 2], ext' \in [Exts -> ExtType],
           heap' \subseteq Blocks, DOMAIN answer' = Exts, crashed' \in BOOLEAN,
           NEW e, e = dpc[q].srbext,
           \A x \in Exts \ {e} : /\ given'[x] = given[x] /\ answer'[x] = answer[x] /\ ext'[x] = ext[x]
                                 /\ life'[x] = life[x],
           life'[e] \in {"storport", life[e]}
    PROVE  e \in Exts /\ StepOf(e)
<1> USE DEF Typed, DpcGoes
<1>1. dpc \in DpcType /\ e \in Exts
  BY DEF TypeOK, DpcType, DpcInv
<1>2. /\ dpc' \in DpcType /\ dpc'[q].pc = step /\ dpc'[q].srbext = e
      /\ \A p \in Queues \ {q} : dpc'[p] = dpc[p]
  BY <1>1, DpcUpdate DEF DpcType
<1>3. TypeOK'
  BY <1>2 DEF TypeOK, ExtType, DpcType
<1>4. ShapeInv'
  <2>1. life'[e] # "storport" => req[e] # NULL
    BY <1>1 DEF ShapeInv
  <2> QED BY <2>1 DEF ShapeInv
<1>5. DpcInv'
  BY <1>1, <1>2 DEF DpcInv
<1>6. \A x \in Exts \ {e} : SameFor(x)
  BY <1>2 DEF SameFor
<1> QED BY <1>1, <1>3, <1>4, <1>5, <1>6 DEF StepOf, Onward

\* The completion callback.
LEMMA CallbackTypes ==
    ASSUME Typed, NEW q \in Queues, DpcCallback(q)
    PROVE  dpc[q].srbext \in Exts /\ StepOf(dpc[q].srbext)
<1> DEFINE e == dpc[q].srbext
           reply == FirmwareReply(req[e], ext[e].NvmeCpl)
<1> USE DEF Typed
<1>1. /\ dpc[q].pc = "callback" /\ DpcGoes(q, "complete") /\ dpc[q].pc # "idle"
  BY DEF DpcCallback, DpcGoes
<1>2. e \in Exts
  BY <1>1 DEF DpcInv
<1>3. /\ ext \in [Exts -> ExtType] /\ heap \subseteq Blocks /\ DOMAIN answer = Exts
      /\ life \in [Exts -> Srb] /\ given \in [Exts -> 0 .. 2] /\ crashed \in BOOLEAN
  BY DEF TypeOK, ExtType, ShapeInv
<1>4. \/ CleanUp(e) /\ CompleteSrb(e, reply) /\ UNCHANGED crashed
      \/ UNCHANGED <<life, ext, heap, given, answer>> /\ crashed' \in BOOLEAN
  BY Zenon, <1>3 DEF DpcCallback
<1> HIDE DEF reply
<1>5. CASE CleanUp(e) /\ CompleteSrb(e, reply) /\ UNCHANGED crashed
  <2>1. /\ ext' \in [Exts -> ExtType] /\ heap' \subseteq Blocks
        /\ \A x \in Exts \ {e} : ext'[x] = ext[x]
    BY <1>2, <1>5, CleanUpFact
  <2>2. /\ life' \in [Exts -> Srb] /\ given' \in [Exts -> 0 .. 2]
        /\ \A x \in Exts \ {e} : given'[x] = given[x] /\ answer'[x] = answer[x] /\ life'[x] = life[x]
        /\ life'[e] = "storport" /\ DOMAIN answer' = Exts
    BY <1>2, <1>5, CompleteFact
  <2> QED BY <1>1, <1>2, <1>3, <1>5, <2>1, <2>2, GoesTypes
<1>6. CASE UNCHANGED <<life, ext, heap, given, answer>> /\ crashed' \in BOOLEAN
  BY <1>1, <1>2, <1>3, <1>6, GoesTypes
<1> QED BY <1>4, <1>5, <1>6

\* The completion.
LEMMA CompleteTypes ==
    ASSUME Typed, NEW q \in Queues, DpcCompleteSrb(q)
    PROVE  dpc[q].srbext \in Exts /\ StepOf(dpc[q].srbext)
<1> DEFINE e == dpc[q].srbext
           reply == Refused(NvmeToSrbStatus(ext[e].NvmeCpl))
<1> USE DEF Typed
<1>1. /\ dpc[q].pc = "complete" /\ DpcGoes(q, "cleanup") /\ dpc[q].pc # "idle"
      /\ CompleteSrb(e, reply) /\ UNCHANGED <<ext, heap, crashed>>
  BY DEF DpcCompleteSrb, DpcGoes
<1>2. e \in Exts
  BY <1>1 DEF DpcInv
<1>3. /\ ext \in [Exts -> ExtType] /\ heap \subseteq Blocks /\ crashed \in BOOLEAN
  BY DEF TypeOK, ExtType
<1> HIDE DEF reply
<1>4. /\ life' \in [Exts -> Srb] /\ given' \in [Exts -> 0 .. 2]
      /\ \A x \in Exts \ {e} : given'[x] = given[x] /\ answer'[x] = answer[x] /\ life'[x] = life[x]
      /\ life'[e] = "storport" /\ DOMAIN answer' = Exts
  BY <1>1, <1>2, CompleteFact
<1> QED BY <1>1, <1>2, <1>3, <1>4, GoesTypes

\* The clean-up, after which the DPC has let go of the extension.
LEMMA CleanUpTypes ==
    ASSUME Typed, NEW q \in Queues, DpcCleanUp(q)
    PROVE  dpc[q].srbext \in Exts /\ StepOf(dpc[q].srbext)
<1> DEFINE e == dpc[q].srbext
<1> USE DEF Typed
<1>1. /\ dpc[q].pc = "cleanup" /\ dpc' = [dpc EXCEPT ![q] = IdleDpc] /\ CleanUp(e)
      /\ UNCHANGED <<life, req, cmd, cache, State, nsze, load, crashed, given, answer, sent, ended, torn, selected>>
  BY DEF DpcCleanUp, history
<1>2. e \in Exts /\ dpc \in DpcType
  BY <1>1 DEF DpcInv, TypeOK, DpcType
<1>3. /\ dpc' \in DpcType /\ dpc'[q] = IdleDpc
      /\ \A p \in Queues \ {q} : dpc'[p] = dpc[p]
  BY <1>1, <1>2, DpcUpdate DEF DpcType
<1>4. /\ ext' \in [Exts -> ExtType] /\ heap' \subseteq Blocks
      /\ \A x \in Exts \ {e} : ext'[x] = ext[x]
  BY <1>1, <1>2, CleanUpFact
<1>5. TypeOK'
  BY <1>1, <1>3, <1>4 DEF TypeOK, ExtType, DpcType
<1>6. ShapeInv'
  BY <1>1 DEF ShapeInv
<1>7. DpcInv'
  BY <1>3 DEF DpcInv, IdleDpc
<1>8. \A x \in Exts \ {e} : SameFor(x)
  BY <1>1, <1>3, <1>4, NullFact DEF SameFor, IdleDpc
<1> QED BY <1>1, <1>2, <1>5, <1>6, <1>7, <1>8 DEF StepOf, Onward

(****************************************************************************)
(* HandsInv.                                                                *)
(****************************************************************************)

\* An extension the step does not touch stays in the same hands.
LEMMA Untouched ==
    ASSUME ~crashed, Typed, Onward, NEW x \in Exts, Hands(x), SameFor(x)
    PROVE  Hands(x)'
<1> USE DEF Hands
<1>1. DpcHas(x)' <=> DpcHas(x)
  BY DEF DpcHas, SameFor
<1>2. OwnerInv(x)'
  <2>1. \A q \in Queues : dpc'[q].srbext = x => dpc'[q] = dpc[q] /\ OwnerAt(x, dpc[q].pc)
    BY DEF SameFor, OwnerInv
  <2>2. \A step : OwnerAt(x, step) => OwnerAt(x, step)'
    BY DEF OwnerAt, SameFor
  <2>3. dpc'["adm"].srbext = x => dpc'["io"].srbext # x
    BY DEF SameFor, OwnerInv, Queues
  <2> QED BY <1>1, <2>1, <2>2, <2>3 DEF SameFor, OwnerInv
<1>3. RequestInv(x)'
  BY <1>1 DEF SameFor, RequestInv, InDriver
<1>4. CommandInv(x)'
  BY DEF SameFor, Onward, CommandInv, ReadWriteCommand, FirmwareCommand, InRange
<1>5. AnswerInv(x)'
  BY DEF SameFor, Onward, AnswerInv, InRange
<1> QED BY <1>2, <1>3, <1>4, <1>5

\* Storport passes a request in, or has it back at once.
LEMMA BuildHands ==
    ASSUME Typed, HandsInv, NEW e \in Exts \ torn', HwBuildIo(e)
    PROVE  Hands(e)'
<1> USE DEF Typed
<1>1. PICK r \in Workloads[load][e] :
          /\ req' = [req EXCEPT ![e] = r]
          /\ ext' = [ext EXCEPT ![e] = ZeroExt]
          /\ IF BuildIoStatus(r) = "PENDING"
             THEN /\ life' = [life EXCEPT ![e] = "built"]
                  /\ given' = [given EXCEPT ![e] = 0]
                  /\ answer' = [answer EXCEPT ![e] = NULL]
             ELSE /\ life' = life
                  /\ given' = [given EXCEPT ![e] = 1]
                  /\ answer' = [answer EXCEPT ![e] = Answered(Refused(BuildIoStatus(r)))]
  BY Zenon DEF HwBuildIo, InitSrbExt
<1>2. /\ life[e] = "storport" /\ sent' = sent \ {e} /\ cmd' = cmd /\ dpc' = dpc /\ e \notin torn
      /\ torn' = IF DpcHas(e) THEN torn \cup {e} ELSE torn
  BY DEF HwBuildIo
<1>3. ~DpcHas(e) /\ Hands(e)
  BY <1>2 DEF HandsInv
<1>4. cmd[e] = NULL
  BY <1>2, <1>3 DEF Hands, OwnerInv
<1>5. r # NULL
  BY RequestAssumption DEF TypeOK
<1>6. /\ req'[e] = r /\ ext'[e] = ZeroExt /\ e \notin sent' /\ cmd'[e] = NULL
      /\ \A q \in Queues : dpc'[q].srbext # e
  BY <1>1, <1>2, <1>3, <1>4 DEF DpcHas, TypeOK, ShapeInv
<1>7. \/ life'[e] = "built" /\ given'[e] = 0 /\ BuildIoStatus(r) = "PENDING"
      \/ life'[e] = "storport" /\ given'[e] = 1 /\ BuildIoStatus(r) # "PENDING"
  <2>1. life \in [Exts -> Srb] /\ given \in [Exts -> 0 .. 2]
    BY DEF TypeOK
  <2>2. CASE BuildIoStatus(r) = "PENDING"
    BY <1>1, <2>1, <2>2
  <2>3. CASE BuildIoStatus(r) # "PENDING"
    BY <1>1, <1>2, <2>1, <2>3
  <2> QED BY <2>2, <2>3
<1>8. ~DpcHas(e)'
  BY <1>6 DEF DpcHas
<1>9. OwnerInv(e)'
  BY <1>6, <1>7, <1>8 DEF OwnerInv, Queues
<1>10. RequestInv(e)'
  BY <1>5, <1>6, <1>7, <1>8 DEF RequestInv, InDriver, ZeroExt
<1>11. CommandInv(e)'
  BY <1>6 DEF CommandInv
<1>12. AnswerInv(e)'
  <2>1. ReadWriteRequest(r) /\ r.lun = 0 => BuildIoStatus(r) = "PENDING"
    BY DEF ReadWriteRequest, ScsiRequest, BuildIoStatus
  <2> QED BY <1>6, <1>7, <2>1 DEF AnswerInv
<1> QED BY <1>9, <1>10, <1>11, <1>12 DEF Hands

\* An extension that HwStartIo takes up is in no queue and in no DPC.
LEMMA BuiltHands ==
    ASSUME Typed, HandsInv, NEW e \in Exts \ torn, HwStartIo(e)
    PROVE  /\ life[e] = "built" /\ cmd[e] = NULL /\ ~DpcHas(e) /\ e \notin sent
           /\ ext[e] = ZeroExt /\ given[e] = 0 /\ BuildIoStatus(req[e]) = "PENDING"
           /\ req[e] # NULL
           /\ UNCHANGED <<req, dpc, State, nsze, load, ended, torn>>
           /\ ~DpcHas(e)' /\ \A q \in Queues : dpc'[q].srbext # e
<1>1. life[e] = "built" /\ UNCHANGED <<req, dpc, State, nsze, load, ended, torn>>
  BY DEF HwStartIo
<1>2. OwnerInv(e) /\ RequestInv(e)
  BY DEF HandsInv, Hands
<1>3. cmd[e] = NULL /\ ~DpcHas(e)
  BY <1>1, <1>2 DEF OwnerInv
<1> QED BY <1>1, <1>2, <1>3, BuiltRequest DEF RequestInv, DpcHas

\* The driver's own answer.
LEMMA ReplyHands ==
    ASSUME Typed, HandsInv, NEW e \in Exts \ torn, HwStartIo(e), StartIoReply(e)
    PROVE  Hands(e)'
<1>1. /\ life[e] = "built" /\ cmd[e] = NULL /\ e \notin sent /\ ext[e] = ZeroExt /\ given[e] = 0
      /\ req[e] # NULL /\ req' = req /\ ~DpcHas(e)' /\ \A q \in Queues : dpc'[q].srbext # e
  BY BuiltHands
<1>2. /\ Handler(req[e]) \notin {"ReadWrite", "GetInfo"} /\ CompleteSrb(e, OwnReply(req[e]))
      /\ UNCHANGED <<ext, cmd, heap, sent>>
  BY DEF StartIoReply
<1>3. life'[e] = "storport" /\ given'[e] = 1
  BY <1>1, <1>2, CompleteFact DEF Typed
<1>4. ~ReadWriteRequest(req[e])
  BY <1>2, HandlerFact
<1>5. OwnerInv(e)'
  BY <1>1, <1>2, <1>3 DEF OwnerInv, Queues
<1>6. RequestInv(e)'
  BY <1>1, <1>2, <1>3 DEF RequestInv, InDriver, ZeroExt
<1>7. CommandInv(e)' /\ AnswerInv(e)'
  BY <1>1, <1>2, <1>3, <1>4 DEF CommandInv, AnswerInv
<1> QED BY <1>5, <1>6, <1>7 DEF Hands

\* An INQUIRY without memory is answered, or the system has crashed in it.
LEMMA NoMemoryHands ==
    ASSUME Typed, HandsInv, NEW e \in Exts \ torn, HwStartIo(e), InquiryNoMemory(e)
    PROVE  Hands(e)'
<1>1. /\ life[e] = "built" /\ cmd[e] = NULL /\ e \notin sent /\ ext[e] = ZeroExt /\ given[e] = 0
      /\ req[e] # NULL /\ req' = req /\ ~DpcHas(e)' /\ \A q \in Queues : dpc'[q].srbext # e
      /\ BuildIoStatus(req[e]) = "PENDING" /\ Hands(e)
      /\ UNCHANGED <<dpc, State, nsze, load, ended, torn>>
  BY BuiltHands DEF HandsInv
<1>2. /\ Handler(req[e]) = "Inquiry6" /\ UNCHANGED <<ext, cmd, heap, cache, selected, sent>>
      /\ \/ CompleteSrb(e, Refused("INSUFFICIENT_RESOURCES"))
         \/ UNCHANGED <<life, given, answer>> /\ crashed' = TRUE
  BY DEF InquiryNoMemory
<1>3. ~ReadWriteRequest(req[e])
  BY <1>2, HandlerFact
<1>4. CASE CompleteSrb(e, Refused("INSUFFICIENT_RESOURCES"))
  <2>1. life'[e] = "storport" /\ given'[e] = 1
    BY <1>1, <1>4, CompleteFact DEF Typed
  <2>2. OwnerInv(e)'
    BY <1>1, <1>2, <2>1 DEF OwnerInv, Queues
  <2>3. RequestInv(e)'
    BY <1>1, <1>2, <2>1 DEF RequestInv, InDriver, ZeroExt
  <2>4. CommandInv(e)' /\ AnswerInv(e)'
    BY <1>1, <1>2, <1>3, <2>1 DEF CommandInv, AnswerInv
  <2> QED BY <2>2, <2>3, <2>4 DEF Hands
<1>5. CASE UNCHANGED <<life, given, answer>> /\ crashed' = TRUE
  <2>1. OwnerInv(e)'
    BY <1>1, <1>2, <1>5 DEF OwnerInv, Queues
  <2>2. RequestInv(e)'
    BY <1>1, <1>2, <1>5 DEF Hands, RequestInv, InDriver, ZeroExt
  <2>3. CommandInv(e)' /\ AnswerInv(e)'
    BY <1>1, <1>2, <1>3, <1>5 DEF CommandInv, AnswerInv
  <2> QED BY <2>1, <2>2, <2>3 DEF Hands
<1> QED BY <1>2, <1>4, <1>5

\* A request is refused as neither accepted nor busy only when the adapter is going away.
LEMMA SubmitStatusFact ==
    ASSUME NEW q
    PROVE  SubmitStatus(q) \in {"SUCCESS", "DEVICE_BUSY"} \/ State # "RUNNING"
BY DEF SubmitStatus

\* A read or a write goes to its queue, or is refused.
LEMMA ReadWriteHands ==
    ASSUME Typed, HandsInv, NEW e \in Exts \ torn, HwStartIo(e), ReadWrite(e)
    PROVE  Hands(e)'
<1> DEFINE r  == req[e]
           to(list) == BuiildCmd_ReadWrite(r, r.lba, BlocksAsked(r), ListPa(list))
<1>1. /\ life[e] = "built" /\ cmd[e] = NULL /\ e \notin sent /\ ext[e] = ZeroExt /\ given[e] = 0
      /\ BuildIoStatus(r) = "PENDING" /\ r # NULL /\ ~DpcHas(e)' /\ \A q \in Queues : dpc'[q].srbext # e
      /\ UNCHANGED <<req, dpc, State, nsze, load, ended, torn>>
  BY BuiltHands
<1>2. ReadWriteRequest(r) /\ Handler(r) = "ReadWrite" /\ ~FirmwareRequest(r)
  BY HandlerFact DEF ReadWrite
<1>3. ParseReadWriteOffsetAndLen(r) = [offset |-> r.lba, len |-> BlocksAsked(r)]
  BY <1>1, <1>2, BuiltRequest, TransferFact
<1>4. InRange(e)' <=> InRange(e)
  BY <1>1 DEF InRange
<1>5. CASE ~InRange(e) /\ CompleteSrb(e, Refused("ERROR")) /\ UNCHANGED <<ext, heap, cmd, sent>>
  <2>1. life'[e] = "storport" /\ given'[e] = 1
    BY <1>1, <1>5, CompleteFact DEF Typed
  <2>2. OwnerInv(e)' /\ RequestInv(e)'
    BY <1>1, <1>5, <2>1 DEF OwnerInv, RequestInv, InDriver, ZeroExt, Queues
  <2>3. CommandInv(e)' /\ AnswerInv(e)'
    BY <1>1, <1>4, <1>5, <2>1 DEF CommandInv, AnswerInv
  <2> QED BY <2>2, <2>3 DEF Hands
<1>6. ASSUME InRange(e), NEW list \in {NULL} \cup (Blocks \ heap),
             ext' = [ext EXCEPT ![e].Prp2VA = list],
             SubmitEnds(e, to(list), "BUSY", "ERROR"), to(list) \in Commands
      PROVE  Hands(e)'
  <2>1. ext'[e].Prp2VA = list /\ ext'[e].CompletionCB = NULL
    BY <1>1, <1>6 DEF Typed, TypeOK, ZeroExt
  <2> HIDE DEF to
  <2>2. CASE /\ life'[e] = "issued" /\ cmd'[e] = to(list) /\ e \in sent'
             /\ given' = given /\ answer' = answer
    <3>1. OwnerInv(e)'
      <4>1. cmd'[e] # NULL
        BY <1>6, <2>2, NullAssumption
      <4> QED BY <1>1, <2>2, <4>1 DEF OwnerInv, Queues
    <3>2. RequestInv(e)'
      BY <1>1, <1>2, <2>1, <2>2 DEF RequestInv, InDriver
    <3>3. cmd'[e] = ReadWriteCommand(e)'
      BY <1>1, <1>3, <2>1, <2>2 DEF to, ReadWriteCommand, ListPa
    <3>4. CommandInv(e)'
      BY <1>4, <1>6, <2>1, <3>3 DEF CommandInv
    <3>5. AnswerInv(e)'
      BY <1>1, <2>2 DEF AnswerInv
    <3> QED BY <3>1, <3>2, <3>4, <3>5 DEF Hands
  <2>3. CASE /\ life'[e] = "storport" /\ cmd' = cmd /\ sent' = sent
             /\ given[e] = 0 => given'[e] = 1
             /\ SubmitStatus(to(list).q) # "SUCCESS"
             /\ answer'[e] = Answered(Refused(IF SubmitStatus(to(list).q) = "DEVICE_BUSY"
                                              THEN "BUSY" ELSE "ERROR"))
    <3>1. OwnerInv(e)' /\ RequestInv(e)' /\ CommandInv(e)'
      BY <1>1, <1>2, <2>1, <2>3 DEF OwnerInv, RequestInv, CommandInv, InDriver, Queues
    <3>2. answer'[e].status = "ERROR" => State # "RUNNING"
      BY <2>3, SubmitStatusFact DEF Answered, Refused, Reply
    <3>3. AnswerInv(e)'
      BY <1>1, <2>3, <3>2 DEF AnswerInv
    <3> QED BY <3>1, <3>3 DEF Hands
  <2> QED BY <1>6, <2>2, <2>3, SubmitFact DEF Typed
<1> QED BY <1>1, <1>5, <1>6, ReadWriteFact

\* A request for the firmware slots goes to the admin queue, or is refused.
LEMMA GetInfoHands ==
    ASSUME Typed, HandsInv, NEW e \in Exts \ torn, HwStartIo(e), GetInfo(e)
    PROVE  Hands(e)'
<1> DEFINE r  == req[e]
           to(page) == BuildCmd_GetFirmwareSlotsInfo(IF page = NULL THEN 0 ELSE BlockAddr[page])
<1>1. /\ life[e] = "built" /\ cmd[e] = NULL /\ e \notin sent /\ ext[e] = ZeroExt /\ given[e] = 0
      /\ BuildIoStatus(r) = "PENDING" /\ r # NULL /\ ~DpcHas(e)' /\ \A q \in Queues : dpc'[q].srbext # e
      /\ UNCHANGED <<req, dpc, State, nsze, load, ended, torn>>
  BY BuiltHands
<1>2. Handler(r) = "GetInfo" /\ FirmwareRequest(r) /\ ~ReadWriteRequest(r)
  BY <1>1, HandlerFact, GetInfoFact
<1>3. PICK page \in {NULL} \cup (Blocks \ heap) :
          /\ ext' = [ext EXCEPT ![e].ExtBuf = page, ![e].CompletionCB = "FirmwareInfo"]
          /\ SubmitEnds(e, to(page), "INTERNAL_ERROR", "INTERNAL_ERROR")
          /\ to(page) \in Commands
  BY GetInfoFact
<1>4. ext'[e].ExtBuf = page /\ ext'[e].CompletionCB = "FirmwareInfo"
  BY <1>3 DEF Typed, TypeOK
<1> HIDE DEF to
<1>5. NULL \notin Commands /\ "FirmwareInfo" # NULL
  BY NullAssumption
<1>6. CASE /\ life'[e] = "issued" /\ cmd'[e] = to(page) /\ e \in sent'
           /\ given' = given /\ answer' = answer
  <2>1. cmd'[e] # NULL
    BY <1>3, <1>5, <1>6
  <2>2. OwnerInv(e)'
    BY <1>1, <1>6, <2>1 DEF OwnerInv, Queues
  <2>3. RequestInv(e)'
    BY <1>1, <1>2, <1>4, <1>5, <1>6 DEF RequestInv, InDriver
  <2>4. cmd'[e] = FirmwareCommand(e)'
    BY <1>4, <1>6 DEF to, FirmwareCommand
  <2>5. CommandInv(e)'
    BY <1>4, <1>5, <2>4 DEF CommandInv
  <2>6. AnswerInv(e)'
    BY <1>1, <1>2, <1>4, <1>5 DEF AnswerInv
  <2> QED BY <2>2, <2>3, <2>5, <2>6 DEF Hands
<1>7. CASE /\ life'[e] = "storport" /\ cmd' = cmd /\ sent' = sent
           /\ given[e] = 0 => given'[e] = 1
  <2>1. OwnerInv(e)' /\ RequestInv(e)' /\ CommandInv(e)'
    BY <1>1, <1>2, <1>7 DEF OwnerInv, RequestInv, CommandInv, InDriver, Queues
  <2>2. AnswerInv(e)'
    BY <1>1, <1>2, <1>4, <1>5 DEF AnswerInv
  <2> QED BY <2>1, <2>2 DEF Hands
<1> QED BY <1>3, <1>6, <1>7, SubmitFact DEF Typed

\* The DPC takes a command from the controller.
LEMMA PopHands ==
    ASSUME Typed, NEW q \in Queues, NEW e \in Exts, NEW status \in CtrlStatuses, Hands(e),
           dpc[q].pc = "idle", cmd[e] # NULL,
           cmd' = [cmd EXCEPT ![e] = NULL],
           dpc' = [dpc EXCEPT ![q] = [pc |-> "callback", srbext |-> e]],
           ext' = [ext EXCEPT ![e].NvmeCpl = status],
           ended' = [ended EXCEPT ![e] = status],
           UNCHANGED <<life, req, heap, cache, State, nsze, load, crashed, given, answer, sent, torn, selected>>
    PROVE  Hands(e)'
<1> USE DEF Typed
<1>1. /\ life[e] = "issued" /\ ~DpcHas(e) /\ e \in sent
  BY DEF Hands, OwnerInv, RequestInv, InDriver
<1>2. /\ cmd'[e] = NULL /\ ended'[e] = status
      /\ dpc'[q].srbext = e /\ dpc'[q].pc = "callback"
      /\ \A p \in Queues \ {q} : dpc'[p] = dpc[p] /\ dpc'[p].srbext # e
  BY <1>1 DEF ShapeInv, TypeOK, DpcHas
<1>3. ext'[e].NvmeCpl = status /\ ext'[e].CompletionCB = ext[e].CompletionCB
  BY DEF TypeOK
<1>4. DpcHas(e)'
  BY <1>2 DEF DpcHas
<1>5. OwnerInv(e)'
  BY <1>1, <1>2, <1>4 DEF OwnerInv, OwnerAt, Queues
<1>6. RequestInv(e)'
  BY <1>1, <1>3 DEF Hands, RequestInv
<1>7. CommandInv(e)' /\ AnswerInv(e)'
  BY <1>1, <1>2, <1>3 DEF CommandInv, AnswerInv
<1> QED BY <1>5, <1>6, <1>7 DEF Hands

\* An extension that a DPC with it goes on with is in no other hands.
LEMMA DpcAlone ==
    ASSUME Typed, ~crashed, NEW q \in Queues, NEW e \in Exts, Hands(e), dpc[q].srbext = e
    PROVE  /\ OwnerAt(e, dpc[q].pc) /\ cmd[e] = NULL /\ e \in sent /\ req[e] # NULL
           /\ Handler(req[e]) = IF ext[e].CompletionCB = NULL THEN "ReadWrite" ELSE "GetInfo"
           /\ ext[e].CompletionCB # NULL => FirmwareRequest(req[e])
           /\ ext[e].CompletionCB = NULL => ext[e].NvmeCpl = ended[e] /\ ~FirmwareRequest(req[e])
           /\ \A p \in Queues \ {q} : dpc[p].srbext # e
<1>1. DpcHas(e)
  BY DEF DpcHas
<1>2. OwnerAt(e, dpc[q].pc) /\ cmd[e] = NULL /\ e \in sent /\ req[e] # NULL
  BY <1>1 DEF Hands, OwnerInv, RequestInv, InDriver
<1>3. \A p \in Queues \ {q} : dpc[p].srbext # e
  BY DEF Hands, OwnerInv, Queues
<1>4. /\ Handler(req[e]) = IF ext[e].CompletionCB = NULL THEN "ReadWrite" ELSE "GetInfo"
      /\ ext[e].CompletionCB # NULL => FirmwareRequest(req[e])
      /\ ext[e].CompletionCB = NULL => ext[e].NvmeCpl = ended[e]
  BY <1>2 DEF Hands, RequestInv, AnswerInv
<1>5. ext[e].CompletionCB = NULL => ~FirmwareRequest(req[e])
  BY <1>4, HandlerFact
<1> QED BY <1>2, <1>3, <1>4, <1>5

\* The completion callback.
LEMMA CallbackHands ==
    ASSUME Typed, ~crashed, NEW q \in Queues, NEW e \in Exts, Hands(e), dpc[q].srbext = e, DpcCallback(q)
    PROVE  Hands(e)'
<1> DEFINE reply == FirmwareReply(req[e], ext[e].NvmeCpl)
<1>1. /\ OwnerAt(e, dpc[q].pc) /\ cmd[e] = NULL /\ e \in sent /\ req[e] # NULL
      /\ Handler(req[e]) = IF ext[e].CompletionCB = NULL THEN "ReadWrite" ELSE "GetInfo"
      /\ ext[e].CompletionCB # NULL => FirmwareRequest(req[e])
      /\ ext[e].CompletionCB = NULL => ext[e].NvmeCpl = ended[e] /\ ~FirmwareRequest(req[e])
      /\ \A p \in Queues \ {q} : dpc[p].srbext # e
  BY DpcAlone
<1>2. /\ dpc[q].pc = "callback" /\ dpc' = [dpc EXCEPT ![q].pc = "complete"]
      /\ UNCHANGED <<req, cmd, cache, State, nsze, load, sent, ended, torn, selected>>
  BY DEF DpcCallback
<1>3. life[e] = "issued"
  BY <1>1, <1>2 DEF OwnerAt
<1>4. given[e] = 0 /\ BuildIoStatus(req[e]) = "PENDING"
  BY <1>3 DEF Hands, RequestInv
<1>5. /\ dpc'[q].srbext = e /\ dpc'[q].pc = "complete"
      /\ \A p \in Queues \ {q} : dpc'[p].srbext # e
  BY <1>1, <1>2 DEF Typed, TypeOK
<1>6. DpcHas(e)'
  BY <1>5 DEF DpcHas
<1>7. ext[e].CompletionCB \in {NULL, "FirmwareInfo"} /\ "FirmwareInfo" # NULL
  BY NullAssumption DEF Typed, TypeOK
<1>8. \/ /\ ext[e].CompletionCB # NULL
         /\ \/ crashed' = TRUE /\ UNCHANGED <<life, ext, heap, given, answer>>
            \/ CleanUp(e) /\ CompleteSrb(e, reply) /\ UNCHANGED crashed
      \/ ext[e].CompletionCB = NULL /\ UNCHANGED <<life, ext, heap, given, answer, crashed>>
  BY <1>7 DEF DpcCallback
<1> HIDE DEF reply
<1>9. CASE ext[e].CompletionCB # NULL /\ crashed' = TRUE /\ UNCHANGED <<life, ext, heap, given, answer>>
  <2>1. OwnerInv(e)'
    BY <1>1, <1>2, <1>3, <1>5, <1>6, <1>9 DEF OwnerInv, OwnerAt, Queues
  <2>2. RequestInv(e)' /\ CommandInv(e)'
    BY <1>1, <1>2, <1>3, <1>4, <1>9 DEF RequestInv, CommandInv
  <2>3. AnswerInv(e)'
    BY <1>2, <1>3, <1>9 DEF AnswerInv
  <2> QED BY <2>1, <2>2, <2>3 DEF Hands
<1>10. CASE ext[e].CompletionCB # NULL /\ CleanUp(e) /\ CompleteSrb(e, reply) /\ UNCHANGED crashed
  <2>1. ext'[e].CompletionCB = ext[e].CompletionCB
    BY <1>10, CleanUpFact DEF Typed
  <2>2. life'[e] = "storport"
    BY <1>10, CompleteFact DEF Typed
  <2>3. OwnerInv(e)'
    BY <1>1, <1>2, <1>5, <1>10, <2>1, <2>2 DEF OwnerInv, OwnerAt, Queues
  <2>4. RequestInv(e)' /\ CommandInv(e)'
    BY <1>1, <1>2, <1>10, <2>1, <2>2 DEF RequestInv, CommandInv
  <2>5. AnswerInv(e)'
    BY <1>1, <1>2, <1>10, <2>1 DEF AnswerInv
  <2> QED BY <2>3, <2>4, <2>5 DEF Hands
<1>11. CASE ext[e].CompletionCB = NULL /\ UNCHANGED <<life, ext, heap, given, answer, crashed>>
  <2>1. OwnerInv(e)'
    BY <1>1, <1>2, <1>3, <1>5, <1>6, <1>11 DEF OwnerInv, OwnerAt, Queues
  <2>2. RequestInv(e)' /\ CommandInv(e)'
    BY <1>1, <1>2, <1>3, <1>4, <1>11 DEF RequestInv, CommandInv
  <2>3. AnswerInv(e)'
    BY <1>1, <1>2, <1>3, <1>11 DEF AnswerInv
  <2> QED BY <2>1, <2>2, <2>3 DEF Hands
<1> QED BY <1>8, <1>9, <1>10, <1>11

\* The completion.
LEMMA CompleteHands ==
    ASSUME Typed, ~crashed, NEW q \in Queues, NEW e \in Exts, Hands(e), dpc[q].srbext = e, DpcCompleteSrb(q)
    PROVE  Hands(e)'
<1> DEFINE reply == Refused(NvmeToSrbStatus(ext[e].NvmeCpl))
<1>1. /\ OwnerAt(e, dpc[q].pc) /\ cmd[e] = NULL /\ e \in sent /\ req[e] # NULL
      /\ Handler(req[e]) = IF ext[e].CompletionCB = NULL THEN "ReadWrite" ELSE "GetInfo"
      /\ ext[e].CompletionCB # NULL => FirmwareRequest(req[e])
      /\ ext[e].CompletionCB = NULL => ext[e].NvmeCpl = ended[e] /\ ~FirmwareRequest(req[e])
      /\ \A p \in Queues \ {q} : dpc[p].srbext # e
  BY DpcAlone
<1>2. /\ dpc[q].pc = "complete" /\ dpc' = [dpc EXCEPT ![q].pc = "cleanup"]
      /\ CompleteSrb(e, reply)
      /\ UNCHANGED <<req, ext, cmd, heap, cache, State, nsze, load, crashed, sent, ended, torn, selected>>
  BY DEF DpcCompleteSrb
<1> HIDE DEF reply
<1>3. ext[e].CompletionCB = NULL => given[e] = 0
  <2>1. ext[e].CompletionCB = NULL => life[e] = "issued"
    BY <1>1, <1>2 DEF OwnerAt
  <2> QED BY <2>1 DEF Hands, RequestInv
<1>4. life'[e] = "storport" /\ (given[e] = 0 => given'[e] = 1) /\ answer'[e] = Answered(reply)
  BY <1>2, CompleteFact DEF Typed
<1>5. /\ dpc'[q].srbext = e /\ dpc'[q].pc = "cleanup"
      /\ \A p \in Queues \ {q} : dpc'[p].srbext # e
  BY <1>1, <1>2 DEF Typed, TypeOK
<1>6. OwnerInv(e)'
  BY <1>1, <1>2, <1>4, <1>5 DEF OwnerInv, OwnerAt, Queues
<1>7. RequestInv(e)' /\ CommandInv(e)'
  BY <1>1, <1>2, <1>3, <1>4 DEF RequestInv, CommandInv
<1>8. AnswerInv(e)'
  BY <1>1, <1>2, <1>4 DEF AnswerInv, reply
<1> QED BY <1>6, <1>7, <1>8 DEF Hands

\* The clean-up, after which the extension is Storport's alone.
LEMMA CleanUpHands ==
    ASSUME Typed, ~crashed, NEW q \in Queues, NEW e \in Exts, Hands(e), dpc[q].srbext = e, DpcCleanUp(q)
    PROVE  Hands(e)' /\ ~DpcHas(e)'
<1>1. /\ OwnerAt(e, dpc[q].pc) /\ cmd[e] = NULL /\ e \in sent /\ req[e] # NULL
      /\ Handler(req[e]) = IF ext[e].CompletionCB = NULL THEN "ReadWrite" ELSE "GetInfo"
      /\ ext[e].CompletionCB # NULL => FirmwareRequest(req[e])
      /\ \A p \in Queues \ {q} : dpc[p].srbext # e
  BY DpcAlone
<1>2. /\ dpc[q].pc = "cleanup" /\ dpc' = [dpc EXCEPT ![q] = IdleDpc] /\ CleanUp(e)
      /\ UNCHANGED <<life, req, cmd, cache, State, nsze, load, crashed, given, answer, sent, ended, torn, selected>>
  BY DEF DpcCleanUp, history
<1>3. life[e] = "storport"
  BY <1>1, <1>2 DEF OwnerAt
<1>4. ext'[e].CompletionCB = ext[e].CompletionCB
  BY <1>2, CleanUpFact DEF Typed
<1>5. \A p \in Queues : dpc'[p].srbext # e
  BY <1>1, <1>2, NullFact DEF Typed, TypeOK, IdleDpc
<1>6. ~DpcHas(e)'
  BY <1>5 DEF DpcHas
<1>7. OwnerInv(e)'
  BY <1>1, <1>2, <1>3, <1>5, <1>6 DEF OwnerInv, Queues
<1>8. RequestInv(e)' /\ CommandInv(e)'
  BY <1>1, <1>2, <1>3, <1>4 DEF Hands, RequestInv, CommandInv
<1>9. AnswerInv(e)'
  <2>1. AnswerInv(e) /\ InRange(e)' = InRange(e)
    BY <1>2 DEF Hands, InRange
  <2> QED BY <1>2, <1>4, <1>5, <2>1 DEF AnswerInv
<1> QED BY <1>6, <1>7, <1>8, <1>9 DEF Hands

\* What DpcPop does with the extension it finds.
Popped(q, e) ==
    /\ dpc[q].pc = "idle" /\ cmd[e] # NULL /\ cmd[e].q = q
    /\ cmd' = [cmd EXCEPT ![e] = NULL]
    /\ dpc' = [dpc EXCEPT ![q] = [pc |-> "callback", srbext |-> e]]
    /\ \E status \in CtrlStatuses : /\ ext' = [ext EXCEPT ![e].NvmeCpl = status]
                                   /\ ended' = [ended EXCEPT ![e] = status]
    /\ UNCHANGED <<life, req, heap, cache, State, nsze, load, crashed, given, answer, sent, torn, selected>>

\* The steps there are, by the extension they are a step of.
ActionOf(e) ==
    \/ HwBuildIo(e)
    \/ HwStartIo(e) /\ StartIoReply(e)
    \/ HwStartIo(e) /\ InquiryNoMemory(e)
    \/ HwStartIo(e) /\ ReadWrite(e)
    \/ HwStartIo(e) /\ GetInfo(e)
    \/ \E q \in Queues : Popped(q, e)
    \/ \E q \in Queues : dpc[q].srbext = e /\ (DpcCallback(q) \/ DpcCompleteSrb(q) \/ DpcCleanUp(q))

\* Every step is one of one extension.
LEMMA NextIsOf ==
    ASSUME Typed, Next
    PROVE  ~crashed /\ \E e \in Exts : ActionOf(e) /\ StepOf(e)
<1>1. ~crashed
  BY DEF Next
<1>2. ASSUME NEW e \in Exts, HwBuildIo(e)
      PROVE  \E x \in Exts : ActionOf(x) /\ StepOf(x)
  BY <1>2, BuildTypes DEF ActionOf
<1>3. ASSUME NEW e \in Exts, HwStartIo(e)
      PROVE  \E x \in Exts : ActionOf(x) /\ StepOf(x)
  <2>1. StartIoReply(e) \/ InquiryNoMemory(e) \/ ReadWrite(e) \/ GetInfo(e)
    BY <1>3 DEF HwStartIo
  <2>2. StepOf(e)
    BY <1>3, <2>1, ReplyTypes, NoMemoryTypes, ReadWriteTypes, GetInfoTypes
  <2> QED BY <1>3, <2>1, <2>2 DEF ActionOf
<1>4. ASSUME NEW q \in Queues, DpcPop(q)
      PROVE  \E x \in Exts : ActionOf(x) /\ StepOf(x)
  <2>1. PICK e \in Exts, status \in CtrlStatuses :
            /\ cmd[e] # NULL /\ cmd[e].q = q
            /\ cmd' = [cmd EXCEPT ![e] = NULL]
            /\ dpc' = [dpc EXCEPT ![q] = [pc |-> "callback", srbext |-> e]]
            /\ ext' = [ext EXCEPT ![e].NvmeCpl = status]
            /\ ended' = [ended EXCEPT ![e] = status]
    BY Zenon, <1>4 DEF DpcPop
  <2>2. /\ dpc[q].pc = "idle"
        /\ UNCHANGED <<life, req, heap, cache, State, nsze, load, crashed, given, answer, sent, torn, selected>>
    BY <1>4 DEF DpcPop
  <2>3. StepOf(e)
    BY <2>1, <2>2, PopTypes
  <2>4. Popped(q, e)
    BY <2>1, <2>2 DEF Popped
  <2> QED BY <2>3, <2>4 DEF ActionOf
<1>5. ASSUME NEW q \in Queues, DpcCallback(q) \/ DpcCompleteSrb(q) \/ DpcCleanUp(q)
      PROVE  \E x \in Exts : ActionOf(x) /\ StepOf(x)
  <2>1. dpc[q].srbext \in Exts /\ StepOf(dpc[q].srbext)
    BY <1>5, CallbackTypes, CompleteTypes, CleanUpTypes
  <2> QED BY <1>5, <2>1 DEF ActionOf
<1> QED BY <1>1, <1>2, <1>3, <1>4, <1>5 DEF Next

\* The hands an extension is in after a step of its own.
LEMMA OwnStep ==
    ASSUME Typed, HandsInv, ~crashed, NEW e \in Exts, ActionOf(e), StepOf(e), e \notin torn'
    PROVE  Hands(e) /\ Hands(e)'
<1>1. e \notin torn /\ Hands(e)
  BY DEF HandsInv, StepOf, Onward
<1>2. ASSUME NEW q \in Queues, Popped(q, e) PROVE Hands(e)'
  <2>1. PICK status \in CtrlStatuses : /\ ext' = [ext EXCEPT ![e].NvmeCpl = status]
                                       /\ ended' = [ended EXCEPT ![e] = status]
    BY Zenon, <1>2 DEF Popped
  <2>2. /\ dpc[q].pc = "idle" /\ cmd[e] # NULL
        /\ cmd' = [cmd EXCEPT ![e] = NULL]
        /\ dpc' = [dpc EXCEPT ![q] = [pc |-> "callback", srbext |-> e]]
        /\ UNCHANGED <<life, req, heap, cache, State, nsze, load, crashed, given, answer, sent, torn, selected>>
    BY <1>2 DEF Popped
  <2> QED BY <1>1, <2>1, <2>2, PopHands
<1>3. ASSUME NEW q \in Queues, dpc[q].srbext = e, DpcCallback(q) \/ DpcCompleteSrb(q) \/ DpcCleanUp(q)
      PROVE  Hands(e)'
  BY <1>1, <1>3, CallbackHands, CompleteHands, CleanUpHands
<1> QED
  BY <1>1, <1>2, <1>3, BuildHands, ReplyHands, NoMemoryHands, ReadWriteHands, GetInfoHands DEF ActionOf

\* Every step leaves every extension that is not torn in hands that may have it.
LEMMA HandsStep ==
    ASSUME Typed, HandsInv, Next
    PROVE  Typed' /\ HandsInv'
<1>1. PICK e \in Exts : ActionOf(e) /\ StepOf(e)
  BY NextIsOf
<1>2. ~crashed
  BY NextIsOf
<1>3. Typed' /\ Onward /\ \A x \in Exts \ {e} : SameFor(x)
  BY <1>1 DEF StepOf
<1>4. ASSUME NEW x \in Exts \ torn' PROVE Hands(x)'
  <2>1. Hands(x)
    BY <1>3 DEF HandsInv, Onward
  <2>2. CASE x = e
    BY <1>1, <1>2, <2>2, OwnStep
  <2>3. CASE x # e
    BY <1>2, <1>3, <2>1, <2>3, Untouched
  <2> QED BY <2>2, <2>3
<1> QED BY <1>3, <1>4 DEF HandsInv

(****************************************************************************)
(* The memory of the commands: BuffersHeld and NothingKept.                 *)
(****************************************************************************)

\* A command has a list only where PRP2 points at it.
LEMMA ListFact ==
    ASSUME NEW va, NEW size, NEW listPa, BuildPrp(va, size, listPa).list # <<>>
    PROVE  listPa # 0 /\ BuildPrp(va, size, listPa).prp2 = listPa
BY DEF BuildPrp

\* What is left to show of the memory after a step of e, when what the others hold is the same.
LEMMA BuffersFrame ==
    ASSUME Typed, HandsInv', BuffersHeld, NEW e \in Exts, StepOf(e), torn' = {},
           heap \subseteq heap' \/ (InDriver(e) /\ heap \ Holds(e) \subseteq heap'),
           InDriver(e)' => /\ Holds(e)' \subseteq heap'
                           /\ \/ InDriver(e) /\ Holds(e)' \subseteq Holds(e)
                              \/ Holds(e)' \cap heap = {}
    PROVE  BuffersHeld'
<1>1. torn = {} /\ \A x \in Exts \ {e} : SameFor(x)
  BY DEF StepOf, Onward
<1>2. \A x \in Exts \ {e} : (InDriver(x)' <=> InDriver(x)) /\ Holds(x)' = Holds(x)
  BY <1>1 DEF SameFor, InDriver, DpcHas, Holds
<1>3. \A x \in Exts : InDriver(x) =>
          Holds(x) \subseteq heap /\ \A y \in Exts \ {x} : InDriver(y) => Holds(x) \cap Holds(y) = {}
  BY <1>1 DEF BuffersHeld
<1>4. ASSUME NEW x \in Exts, InDriver(x)'
      PROVE  Holds(x)' \subseteq heap'
  <2>1. CASE x = e
    BY <1>4, <2>1
  <2>2. CASE x # e
    <3>1. InDriver(x) /\ Holds(x)' = Holds(x) /\ Holds(x) \subseteq heap
      BY <1>2, <1>3, <1>4, <2>2
    <3>2. InDriver(e) => Holds(x) \cap Holds(e) = {}
      BY <1>3, <2>2, <3>1
    <3> QED BY <3>1, <3>2
  <2> QED BY <2>1, <2>2
<1>5. ASSUME NEW x \in Exts \ {e}, InDriver(x)', InDriver(e)'
      PROVE  Holds(x)' \cap Holds(e)' = {}
  <2>1. InDriver(x) /\ Holds(x)' = Holds(x) /\ Holds(x) \subseteq heap
    BY <1>2, <1>3, <1>5
  <2>2. InDriver(e) => Holds(x) \cap Holds(e) = {}
    BY <1>3, <2>1
  <2> QED BY <1>5, <2>1, <2>2
<1>6. ASSUME NEW x \in Exts, NEW y \in Exts \ {x}, InDriver(x)', InDriver(y)'
      PROVE  Holds(x)' \cap Holds(y)' = {}
  <2>1. CASE x = e
    <3>1. Holds(y)' \cap Holds(e)' = {}
      BY <1>5, <1>6, <2>1
    <3> QED BY <2>1, <3>1
  <2>2. CASE y = e
    BY <1>5, <1>6, <2>2
  <2>3. CASE x # e /\ y # e
    BY <1>2, <1>3, <1>6, <2>3
  <2> QED BY <2>1, <2>2, <2>3
<1>7. ASSUME NEW x \in Exts, cmd'[x] # NULL, cmd'[x].prp.list # <<>>
      PROVE  ext'[x].Prp2VA # NULL /\ cmd'[x].prp.prp2 = Pa(BlockAddr[ext'[x].Prp2VA])
  <2>1. CommandInv(x)'
    BY DEF HandsInv, Hands
  <2>2. CASE ext'[x].CompletionCB = NULL
    <3> DEFINE listPa == IF ext'[x].Prp2VA = NULL THEN 0 ELSE Pa(BlockAddr[ext'[x].Prp2VA])
    <3>1. cmd'[x] = ReadWriteCommand(x)'
      BY <1>7, <2>1, <2>2 DEF CommandInv
    <3>2. cmd'[x].prp = BuildPrp(req'[x].buf, req'[x].len, listPa)
      BY <3>1 DEF ReadWriteCommand, BuiildCmd_ReadWrite
    <3> HIDE DEF listPa
    <3>3. listPa # 0 /\ cmd'[x].prp.prp2 = listPa
      BY <1>7, <3>2, ListFact
    <3> QED BY <3>3 DEF listPa
  <2>3. CASE ext'[x].CompletionCB # NULL
    <3>1. cmd'[x] = FirmwareCommand(x)'
      BY <1>7, <2>1, <2>3 DEF CommandInv
    <3>2. PICK va : cmd'[x].prp = BuildPrp(va, LogPageSize, 0)
      BY <3>1 DEF FirmwareCommand, BuildCmd_GetFirmwareSlotsInfo
    <3> QED BY <1>7, <3>2, ListFact
  <2> QED BY <2>2, <2>3
<1> QED BY <1>4, <1>6, <1>7 DEF BuffersHeld

\* A step of the DPC that has e frees all the extension holds, or none of it.
LEMMA DpcFrees ==
    ASSUME Typed, NEW q \in Queues, NEW e \in Exts, dpc[q].srbext = e,
           DpcCallback(q) \/ DpcCompleteSrb(q) \/ DpcCleanUp(q)
    PROVE  /\ InDriver(e)
           /\ \/ heap' = heap /\ Holds(e)' = Holds(e)
              \/ heap' = heap \ Holds(e) /\ Holds(e)' = {}
           /\ DpcCleanUp(q) => Holds(e)' = {}
           /\ ~DpcCleanUp(q) => DpcHas(e)'
<1>1. InDriver(e)
  BY DEF InDriver, DpcHas
<1>2. ASSUME CleanUp(e)
      PROVE  heap' = heap \ Holds(e) /\ Holds(e)' = {}
  BY <1>2, CleanUpFact DEF Typed, Holds
<1>3. CASE DpcCallback(q)
  <2>1. CleanUp(e) \/ UNCHANGED <<ext, heap>>
    BY <1>3 DEF DpcCallback
  <2>2. dpc'[q].srbext = e /\ dpc'[q].pc = "complete"
    BY <1>3 DEF DpcCallback, Typed, TypeOK
  <2>3. ~DpcCleanUp(q)
    BY <1>3 DEF DpcCallback, DpcCleanUp
  <2> QED BY <1>1, <1>2, <2>1, <2>2, <2>3 DEF Holds, DpcHas
<1>4. CASE DpcCompleteSrb(q)
  <2>1. dpc'[q].srbext = e /\ UNCHANGED <<ext, heap>>
    BY <1>4 DEF DpcCompleteSrb, Typed, TypeOK
  <2>2. ~DpcCleanUp(q)
    BY <1>4 DEF DpcCompleteSrb, DpcCleanUp
  <2> QED BY <1>1, <2>1, <2>2 DEF Holds, DpcHas
<1>5. CASE DpcCleanUp(q)
  BY <1>1, <1>2, <1>5 DEF DpcCleanUp
<1> QED BY <1>3, <1>4, <1>5

\* BuffersHeld is kept by every step.
LEMMA BuffersStep ==
    ASSUME Typed, HandsInv, BuffersHeld, Next
    PROVE  BuffersHeld'
<1> SUFFICES ASSUME torn' = {} PROVE BuffersHeld'
  BY DEF BuffersHeld
<1>1. PICK e \in Exts : ActionOf(e) /\ StepOf(e)
  BY NextIsOf
<1>2. ~crashed /\ Typed' /\ HandsInv'
  BY NextIsOf, HandsStep
<1>3. Hands(e) /\ Hands(e)' /\ e \in Exts \ torn
  BY <1>1, <1>2, OwnStep DEF StepOf, Onward
<1>4. e \notin sent' => ~InDriver(e)'
  BY <1>3 DEF Hands, RequestInv
<1>5. InDriver(e) => Holds(e) \subseteq heap
  BY <1>1 DEF BuffersHeld, StepOf, Onward
<1>6. CASE HwBuildIo(e) \/ (HwStartIo(e) /\ (StartIoReply(e) \/ InquiryNoMemory(e)))
  <2>1. heap' = heap /\ e \notin sent'
    BY <1>3, <1>6, BuiltHands DEF HwBuildIo, StartIoReply, InquiryNoMemory
  <2> QED BY <1>1, <1>2, <1>4, <2>1, BuffersFrame
<1>7. CASE HwStartIo(e) /\ (ReadWrite(e) \/ GetInfo(e))
  <2>1. life[e] = "built" /\ ext[e] = ZeroExt /\ e \notin sent
    BY <1>3, <1>7, BuiltHands
  <2>2. ext \in [Exts -> ExtType] /\ NULL \notin heap
    BY NullFact DEF Typed, TypeOK, ExtType
  <2> DEFINE Goal == heap \subseteq heap' /\ (InDriver(e)' => Holds(e)' \subseteq heap' /\ Holds(e)' \cap heap = {})
  <2>3. CASE heap' = heap /\ sent' = sent
    BY <1>1, <1>2, <1>4, <2>1, <2>3, BuffersFrame
  <2>4. ASSUME NEW list \in {NULL} \cup (Blocks \ heap), ext' = [ext EXCEPT ![e].Prp2VA = list],
               heap' = heap \cup ({list} \ {NULL})
        PROVE  Goal
    <3>1. Holds(e)' = {list} \ {NULL}
      BY <2>1, <2>2, <2>4 DEF Holds, ZeroExt
    <3> QED BY <2>4, <3>1
  <2>5. ASSUME NEW page \in {NULL} \cup (Blocks \ heap),
               ext' = [ext EXCEPT ![e].ExtBuf = page, ![e].CompletionCB = "FirmwareInfo"],
               heap' = IF SubmitStatus("adm") = "SUCCESS" THEN heap \cup ({page} \ {NULL}) ELSE heap,
               SubmitEnds(e, BuildCmd_GetFirmwareSlotsInfo(IF page = NULL THEN 0 ELSE BlockAddr[page]),
                          "INTERNAL_ERROR", "INTERNAL_ERROR")
        PROVE  Goal
    <3>1. Holds(e)' = {page} \ {NULL}
      BY <2>1, <2>2, <2>5 DEF Holds, ZeroExt
    <3> DEFINE command == BuildCmd_GetFirmwareSlotsInfo(IF page = NULL THEN 0 ELSE BlockAddr[page])
    <3>2. command.q = "adm"
      BY DEF BuildCmd_GetFirmwareSlotsInfo
    <3> HIDE DEF command
    <3>3. SubmitEnds(e, command, "INTERNAL_ERROR", "INTERNAL_ERROR")
      BY <2>5 DEF command
    <3>4. e \in sent' => SubmitStatus("adm") = "SUCCESS"
      BY <2>1, <3>2, <3>3 DEF SubmitEnds
    <3>5. InDriver(e)' => SubmitStatus("adm") = "SUCCESS"
      BY <1>4, <3>4
    <3> QED BY <2>5, <3>1, <3>5
  <2>6. (heap' = heap /\ sent' = sent) \/ Goal
    <3> HIDE DEF Goal
    <3>1. CASE ReadWrite(e)
      BY <2>1, <2>4, <3>1, ReadWriteFact
    <3>2. CASE GetInfo(e)
      BY <2>5, <3>2, GetInfoFact
    <3> QED BY <1>7, <3>1, <3>2
  <2>7. CASE Goal
    BY <1>1, <1>2, <2>7, BuffersFrame
  <2> QED BY <2>3, <2>6, <2>7
<1>8. ASSUME NEW q \in Queues, Popped(q, e) PROVE BuffersHeld'
  <2>1. heap' = heap /\ InDriver(e)
    BY <1>8 DEF Popped, InDriver
  <2>2. Holds(e)' = Holds(e)
    BY <1>8 DEF Popped, Holds, Typed, TypeOK
  <2> QED BY <1>1, <1>2, <1>5, <2>1, <2>2, BuffersFrame
<1>9. ASSUME NEW q \in Queues, dpc[q].srbext = e, DpcCallback(q) \/ DpcCompleteSrb(q) \/ DpcCleanUp(q)
      PROVE  BuffersHeld'
  <2>1. /\ InDriver(e)
        /\ \/ heap' = heap /\ Holds(e)' = Holds(e)
           \/ heap' = heap \ Holds(e) /\ Holds(e)' = {}
    BY <1>9, DpcFrees
  <2> QED BY <1>1, <1>2, <1>5, <2>1, BuffersFrame
<1> QED BY <1>1, <1>6, <1>7, <1>8, <1>9 DEF ActionOf

\* NothingKept is kept by every step.
LEMMA NothingKeptStep ==
    ASSUME Typed, HandsInv, NothingKept, Next
    PROVE  NothingKept'
<1>1. PICK e \in Exts : ActionOf(e) /\ StepOf(e)
  BY NextIsOf
<1>2. ~crashed
  BY NextIsOf
<1>3. Onward /\ \A x \in Exts \ {e} : SameFor(x)
  BY <1>1 DEF StepOf
<1>4. \A x \in Exts \ {e} : /\ life'[x] = life[x] /\ Holds(x)' = Holds(x) /\ (DpcHas(x)' <=> DpcHas(x))
                            /\ x \in sent' <=> x \in sent
  BY <1>3 DEF SameFor, Holds, DpcHas
<1>5. ASSUME e \in sent', e \notin torn', life'[e] = "storport", ~DpcHas(e)'
      PROVE  Holds(e)' = {}
  <2>1. Hands(e) /\ Hands(e)' /\ e \in Exts \ torn
    BY <1>1, <1>2, <1>3, <1>5, OwnStep DEF Onward
  <2>2. ~HwBuildIo(e)
    BY <1>5 DEF HwBuildIo
  <2>3. ~(HwStartIo(e) /\ (StartIoReply(e) \/ InquiryNoMemory(e)))
    BY <1>5, <2>1, BuiltHands DEF StartIoReply, InquiryNoMemory
  <2>4. ~(HwStartIo(e) /\ (ReadWrite(e) \/ GetInfo(e)))
    <3> SUFFICES ASSUME HwStartIo(e), ReadWrite(e) \/ GetInfo(e) PROVE FALSE
      OBVIOUS
    <3>1. e \notin sent /\ life[e] = "built"
      BY <2>1, BuiltHands
    <3>2. ASSUME NEW command, NEW busy, NEW other, SubmitEnds(e, command, busy, other)
          PROVE  FALSE
      BY <1>5, <3>1, <3>2, SubmitFact DEF Typed
    <3>3. sent' # sent
      BY <1>5, <3>1
    <3> QED BY <3>1, <3>2, <3>3, ReadWriteFact, GetInfoFact
  <2>5. ASSUME NEW q \in Queues PROVE ~Popped(q, e)
    <3> SUFFICES ASSUME Popped(q, e) PROVE FALSE
      OBVIOUS
    <3>1. dpc'[q].srbext = e
      BY DEF Popped, Typed, TypeOK
    <3> QED BY <1>5, <3>1 DEF DpcHas
  <2>6. ASSUME NEW q \in Queues, dpc[q].srbext = e, DpcCallback(q) \/ DpcCompleteSrb(q) \/ DpcCleanUp(q)
        PROVE  Holds(e)' = {}
    BY <1>5, <2>6, DpcFrees
  <2> QED BY <1>1, <2>2, <2>3, <2>4, <2>5, <2>6 DEF ActionOf
<1>6. ASSUME NEW x \in sent' \ torn', life'[x] = "storport", ~DpcHas(x)'
      PROVE  Holds(x)' = {}
  <2>1. x \in Exts
    BY <1>1 DEF StepOf, Typed, TypeOK
  <2>2. CASE x = e
    BY <1>5, <1>6, <2>2
  <2>3. CASE x # e
    BY <1>3, <1>4, <1>6, <2>1, <2>3 DEF NothingKept, Onward
  <2> QED BY <2>2, <2>3
<1> QED BY <1>6 DEF NothingKept

(****************************************************************************)
(* The driver's own replies: CapacityMatchesRange, RepliesFit and CacheInv. *)
(****************************************************************************)

\* Which function makes the reply.
LEMMA OwnReplyFact ==
    ASSUME NEW r, ScsiRequest(r), ~ReadWriteRequest(r)
    PROVE  /\ r.op = "INQUIRY" => OwnReply(r) = Scsi_Inquiry6(r)
           /\ r.op = "MODE_SENSE" => OwnReply(r) = Scsi_ModeSense6(r, cache)
           /\ r.op = "MODE_SELECT" => OwnReply(r) = Scsi_ModeSelect6(r)
           /\ r.op \in {"READ_CAPACITY", "READ_CAPACITY16"} =>
                 OwnReply(r) \in {Scsi_ReadCapacity10(r, State = "RUNNING", nsze),
                                  Scsi_ReadCapacity16(r, State = "RUNNING", nsze)}
           /\ r.op \notin {"INQUIRY", "MODE_SENSE", "MODE_SELECT", "READ_CAPACITY", "READ_CAPACITY16"} =>
                 OwnReply(r) = Refused("INVALID_REQUEST")
<1> DEFINE h == Handler(r)
<1>1. /\ r.op = "INQUIRY" <=> h = "Inquiry6"
      /\ r.op = "MODE_SENSE" <=> h = "ModeSense6"
      /\ r.op = "MODE_SELECT" <=> h = "ModeSelect6"
      /\ r.op = "READ_CAPACITY" <=> h = "ReadCapacity10"
      /\ r.op = "READ_CAPACITY16" <=> h = "ReadCapacity16"
      /\ h \in {"ModeSelect6", "ModeSense6", "Inquiry6", "ReadCapacity10", "ReadCapacity16", "Refuse"}
  BY DispatchFact, HandlerFact
<1>2. h = "Inquiry6" => OwnReply(r) = Scsi_Inquiry6(r)
  BY DEF OwnReply
<1>3. h = "ModeSense6" => OwnReply(r) = Scsi_ModeSense6(r, cache)
  BY DEF OwnReply
<1>4. h = "ModeSelect6" => OwnReply(r) = Scsi_ModeSelect6(r)
  BY DEF OwnReply
<1>5. h = "ReadCapacity10" => OwnReply(r) = Scsi_ReadCapacity10(r, State = "RUNNING", nsze)
  BY DEF OwnReply
<1>6. h = "ReadCapacity16" => OwnReply(r) = Scsi_ReadCapacity16(r, State = "RUNNING", nsze)
  BY DEF OwnReply
<1>7. h = "Refuse" => OwnReply(r) = Refused("INVALID_REQUEST")
  BY DEF OwnReply
<1> QED BY Zenon, <1>1, <1>2, <1>3, <1>4, <1>5, <1>6, <1>7

\* What the reply leaves in the buffer.
LEMMA OwnReplyFits ==
    ASSUME NEW r, ScsiRequest(r), ~ReadWriteRequest(r), r.len \in Nat, nsze \in NszeValues
    PROVE  /\ ~(r.op = "INQUIRY" /\ r.page = "SERIAL_NUMBER") => Fits(OwnReply(r), r.len)
           /\ r.op = "MODE_SENSE" /\ OwnReply(r).status = "SUCCESS" =>
                 /\ OwnReply(r).value.length = OwnReply(r).ret - 1
                 /\ OwnReply(r).value.bits \in {NULL, FillModePage_Caching(cache)}
           /\ r.op \in {"READ_CAPACITY", "READ_CAPACITY16"} /\ OwnReply(r).status = "SUCCESS" =>
                 OwnReply(r).value = nsze - 1
<1> DEFINE working == State = "RUNNING"
<1>1. nsze \in 1 .. Word64 - 1 /\ nsze \in 1 .. Word64
  BY RequestAssumption, WidthAssumption
<1>2. CASE r.op \in {"READ_CAPACITY", "READ_CAPACITY16"}
  <2>1. \A reply \in {Scsi_ReadCapacity10(r, working, nsze), Scsi_ReadCapacity16(r, working, nsze)} :
            Fits(reply, r.len) /\ (reply.status = "SUCCESS" => reply.value = nsze - 1)
    BY <1>1, ReadCapacityExact
  <2>2. OwnReply(r) \in {Scsi_ReadCapacity10(r, working, nsze), Scsi_ReadCapacity16(r, working, nsze)}
    BY Zenon, <1>2, OwnReplyFact
  <2> HIDE DEF working
  <2> QED BY <1>2, <2>1, <2>2
<1>3. CASE r.op = "MODE_SENSE"
  BY <1>3, OwnReplyFact, ModeSenseFits
<1>4. CASE r.op = "MODE_SELECT"
  BY <1>4, OwnReplyFact, ModeSelectFits
<1>5. CASE r.op = "INQUIRY"
  BY <1>5, OwnReplyFact, InquiryFits
<1>6. CASE r.op \notin {"INQUIRY", "MODE_SENSE", "MODE_SELECT", "READ_CAPACITY", "READ_CAPACITY16"}
  <2>1. Fits(Refused("INVALID_REQUEST"), r.len)
    BY RefusedFits
  <2>2. OwnReply(r) = Refused("INVALID_REQUEST")
    BY <1>6, OwnReplyFact
  <2> QED BY <1>6, <2>1, <2>2
<1> QED BY <1>2, <1>3, <1>4, <1>5, <1>6

\* The block after the last one is the first that the range check refuses.
LEMMA LastBlock ==
    ASSUME nsze \in NszeValues
    PROVE  IsInValidIoRange(1, nsze, nsze - 1, 1) /\ ~IsInValidIoRange(1, nsze, (nsze - 1) + 1, 1)
<1>1. Word64 \in Nat /\ nsze \in 1 .. Word64 - 1
  BY RequestAssumption, WidthAssumption
<1>2. nsze - 1 \in Nat /\ (nsze - 1) + 1 \in Nat /\ nsze \in 1 .. Word64 /\ 1 \in Nat \ {0}
      /\ (nsze - 1) + 1 + 1 <= Word64 /\ (nsze - 1) + 1 <= nsze /\ ~((nsze - 1) + 1 + 1 <= nsze)
  BY <1>1
<1> QED BY <1>2, RangeCheckExact

\* A request that a queue has accepted and that is for the disk is a read or a write.
LEMMA SentFact ==
    ASSUME NEW e, Hands(e), e \in sent, ScsiRequest(req[e])
    PROVE  ReadWriteRequest(req[e])
<1>1. Handler(req[e]) = "ReadWrite" \/ Handler(req[e]) = "GetInfo"
  BY DEF Hands, RequestInv
<1> QED BY <1>1, HandlerFact, DispatchFact

\* Only HwBuildIo and the driver's own replies answer a request that is not for the controller.
LEMMA OwnReplyRight ==
    ASSUME Typed, HandsInv, RepliesInv, ~crashed, NEW e \in Exts, ActionOf(e), StepOf(e), e \notin torn'
    PROVE  ReplyRight(e)'
<1>1. Hands(e) /\ Hands(e)' /\ e \in Exts \ torn
  BY OwnStep DEF StepOf, Onward
<1> SUFFICES ASSUME answer'[e] # NULL, ScsiRequest(req'[e]) PROVE ReplyRight(e)'
  BY DEF ReplyRight
<1>2. CASE ReadWriteRequest(req'[e])
  BY <1>2 DEF ReplyRight, ReadWriteRequest, ReadOps, WriteOps
<1> SUFFICES ASSUME ~ReadWriteRequest(req'[e]) PROVE ReplyRight(e)'
  BY <1>2
<1>3. e \notin sent'
  <2> SUFFICES ASSUME e \in sent' PROVE FALSE
    OBVIOUS
  <2>1. Handler(req'[e]) = "ReadWrite" \/ Handler(req'[e]) = "GetInfo"
    BY <1>1 DEF Hands, RequestInv
  <2> QED BY <2>1, HandlerFact, DispatchFact
<1>4. req'[e] # NULL /\ load' \in DOMAIN Workloads /\ req'[e] \in Workloads[load'][e]
  BY <1>1 DEF StepOf, Typed, TypeOK, Hands, RequestInv
<1>5. req'[e].len \in Nat
  BY <1>4, TransferAssumption
<1>6. CASE HwBuildIo(e)
  <2>1. PICK r \in Workloads[load][e] :
          /\ req' = [req EXCEPT ![e] = r]
          /\ IF BuildIoStatus(r) = "PENDING"
             THEN answer' = [answer EXCEPT ![e] = NULL]
             ELSE answer' = [answer EXCEPT ![e] = Answered(Refused(BuildIoStatus(r)))]
    BY Zenon, <1>6 DEF HwBuildIo
  <2>2. req'[e] = r
    BY <2>1 DEF Typed, ShapeInv
  <2>3. BuildIoStatus(r) \in {"PENDING", "INVALID_LUN"}
    BY <2>2 DEF BuildIoStatus, ScsiRequest
  <2>4. answer'[e] = Answered(Refused("INVALID_LUN"))
    BY <2>1, <2>3 DEF Typed, ShapeInv
  <2>5. answer'[e].status = "INVALID_LUN" /\ answer'[e].wrote = 0
    BY <2>4 DEF Answered, Refused, Reply
  <2> QED BY <1>5, <2>5 DEF ReplyRight
<1>7. CASE HwStartIo(e) /\ StartIoReply(e)
  <2>1. req' = req /\ nsze' = nsze /\ CompleteSrb(e, OwnReply(req[e]))
    BY <1>7 DEF HwStartIo, StartIoReply
  <2>2. answer'[e] = Answered(OwnReply(req[e]))
    BY <2>1, CompleteFact DEF Typed
  <2>3. nsze \in NszeValues
    BY DEF Typed, TypeOK
  <2> DEFINE reply == OwnReply(req[e])
  <2>4. /\ answer'[e].status = reply.status /\ answer'[e].ret = reply.ret
        /\ answer'[e].wrote = reply.wrote /\ answer'[e].value = reply.value
    BY <2>2 DEF Answered
  <2>5. /\ ~(req[e].op = "INQUIRY" /\ req[e].page = "SERIAL_NUMBER") => Fits(reply, req[e].len)
        /\ req[e].op = "MODE_SENSE" /\ reply.status = "SUCCESS" => reply.value.length = reply.ret - 1
        /\ req[e].op \in {"READ_CAPACITY", "READ_CAPACITY16"} /\ reply.status = "SUCCESS" => reply.value = nsze - 1
    BY <1>5, <2>1, <2>3, OwnReplyFits
  <2> HIDE DEF reply
  <2> QED BY <2>1, <2>4, <2>5 DEF ReplyRight, Fits
<1>8. CASE HwStartIo(e) /\ InquiryNoMemory(e)
  <2>1. req' = req /\ nsze' = nsze /\ sent' = sent /\ Handler(req[e]) = "Inquiry6"
    BY <1>8 DEF HwStartIo, InquiryNoMemory
  <2>2. req[e].op = "INQUIRY"
    BY <2>1, HandlerFact, DispatchFact
  <2>3. CASE CompleteSrb(e, Refused("INSUFFICIENT_RESOURCES"))
    <3>1. answer'[e] = Answered(Refused("INSUFFICIENT_RESOURCES"))
      BY <2>3, CompleteFact DEF Typed
    <3>2. answer'[e].status = "INSUFFICIENT_RESOURCES" /\ answer'[e].wrote = 0
      BY <3>1 DEF Answered, Refused, Reply
    <3> QED BY <1>5, <3>2 DEF ReplyRight
  <2>4. CASE answer' = answer
    <3>1. ReplyRight(e)
      BY <1>1 DEF RepliesInv
    <3> QED BY <2>1, <2>4, <3>1 DEF ReplyRight
  <2> QED BY <1>8, <2>3, <2>4 DEF InquiryNoMemory
<1>9. CASE HwStartIo(e) /\ (ReadWrite(e) \/ GetInfo(e))
  <2>1. req' = req /\ BuildIoStatus(req[e]) = "PENDING"
    BY <1>1, <1>9, BuiltHands
  <2>2. Handler(req[e]) = "ReadWrite" \/ Handler(req[e]) = "GetInfo"
    BY <1>9 DEF ReadWrite, GetInfo
  <2> QED BY <2>1, <2>2, HandlerFact
<1>10. ASSUME NEW q \in Queues, Popped(q, e) PROVE ReplyRight(e)'
  <2>1. e \in sent /\ sent' = sent
    BY <1>1, <1>10 DEF Popped, Hands, RequestInv, InDriver
  <2> QED BY <1>3, <2>1
<1>11. ASSUME NEW q \in Queues, dpc[q].srbext = e, DpcCallback(q) \/ DpcCompleteSrb(q) \/ DpcCleanUp(q)
       PROVE  ReplyRight(e)'
  <2>1. e \in sent
    BY <1>1, <1>11 DEF Hands, RequestInv, InDriver, DpcHas
  <2>2. sent' = sent
    BY <1>11 DEF DpcCallback, DpcCompleteSrb, DpcCleanUp, history
  <2> QED BY <1>3, <2>1, <2>2
<1> QED BY <1>6, <1>7, <1>8, <1>9, <1>10, <1>11 DEF ActionOf

\* RepliesInv is kept by every step.
LEMMA RepliesStep ==
    ASSUME Typed, HandsInv, RepliesInv, Next
    PROVE  RepliesInv'
<1>1. PICK e \in Exts : ActionOf(e) /\ StepOf(e)
  BY NextIsOf
<1>2. ~crashed
  BY NextIsOf
<1>3. Onward /\ \A x \in Exts \ {e} : SameFor(x)
  BY <1>1 DEF StepOf
<1>4. ASSUME NEW x \in Exts \ torn' PROVE ReplyRight(x)'
  <2>1. CASE x = e
    BY <1>1, <1>2, <2>1, OwnReplyRight
  <2>2. CASE x # e
    <3>1. SameFor(x) /\ nsze' = nsze /\ ReplyRight(x)
      BY <1>3, <2>2 DEF RepliesInv, Onward
    <3> QED BY <3>1 DEF ReplyRight, SameFor
  <2> QED BY <2>1, <2>2
<1> QED BY <1>4 DEF RepliesInv

\* A MODE SELECT whose pages end in the buffer leaves the driver with what it asked for.
LEMMA SelectedIsAsked ==
    ASSUME NEW r, PagesFollow(r), ~RunsPast(r), NEW c
    PROVE  SelectedCache(r, c) = CacheAsked(r, c)
<1> DEFINE seen == CachingSeen(r)
<1>1. seen = {i \in DOMAIN r.pages :
                 /\ r.pages[i].code = "CACHING" /\ r.pages[i].length = CachingSize - 2
                 /\ r.pages[i].end <= r.len
                 /\ \A j \in 1 .. i : r.pages[j].length # 0}
  BY CachingSeenExact
<1> QED BY Zenon, <1>1 DEF SelectedCache, CacheAsked

\* CacheInv is kept by every step.
LEMMA CacheStep ==
    ASSUME Typed, CacheInv, Next
    PROVE  CacheInv'
<1>1. PICK e \in Exts : ActionOf(e)
  BY NextIsOf
<1>2. CASE HwStartIo(e) /\ StartIoReply(e)
  <2> DEFINE r == req[e]
  <2>1. \/ UNCHANGED <<cache, selected>>
        \/ selected' = cache'
        \/ /\ Handler(r) = "ModeSelect6" /\ ~RunsPast(r)
           /\ cache' = SelectedCache(r, cache) /\ selected' = CacheAsked(r, selected)
    BY Zenon, <1>2 DEF StartIoReply
  <2>2. ASSUME Handler(r) = "ModeSelect6" PROVE PagesFollow(r)
    <3>1. ScsiRequest(r) /\ r.op = "MODE_SELECT"
      BY <2>2, HandlerFact, DispatchFact
    <3>2. load \in DOMAIN Workloads /\ r \in Workloads[load][e]
      BY <1>2, BuiltRequest DEF HwStartIo
    <3> QED BY <3>1, <3>2, TransferAssumption
  <2>3. Handler(r) = "ModeSelect6" /\ ~RunsPast(r) => SelectedCache(r, cache) = CacheAsked(r, cache)
    BY <2>2, SelectedIsAsked
  <2> QED BY <2>1, <2>3 DEF CacheInv
<1>3. CASE HwStartIo(e) /\ (InquiryNoMemory(e) \/ ReadWrite(e) \/ GetInfo(e))
  BY <1>3 DEF InquiryNoMemory, ReadWrite, GetInfo, CacheInv
<1>4. CASE HwBuildIo(e)
  BY <1>4 DEF HwBuildIo, CacheInv
<1>5. ASSUME NEW q \in Queues, Popped(q, e) \/ DpcCallback(q) \/ DpcCompleteSrb(q) \/ DpcCleanUp(q)
      PROVE  CacheInv'
  BY <1>5 DEF Popped, DpcCallback, DpcCompleteSrb, DpcCleanUp, CacheInv, history
<1> QED BY <1>1, <1>2, <1>3, <1>4, <1>5 DEF ActionOf

(****************************************************************************)
(* The invariant.                                                           *)
(****************************************************************************)

\* The invariant holds at first.
LEMMA InitIInv == Init => IInv
<1> SUFFICES ASSUME Init PROVE IInv
  OBVIOUS
<1> USE DEF Init
<1>1. \A e \in Exts : req[e] = NULL /\ cmd[e] = NULL /\ life[e] = "storport" /\ ext[e] = ZeroExt /\ answer[e] = NULL
  OBVIOUS
<1>2. \A q \in Queues : dpc[q] = IdleDpc
  OBVIOUS
<1>3. \A e \in Exts : ~DpcHas(e)
  BY <1>2, NullFact DEF DpcHas, IdleDpc
<1>4. TypeOK
  <2>1. ZeroExt \in ExtType
    BY DEF ZeroExt, ExtType
  <2>2. ext \in [Exts -> ExtType]
    BY <2>1
  <2>3. dpc \in DpcType
    BY DEF DpcType, IdleDpc
  <2>4. life \in [Exts -> Srb] /\ given \in [Exts -> 0 .. 2]
    BY DEF Srb
  <2>5. {cache, selected} \subseteq [read : BOOLEAN, write : BOOLEAN]
    OBVIOUS
  <2> QED BY <1>1, <2>2, <2>3, <2>4, <2>5 DEF TypeOK, ExtType, DpcType
<1>5. ShapeInv /\ DpcInv
  BY <1>1, <1>2 DEF ShapeInv, DpcInv, IdleDpc
<1>6. HandsInv
  <2> SUFFICES ASSUME NEW e \in Exts \ torn PROVE Hands(e)
    BY DEF HandsInv
  <2>1. OwnerInv(e)
    BY <1>1, <1>2, <1>3 DEF OwnerInv, DpcHas, Queues
  <2>2. RequestInv(e)
    BY <1>1, <1>3 DEF RequestInv, InDriver, ZeroExt
  <2>3. CommandInv(e) /\ AnswerInv(e)
    BY <1>1, <1>3 DEF CommandInv, AnswerInv, DpcHas
  <2> QED BY <2>1, <2>2, <2>3 DEF Hands
<1>7. BuffersHeld /\ NothingKept /\ RepliesInv /\ CacheInv
  BY <1>1, <1>3 DEF BuffersHeld, NothingKept, RepliesInv, ReplyRight, CacheInv, InDriver
<1> QED BY <1>4, <1>5, <1>6, <1>7 DEF IInv

\* The invariant holds if nothing changes.
LEMMA StutterIInv == IInv /\ UNCHANGED vars => IInv'
<1> SUFFICES ASSUME IInv, UNCHANGED vars PROVE IInv'
  OBVIOUS
<1> USE DEF vars, history
<1>1. TypeOK' /\ ShapeInv' /\ DpcInv' /\ CacheInv'
  BY DEF IInv, TypeOK, ShapeInv, DpcInv, CacheInv
<1>2. HandsInv'
  BY DEF IInv, HandsInv, Hands, OwnerInv, OwnerAt, RequestInv, CommandInv, AnswerInv, InDriver, DpcHas,
         ReadWriteCommand, FirmwareCommand, InRange
<1>3. BuffersHeld' /\ NothingKept' /\ RepliesInv'
  BY DEF IInv, BuffersHeld, NothingKept, RepliesInv, ReplyRight, InDriver, DpcHas, Holds
<1> QED BY <1>1, <1>2, <1>3 DEF IInv

\* The inductive invariant holds in every state.
THEOREM Invariance == Spec => []IInv
<1>1. ASSUME IInv, Next PROVE IInv'
  <2>1. Typed
    BY <1>1 DEF IInv, Typed
  <2> QED BY <1>1, <2>1, HandsStep, BuffersStep, NothingKeptStep, RepliesStep, CacheStep DEF IInv, Typed
<1>2. IInv /\ [Next]_vars => IInv'
  BY <1>1, StutterIInv
<1> QED BY <1>2, InitIInv, PTL DEF Spec

(****************************************************************************)
(* What follows from it.                                                    *)
(****************************************************************************)

\* TypeOK, in every state.
THEOREM TypeCorrect == Spec => []TypeOK
<1>1. IInv => TypeOK
  BY DEF IInv
<1> QED BY <1>1, Invariance, PTL

\* HwBuildIo, HwStartIo and CompleteCmd between them complete a request once, however many
\* extensions, queues' DPCs and workloads there are.
THEOREM OneAnswer == Spec => []AnsweredOnce
<1>1. IInv => AnsweredOnce
  BY DEF IInv, HandsInv, Hands, RequestInv, AnsweredOnce
<1> QED BY <1>1, Invariance, PTL

\* A request that is PENDING is in a queue or in a DPC, and in no other hands.
THEOREM NoneOrphaned == Spec => []NoOrphan
<1>1. ASSUME IInv, ~crashed, NEW e \in Exts \ torn
      PROVE  life[e] = "issued" <=>
                \/ cmd[e] # NULL
                \/ \E q \in Queues : /\ dpc[q].srbext = e
                                     /\ \/ dpc[q].pc = "callback"
                                        \/ dpc[q].pc = "complete" /\ ext[e].CompletionCB = NULL
  <2>1. OwnerInv(e)
    BY <1>1 DEF IInv, HandsInv, Hands
  <2>2. \A q \in Queues : dpc[q].srbext = e => dpc[q].pc \in {"callback", "complete", "cleanup"}
    BY <1>1, NullFact DEF IInv, TypeOK, DpcInv
  <2> QED BY <1>1, <2>1, <2>2 DEF OwnerInv, OwnerAt, DpcHas
<1>2. IInv => NoOrphan
  BY <1>1 DEF NoOrphan
<1> QED BY <1>2, Invariance, PTL

\* The memory of a command at the controller is allocated and its own.
THEOREM MemoryHeld == Spec => []BuffersHeld
<1>1. IInv => BuffersHeld
  BY DEF IInv
<1> QED BY <1>1, Invariance, PTL

\* CleanUp frees what a request held before Storport uses the extension again.
THEOREM MemoryFreed == Spec => []NothingKept
<1>1. IInv => NothingKept
  BY DEF IInv
<1> QED BY <1>1, Invariance, PTL

\* A command for the disk at the controller, as it was built from its request.
LEMMA IoCommandFact ==
    ASSUME IInv, NEW e \in Exts \ torn, cmd[e] # NULL, ext[e].CompletionCB = NULL
    PROVE  LET r == req[e]
           IN  /\ load \in DOMAIN Workloads /\ r \in Workloads[load][e] /\ ReadWriteRequest(r)
               /\ cmd[e] = BuiildCmd_ReadWrite(r, r.lba, BlocksAsked(r), ListPa(ext[e].Prp2VA))
               /\ IsInValidIoRange(r.lun + 1, nsze, r.lba, BlocksAsked(r))
               /\ ListPa(ext[e].Prp2VA) \in Nat
               /\ ext[e].Prp2VA # NULL => ListPa(ext[e].Prp2VA) # 0
<1>1. Hands(e) /\ TypeOK
  BY DEF IInv, HandsInv
<1>2. e \in sent /\ req[e] # NULL /\ Handler(req[e]) = "ReadWrite"
  BY <1>1 DEF Hands, RequestInv, InDriver
<1>3. load \in DOMAIN Workloads /\ req[e] \in Workloads[load][e] /\ ReadWriteRequest(req[e])
  BY <1>1, <1>2, HandlerFact DEF TypeOK
<1>4. ParseReadWriteOffsetAndLen(req[e]) = [offset |-> req[e].lba, len |-> BlocksAsked(req[e])]
  BY <1>3, TransferFact
<1>5. cmd[e] = ReadWriteCommand(e) /\ InRange(e)
  BY <1>1 DEF Hands, CommandInv
<1>6. ext[e].Prp2VA \in Blocks \cup {NULL}
  BY <1>1 DEF TypeOK
<1>7. ListPa(ext[e].Prp2VA) \in Nat /\ (ext[e].Prp2VA # NULL => ListPa(ext[e].Prp2VA) # 0)
  BY <1>6, BlockPa DEF ListPa
<1> QED BY <1>3, <1>4, <1>5, <1>7 DEF ReadWriteCommand, InRange, ListPa

\* The controller finds every byte of the buffer of every command it is given.
THEOREM BufferCovered == Spec => []PrpsCoverBuffer
<1>1. ASSUME IInv, NEW e \in Exts \ torn, cmd[e] # NULL
      PROVE  IF cmd[e].q = "io"
             THEN (NeedsList(req[e].buf, req[e].len) => ext[e].Prp2VA # NULL)
                     => Covers(cmd[e].prp, req[e].buf, req[e].len)
             ELSE ext[e].ExtBuf # NULL => Covers(cmd[e].prp, BlockAddr[ext[e].ExtBuf], LogPageSize)
  <2>1. CASE ext[e].CompletionCB = NULL
    <3> DEFINE r == req[e]
               listPa == ListPa(ext[e].Prp2VA)
    <3>1. /\ load \in DOMAIN Workloads /\ r \in Workloads[load][e] /\ ReadWriteRequest(r)
          /\ cmd[e] = BuiildCmd_ReadWrite(r, r.lba, BlocksAsked(r), listPa)
          /\ listPa \in Nat /\ (ext[e].Prp2VA # NULL => listPa # 0)
      BY <1>1, <2>1, IoCommandFact
    <3>2. cmd[e].q = "io" /\ cmd[e].prp = BuildPrp(r.buf, r.len, listPa)
      BY <3>1 DEF BuiildCmd_ReadWrite
    <3>3. r.buf \in Nat /\ r.len \in Nat /\ Mapped(r.buf, r.len) /\ r.len <= ListEntries * PageSize
      <4>1. r.buf \in Nat /\ r.len \in Nat /\ Mapped(r.buf, r.len) /\ r.len <= UpdateMaxTxSize
        BY <1>1, <3>1, TransferFact
      <4>2. UpdateMaxTxSize \in Nat /\ UpdateMaxTxSize <= ListEntries * PageSize
            /\ ListEntries * PageSize \in Nat
        BY IoAssumption, PrpAssumption
      <4> QED BY <4>1, <4>2
    <3> HIDE DEF listPa
    <3>4. (NeedsList(r.buf, r.len) => listPa # 0) => Covers(BuildPrp(r.buf, r.len, listPa), r.buf, r.len)
      BY <3>1, <3>3, BuildPrpCovers
    <3> QED BY <3>1, <3>2, <3>4
  <2>2. CASE ext[e].CompletionCB # NULL
    <3>1. cmd[e] = FirmwareCommand(e)
      BY <1>1, <2>2 DEF IInv, HandsInv, Hands, CommandInv
    <3>2. cmd[e].q = "adm"
      BY <3>1 DEF FirmwareCommand, BuildCmd_GetFirmwareSlotsInfo
    <3>3. ASSUME ext[e].ExtBuf # NULL
          PROVE  Covers(cmd[e].prp, BlockAddr[ext[e].ExtBuf], LogPageSize)
      <4> DEFINE va == BlockAddr[ext[e].ExtBuf]
      <4>1. ext[e].ExtBuf \in Blocks
        BY <1>1, <3>3 DEF IInv, TypeOK
      <4>2. va \in Nat /\ Mapped(va, LogPageSize) /\ LogPageSize \in 1 .. PageSize
        BY <4>1, BlockPa, PoolAssumption
      <4>3. cmd[e].prp = BuildPrp(va, LogPageSize, 0)
        BY <3>1, <3>3 DEF FirmwareCommand, BuildCmd_GetFirmwareSlotsInfo
      <4>4. LogPageSize <= ListEntries * PageSize
        BY <4>2, PrpAssumption
      <4>5. ~NeedsList(va, LogPageSize)
        BY <4>2, Distance, PrpAssumption DEF NeedsList
      <4> HIDE DEF va
      <4>6. Covers(BuildPrp(va, LogPageSize, 0), va, LogPageSize)
        BY <4>2, <4>4, <4>5, BuildPrpCovers, PrpAssumption
      <4> QED BY <4>3, <4>6 DEF va
    <3> QED BY <3>2, <3>3
  <2> QED BY <2>1, <2>2
<1>2. IInv => PrpsCoverBuffer
  BY <1>1 DEF PrpsCoverBuffer
<1> QED BY <1>2, Invariance, PTL

\* A read or a write moves the blocks its CDB names and no others, all of them in the
\* namespace; and one that is in the namespace is not refused for its range.
THEOREM RangeIsKept == Spec => []RangeKept
<1>1. ASSUME IInv, NEW e \in Exts \ torn, req[e] # NULL, ReadWriteRequest(req[e]),
             BlocksAsked(req[e]) # 0, ~Wraps(req[e])
      PROVE  LET r == req[e]
                 blocks == BlocksAsked(r)
             IN  /\ cmd[e] # NULL =>
                       /\ cmd[e].lba = r.lba /\ cmd[e].nlb + 1 = blocks
                       /\ r.lba + blocks <= nsze
                       /\ blocks * BlockSize = r.len
                 /\ life[e] = "storport" /\ e \notin sent /\ State = "RUNNING" /\ r.lun = 0
                       /\ answer[e].status = "ERROR" => r.lba + blocks > nsze
  <2> DEFINE r == req[e]
             blocks == BlocksAsked(r)
  <2>1. load \in DOMAIN Workloads /\ r \in Workloads[load][e] /\ nsze \in 1 .. Word64
    BY <1>1, RequestAssumption, WidthAssumption DEF IInv, TypeOK
  <2>2. /\ r.lun \in Nat /\ r.lba \in 0 .. Word64 - 1 /\ r.buf \in Nat /\ r.len \in Nat
        /\ blocks \in Nat /\ r.len = blocks * BlockSize
        /\ r.len <= UpdateMaxTxSize /\ Mapped(r.buf, r.len)
        /\ ParseReadWriteOffsetAndLen(r) = [offset |-> r.lba, len |-> blocks]
    BY <1>1, <2>1, TransferFact
  <2>3. blocks \in Nat \ {0} /\ r.lba \in Nat /\ r.lun + 1 \in Nat \ {0} /\ r.lba + blocks <= Word64
    BY <1>1, <2>2, WidthAssumption DEF Wraps
  <2>4. IsInValidIoRange(r.lun + 1, nsze, r.lba, blocks) <=> r.lba + blocks <= nsze
    <3> HIDE DEF blocks, r
    <3> QED BY <2>1, <2>3, RangeCheckExact
  <2>5. cmd[e] # NULL => /\ cmd[e].lba = r.lba /\ cmd[e].nlb + 1 = blocks
                        /\ r.lba + blocks <= nsze
                        /\ blocks * BlockSize = r.len
    <3> SUFFICES ASSUME cmd[e] # NULL
                 PROVE  /\ cmd[e].lba = r.lba /\ cmd[e].nlb + 1 = blocks
                        /\ r.lba + blocks <= nsze
                        /\ blocks * BlockSize = r.len
      OBVIOUS
    <3>1. ext[e].CompletionCB = NULL
      <4>1. e \in sent /\ Handler(r) = "ReadWrite"
        BY <1>1, HandlerFact DEF IInv, HandsInv, Hands, RequestInv, InDriver
      <4> QED BY <1>1, <4>1 DEF IInv, HandsInv, Hands, RequestInv
    <3>2. /\ cmd[e] = BuiildCmd_ReadWrite(r, r.lba, blocks, ListPa(ext[e].Prp2VA))
          /\ IsInValidIoRange(r.lun + 1, nsze, r.lba, blocks)
      BY <1>1, <3>1, IoCommandFact
    <3>3. cmd[e].lba = r.lba /\ cmd[e].nlb = (blocks - 1) % Word16
      BY <3>2 DEF BuiildCmd_ReadWrite
    <3>4. (blocks - 1) % Word16 = blocks - 1
      <4>1. blocks <= Word16
        <5> HIDE DEF blocks
        <5> QED BY <2>2, BlocksFit
      <4> QED BY <2>3, <4>1, WidthAssumption
    <3> QED BY <2>2, <2>3, <2>4, <3>2, <3>3, <3>4
  <2>6. /\ life[e] = "storport" /\ e \notin sent /\ State = "RUNNING" /\ r.lun = 0 /\ answer[e].status = "ERROR"
        => r.lba + blocks > nsze
    <3> SUFFICES ASSUME life[e] = "storport", e \notin sent, State = "RUNNING", r.lun = 0,
                        answer[e].status = "ERROR"
                 PROVE  r.lba + blocks > nsze
      OBVIOUS
    <3>1. ~InRange(e)
      BY <1>1 DEF IInv, HandsInv, Hands, AnswerInv
    <3>2. ~IsInValidIoRange(r.lun + 1, nsze, r.lba, blocks)
      BY <2>2, <3>1 DEF InRange
    <3> QED BY <2>1, <2>3, <2>4, <3>2
  <2> QED BY <2>5, <2>6
<1>2. IInv => RangeKept
  BY <1>1 DEF RangeKept
<1> QED BY <1>2, Invariance, PTL

\* The capacity a READ CAPACITY reports is what the range check lets through.
THEOREM CapacityIsRange == Spec => []CapacityMatchesRange
<1>1. ASSUME IInv, NEW e \in Exts \ torn, answer[e] # NULL, answer[e].status = "SUCCESS",
             req[e].func = "EXECUTE_SCSI", req[e].op \in {"READ_CAPACITY", "READ_CAPACITY16"}
      PROVE  /\ IsInValidIoRange(1, nsze, answer[e].value, 1)
             /\ ~IsInValidIoRange(1, nsze, answer[e].value + 1, 1)
  <2>1. answer[e].value = nsze - 1
    BY <1>1 DEF IInv, RepliesInv, ReplyRight, ScsiRequest
  <2>2. nsze \in NszeValues
    BY <1>1 DEF IInv, TypeOK
  <2> QED BY <2>1, <2>2, LastBlock
<1>2. IInv => CapacityMatchesRange
  BY <1>1 DEF CapacityMatchesRange
<1> QED BY <1>2, Invariance, PTL

\* A reply stays in the buffer of its request.
THEOREM ReplyInBuffer == Spec => []RepliesFit
<1>1. IInv => RepliesFit
  BY DEF IInv, RepliesInv, ReplyRight, RepliesFit, ScsiRequest
<1> QED BY <1>1, Invariance, PTL

\* An SRB status says SUCCESS for the statuses without a common bit, and for no other.
LEMMA SuccessFact ==
    ASSUME NEW status
    PROVE  NvmeToSrbStatus(status) = "SUCCESS" <=> status = NvmeSuccess \/ Masked(status)
<1>1. NvmeGenericToSrbStatus(status[2]) # "SUCCESS"
  BY DEF NvmeGenericToSrbStatus
<1>2. NvmeToSrbStatus(status) = "SUCCESS" <=> NoCommonBit(status[1], status[2])
  BY <1>1 DEF NvmeToSrbStatus
<1>3. NoCommonBit(NvmeSuccess[1], NvmeSuccess[2])
  BY DEF NoCommonBit, NvmeSuccess
<1> QED BY <1>2, <1>3 DEF Masked

\* A read or a write is answered with SUCCESS for the statuses that are translated to it, and
\* always then.
THEOREM StatusIsKept == Spec => []StatusKept
<1>1. ASSUME IInv, NEW e \in sent \ torn, life[e] = "storport", ReadWriteRequest(req[e])
      PROVE  answer[e].status = "SUCCESS" <=> ended[e] = NvmeSuccess \/ Masked(ended[e])
  <2>1. e \in Exts \ torn /\ Hands(e)
    BY <1>1 DEF IInv, TypeOK, HandsInv
  <2>2. ext[e].CompletionCB = NULL
    BY <1>1, <2>1, HandlerFact DEF Hands, RequestInv
  <2>3. answer[e] = Answered(Refused(NvmeToSrbStatus(ended[e])))
    BY <1>1, <2>1, <2>2 DEF Hands, AnswerInv
  <2>4. answer[e].status = NvmeToSrbStatus(ended[e])
    BY <2>3 DEF Answered, Refused, Reply
  <2> QED BY <2>4, SuccessFact
<1>2. IInv => StatusKept
  BY <1>1 DEF StatusKept
<1> QED BY <1>2, Invariance, PTL

\* A MODE SENSE that is answered with a caching page shows what MODE SELECT last asked for.
THEOREM SenseIsSelect == Spec => SenseShowsSelect
<1>1. ASSUME IInv, [Next]_vars, NEW e \in Exts \ torn,
             life[e] = "built", life'[e] = "storport",
             req[e].func = "EXECUTE_SCSI", req[e].op = "MODE_SENSE",
             answer'[e].status = "SUCCESS", answer'[e].value.bits # NULL
      PROVE  answer'[e].value.bits = [rcd |-> Bit(~selected.read), wce |-> Bit(selected.write)]
  <2>1. Typed /\ CacheInv /\ HandsInv /\ nsze \in NszeValues
    BY <1>1 DEF IInv, Typed, TypeOK
  <2>2. Next
    BY <1>1 DEF vars
  <2>3. PICK x \in Exts : ActionOf(x) /\ StepOf(x)
    BY <2>1, <2>2, NextIsOf
  <2>4. x = e
    BY <1>1, <2>3 DEF StepOf, SameFor
  <2>5. ScsiRequest(req[e]) /\ ~ReadWriteRequest(req[e]) /\ Handler(req[e]) = "ModeSense6"
    BY <1>1, HandlerFact, DispatchFact DEF ScsiRequest, ReadWriteRequest, ReadOps, WriteOps
  <2>6. HwStartIo(e) /\ StartIoReply(e)
    <3>1. ~HwBuildIo(e)
      BY <1>1 DEF HwBuildIo
    <3>2. ~ReadWrite(e) /\ ~GetInfo(e) /\ ~InquiryNoMemory(e)
      BY <2>5 DEF ReadWrite, GetInfo, InquiryNoMemory
    <3>3. ~DpcHas(e) /\ cmd[e] = NULL
      BY <1>1, <2>1 DEF HandsInv, Hands, OwnerInv
    <3> QED BY <2>3, <2>4, <3>1, <3>2, <3>3 DEF ActionOf, Popped, DpcHas
  <2>7. answer'[e] = Answered(Scsi_ModeSense6(req[e], cache))
    <3>1. CompleteSrb(e, OwnReply(req[e])) /\ OwnReply(req[e]) = Scsi_ModeSense6(req[e], cache)
      BY <1>1, <2>5, <2>6, OwnReplyFact DEF StartIoReply
    <3> QED BY <2>1, <3>1, CompleteFact DEF Typed
  <2>8. req[e].len \in Nat
    <3>1. load \in DOMAIN Workloads /\ req[e] \in Workloads[load][e]
      BY <1>1, <2>1, BuiltRequest
    <3> QED BY <2>5, <3>1, TransferAssumption
  <2>9. answer'[e].value.bits = FillModePage_Caching(cache)
    <3> DEFINE reply == Scsi_ModeSense6(req[e], cache)
    <3>1. reply.status = "SUCCESS" => reply.value.bits \in {NULL, FillModePage_Caching(cache)}
      BY <2>8, ModeSenseFits
    <3>2. answer'[e].status = reply.status /\ answer'[e].value = reply.value
      BY <2>7 DEF Answered
    <3> QED BY <1>1, <3>1, <3>2
  <2> QED BY <2>1, <2>9 DEF CacheInv, FillModePage_Caching
<1>2. IInv /\ [Next]_vars =>
        \A e \in Exts \ torn :
          /\ life[e] = "built" /\ life'[e] = "storport"
          /\ req[e].func = "EXECUTE_SCSI" /\ req[e].op = "MODE_SENSE"
          /\ answer'[e].status = "SUCCESS" /\ answer'[e].value.bits # NULL
          => answer'[e].value.bits = [rcd |-> Bit(~selected.read), wce |-> Bit(selected.write)]
  BY <1>1
<1> QED BY <1>2, Invariance, PTL DEF Spec, SenseShowsSelect
=============================================================================
