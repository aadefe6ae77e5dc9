------------------------------ MODULE SrbRequest ------------------------------
(****************************************************************************)
(* The life of a request in the driver: HwBuildIo and HwStartIo             *)
(* (MiniportFunctions.cpp), the handlers behind them (BuildIo_Handler.cpp,  *)
(* StartIo_Handler.cpp, Scsi_Utils.cpp, IoctlScsiMiniport_Handlers.cpp,     *)
(* Ioctl_FirmwareFunctions.cpp) and its end in CompleteCmd (NvmeQueue.cpp), *)
(* all under src/src/SpcNvme.  The subject is the SRB extension             *)
(* (SrbExt.cpp): who owns it, and the memory it holds for the controller.   *)
(*                                                                          *)
(* Storport has one extension per queue tag, uses it again as soon as the   *)
(* request is completed, and may do so while the DPC that completed it      *)
(* still has the pointer.  The queues are reduced to which command is at    *)
(* the controller; NvmeQueue has their rings and NvmeDevice the adapter.    *)
(****************************************************************************)
EXTENDS NvmeIo, NvmeStatus, ScsiReplies, FiniteSets

CONSTANTS Exts,          \* the SRB extensions
          Workloads,     \* by name, functions [Exts -> set of requests Storport may issue]
          NszeValues,    \* sizes the namespace may have, in blocks
          CtrlStatuses,  \* statuses the controller may end a command with
          Blocks,        \* blocks of nonpaged pool, each a page at most
          BlockAddr,     \* [Blocks -> address]: the virtual address of a block
          LogPageSize,   \* sizeof(NVME_FIRMWARE_SLOT_INFO_LOG)
          SenseBuffer,   \* the SRBs have a buffer for sense data
          Room           \* commands a queue takes before its throttle closes

ASSUME RequestAssumption ==
    /\ IsFiniteSet(Exts) /\ IsFiniteSet(Blocks)
    /\ NULL \notin Exts \cup Blocks
    /\ Room \in Nat \ {0} /\ SenseBuffer \in BOOLEAN
    /\ NszeValues \subseteq 1 .. Word64 - 1
    /\ \A w \in DOMAIN Workloads : \A e \in Exts : NULL \notin Workloads[w][e]

\* The pool: memory for a log page or a list has an address of its own, in one page or two;
\* MmGetPhysicalAddress answers for the null pointer as well, and never 0 for a block.
ASSUME PoolAssumption ==
    /\ LogPageSize \in 1 .. PageSize
    /\ BlockAddr \in [Blocks -> Nat]
    /\ \A b \in Blocks : Pa(BlockAddr[b]) # 0
    /\ \A va \in {0} \cup {BlockAddr[b] : b \in Blocks} : Mapped(va, LogPageSize)

\* The commands for the controller; the null pointer is no command and no callback.
Prp == [prp1 : Nat, prp2 : Nat, list : Seq(Nat)]
Commands ==
    [q : {"io"}, write : BOOLEAN, nsid : Nat, lba : 0 .. Word64 - 1, nlb : 0 .. Word16 - 1, prp : Prp]
        \cup [q : {"adm"}, numd : Nat, prp : Prp]

ASSUME NullAssumption == NULL \notin Commands \cup {"FirmwareInfo"}

ScsiRequest(r)      == r.func = "EXECUTE_SCSI"
ReadWriteRequest(r) == ScsiRequest(r) /\ r.op \in ReadOps \cup WriteOps
BlocksAsked(r)      == IF r.op \in {"READ6", "WRITE6"} /\ r.blocks = 0 THEN Word8 ELSE r.blocks

\* What Storport passes in: the transfers of a class driver, as long as their CDBs say and no
\* longer than MaximumTransferLength, in memory that is locked down.
ASSUME TransferAssumption ==
    \A w \in DOMAIN Workloads : \A e \in Exts : \A r \in Workloads[w][e] :
        /\ ScsiRequest(r) => r.len \in Nat
        /\ ReadWriteRequest(r) =>
              /\ {r.lun, r.lba, r.blocks, r.buf} \subseteq Nat /\ CdbFits(r)
              /\ r.len = BlocksAsked(r) * BlockSize /\ r.len <= UpdateMaxTxSize
              /\ Mapped(r.buf, r.len)
        /\ ScsiRequest(r) /\ r.op = "MODE_SELECT" => PagesFollow(r)

Queues == {"adm", "io"}

VARIABLES
    life,     \* of each extension: "storport", "built" by HwBuildIo, or "issued"
    req,      \* the request in it
    ext,      \* its fields: Prp2VA, ExtBuf, CompletionCB, NvmeCpl
    cmd,      \* its command, from SubmitCmd to the Pop of its completion
    heap,     \* blocks of pool that are allocated
    dpc,      \* of each queue: the step of CompleteCmd, and the extension
    cache,    \* ReadCacheEnabled and WriteCacheEnabled
    State,    \* CNvmeDevice::State
    nsze,     \* NsData[0].NSZE
    load,     \* the name of the workload
    crashed,  \* a null or wild pointer was followed
    \* Not in the driver: what has happened.
    given,    \* how often the request was completed
    answer,   \* the last completion
    sent,     \* extensions whose request a queue has accepted
    ended,    \* the status with which the controller ended the command
    torn,     \* extensions Storport used again before the DPC had let go of them
    selected  \* the cache bits of the last MODE SELECT

history == <<given, answer, sent, ended, torn, selected>>
vars == <<life, req, ext, cmd, heap, dpc, cache, State, nsze, load, crashed, history>>

ZeroExt == [Prp2VA |-> NULL, ExtBuf |-> NULL, CompletionCB |-> NULL, NvmeCpl |-> NvmeSuccess]
IdleDpc == [pc |-> "idle", srbext |-> NULL]
DpcHas(e) == \E q \in Queues : dpc[q].srbext = e

Init ==
    /\ life = [e \in Exts |-> "storport"]
    /\ req = [e \in Exts |-> NULL]
    /\ ext = [e \in Exts |-> ZeroExt]
    /\ cmd = [e \in Exts |-> NULL]
    /\ heap = {}
    /\ dpc = [q \in Queues |-> IdleDpc]
    /\ cache = [read |-> FALSE, write |-> FALSE]
    /\ State = "RUNNING"
    /\ nsze \in NszeValues /\ load \in DOMAIN Workloads
    /\ crashed = FALSE
    /\ given = [e \in Exts |-> 0]
    /\ answer = [e \in Exts |-> NULL]
    /\ sent = {} /\ torn = {}
    /\ ended = [e \in Exts |-> NvmeSuccess]
    /\ selected = cache

----------------------------------------------------------------------------
(* Memory and completion *)

\* operator new and ExAllocatePoolWithTag; NULL when the pool is exhausted.
Alloc == IF Blocks \ heap = {} THEN NULL ELSE CHOOSE b \in Blocks \ heap : TRUE

\* Mutant of CleanUp: ExtBuf is deleted and keeps its value.
CleanUpDangling(e) ==
    /\ heap' = heap \ {ext[e].ExtBuf, ext[e].Prp2VA}
    /\ ext' = [ext EXCEPT ![e].Prp2VA = NULL]

\* Mutant of CleanUp: the list is forgotten.
CleanUpExtBufOnly(e) ==
    /\ heap' = heap \ {ext[e].ExtBuf}
    /\ ext' = [ext EXCEPT ![e].ExtBuf = NULL]

\* Frees what the two pointers name, and clears them.
CleanUp(e) ==
    /\ heap' = heap \ {ext[e].ExtBuf, ext[e].Prp2VA}
    /\ ext' = [ext EXCEPT ![e].ExtBuf = NULL, ![e].Prp2VA = NULL]

\* What Storport gets with the SRB: the reply, and the SCSI status CompleteSrb sets.
Answered(reply) ==
    [status |-> reply.status, ret |-> reply.ret, wrote |-> reply.wrote, value |-> reply.value,
     scsi |-> ScsiStatus(reply.status, SenseBuffer)]

\* CompleteSrb hands the extension back to Storport with a status.
CompleteSrb(e, reply) ==
    /\ life' = [life EXCEPT ![e] = "storport"]
    /\ given' = [given EXCEPT ![e] = Smaller(@ + 1, 2)]
    /\ answer' = [answer EXCEPT ![e] = Answered(reply)]

\* SubmitIoCmd and SubmitAdmCmd up to the push: what they return.
InFlight(q) == Cardinality({e \in Exts : (cmd[e] # NULL /\ cmd[e].q = q) \/ dpc[q].srbext = e})
SubmitStatus(q) ==
    IF State # "RUNNING" THEN "DEVICE_NOT_READY"
    ELSE IF InFlight(q) >= Room THEN "DEVICE_BUSY"
    ELSE "SUCCESS"

----------------------------------------------------------------------------
(* HwBuildIo *)

\* BuildIo_SrbPnpHandler.  A surprise removal is left to NvmeDevice.
PnpStatus(r) ==
    IF r.adapter /\ r.action \in {"QueryCapabilities", "RemoveDevice"} THEN "SUCCESS" ELSE "ERROR"

\* The status a request is completed with in HwBuildIo, or PENDING: HwStartIo is next.
BuildIoStatus(r) ==
    CASE r.func = "EXECUTE_SCSI" -> IF r.lun = 0 THEN "PENDING" ELSE "INVALID_LUN"
      [] r.func = "IO_CONTROL"   -> "PENDING"
      [] r.func = "PNP"          -> PnpStatus(r)
      [] OTHER                   -> "INVALID_REQUEST"

\* The extension after Init has zeroed it.
InitSrbExt(e) == ZeroExt

\* Storport takes an extension it owns and passes a request in.  It removes the adapter
\* when every request is completed.  A torn extension is not followed further.
HwBuildIo(e) ==
    /\ life[e] = "storport" /\ e \notin torn
    /\ \E r \in Workloads[load][e] :
        LET status  == BuildIoStatus(r)
            removes == r.func = "PNP" /\ r.adapter /\ r.action = "RemoveDevice"
        IN  /\ removes => \A x \in Exts : life[x] = "storport" /\ cmd[x] = NULL /\ ~DpcHas(x)
            /\ req' = [req EXCEPT ![e] = r]
            /\ ext' = [ext EXCEPT ![e] = InitSrbExt(e)]
            /\ State' = IF removes THEN "SHUTDOWN" ELSE State
            /\ IF status = "PENDING"
               THEN /\ life' = [life EXCEPT ![e] = "built"]
                    /\ given' = [given EXCEPT ![e] = 0]
                    /\ answer' = [answer EXCEPT ![e] = NULL]
               ELSE /\ life' = life
                    /\ given' = [given EXCEPT ![e] = 1]
                    /\ answer' = [answer EXCEPT ![e] = Answered(Refused(status))]
    /\ sent' = sent \ {e}
    /\ ended' = [ended EXCEPT ![e] = NvmeSuccess]
    /\ torn' = IF DpcHas(e) THEN torn \cup {e} ELSE torn
    /\ UNCHANGED <<cmd, heap, dpc, cache, nsze, load, crashed, selected>>

----------------------------------------------------------------------------
(* HwStartIo: dispatch.  An operation code without a handler is refused. *)

Dispatch6 ==
    [MODE_SELECT |-> "ModeSelect6", READ6 |-> "ReadWrite", WRITE6 |-> "ReadWrite",
     INQUIRY |-> "Inquiry6", MODE_SENSE |-> "ModeSense6", VERIFY6 |-> "Refuse"]
Dispatch10 ==
    [MODE_SELECT10 |-> "Refuse", READ_CAPACITY |-> "ReadCapacity10", READ |-> "ReadWrite",
     WRITE |-> "ReadWrite", VERIFY |-> "Refuse", MODE_SENSE10 |-> "Refuse"]
Dispatch12 ==
    [REPORT_LUNS |-> "Refuse", READ12 |-> "ReadWrite", WRITE12 |-> "ReadWrite",
     VERIFY12 |-> "Refuse", SECURITY_PROTOCOL_IN |-> "Refuse", SECURITY_PROTOCOL_OUT |-> "Refuse"]
Dispatch16 ==
    [READ16 |-> "ReadWrite", WRITE16 |-> "ReadWrite", VERIFY16 |-> "Refuse",
     READ_CAPACITY16 |-> "ReadCapacity16"]

StartIo_ScsiHandler(op) ==
    CASE op \in DOMAIN Dispatch6  -> Dispatch6[op]
      [] op \in DOMAIN Dispatch10 -> Dispatch10[op]
      [] op \in DOMAIN Dispatch12 -> Dispatch12[op]
      [] op \in DOMAIN Dispatch16 -> Dispatch16[op]
      [] OTHER -> "Refuse"

\* Of the firmware functions only GET_INFO is there; PENDING: Firmware_GetInfo.
IoctlScsiMiniport_Firmware(r) ==
    IF r.short THEN "INVALID_PARAMETER"
    ELSE IF r.function = "GET_INFO" THEN "PENDING"
    ELSE "INVALID_REQUEST"

\* Only the firmware request with its signature gets further.
StartIo_IoctlHandler(r) ==
    IF r.code = "MINIPORT_FIRMWARE" /\ r.signature = "FIRMWARE"
    THEN IoctlScsiMiniport_Firmware(r)
    ELSE "INVALID_REQUEST"

Handler(r) ==
    IF r.func = "EXECUTE_SCSI" THEN StartIo_ScsiHandler(r.op)
    ELSE IF StartIo_IoctlHandler(r) = "PENDING" THEN "GetInfo" ELSE "RefuseIoctl"

\* The requests the driver answers itself.
OwnReply(r) ==
    CASE Handler(r) = "Inquiry6"       -> Scsi_Inquiry6(r)
      [] Handler(r) = "ModeSense6"     -> Scsi_ModeSense6(r, cache)
      [] Handler(r) = "ModeSelect6"    -> Scsi_ModeSelect6(r)
      [] Handler(r) = "ReadCapacity10" -> Scsi_ReadCapacity10(r, State = "RUNNING", nsze)
      [] Handler(r) = "ReadCapacity16" -> Scsi_ReadCapacity16(r, State = "RUNNING", nsze)
      [] Handler(r) = "Refuse"         -> Refused("INVALID_REQUEST")
      [] Handler(r) = "RefuseIoctl"    -> Refused(StartIo_IoctlHandler(r))

\* What the host has asked for with MODE SELECT: the last caching page that lies in the
\* buffer, up to the first empty page.
CacheAsked(r, before) ==
    LET asked == {i \in DOMAIN r.pages :
                    /\ r.pages[i].code = "CACHING" /\ r.pages[i].length = CachingSize - 2
                    /\ r.pages[i].end <= r.len
                    /\ \A j \in 1 .. i : r.pages[j].length # 0}
    IN  IF asked = {} THEN before
        ELSE [read |-> r.pages[Max(asked)].rcd = 0, write |-> r.pages[Max(asked)].wce # 0]

\* A list of mode pages that ends beyond the buffer is read beyond the buffer, and what is
\* found there may set the cache bits to anything, or be no memory at all.
StartIoReply(e) ==
    LET r == req[e]
    IN  /\ Handler(r) \notin {"ReadWrite", "GetInfo"}
        /\ CompleteSrb(e, OwnReply(r))
        /\ IF Handler(r) = "ModeSelect6" /\ r.pf
           THEN /\ IF RunsPast(r) THEN cache' \in [read : BOOLEAN, write : BOOLEAN]
                                  ELSE cache' = SelectedCache(r, cache)
                /\ selected' = IF RunsPast(r) THEN cache' ELSE CacheAsked(r, selected)
                /\ crashed' \in IF RunsPast(r) THEN BOOLEAN ELSE {crashed}
           ELSE UNCHANGED <<cache, selected, crashed>>
        /\ UNCHANGED <<ext, cmd, heap, sent>>

\* INQUIRY, when there is no memory for the page it asks for.
InquiryNoMemory(e) ==
    /\ Handler(req[e]) = "Inquiry6" /\ req[e].evpd
    /\ \/ /\ req[e].page \in CheckedPages
          /\ CompleteSrb(e, Refused("INSUFFICIENT_RESOURCES"))
          /\ UNCHANGED crashed
       \/ /\ req[e].page \in UncheckedPages
          /\ crashed' = TRUE
          /\ UNCHANGED <<life, given, answer>>
    /\ UNCHANGED <<ext, cmd, heap, cache, selected, sent>>

----------------------------------------------------------------------------
(* HwStartIo: commands for the controller *)

\* Mutant of SubmitEnds: a full queue is reported as PENDING.
SubmitEndsQuietly(e, command, busy, other) ==
    IF SubmitStatus(command.q) = "SUCCESS"
    THEN /\ cmd' = [cmd EXCEPT ![e] = command]
         /\ life' = [life EXCEPT ![e] = "issued"]
         /\ sent' = sent \cup {e}
         /\ UNCHANGED <<given, answer>>
    ELSE /\ life' = [life EXCEPT ![e] = "issued"]
         /\ UNCHANGED <<cmd, sent, given, answer>>

\* Mutant of SubmitEnds: the status of an accepted request is not set to PENDING.
SubmitEndsAnswered(e, command, busy, other) ==
    /\ CompleteSrb(e, Refused(other))
    /\ IF SubmitStatus(command.q) = "SUCCESS"
       THEN cmd' = [cmd EXCEPT ![e] = command] /\ sent' = sent \cup {e}
       ELSE UNCHANGED <<cmd, sent>>

\* The command is handed to its queue; refused, the request is completed with the status
\* of the handler, and what the extension holds stays as it is.
SubmitEnds(e, command, busy, other) ==
    IF SubmitStatus(command.q) = "SUCCESS"
    THEN /\ cmd' = [cmd EXCEPT ![e] = command]
         /\ life' = [life EXCEPT ![e] = "issued"]
         /\ sent' = sent \cup {e}
         /\ UNCHANGED <<given, answer>>
    ELSE /\ CompleteSrb(e, Refused(IF SubmitStatus(command.q) = "DEVICE_BUSY" THEN busy ELSE other))
         /\ UNCHANGED <<cmd, sent>>

\* Scsi_ReadWrite.  Without memory for the list the command goes out with PRP2 = 0.
ReadWrite(e) ==
    LET r    == req[e]
        rw   == ParseReadWriteOffsetAndLen(r)
        list == IF NeedsList(r.buf, r.len) THEN Alloc ELSE NULL
    IN  /\ Handler(r) = "ReadWrite"
        /\ IF IsInValidIoRange(r.lun + 1, nsze, rw.offset, rw.len)
           THEN /\ ext' = [ext EXCEPT ![e].Prp2VA = list]
                /\ heap' = heap \cup ({list} \ {NULL})
                /\ SubmitEnds(e,
                       BuiildCmd_ReadWrite(r, rw.offset, rw.len,
                                           IF list = NULL THEN 0 ELSE Pa(BlockAddr[list])),
                       "BUSY", "ERROR")
           ELSE /\ CompleteSrb(e, Refused("ERROR"))
                /\ UNCHANGED <<ext, heap, cmd, sent>>
        /\ UNCHANGED <<cache, selected, crashed>>

\* NUMD counts from 0, but gets the number of double words.
BuildCmd_GetFirmwareSlotsInfo(va) ==
    [q |-> "adm", numd |-> LogPageSize \div 4, prp |-> BuildPrp(va, LogPageSize, 0)]

\* Firmware_GetInfo.  A refused log page is deleted, and ExtBuf still points at it.
GetInfo(e) ==
    LET page == Alloc
    IN  /\ Handler(req[e]) = "GetInfo"
        /\ ext' = [ext EXCEPT ![e].ExtBuf = page, ![e].CompletionCB = "FirmwareInfo"]
        /\ heap' = IF SubmitStatus("adm") = "SUCCESS" THEN heap \cup ({page} \ {NULL}) ELSE heap
        /\ SubmitEnds(e, BuildCmd_GetFirmwareSlotsInfo(IF page = NULL THEN 0 ELSE BlockAddr[page]),
                      "INTERNAL_ERROR", "INTERNAL_ERROR")
        /\ UNCHANGED <<cache, selected, crashed>>

HwStartIo(e) ==
    /\ life[e] = "built"
    /\ StartIoReply(e) \/ InquiryNoMemory(e) \/ ReadWrite(e) \/ GetInfo(e)
    /\ UNCHANGED <<req, dpc, State, nsze, load, ended, torn>>

----------------------------------------------------------------------------
(* CompleteCmd *)

\* Mutant of DpcPop: the completion entry is not copied.
DpcPopNoCopy(q) ==
    /\ dpc[q].pc = "idle"
    /\ \E e \in Exts : \E status \in CtrlStatuses :
        /\ cmd[e] # NULL /\ cmd[e].q = q
        /\ cmd' = [cmd EXCEPT ![e] = NULL]
        /\ dpc' = [dpc EXCEPT ![q] = [pc |-> "callback", srbext |-> e]]
        /\ ended' = [ended EXCEPT ![e] = status]
    /\ UNCHANGED <<life, req, ext, heap, cache, State, nsze, load, crashed, given, answer, sent, torn,
                   selected>>

\* The controller has ended a command of the queue; Pop finds the extension, and the
\* completion entry is copied into it.
DpcPop(q) ==
    /\ dpc[q].pc = "idle"
    /\ \E e \in Exts : \E status \in CtrlStatuses :
        /\ cmd[e] # NULL /\ cmd[e].q = q
        /\ cmd' = [cmd EXCEPT ![e] = NULL]
        /\ dpc' = [dpc EXCEPT ![q] = [pc |-> "callback", srbext |-> e]]
        /\ ext' = [ext EXCEPT ![e].NvmeCpl = status]
        /\ ended' = [ended EXCEPT ![e] = status]
    /\ UNCHANGED <<life, req, heap, cache, State, nsze, load, crashed, given, answer, sent, torn,
                   selected>>

\* The SRB status of Complete_FirmwareInfo.
FirmwareSrbStatus(r, status) ==
    IF r.offset = 0 \/ r.room = "none" THEN "INVALID_PARAMETER"
    ELSE IF FirmwareStatus(status) # "SUCCESS" THEN "INTERNAL_ERROR"
    ELSE "SUCCESS"

\* What Complete_FirmwareInfo leaves in the buffer: the slots in the form that fits.
FirmwareReply(r, status) ==
    LET srb == FirmwareSrbStatus(r, status)
    IN  [Refused(srb) EXCEPT !.value = IF srb = "SUCCESS" THEN r.room ELSE NULL]

\* The completion callback, when there is one: Complete_FirmwareInfo copies the slots,
\* cleans up and completes the SRB.
DpcCallback(q) ==
    LET e == dpc[q].srbext
    IN  /\ dpc[q].pc = "callback"
        /\ dpc' = [dpc EXCEPT ![q].pc = "complete"]
        /\ IF ext[e].CompletionCB = "FirmwareInfo"
           THEN LET reply == FirmwareReply(req[e], ext[e].NvmeCpl)
                IN  IF reply.status = "SUCCESS" /\ ext[e].ExtBuf = NULL
                    THEN crashed' = TRUE /\ UNCHANGED <<life, ext, heap, given, answer>>
                    ELSE /\ CleanUp(e)
                         /\ CompleteSrb(e, reply)
                         /\ UNCHANGED crashed
           ELSE UNCHANGED <<life, ext, heap, given, answer, crashed>>
        /\ UNCHANGED <<req, cmd, cache, State, nsze, load, sent, ended, torn, selected>>

\* Completion with the status of the completion entry, for every command.
DpcCompleteSrb(q) ==
    LET e == dpc[q].srbext
    IN  /\ dpc[q].pc = "complete"
        /\ dpc' = [dpc EXCEPT ![q].pc = "cleanup"]
        /\ CompleteSrb(e, Refused(NvmeToSrbStatus(ext[e].NvmeCpl)))
        /\ UNCHANGED <<req, ext, cmd, heap, cache, State, nsze, load, crashed, sent, ended, torn, selected>>

\* CleanUp and the decrement, after Storport has the extension back.
DpcCleanUp(q) ==
    LET e == dpc[q].srbext
    IN  /\ dpc[q].pc = "cleanup"
        /\ dpc' = [dpc EXCEPT ![q] = IdleDpc]
        /\ CleanUp(e)
        /\ UNCHANGED <<life, req, cmd, cache, State, nsze, load, crashed, history>>

Next ==
    /\ ~crashed
    /\ \/ \E e \in Exts : HwBuildIo(e) \/ HwStartIo(e)
       \/ \E q \in Queues : DpcPop(q) \/ DpcCallback(q) \/ DpcCompleteSrb(q) \/ DpcCleanUp(q)

Spec == Init /\ [][Next]_vars

----------------------------------------------------------------------------
(* Properties.  A torn extension is excluded by name: CompleteCmd still cleans it up      *)
(* (NvmeQueue.cpp:237) when the next request is in it, which breaks every one of them.     *)

FirmwareRequest(r) == r.func = "IO_CONTROL" /\ StartIo_IoctlHandler(r) = "PENDING"
InDriver(e) == cmd[e] # NULL \/ DpcHas(e)
Holds(e) == {ext[e].Prp2VA, ext[e].ExtBuf} \ {NULL}
Wraps(r) == r.lba + BlocksAsked(r) > Word64

Srb == {"storport", "built", "issued"}

\* Type invariant.
TypeOK ==
    /\ life \in [Exts -> Srb]
    /\ \A e \in Exts : req[e] \in Workloads[load][e] \cup {NULL}
    /\ ext \in [Exts -> [Prp2VA : Blocks \cup {NULL}, ExtBuf : Blocks \cup {NULL},
                         CompletionCB : {NULL, "FirmwareInfo"}, NvmeCpl : CtrlStatuses \cup {NvmeSuccess}]]
    /\ \A e \in Exts : cmd[e] = NULL \/ cmd[e] \in Commands
    /\ heap \subseteq Blocks
    /\ dpc \in [Queues -> [pc : {"idle", "callback", "complete", "cleanup"}, srbext : Exts \cup {NULL}]]
    /\ {cache, selected} \subseteq [read : BOOLEAN, write : BOOLEAN]
    /\ State \in {"RUNNING", "SHUTDOWN"} /\ nsze \in NszeValues /\ load \in DOMAIN Workloads /\ crashed \in BOOLEAN
    /\ given \in [Exts -> 0 .. 2]
    /\ sent \subseteq Exts /\ torn \subseteq Exts

\* HwBuildIo, HwStartIo and CompleteCmd may all complete a request, and between them they do
\* so exactly once: a request Storport has back was completed once, one it has not never.
\* The firmware request, which Complete_FirmwareInfo and CompleteCmd both complete, is excluded.
AnsweredOnce ==
    \A e \in Exts \ torn : req[e] # NULL /\ ~FirmwareRequest(req[e]) =>
        given[e] = IF life[e] = "storport" THEN 1 ELSE 0

\* A request that is left PENDING is in a queue or in the hands of its DPC, so something will
\* complete it; and neither a queue nor a DPC has a request that Storport owns, until the DPC
\* has completed it.  Excluded by name: the null pointer Complete_FirmwareInfo may follow.
NoOrphan ==
    ~crashed => \A e \in Exts \ torn :
        life[e] = "issued" <=>
            \/ cmd[e] # NULL
            \/ \E q \in Queues : /\ dpc[q].srbext = e
                                 /\ \/ dpc[q].pc = "callback"
                                    \/ dpc[q].pc = "complete" /\ ext[e].CompletionCB = NULL

\* The memory a command uses, its PRP list or its log page, is allocated, belongs to no other
\* command, and is what the command points at, until CleanUp has freed it once.
BuffersHeld ==
    torn = {} => \A e \in Exts : InDriver(e) =>
        /\ Holds(e) \subseteq heap
        /\ \A x \in Exts \ {e} : InDriver(x) => Holds(e) \cap Holds(x) = {}
        /\ cmd[e] # NULL /\ cmd[e].prp.list # <<>> =>
              ext[e].Prp2VA # NULL /\ cmd[e].prp.prp2 = Pa(BlockAddr[ext[e].Prp2VA])

\* When the driver is through with a request that it had passed to the controller, its
\* extension holds no memory: Init zeroes the pointers and would lose it.  (A request the
\* queue refused does keep its list.)
NothingKept ==
    \A e \in sent \ torn : life[e] = "storport" /\ ~DpcHas(e) => Holds(e) = {}

\* Whatever the alignment and the length of a buffer, the controller finds every byte of it
\* through the PRP entries, and the list stays within its page.  Excluded by name: no memory
\* for the list, or for the log page.
PrpsCoverBuffer ==
    \A e \in Exts \ torn : cmd[e] # NULL =>
        IF cmd[e].q = "io"
        THEN (NeedsList(req[e].buf, req[e].len) => ext[e].Prp2VA # NULL)
                => Covers(cmd[e].prp, req[e].buf, req[e].len)
        ELSE ext[e].ExtBuf # NULL => Covers(cmd[e].prp, BlockAddr[ext[e].ExtBuf], LogPageSize)

\* A read or a write moves the blocks its CDB names, all of them in the namespace and as many
\* bytes as the buffer has; and one that is within the namespace is not refused as an ERROR.
\* Excluded by name: a transfer length of 0, which goes out as 65536 blocks, and a range that
\* ends beyond the last 64-bit address, whose end wraps and passes the check.
RangeKept ==
    \A e \in Exts \ torn :
      req[e] # NULL /\ ReadWriteRequest(req[e]) /\ BlocksAsked(req[e]) # 0 /\ ~Wraps(req[e]) =>
        LET r == req[e]
            blocks == BlocksAsked(r)
        IN  /\ cmd[e] # NULL =>
                  /\ cmd[e].lba = r.lba /\ cmd[e].nlb + 1 = blocks
                  /\ r.lba + blocks <= nsze
                  /\ blocks * BlockSize = r.len
            /\ life[e] = "storport" /\ e \notin sent /\ State = "RUNNING" /\ r.lun = 0
                  /\ answer[e].status = "ERROR" => r.lba + blocks > nsze

\* The capacity reported to the host is the last block a read or a write is let through to.
CapacityMatchesRange ==
    \A e \in Exts \ torn : answer[e] # NULL /\ answer[e].status = "SUCCESS"
                        /\ req[e].func = "EXECUTE_SCSI" /\ req[e].op \in {"READ_CAPACITY", "READ_CAPACITY16"} =>
        /\ IsInValidIoRange(1, nsze, answer[e].value, 1)
        /\ ~IsInValidIoRange(1, nsze, answer[e].value + 1, 1)

\* A reply stays in the data buffer, is as long as the driver says, and the length within a
\* MODE SENSE reply agrees with it.  The serial number page, which writes 259 bytes into any
\* buffer up to 260, is excluded.
RepliesFit ==
    \A e \in Exts \ (torn \cup sent) :
        answer[e] # NULL /\ req[e].func = "EXECUTE_SCSI" /\ ~ReadWriteRequest(req[e])
            /\ ~(req[e].op = "INQUIRY" /\ req[e].page = "SERIAL_NUMBER") =>
        /\ answer[e].wrote <= req[e].len
        /\ answer[e].status = "SUCCESS" => answer[e].ret = answer[e].wrote
        /\ answer[e].status = "SUCCESS" /\ req[e].op = "MODE_SENSE" =>
              answer[e].value.length = answer[e].ret - 1

\* A read or a write is answered with SUCCESS only when the controller ended it with success,
\* or with a status that NvmeToSrbStatus takes for one (Masked); and then always.
StatusKept ==
    \A e \in sent \ torn : life[e] = "storport" /\ ReadWriteRequest(req[e]) =>
        (answer[e].status = "SUCCESS" <=> ended[e] = NvmeSuccess \/ Masked(ended[e]))

\* MODE SENSE shows the cache bits the last MODE SELECT asked for, whatever came in between.
SenseShowsSelect ==
    [][\A e \in Exts \ torn :
          /\ life[e] = "built" /\ life'[e] = "storport"
          /\ req[e].func = "EXECUTE_SCSI" /\ req[e].op = "MODE_SENSE"
          /\ answer'[e].status = "SUCCESS" /\ answer'[e].value.bits # NULL
          => answer'[e].value.bits = [rcd |-> Bit(~selected.read), wce |-> Bit(selected.write)]]_vars
=============================================================================
