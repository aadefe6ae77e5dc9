# A TLA+ model of the SpcNvme storage miniport driver

The program (`src/src/SpcNvme`) is a Windows StorPort NVMe miniport driver
written in C++: Storport calls it with SRBs (SCSI requests, ioctls, PnP and power requests), it
turns them into NVMe commands, puts them into queue pairs shared with the controller, and
completes the SRBs from DPCs.  This directory holds TLA+ modules translated from that source, TLC
configurations that check them on small instances, and TLAPS proofs for every size.

`PROJECT.json` is the index: components, runs, the source lines of every definition, a mutant of
the code for every property, hazards, findings and theorems.

## 1. Inventory

| Component (source) | State it keeps | Operations | Modelled in |
|---|---|---|---|
| Queue pair, `CNvmeQueue` (`NvmeQueue.cpp/.h`) | SubQ, CplQ, SubTail, CplHead, PhaseTag, InflightCmds, SubLock, DPC object | `Setup`, `SubmitCmd`, `CompleteCmd`, `ResetAllCmd`, `Teardown` | `NvmeQueue`, `NvmeQueueReset`; its memory in `QueueLayout` |
| Command history, `CCmdHistory` (same files) | History: CID -> SRB extension | `Push`, `Pop`, `Reset`, `Teardown` | `NvmeQueue`, `NvmeQueueReset` |
| Adapter, `CNvmeDevice` (`NvmeDevice.cpp/.h`) | State, AdmQueue, IoQueue[], AllocatedIoQ, RegisteredIoQ, DesiredIoQ, identify data | `Setup`, `InitController`, `InitNvmeStage1/2`, `CreateIoQueues`, `RegisterIoQueues`, `SubmitAdmCmd/IoCmd`, `ResetOutstandingCmds`, `ShutdownController`, `Teardown`, `RestartController` | `NvmeDevice` |
| Miniport entry points (`MiniportFunctions.cpp`) | none | `HwFindAdapter`, `HwInitialize`, `HwPassiveInitialize`, `HwResetBus`, `HwAdapterControl`; `HwBuildIo`, `HwStartIo` | `NvmeDevice`; the last two `SrbRequest` |
| BuildIo / StartIo dispatch (`BuildIo_Handler.cpp`, `StartIo_Handler.cpp`) | none | dispatch by SRB function, operation code and control code; remove and surprise remove | `SrbRequest`; removal in `NvmeDevice` |
| SRB extension (`SrbExt.cpp/.h`) | NvmeCmd, NvmeCpl, Prp2VA, ExtBuf, CompletionCB, SrbStatus | `Init`, `CompleteSrb`, `CleanUp` | `SrbRequest`; its ownership also in `NvmeQueue` |
| SCSI handlers (`ScsiHandler_*.cpp`, `Scsi_Utils.cpp`) | cache flags | CDB6/10/12/16 commands, mode pages, reply buffers | `ScsiReplies`, `NvmeIo`, `SrbRequest` |
| PRP builder, command builder (`NvmePrpBuilder.cpp`, `NvmeCmdBuilder.cpp`) | none | `BuildPrp`, `BuiildCmd_*` | `NvmePrp`, `NvmeIo` |
| Ioctls (`Ioctl*.cpp`) | none | firmware info and update, storage query | the firmware request in `SrbRequest` |
| Status translation (`Srb_Utils.cpp`, `SrbStatus_Translator.cpp`) | none | `NvmeToSrbStatus`, `SetScsiSenseBySrbStatus` | `NvmeStatus`; its effect in `NvmeDevice` |
| Driver entry, WDM utilities | none | table of callbacks, spin lock, smart pointers, debug names | not modelled (no logic of their own; `CSpinLock` is `SubLock`) |
| NVMe controller, Storport | registers, fetch and post pointers | external | actions `Ctrl*`, `Isr`, and the choice of requests |

**Interactions.**  Storport calls `HwBuildIo`/`HwStartIo` on any processor; these end in `SubmitCmd`
of the admin queue or of the I/O queue `cpu % RegisteredIoQ`.  `SubmitCmd` and the controller share
SubQ and the doorbell; the controller and the DPC share CplQ; the DPC and the submitters share
InflightCmds and History.  The ISR queues the DPC of the queue, which is the only code that completes
requests in normal operation.  `HwResetBus` walks all queues; initialization, removal and the restart
worker issue internal admin commands and wait for them in a loop.

**What is hard here.**

- `CompleteCmd` takes no lock, `SubmitCmd` takes `SubLock`: counter, history and rings are shared
  between them, and the controller runs on its own.
- The phase bit and the two doorbells are the whole protocol with the controller.
- CIDs are Storport queue tags; internal requests have none and all use CID 0.
- A bus reset runs on the queue beside the DPC, without telling the controller.
- Every internal command is waited for without a time-out.
- The life cycle goes through partial failures, and through sleep, restart, removal and surprise
  removal, each of which leaves State and the queue objects somewhere.

**What makes each component correct.**

- *Queue*: a command the controller has not fetched is never overwritten; a completion is taken
  once, exactly if it is new; the request completed is the one whose command was executed; the counter
  is exact; the doorbell returns only slots that were read; every request is completed; a full queue
  opens again.
- *Reset*: every outstanding request is completed, none is forgotten, the reset ends, the rings
  stay usable.
- *Adapter*: it starts if nothing goes wrong; CC.EN is set only after RDY has gone; I/O goes only to
  queues the controller registered; no bugcheck and no access to freed memory on a healthy device;
  removal frees the queues; a restart initializes what sleep has lost.
- *Requests*: each SRB is completed once, what waits for the controller is in a queue, its memory is
  held as long as the controller uses it and freed once, its status is right.
- *Algorithms*: the PRP entries cover the buffer; the range check and the reported capacity agree;
  replies stay in their buffers; MODE SENSE shows what MODE SELECT has set.

The complete list of hazards, each with its line and the properties that cover it, is `hazards` in
`PROJECT.json`.

## 2. Modules

| Module | Content |
|---|---|
| `SrbContract` | What a queue promises Storport: each request is accepted, executed by the controller, and completed once. No rings, locks or interrupts. |
| `NvmeQueue` | One queue pair: `SubmitCmd` on any number of processors, `CompleteCmd` in a DPC, ISR, controller. Its properties, and the refinement of `SrbContract`. |
| `NvmeQueueReset` | EXTENDS `NvmeQueue` with `ResetAllCmd` and the finer steps `CompleteCmd` needs when somebody else writes CplHead too. |
| `NvmeQueueProofs` | TLAPS proofs about `NvmeQueue` with any CIDs: types, rings, doorbells, throttle. |
| `NvmeQueueRequestProofs` | The same with distinct CIDs: which request a completion belongs to, the exact counter, the steps of the refinement. |
| `NvmeQueueResetProofs` | TLAPS proofs about `NvmeQueueReset`. |
| `NvmeDevice` | The adapter from `HwFindAdapter` to removal; queues are reduced to what the device sees of them. |
| `SrbRequest` | A request from `HwBuildIo` over dispatch and handlers to its completion: who owns the SRB extension and what memory it holds. EXTENDS the four modules below. |
| `NvmePrp` | `BuildPrp`, beside the way the controller reads PRP entries. |
| `NvmeIo` | The read and write CDB, the range check, `BuiildCmd_ReadWrite`. |
| `NvmeStatus` | NVMe status to SRB, SCSI and firmware status. |
| `ScsiReplies` | The commands the driver answers itself. |
| `Widths` | How many values an integer field has. |
| `NvmeDeviceProofs` | TLAPS proofs about `NvmeDevice`. |
| `ScsiRepliesProofs`, `SrbRequestProofs` | TLAPS proofs about the replies, and about a request from `HwBuildIo` to its completion. |
| `NvmeIoProofs`, `QueueLayout` | TLAPS proofs about `NvmeIo` and `NvmePrp`, and about the memory of a queue pair. |
| `MCNvmeQueue`, `MCNvmeQueueReset`, `MCNvmeDevice`, `MCSrbRequest` | Instances for TLC. |

Definitions named as mutants (`... Mutant of X`) are plausible bugs; no behaviour uses them.  They
exist so that each property can be shown to fail when the code is wrong.

### NvmeQueue

A step is one access to memory another actor may touch.  `SubmitCmd` is `Acquire` (the lock), `Throttle`
(refuse or pass), `Push` (an interlocked exchange on the history slot), `Evict` and `Repush` (the CID is
taken), `WriteSlot`, `CountInflight`, `AdvanceTail`, `RingSubDbl` (doorbell and release).  `CompleteCmd`
is `DpcStart`, then per entry `DpcPop`, `DpcComplete` (CompleteSrb hands the request back to
Storport, which may reuse it at once), `DpcRetire` (InterlockedDecrement), `DpcAdvance`; then `DpcDrained`
or, after Depth entries, `DpcRing`.

A request is an SRB extension: Storport owns it (`free`) or the driver does (`issued`).  A ring entry holds the
request whose command it carries; the driver's steps use nothing of it but the CID, so that a
completion can be told from one for an earlier use of the same CID.  The controller (external) fetches in
order up to the doorbell, executes in any order, posts only into slots the completion doorbell has given back,
and sends an interrupt.

Abstracted: contents of commands, and the allocation of the rings.  A DPC that ran is started again by
`DpcStart`.  `InflightCmds` is cast to USHORT and the difference with the threshold is unsigned,
both as in the source.

### NvmeQueueReset

`ResetAllCmd` holds SubLock but not against the DPC.  `CCmdHistory::Reset` reads, completes and
clears a slot in plain steps; the sweep of CplHead to SubTail is a load, a store and a change of the
phase each round, and so is the DPC's own update.  Where C++ leaves open whether a second read of a plain
variable goes to memory, both outcomes are choices.  Two racing changes of PhaseTag may count as one.

### NvmeDevice

The threads with steps are `pnp` (the entry points, one after another) and `Workers`, the work items
that run `RestartAdapterWorker`.  `RestartAdapterDpc` takes an idle one for every restart, because the
source queues a new item without looking for one that still runs; `env.overlap` remembers that a sleep
came while a restart was on (`Restarting`).  A step reads or writes State, a register, a queue counter
or the outstanding command.  Each internal command is `Submit` then `Wait` (or `Poll`, while interrupts
are not connected), with CID 0 and a history of one slot.  One I/O request in `SubmitIoCmd` runs beside,
in two steps (pick, submit), as do `HwResetBus`, ISR and DPCs.  The controller registers queues up to
its limit, changes RDY some time after EN, may fail fatally, or lose its registers in a sleep; the
adapter may be pulled out.

The number of queues is what `Setup` finds in the registry (`Registry`); 0 leaves it to the controller, which
`CreateIoQueues` then asks with the command "number" (`SetNumberOfIoQueue`) before `CreateIoQ` allocates
them.  A command ends a job in three ways: it succeeds (`Succeeded`), it fails or cannot be sent for want of a
working device (`Failed`), or `SubmitCmd` does not take it (`Refused`).  They differ for the I/O queues: a
failed registration leaves `RegisterIoQueues` with a success, a refused one does not.  `RegisterAdmQ` fails
too when a queue has no physical address.

### SrbRequest and its algorithms

A request is a record: its function, the fields of its CDB, the address and length of its buffer.
`HwBuildIo` zeroes the extension and completes what needs no lock; `HwStartIo` dispatches, and each
handler is one step, because nothing in it is shared but the queues, the pool and the cache flags.
`InquiryNoMemory` is an INQUIRY without memory for its VPD page: one page is refused, the other three are written
through the null pointer.
`CompleteCmd` is cut where Storport can act in between: `DpcPop` (Pop and the copy of the
completion), `DpcCallback` (`Complete_FirmwareInfo`), `DpcCompleteSrb`, `DpcCleanUp`.  An extension is free
again at `DpcCompleteSrb`, so `HwBuildIo` may come before `DpcCleanUp`.  The two queues are reduced to
the commands in them; `NvmeQueue` shows that a queue completes each of them once with its own
status.

The algorithms are operators on the same records: an SRB that Storport could issue goes in, and the
status, the lengths and the values that matter later come out.  Numbers are cut where the source cuts them:
the sum of the range check at 64 bits, NLB at 16, the rest of a mode list at 32.  `Word8` .. `Word64`
are the numbers of values; the proofs take any in this order, TLC small ones.

`QueueLayout` states where `InitQueueBuffer` puts the two rings, and the size the create commands
give the controller.

## 3. Runs

| Run | Instance | Shows |
|---|---|---|
| `queue_safe` | 2 processors, 3 requests, Depth 3, Threshold 1 | type; throttle, phase, exact counter, right request, nothing lost, no command of a free request, doorbell |
| `queue_live` | 1 processor, 2 requests, Depth 3, fairness | every request completes; throttle reopens; refines `SrbContract` |
| `queue_shared` | two requests with CID 0, one with a CID past History | the rings stay safe through refused pushes and evictions |
| `queue_evict` (violation) | two requests with CID 0 | finding 1 |
| `queue_shallow` (violation) | Depth 2, Threshold 8 | finding 2 |
| `reset_once` | 2 requests, Depth 3, until the first reset has swept History | a reset completes everything received before |
| `reset_ends` | 2 requests, Depth 2, one reset, to the end | nothing forgotten, sweep ends, types |
| `reset_overrun` (violation) | 2 requests, Depth 3 | finding 3 |
| `device_life` | 2 queues wanted, or as many as there are; 1 to be had; one namespace, all faults, one sleep, one bus reset | types, enable order, I/O only to registered queues, no crash without a fault, starts when healthy |
| `request_life` | 2 extensions, 5 mixes of requests, see below | requests completed once, none left behind, memory held and freed, PRP entries, range, capacity, reply lengths, statuses, cache flags |
| `device_remove` (violation) | 2 queues, both to be had, no faults | finding 4 |
| `device_restart` (violation) | 2 queues, both to be had, no faults, one sleep | finding 5 |

**Bounds and why they are enough.**  Depth 3 with threshold 1 has a full ring, an empty one, wraps of
all four indices and two phases; with three requests the throttle closes while a third waits
for the lock.  Threshold 1 is the smallest margin, hence the hardest case for the throttle
(source: 8; the theorems cover all values not above Depth).  The requests are infinite in number:
extensions are reused.  A second processor makes the lock matter; processors are interchangeable, so
the safety run uses symmetry.  Liveness and the reset use one processor, which adds no blocking
beyond the lock.  `reset_ends` takes Depth 2 because the sweep's rounds depend on ring positions
only.  `reset_once` follows a run to the end of the scan (`UntilSwept`), which is where the property speaks.
In `device_life` the controller has fewer queues than the registry wants, the one case where the two counters
differ, or the registry leaves their number to it; `MaxSleeps` and `MaxResets` bound the only unbounded inputs; one worker is all that one
sleep can start.  The theorems have no such bounds.  `MaxResets` bounds the reset run
alike.

`request_life` runs five workloads, each with one extension that takes any of many requests again and again, and a
second that interferes: `transfers` (reads of 0 to 8 blocks at each offset in a page, beside a write
that needs a list), `ranges` (lba and length round 0, the end of the namespace, and the ends of the fields of the
6-, 10-, 12- and 16-byte commands), `replies` (INQUIRY with all pages, READ CAPACITY and refused commands, each
with buffers around the size of the reply), `caches` (MODE SELECT with one or more pages, empty,
short and cut ones, against MODE SENSE), `control` (firmware requests of all kinds, ioctls and PnP,
beside a second firmware request or a big write).  A page has 4 bytes, a block 2, a list 4 entries and a transfer
at most 16 bytes, so that one, two and more pages, a full list, and rests of 0, 1 and a whole page
occur at every offset; fields have 4, 8, 8, 16 and 32 values, which makes every wrap reachable with a
namespace of 15 blocks, and of 31, where the 32-bit capacity overflows.  The pool has two blocks of a page, so it
runs out; a queue takes one command, so it is full.  Two extensions are enough, because a step reads and
writes one extension, the heap, the cache flags and the count of its queue.

Deadlock is checked except where the cfg gives the reason not to.

**What some properties leave out, by name.**  `EnableOnlyWhenQuiet` excludes a fatal error
at the moment of enabling; `IoOnlyToRegistered` excludes a removed adapter, a failure that
`NvmeToSrbStatus` reports as success, a sleep that comes while a restart is on
(hazard at NvmeDevice.cpp:33), and a restart one of whose commands was refused (hazard at
NvmeDevice.cpp:55: the worker resumes the adapter all the same); `HealthyNeverCrashes` and `StartsWhenHealthy` exclude
faults outside the driver, among which are a refused admin command and a controller that rejects the number of queues
asked for.  `BootStates` holds a controller off or ready; with EN set and RDY clear the
bugcheck in `RegisterAdmQ` is reachable, see the hazard at NvmeDevice.cpp:978.

In `SrbRequest` the code itself breaks the following, and the properties name them:

- `torn`: Storport reuses an extension between `CompleteSrb` and `CleanUp` of `CompleteCmd`
  (NvmeQueue.cpp:236-237); CleanUp then frees the memory of the next request.  Nothing is claimed of such an
  extension, and the model does not use it again.
- The firmware request is completed by `Complete_FirmwareInfo` and again by `CompleteCmd`
  (`AnsweredOnce`), and without memory for its log page reads a null pointer (`NoOrphan`); so do three
  VPD pages of INQUIRY without memory.  Nothing follows such a crash.
- `Masked`: NVMe errors whose SCT and SC have no common bit are answered as success (`StatusKept`).
- A transfer of 0 blocks and a range that wraps at 64 bits pass the range check (`RangeKept`).
- Without memory for its list a command goes out with PRP2 = 0 (`PrpsCoverBuffer`), and one the queue
  refuses keeps its list for good (`NothingKept`).
- The serial number page writes 259 bytes into smaller buffers (`RepliesFit`).
- A mode list that ends beyond its buffer is read beyond it, with any outcome (`StartIoReply`).

Where a property leaves out what the code breaks, it does not catch that hazard; in `PROJECT.json` such a
hazard has no property and a note.  Two more limits: `ThrottleReopens` has distinct CIDs, because an
eviction leaves InflightCmds counting the old request, so that the counter drifts upward; and the properties of a
reset catch a lost request, but not the double completion or the null pointer that the race of
`CCmdHistory::Reset` with the DPC allows.

**Fairness.**  A submitter that has taken the lock goes on (it runs at raised IRQL), as do a queued or
running DPC, an interrupt message, and the PnP thread and worker.  The controller fetches and executes
what it was given, and posts every completion (strong fairness per command, because CplQ may be full now
and then); a reset inside its lock goes on.  No fairness is assumed for new requests, bus resets, removal,
sleep, faults or the acquisition of the lock.

## 4. Findings

1. `queue_evict`: with a taken CID, `SubmitCmd` pops the old command and calls `CompleteSrb` on a
   pointer that is null if the DPC has popped it in the meantime (NvmeQueue.cpp:184-185).
2. `queue_shallow`: the throttle's difference is unsigned; a Depth below 8 opens it for good
   (NvmeQueue.cpp:281).
3. `reset_overrun`: `ResetAllCmd` zeroes InflightCmds while the controller has commands to fetch, so
   the throttle admits a second ringful over them (NvmeQueue.cpp:207).
4. `device_remove`: `ShutdownController` sets State to SHUTDOWN, and `Teardown` then does nothing
   (NvmeDevice.cpp:224, 307).
5. `device_restart`: the restart worker does not run `InitController`, although the comment says it
   was moved there (NvmeDevice.cpp:51-55).

## 5. Proofs

Each theorem holds for every value of the constants that keeps the named assumptions of its module, and for
any number of steps.  Every inductive invariant was checked with TLC on the instance of the run before it was proved.

### The rings: `NvmeQueueProofs`

For any processors, finite set of requests, CIDs (shared or not), history depth, and every Depth with
`Threshold <= Depth` (finding 2 is why this is needed): `Invariance` is `Spec => []IInv`, and from it
follow `ThrottleIsEnough` (`SubQNeverOverrun`), `PhaseIsSound` (`PhaseTellsNew`) and `DoorbellIsSound`
(`DoorbellFreesOnlyRead`).  `TypeCorrect` (`TypeOK`) needs only the part `BasicInv`, and no throttle:
with `WrittenInv` a slot the controller may fetch has been written, whether it was overrun or not.

None of the three safety properties is inductive.  `IInv` adds

- `LockInv`: only the holder of SubLock is inside `SubmitCmd`;
- `RangeInv`: what is in the rings has a CID within History;
- `SubRingInv`: the submission doorbell lags SubTail by at most the one step between the two writes, and
  every slot not fetched holds a command;
- `CplRingInv`: the phase of each entry tells its side of CqTail, PhaseTag tells whether CplHead is a
  lap behind, and the entries between CplDbl, CplHead and CqTail fit into the ring;
- `CountInv`: InflightCmds, corrected for a command counted but not in the ring and one retired but not
  advanced over, covers all commands in the rings and in the controller, and stays at or
  below `Depth - Threshold`.

`CountInv` is an inequality because CIDs may be shared: an eviction takes a request out of History
and leaves its command in the ring.  From it the rings fit: the controller finds a free slot for each
completion, and SubTail never reaches its head.  So the admin queue is covered.

### The requests: `NvmeQueueRequestProofs`

Assumed besides `Threshold <= Depth`: `DistinctCids`, what Storport promises of its queue tags.  It holds for I/O
queues; on the admin queue, where all internal commands have tag 0, it does not, and finding 1 is what happens then.
The invariant is `IInv /\ RInv` with

- `PlaceInv`: the command of a request sent is in exactly one place (the unfetched part of SubQ, the
  controller, the unconsumed part of CplQ), and once there; that of any other request is nowhere;
- `HistoryInv`: History holds a request under its own CID, exactly from its Push to the Pop of the DPC;
- `EntryInv`: a request inside `SubmitCmd` is the driver's, its CID is never taken (no eviction), and its command
  is in the slot at SubTail before SubTail moves;
- `CompletesOwnRequest` and `InflightExact` themselves, which are inductive beside the rest.

`OwnCompletion`, `CounterIsExact`, `NothingIsLost` (`NothingLost`) and `FreeLeavesNothing` (`FreeIsQuiet`) follow.
The key step is the Pop: the completion at CplHead belongs to a request sent (`PlaceInv`), that request is in History
under the CID of the completion (`HistoryInv`), so that Pop finds this one and no other (`PopFinds`).

`StepsKeepContract` is the refinement of `SrbContract` without its fairness: `Spec` implies the initial
condition of the contract and that each step is one of its steps or none.  `Push` is the contract's
Accept, `CtrlPost` its Execute, `DpcComplete` its Complete; every other step leaves the mapped state
alone (`ContractStep`).

### The reset: `NvmeQueueResetProofs`

`ResetTypeCorrect` (`TypeOKReset`) holds without any assumption on CIDs or threshold, `ResetAnswersAll`
(`ResetCompletesAll`) and `NoneForgotten` (`Recoverable`) with `DistinctCids`.  None of them may use the
throttle, which a reset deceives (finding 3), nor the phases, which two racing updates spoil; that is
why `BasicInv` was cut out of `IInv`.  The invariant adds `HoldInv` (no submitter is inside while a
reset holds the lock), `ScanInv` (the slots the loop has passed are empty and stay so, as only Push
could fill them) and `DutyInv` (a request accepted is in History or in the DPC's hands).  The converse
of `DutyInv`, which holds without a reset, fails here: a request that the reset completes after the DPC
has popped it is in both hands.

### The adapter: `NvmeDeviceProofs`

For any number of queues in the registry and at the controller, namespaces, workers, sleeps, resets and faults.
`TypeCorrect` (`TypeOK`), `EnablesWhenQuiet` (`EnableOnlyWhenQuiet`), `IoToRegistered`
(`IoOnlyToRegistered`) and `HealthyStays` (`HealthyNeverCrashes`) rest on these parts:

- `JobInv`, `CountInv`: each thread is at a step that fits its job, and the two counters of queues go with
  the index of the PnP thread;
- `NumberInv`: the controller is asked for the number of queues only where the registry left it open, so that
  what `CreateIoQ` allocates stays within the array IoQueue;
- `QuietInv`, `EnabledInv`: the controller keeps still between the look at CSTS and the write of CC, and stays enabled
  until a removal or a sleep;
- `StateInv`: requests and bus resets need a started device, where State is RUNNING or RESETBUS;
- `RestartInv`: a restart is the only one, and goes on with a started, paused device without requests;
- `AdminInv`, `EffectInv`: the command of the one thread that waits is the only admin command, its answer belongs to
  it, and a success reported for a queue is a queue the controller has;
- `BackedInv`: each registered queue is the controller's, or a sleep has lost them (`Lost`).

The last part is why the theorem about I/O holds at all, in spite of finding 5: after a sleep that loses
the queues the controller is off, the worker waits for a command nobody executes, and so the adapter is
never resumed.  The parts from `RestartInv` on speak of a device that is neither pulled out nor told a
masked error nor in a restart that was refused or overlaps another (`Excused`).

`HealthyStays` adds `HealthInv` and `CommandInv`, which follow the initialization without a fault: the
controller is off when `RegisterAdmQ` looks, no command fails but the registration of a queue after the
first, and no queue is ever freed.  It assumes `SettledAtBoot`: the firmware does not leave the
controller with CC.EN set and CSTS.RDY clear, where the bugcheck is reachable (hazard at
NvmeDevice.cpp:978).

### The life of a request: `SrbRequestProofs`, `ScsiRepliesProofs`

All eleven properties of `request_life` are theorems, from one inductive invariant.  It follows an
extension from one owner to the next: `OwnerInv` ties its step to the queue or DPC that has it,
`RequestInv` and `CommandInv` tie the request to the command built for it, its memory and the status
given for it, `AnswerInv` counts its completions; `RepliesInv` and `CacheInv` hold the last answers and
cache bits, and `DpcInv` says which extension a DPC has.  Of an extension that is `torn` only the type
is claimed, since two hands have it at once.

The steps on data come in as lemmas about the algorithms: `BuildPrpCovers` gives `BufferCovered`,
`ReadWriteExact` gives `RangeIsKept`, and of `ScsiRepliesProofs` `ReadCapacityExact` gives
`CapacityIsRange`, `ModeSenseFits` and the pages `ReplyInBuffer`, `CachingSeenExact` `SenseIsSelect`.

The assumptions are about what comes from outside: `TransferAssumption` (a class driver's transfers are
as long as their CDBs say, at most MaximumTransferLength, and locked down), `PoolAssumption` (blocks of
the pool have addresses of their own, none of them physical page 0), `NullAssumption`, `ReplyAssumption`
and `RequestAssumption` (sizes; finitely many extensions).

### The data path: `NvmeIoProofs`, `QueueLayout`

For all widths, page and block sizes and placements of pages:

- `BuildPrpCovers`: the controller finds every byte of a buffer through the entries of `BuildPrp`, by cases on how
  the buffer lies to the page boundaries; the lemma `ListedPages` relates the bytes behind the
  first page to the entries of the list, `EntriesSuffice` bounds their number.
- `RangeCheckExact` and `EmptyRangePasses`: when the range check is right and when it is not.
- `ReadWriteExact`: the whole command of a transfer within MaxTxSize.

They rest on `PrpAssumption`, `IoAssumption` and `WidthAssumption`: the list page holds the entries of the longest
transfer and NLB its blocks.  The driver does not enforce the first, see the hazard at
NvmePrpBuilder.cpp:27.

`QueueLayout` proves `RingsFit`: with the size `CalcQueueBufferSize` returns and a page-aligned
block, the rings are page-aligned, disjoint and within the block for every depth a USHORT has.  The
test in `InitQueueBuffer` alone does not show it, since it compares the cursor before rounding.

### Constants, and what is only model-checked

`QueueAssumption`: Depth is a USHORT of at least 2, HistoryDepth and Threshold are positive, the requests are finite.
`DeviceAssumption`: a controller has at least one pair of I/O queues, and neither the number in the
registry nor the one the controller answers exceeds the array IoQueue, which the driver does not check (hazard at
NvmeDevice.cpp:1242); the rest are types.

Only model-checked are the liveness properties (`EventuallyCompleted`, `ThrottleReopens`, `ResetEnds`,
`StartsWhenHealthy`), and of `KeepsContract` the fairness: TLAPS has no ENABLED here.  Induction over
data and RECURSIVE operators are out of the prover's reach; the proved modules use neither.

## 6. Not modelled, and what is left

The properties of all passing runs that TLAPS can state are proved.  What the plan has left:

1. an abstract adapter (off, starting, running, paused, gone) that `NvmeDevice` implements step by step, so that the
   life cycle has a contract as the queue has;
2. `NvmeQueueReset` against `SrbContract` extended with the answer of a reset.

Not modelled, because nothing in the sources says what should hold: two completers of one queue (the comment in
`CompleteCmd` asks, but the poll loop runs only before the interrupts are connected; every property of a queue is
of one completer), and interrupts
dropped during a bus reset, after which an internal command waits without a time-out.

Left out for good: the handlers without a caller (`Scsi_RequestSense6`, `UnregisterIoQueues` and the
like), register contents without effect on control, the debug names, INF files and installers, the
storage-query stub, and the vendored headers.
