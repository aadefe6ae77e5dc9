------------------------------ MODULE NvmeQueue ------------------------------
(****************************************************************************)
(* One NVMe queue pair of the driver: class CNvmeQueue and the CCmdHistory  *)
(* it owns (src/src/SpcNvme/NvmeQueue.cpp), between a successful Setup and  *)
(* Teardown.  Three kinds of actors share it:                               *)
(*   - the processors that run SubmitCmd, one at a time under SubLock;      *)
(*   - the DPC that runs CompleteCmd and takes no lock at all;              *)
(*   - the NVMe controller (external), which fetches commands from SubQ,    *)
(*     executes them in any order and posts completions to CplQ.            *)
(* Each access to memory that another actor may touch is a step of its own. *)
(*                                                                          *)
(* A request is one SRB extension (SPCNVME_SRBEXT).  Storport reuses it for *)
(* request after request, so the set Reqs is fixed and every run is         *)
(* infinite.  An entry of SubQ and of CplQ names the request whose command  *)
(* it carries; the driver's steps look at nothing of it but its CID.        *)
(****************************************************************************)
EXTENDS Integers, FiniteSets

CONSTANTS Cpus,           \* the processors Storport submits on
          Reqs,           \* the SRB extensions in use
          CidOf,          \* [Reqs -> Nat]: the CID, which is the Storport queue tag
          Depth,          \* entries of SubQ and of CplQ
          HistoryDepth,   \* entries of CCmdHistory::History
          Threshold,      \* NVME_CONST::SAFE_SUBMIT_THRESHOLD
          NULL            \* the null pointer

\* The largest USHORT.
USHORT_MAX == 65535

\* Depth is a USHORT.  It comes from the registry and from CAP.MQES, and nothing in
\* the code compares it with Threshold.
ASSUME QueueAssumption ==
    /\ Depth \in 2 .. USHORT_MAX
    /\ HistoryDepth \in Nat \ {0}
    /\ Threshold \in Nat \ {0}
    /\ IsFiniteSet(Reqs)
    /\ CidOf \in [Reqs -> Nat]
    /\ NULL \notin Reqs
    /\ NULL \notin Cpus

Slots  == 0 .. Depth - 1
Cids   == 0 .. HistoryDepth - 1
Phases == {0, 1}
IdleCpu == [pc |-> "idle", srb |-> NULL]

VARIABLES
    srb,           \* who owns each request: Storport, or the driver it was issued to
    cpu,           \* each processor: its next step in SubmitCmd, and the request
    SubLock,       \* the processor that holds the spin lock
    SubQ,          \* the submission ring in host memory
    SubTail,       \* next slot SubmitCmd writes
    SubDbl,        \* the submission doorbell register
    InflightCmds,  \* commands submitted and not retired
    History,       \* CID -> outstanding request
    CplHead,       \* next slot CompleteCmd reads
    PhaseTag,      \* phase of a completion CompleteCmd has not seen
    CplDbl,        \* the completion doorbell register
    dpc,           \* the DPC: its step, the popped request, update_count
    DpcQueued,     \* the DPC object is in the DPC queue
    CplQ,          \* the completion ring in host memory
    SqHead,        \* controller: next command to fetch
    exec,          \* controller: fetched commands without a completion
    CqTail,        \* controller: next completion slot to write
    CqPhase,       \* controller: phase of the next completion
    irq            \* an interrupt message on its way

subVars  == <<SubLock, SubQ, SubTail, SubDbl>>
dpcVars  == <<CplHead, PhaseTag, CplDbl, dpc, DpcQueued>>
ctrlVars == <<CplQ, SqHead, exec, CqTail, CqPhase, irq>>
vars == <<srb, cpu, InflightCmds, History, subVars, dpcVars, ctrlVars>>

----------------------------------------------------------------------------
(* Rings and counters *)

\* (index + 1) % Depth for an index of the ring.
Wrap(i) == IF i + 1 = Depth THEN 0 ELSE i + 1

\* The phase bit changes whenever a ring index returns to slot 0.
WrapPhase(i, phase) == IF Wrap(i) = 0 THEN 1 - phase ELSE phase

\* How many steps of Wrap lead from one index to another.
Dist(from, to) == IF from <= to THEN to - from ELSE to + Depth - from

\* The slots from one index up to, and not including, another.
Window(from, to) ==
    {i \in Slots : IF from <= to THEN from <= i /\ i < to
                                 ELSE from <= i \/ i < to}

\* Mutant of IsSafeForSubmit: no margin.
IsSafeNoMargin == Depth > InflightCmds % (USHORT_MAX + 1)

\* The throttle of submission.  The counter is cast to a USHORT; the difference is a
\* ULONG, and a negative one becomes greater than any USHORT.
IsSafeForSubmit ==
    \/ Depth < Threshold
    \/ Depth - Threshold > InflightCmds % (USHORT_MAX + 1)

\* Mutant of NewCplArrived: an entry that is not zero counts as new.
NewCplIfWritten == CplQ[CplHead].req # NULL

\* The completion CompleteCmd looks at has the phase it waits for.
NewCplArrived == CplQ[CplHead].phase = PhaseTag

\* The CID in a completion entry; the memory of a ring is zeroed at first.
CidIn(entry) == IF entry.req = NULL THEN 0 ELSE CidOf[entry.req]

----------------------------------------------------------------------------
(* The queue after Setup: rings zeroed, doorbells 0, phase 1. *)
Init ==
    /\ srb = [r \in Reqs |-> "free"]
    /\ cpu = [p \in Cpus |-> IdleCpu]
    /\ SubLock = NULL
    /\ SubQ = [i \in Slots |-> NULL]
    /\ SubTail = 0
    /\ SubDbl = 0
    /\ InflightCmds = 0
    /\ History = [c \in Cids |-> NULL]
    /\ CplHead = 0
    /\ PhaseTag = 1
    /\ CplDbl = 0
    /\ dpc = [pc |-> "idle", srb |-> NULL, count |-> 0]
    /\ DpcQueued = FALSE
    /\ CplQ = [i \in Slots |-> [req |-> NULL, phase |-> 0]]
    /\ SqHead = 0
    /\ exec = {}
    /\ CqTail = 0
    /\ CqPhase = 1
    /\ irq = FALSE

----------------------------------------------------------------------------
(* SubmitCmd, on processor p.                                               *)

\* Processor p takes up request r for Storport and acquires SubLock.
Acquire(p, r) ==
    /\ srb[r] = "free"
    /\ SubLock = NULL
    /\ SubLock' = p
    /\ srb' = [srb EXCEPT ![r] = "issued"]
    /\ cpu' = [cpu EXCEPT ![p] = [pc |-> "throttle", srb |-> r]]
    /\ UNCHANGED <<InflightCmds, History, SubQ, SubTail, SubDbl, dpcVars, ctrlVars>>

\* Processor p goes on to a step that reads and writes InflightCmds and History only.
SubmitGoto(p, step) ==
    /\ cpu' = [cpu EXCEPT ![p].pc = step]
    /\ UNCHANGED <<subVars, dpcVars, ctrlVars>>

\* SubmitCmd fails: the lock goes with the scope, the caller completes the SRB.
Refuse(p) ==
    /\ srb' = [srb EXCEPT ![cpu[p].srb] = "free"]
    /\ cpu' = [cpu EXCEPT ![p] = IdleCpu]
    /\ SubLock' = NULL
    /\ UNCHANGED <<InflightCmds, History, SubQ, SubTail, SubDbl, dpcVars, ctrlVars>>

\* The throttle refuses with STATUS_DEVICE_BUSY, or lets the request go on.
Throttle(p) ==
    /\ cpu[p].pc = "throttle"
    /\ ~IsSafeForSubmit
    /\ Refuse(p)

PassThrottle(p) ==
    /\ cpu[p].pc = "throttle"
    /\ IsSafeForSubmit
    /\ SubmitGoto(p, "push")
    /\ UNCHANGED <<srb, InflightCmds, History>>

\* CCmdHistory::Push: the index is out of range, the slot is free, or it is
\* taken (STATUS_ALREADY_COMMITTED).
PushOutOfRange(p) ==
    /\ cpu[p].pc = "push"
    /\ CidOf[cpu[p].srb] \notin Cids
    /\ Refuse(p)

Push(p) ==
    LET cid == CidOf[cpu[p].srb]
    IN  /\ cpu[p].pc = "push"
        /\ cid \in Cids
        /\ History[cid] = NULL
        /\ History' = [History EXCEPT ![cid] = cpu[p].srb]
        /\ SubmitGoto(p, "write")
        /\ UNCHANGED <<srb, InflightCmds>>

PushTaken(p) ==
    LET cid == CidOf[cpu[p].srb]
    IN  /\ cpu[p].pc = "push"
        /\ cid \in Cids
        /\ History[cid] # NULL
        /\ SubmitGoto(p, "evict")
        /\ UNCHANGED <<srb, InflightCmds, History>>

\* Pop the older request with this CID and complete it with SRB_STATUS_BUSY.
\* Its command stays wherever it is, in SubQ or in the controller.
Evict(p) ==
    LET cid == CidOf[cpu[p].srb]
    IN  /\ cpu[p].pc = "evict"
        /\ History[cid] # NULL
        /\ History' = [History EXCEPT ![cid] = NULL]
        /\ srb' = [srb EXCEPT ![History[cid]] = "free"]
        /\ SubmitGoto(p, "repush")
        /\ UNCHANGED InflightCmds

\* The DPC was faster and emptied the slot: old_srbext is a null pointer, and
\* SubmitCmd calls CompleteSrb through it.  Nothing runs on this processor after.
EvictNothing(p) ==
    /\ cpu[p].pc = "evict"
    /\ History[CidOf[cpu[p].srb]] = NULL
    /\ SubmitGoto(p, "crashed")
    /\ UNCHANGED <<srb, InflightCmds, History>>

\* The second Push, whose result is not looked at.
Repush(p) ==
    /\ cpu[p].pc = "repush"
    /\ History' = [History EXCEPT ![CidOf[cpu[p].srb]] = IF @ = NULL THEN cpu[p].srb ELSE @]
    /\ SubmitGoto(p, "write")
    /\ UNCHANGED <<srb, InflightCmds>>

\* Mutant of WriteSlot: the slot after SubTail is written.
WriteNextSlot(p) ==
    /\ cpu[p].pc = "write"
    /\ SubQ' = [SubQ EXCEPT ![Wrap(SubTail)] = cpu[p].srb]
    /\ cpu' = [cpu EXCEPT ![p].pc = "count"]
    /\ UNCHANGED <<srb, InflightCmds, History, SubLock, SubTail, SubDbl, dpcVars, ctrlVars>>

\* RtlCopyMemory of the command into SubQ[SubTail].
WriteSlot(p) ==
    /\ cpu[p].pc = "write"
    /\ SubQ' = [SubQ EXCEPT ![SubTail] = cpu[p].srb]
    /\ cpu' = [cpu EXCEPT ![p].pc = "count"]
    /\ UNCHANGED <<srb, InflightCmds, History, SubLock, SubTail, SubDbl, dpcVars, ctrlVars>>

CountInflight(p) ==
    /\ cpu[p].pc = "count"
    /\ InflightCmds' = InflightCmds + 1
    /\ SubmitGoto(p, "tail")
    /\ UNCHANGED <<srb, History>>

\* Mutant of AdvanceTail: no modulo.
AdvanceTailNoWrap(p) ==
    /\ cpu[p].pc = "tail"
    /\ SubTail' = SubTail + 1
    /\ cpu' = [cpu EXCEPT ![p].pc = "ring"]
    /\ UNCHANGED <<srb, InflightCmds, History, SubLock, SubQ, SubDbl, dpcVars, ctrlVars>>

AdvanceTail(p) ==
    /\ cpu[p].pc = "tail"
    /\ SubTail' = Wrap(SubTail)
    /\ cpu' = [cpu EXCEPT ![p].pc = "ring"]
    /\ UNCHANGED <<srb, InflightCmds, History, SubLock, SubQ, SubDbl, dpcVars, ctrlVars>>

\* WriteDbl; the lock is released by the return that follows at once.
RingSubDbl(p) ==
    /\ cpu[p].pc = "ring"
    /\ SubDbl' = SubTail
    /\ SubLock' = NULL
    /\ cpu' = [cpu EXCEPT ![p] = IdleCpu]
    /\ UNCHANGED <<srb, InflightCmds, History, SubQ, SubTail, dpcVars, ctrlVars>>

SubmitStep(p) ==
    \/ Throttle(p) \/ PassThrottle(p)
    \/ PushOutOfRange(p) \/ Push(p) \/ PushTaken(p)
    \/ Evict(p) \/ EvictNothing(p) \/ Repush(p)
    \/ WriteSlot(p) \/ CountInflight(p) \/ AdvanceTail(p) \/ RingSubDbl(p)

----------------------------------------------------------------------------
(* QueueCplDpcRoutine and CompleteCmd.  One DPC object serves the queue.    *)

DpcStart ==
    /\ dpc.pc = "idle"
    /\ DpcQueued
    /\ DpcQueued' = FALSE
    /\ dpc' = [pc |-> "poll", srb |-> NULL, count |-> 0]
    /\ UNCHANGED <<srb, cpu, InflightCmds, History, subVars, CplHead, PhaseTag, CplDbl, ctrlVars>>

DpcGoto(step) ==
    /\ dpc' = [dpc EXCEPT !.pc = step]
    /\ UNCHANGED <<subVars, CplHead, PhaseTag, CplDbl, DpcQueued, ctrlVars>>

\* Mutant of DpcPop: Pop leaves the request in History.
DpcPopKeepsHistory ==
    LET cid == CidIn(CplQ[CplHead])
    IN  /\ dpc.pc = "poll"
        /\ NewCplArrived
        /\ dpc' = [dpc EXCEPT !.srb = History[cid],
                              !.pc = IF History[cid] = NULL THEN "advance" ELSE "complete"]
        /\ UNCHANGED <<srb, cpu, InflightCmds, History, subVars, CplHead, PhaseTag, CplDbl, DpcQueued, ctrlVars>>

\* CCmdHistory::Pop of the CID in the new completion; a CID without a request
\* is skipped.
DpcPop ==
    LET cid == CidIn(CplQ[CplHead])
    IN  /\ dpc.pc = "poll"
        /\ NewCplArrived
        /\ History' = [History EXCEPT ![cid] = NULL]
        /\ dpc' = [dpc EXCEPT !.srb = History[cid],
                              !.pc = IF History[cid] = NULL THEN "advance" ELSE "complete"]
        /\ UNCHANGED <<srb, cpu, InflightCmds, subVars, CplHead, PhaseTag, CplDbl, DpcQueued, ctrlVars>>

\* CompletionCB and CompleteSrb: from here Storport may reuse the request.
DpcComplete ==
    /\ dpc.pc = "complete"
    /\ srb' = [srb EXCEPT ![dpc.srb] = "free"]
    /\ DpcGoto("retire")
    /\ UNCHANGED <<cpu, InflightCmds, History>>

\* Mutant of DpcRetire: no InterlockedDecrement.
DpcRetireNoDecrement ==
    /\ dpc.pc = "retire"
    /\ DpcGoto("advance")
    /\ UNCHANGED <<srb, cpu, InflightCmds, History>>

\* CleanUp and InterlockedDecrement.
DpcRetire ==
    /\ dpc.pc = "retire"
    /\ InflightCmds' = InflightCmds - 1
    /\ DpcGoto("advance")
    /\ UNCHANGED <<srb, cpu, History>>

\* Mutant of DpcAdvance: UpdateCplHead, which leaves the phase as it is.
DpcAdvanceKeepsPhase ==
    /\ dpc.pc = "advance"
    /\ CplHead' = Wrap(CplHead)
    /\ dpc' = [pc |-> IF Depth <= dpc.count + 1 THEN "ring" ELSE "poll",
               srb |-> NULL, count |-> dpc.count + 1]
    /\ UNCHANGED <<srb, cpu, InflightCmds, History, subVars, PhaseTag, CplDbl, DpcQueued, ctrlVars>>

\* UpdateCplHeadAndPhase; max_count is Depth for every caller.
DpcAdvance ==
    /\ dpc.pc = "advance"
    /\ CplHead' = Wrap(CplHead)
    /\ PhaseTag' = WrapPhase(CplHead, PhaseTag)
    /\ dpc' = [pc |-> IF Depth <= dpc.count + 1 THEN "ring" ELSE "poll",
               srb |-> NULL, count |-> dpc.count + 1]
    /\ UNCHANGED <<srb, cpu, InflightCmds, History, subVars, CplDbl, DpcQueued, ctrlVars>>

DpcDrained ==
    /\ dpc.pc = "poll"
    /\ ~NewCplArrived
    /\ DpcGoto(IF dpc.count # 0 THEN "ring" ELSE "idle")
    /\ UNCHANGED <<srb, cpu, InflightCmds, History>>

\* Mutant of DpcRing: the doorbell runs ahead by one entry.
DpcRingAhead ==
    /\ dpc.pc = "ring"
    /\ CplDbl' = Wrap(CplHead)
    /\ dpc' = [dpc EXCEPT !.pc = "idle", !.count = 0]
    /\ UNCHANGED <<srb, cpu, InflightCmds, History, subVars, CplHead, PhaseTag, DpcQueued, ctrlVars>>

DpcRing ==
    /\ dpc.pc = "ring"
    /\ CplDbl' = CplHead
    /\ dpc' = [dpc EXCEPT !.pc = "idle", !.count = 0]
    /\ UNCHANGED <<srb, cpu, InflightCmds, History, subVars, CplHead, PhaseTag, DpcQueued, ctrlVars>>

DpcStep == DpcStart \/ DpcPop \/ DpcComplete \/ DpcRetire \/ DpcAdvance \/ DpcDrained \/ DpcRing

----------------------------------------------------------------------------
(* The controller and its interrupt (external).  It never starts a second   *)
(* command with an identifier it still executes, and never posts into a     *)
(* completion ring that the completion doorbell says is full.               *)

CtrlFetch ==
    /\ SqHead # SubDbl
    /\ SubQ[SqHead] \notin exec
    /\ exec' = exec \cup {SubQ[SqHead]}
    /\ SqHead' = Wrap(SqHead)
    /\ UNCHANGED <<srb, cpu, InflightCmds, History, subVars, dpcVars, CplQ, CqTail, CqPhase, irq>>

CtrlPost(r) ==
    /\ r \in exec
    /\ Wrap(CqTail) # CplDbl
    /\ exec' = exec \ {r}
    /\ CplQ' = [CplQ EXCEPT ![CqTail] = [req |-> r, phase |-> CqPhase]]
    /\ CqTail' = Wrap(CqTail)
    /\ CqPhase' = WrapPhase(CqTail, CqPhase)
    /\ irq' = TRUE
    /\ UNCHANGED <<srb, cpu, InflightCmds, History, subVars, dpcVars, SqHead>>

\* Mutant of Isr: an interrupt that finds the DPC running does not queue it again.
IsrOnlyIfIdle ==
    /\ irq
    /\ irq' = FALSE
    /\ DpcQueued' = (DpcQueued \/ dpc.pc = "idle")
    /\ UNCHANGED <<srb, cpu, InflightCmds, History, subVars, CplHead, PhaseTag, CplDbl, dpc,
                   CplQ, SqHead, exec, CqTail, CqPhase>>

\* NvmeMsixISR while the device works: StorPortIssueDpc queues the DPC once.
Isr ==
    /\ irq
    /\ irq' = FALSE
    /\ DpcQueued' = TRUE
    /\ UNCHANGED <<srb, cpu, InflightCmds, History, subVars, CplHead, PhaseTag, CplDbl, dpc,
                   CplQ, SqHead, exec, CqTail, CqPhase>>

----------------------------------------------------------------------------
Next ==
    \/ \E p \in Cpus, r \in Reqs : Acquire(p, r)
    \/ \E p \in Cpus : SubmitStep(p)
    \/ DpcStep
    \/ CtrlFetch
    \/ \E r \in Reqs : CtrlPost(r)
    \/ Isr

Spec == Init /\ [][Next]_vars

\* A processor inside the lock, the DPC and the interrupt are not preempted for
\* ever.  The controller goes on fetching, and posts the completion of every
\* command it executes even if CplQ is full now and then.  A new request may
\* never come: Acquire has no fairness.
Fairness ==
    /\ \A p \in Cpus : WF_vars(SubmitStep(p))
    /\ \A r \in Reqs : SF_vars(CtrlPost(r))
    /\ WF_vars(DpcStep)
    /\ WF_vars(CtrlFetch)
    /\ WF_vars(Isr)

FairSpec == Spec /\ Fairness

----------------------------------------------------------------------------
(* Properties of one queue.                                                 *)

SubmitPcs == {"idle", "throttle", "push", "evict", "repush", "write", "count",
              "tail", "ring", "crashed"}
DpcPcs    == {"idle", "poll", "complete", "retire", "advance", "ring"}

\* Every variable keeps its type.
TypeOK ==
    /\ srb \in [Reqs -> {"free", "issued"}]
    /\ cpu \in [Cpus -> [pc : SubmitPcs, srb : Reqs \cup {NULL}]]
    /\ SubLock \in Cpus \cup {NULL}
    /\ SubQ \in [Slots -> Reqs \cup {NULL}]
    /\ SubTail \in Slots
    /\ SubDbl \in Slots
    /\ InflightCmds \in Int
    /\ History \in [Cids -> Reqs \cup {NULL}]
    /\ CplHead \in Slots
    /\ PhaseTag \in Phases
    /\ CplDbl \in Slots
    /\ dpc \in [pc : DpcPcs, srb : Reqs \cup {NULL}, count : 0 .. Depth]
    /\ DpcQueued \in BOOLEAN
    /\ CplQ \in [Slots -> [req : Reqs \cup {NULL}, phase : Phases]]
    /\ SqHead \in Slots
    /\ exec \in SUBSET Reqs
    /\ CqTail \in Slots
    /\ CqPhase \in Phases
    /\ irq \in BOOLEAN

\* The throttle of submission does what its comment asks for: when SubmitCmd is
\* about to move SubTail, the move does not make a full ring look empty, so the
\* slot just written is not one the controller still has to fetch.
SubQNeverOverrun ==
    \A p \in Cpus : cpu[p].pc = "tail" => Wrap(SubTail) # SqHead

\* The phase tag never deceives CompleteCmd: while it polls, the entry at CplHead
\* looks new exactly when the controller has posted one that was not consumed.
PhaseTellsNew ==
    dpc.pc = "poll" => (NewCplArrived <=> CplHead # CqTail)

\* A request the driver has in its rings or in the controller, and not on the way in.
Entering(r, steps) == \E p \in Cpus : cpu[p].srb = r /\ cpu[p].pc \in steps
Sent(r) ==
    /\ srb[r] = "issued"
    /\ ~Entering(r, {"throttle", "push", "evict", "repush", "write", "count", "tail"})

\* When CompleteCmd completes a request, it is the one whose command the
\* controller executed, and it is outstanding: no SRB is completed twice.
CompletesOwnRequest ==
    dpc.pc = "complete" => dpc.srb = CplQ[CplHead].req /\ Sent(dpc.srb)

\* InflightCmds, which the submitters and the DPC change without a common lock, is
\* the number of requests in History whose submitter has counted them, plus the
\* one in the hands of the DPC.
InflightExact ==
    InflightCmds =
        Cardinality({c \in Cids : History[c] # NULL /\ ~Entering(History[c], {"write", "count"})})
        + IF dpc.pc \in {"complete", "retire"} THEN 1 ELSE 0

\* The places where the command of a request is: the part of SubQ that is not
\* fetched, the controller, and the part of CplQ that is not consumed.
Unfetched   == Window(SqHead, SubTail)
Unconsumed  == Window(CplHead, CqTail) \
                 IF dpc.pc \in {"retire", "advance"} THEN {CplHead} ELSE {}
Copies(r)   == Cardinality({i \in Unfetched : SubQ[i] = r})
               + Cardinality({r} \cap exec)
               + Cardinality({i \in Unconsumed : CplQ[i].req = r})

\* The command of a request that waits for completion is in exactly one place,
\* and the CID leads back to the request until the DPC has popped it.
NothingLost ==
    \A r \in Reqs : Sent(r) =>
        /\ Copies(r) = 1
        /\ History[CidOf[r]] = r \/ (dpc.pc = "complete" /\ dpc.srb = r)

\* A request that Storport owns has no command left in the queue or in the
\* controller, which could write to the memory of a later request.
FreeIsQuiet ==
    \A r \in Reqs : srb[r] = "free" => Copies(r) = 0

\* The completion doorbell only moves over entries that were consumed: the slots
\* it hands back to the controller never include one with an unread completion.
DoorbellFreesOnlyRead ==
    [][Window(CplDbl, CplDbl') \cap Window(CplHead, CqTail) = {}]_CplDbl

\* Every request is handed back to Storport in the end: no completion is left in
\* CplQ without an interrupt, a queued DPC or a running one that will see it.
EventuallyCompleted ==
    \A r \in Reqs : srb[r] = "issued" ~> srb[r] = "free"

\* A queue that is full opens again: the throttle never refuses for ever.
ThrottleReopens == []<>IsSafeForSubmit

\* SubmitCmd evicts a request only when there is one to release ("old cmd is
\* timed out, release it...").
EvictionFindsOldCmd ==
    \A p \in Cpus : cpu[p].pc = "evict" => History[CidOf[cpu[p].srb]] # NULL

----------------------------------------------------------------------------
(* Refinement of SrbContract, for a queue whose requests have CIDs of their *)
(* own.  A request is accepted once it is in History, and executed while    *)
(* its completion waits in CplQ or in the hands of the DPC.                 *)
ExecutedReqs ==
    {CplQ[i].req : i \in Unconsumed} \cup
    (IF dpc.pc = "complete" THEN {dpc.srb} ELSE {})

ContractState ==
    [r \in Reqs |->
        CASE srb[r] = "free" \/ Entering(r, {"throttle", "push"}) -> "idle"
          [] r \in ExecutedReqs -> "executed"
          [] OTHER -> "accepted"]

Contract == INSTANCE SrbContract WITH state <- ContractState

\* The queue keeps the contract: no request is completed that the controller did
\* not execute, none is completed twice, and each one accepted is completed.
KeepsContract == Contract!Spec
=============================================================================
