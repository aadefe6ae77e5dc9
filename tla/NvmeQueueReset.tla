--------------------------- MODULE NvmeQueueReset ---------------------------
(****************************************************************************)
(* A queue under a bus reset: NvmeQueue with CNvmeQueue::ResetAllCmd, which *)
(* HwResetBus calls on every queue when Storport gives up on requests.  The *)
(* reset holds SubLock, so no SubmitCmd runs with it; the DPC takes no lock *)
(* and may be anywhere in CompleteCmd, and the controller is not told.      *)
(*                                                                          *)
(* CplHead and PhaseTag are plain variables that ResetAllCmd and            *)
(* CompleteCmd now both write.  Here an update of them is a load, a store   *)
(* and a change of the phase; where the source reads a variable twice, the  *)
(* second read may see the memory or what the compiler kept of the first.   *)
(****************************************************************************)
EXTENDS NvmeQueue

CONSTANT MaxResets   \* bound of the model: how many bus resets may happen

ASSUME ResetAssumption == MaxResets \in Nat

VARIABLES
    rst,   \* ResetAllCmd: its step, the index and request of its loop, the CplHead
           \* it knows, the calls so far
    reg    \* CompleteCmd: which entry cpl points to, its step in
           \* UpdateCplHeadAndPhase, the CplHead it loaded

resetVars == <<vars, rst, reg>>

InitReset ==
    /\ Init
    /\ rst = [pc |-> "idle", i |-> 0, srb |-> NULL, head |-> 0, calls |-> 0]
    /\ reg = [cpl |-> 0, pc |-> "load", head |-> 0]

\* The last part of UpdateCplHeadAndPhase: the phase changes if the index is 0, in
\* memory or as it was stored.  Two changes at once may count as one.
FlipPhase(stored, race) ==
    \E seen \in {CplHead, stored} :
        PhaseTag' \in IF seen # 0 THEN {PhaseTag}
                      ELSE IF race THEN Phases ELSE {1 - PhaseTag}

----------------------------------------------------------------------------
(* ResetAllCmd.                                                             *)

\* Mutant of ResetAcquire: the spin lock is not taken.
ResetWithoutLock(p) ==
    /\ rst.pc = "idle"
    /\ rst.calls < MaxResets
    /\ rst' = [rst EXCEPT !.pc = "scan", !.i = 0, !.calls = @ + 1]
    /\ UNCHANGED <<vars, reg>>

ResetAcquire(p) ==
    /\ rst.pc = "idle"
    /\ rst.calls < MaxResets
    /\ SubLock = NULL
    /\ SubLock' = p
    /\ rst' = [rst EXCEPT !.pc = "scan", !.i = 0, !.calls = @ + 1]
    /\ UNCHANGED <<srb, cpu, InflightCmds, History, SubQ, SubTail, SubDbl, dpcVars, ctrlVars, reg>>

\* CCmdHistory::Reset, index i: is there a request?
ResetLook ==
    /\ rst.pc = "scan"
    /\ rst.i \in Cids
    /\ rst' = IF History[rst.i] = NULL
                 THEN [rst EXCEPT !.i = @ + 1]
                 ELSE [rst EXCEPT !.pc = "complete", !.srb = History[rst.i]]
    /\ UNCHANGED <<vars, reg>>

\* CompleteSrb(SRB_STATUS_BUS_RESET), of the request it saw or of what History holds
\* now.  The latter is a null pointer if the DPC has popped the request meanwhile.
ResetComplete ==
    /\ rst.pc = "complete"
    /\ \/ /\ srb' = [srb EXCEPT ![rst.srb] = "free"]
          /\ rst' = [rst EXCEPT !.pc = "clear", !.srb = NULL]
       \/ /\ History[rst.i] = NULL
          /\ rst' = [rst EXCEPT !.pc = "crashed", !.srb = NULL]
          /\ UNCHANGED srb
    /\ UNCHANGED <<cpu, InflightCmds, History, subVars, dpcVars, ctrlVars, reg>>

ResetClear ==
    /\ rst.pc = "clear"
    /\ History' = [History EXCEPT ![rst.i] = NULL]
    /\ rst' = [rst EXCEPT !.pc = "scan", !.i = @ + 1]
    /\ UNCHANGED <<srb, cpu, InflightCmds, subVars, dpcVars, ctrlVars, reg>>

\* Mutant of ResetCount: the loop ends one index early.
ResetCountEarly ==
    /\ rst.pc = "scan"
    /\ rst.i \notin 0 .. HistoryDepth - 2
    /\ InflightCmds' = 0
    /\ rst' = [rst EXCEPT !.pc = "sweep", !.i = 0, !.head = CplHead]
    /\ UNCHANGED <<srb, cpu, History, subVars, dpcVars, ctrlVars, reg>>

ResetCount ==
    /\ rst.pc = "scan"
    /\ rst.i \notin Cids
    /\ InflightCmds' = 0
    /\ rst' = [rst EXCEPT !.pc = "sweep", !.i = 0, !.head = CplHead]
    /\ UNCHANGED <<srb, cpu, History, subVars, dpcVars, ctrlVars, reg>>

\* while (CplHead != SubTail) UpdateCplHeadAndPhase.
ResetSweep ==
    /\ rst.pc = "sweep"
    /\ \E seen \in {CplHead, rst.head} :
          /\ seen # SubTail
          /\ rst' = [rst EXCEPT !.pc = "store", !.head = seen]
    /\ UNCHANGED <<vars, reg>>

\* Mutants of ResetStore: no modulo; and two entries at a time.
ResetStoreNoWrap ==
    /\ rst.pc = "store"
    /\ CplHead' = rst.head + 1
    /\ rst' = [rst EXCEPT !.pc = "flip", !.head = @ + 1]
    /\ UNCHANGED <<srb, cpu, InflightCmds, History, subVars, PhaseTag, CplDbl, dpc, DpcQueued,
                   ctrlVars, reg>>

ResetStoreByTwo ==
    /\ rst.pc = "store"
    /\ CplHead' = Wrap(Wrap(rst.head))
    /\ rst' = [rst EXCEPT !.pc = "flip", !.head = CplHead']
    /\ UNCHANGED <<srb, cpu, InflightCmds, History, subVars, PhaseTag, CplDbl, dpc, DpcQueued,
                   ctrlVars, reg>>

ResetStore ==
    /\ rst.pc = "store"
    /\ CplHead' = Wrap(rst.head)
    /\ rst' = [rst EXCEPT !.pc = "flip", !.head = Wrap(@)]
    /\ UNCHANGED <<srb, cpu, InflightCmds, History, subVars, PhaseTag, CplDbl, dpc, DpcQueued,
                   ctrlVars, reg>>

ResetFlip ==
    /\ rst.pc = "flip"
    /\ FlipPhase(rst.head, reg.pc = "flip")
    /\ rst' = [rst EXCEPT !.pc = "sweep"]
    /\ UNCHANGED <<srb, cpu, InflightCmds, History, subVars, CplHead, CplDbl, dpc, DpcQueued,
                   ctrlVars, reg>>

ResetRelease ==
    /\ rst.pc = "sweep"
    /\ SubTail \in {CplHead, rst.head}
    /\ SubLock' = NULL
    /\ rst' = [rst EXCEPT !.pc = "idle", !.head = 0]
    /\ UNCHANGED <<srb, cpu, InflightCmds, History, SubQ, SubTail, SubDbl, dpcVars, ctrlVars, reg>>

ResetStep ==
    ResetLook \/ ResetComplete \/ ResetClear \/ ResetCount
    \/ ResetSweep \/ ResetStore \/ ResetFlip \/ ResetRelease

----------------------------------------------------------------------------
(* CompleteCmd when CplHead may move under it: cpl stays where it pointed.  *)

DpcPoint == DpcStart /\ reg' = [reg EXCEPT !.cpl = CplHead]

DpcPopAt ==
    LET cid == CidIn(CplQ[reg.cpl])
    IN  /\ dpc.pc = "poll"
        /\ CplQ[reg.cpl].phase = PhaseTag
        /\ History' = [History EXCEPT ![cid] = NULL]
        /\ dpc' = [dpc EXCEPT !.srb = History[cid],
                              !.pc = IF History[cid] = NULL THEN "advance" ELSE "complete"]
        /\ UNCHANGED <<srb, cpu, InflightCmds, subVars, CplHead, PhaseTag, CplDbl, DpcQueued,
                       ctrlVars, reg>>

DpcDrainedAt ==
    /\ dpc.pc = "poll"
    /\ CplQ[reg.cpl].phase # PhaseTag
    /\ DpcGoto(IF dpc.count # 0 THEN "ring" ELSE "idle")
    /\ UNCHANGED <<srb, cpu, InflightCmds, History, reg>>

DpcLoad ==
    /\ dpc.pc = "advance" /\ reg.pc = "load"
    /\ reg' = [reg EXCEPT !.pc = "store", !.head = CplHead]
    /\ UNCHANGED vars

DpcStore ==
    /\ dpc.pc = "advance" /\ reg.pc = "store"
    /\ CplHead' = Wrap(reg.head)
    /\ reg' = [reg EXCEPT !.pc = "flip", !.head = Wrap(@)]
    /\ UNCHANGED <<srb, cpu, InflightCmds, History, subVars, PhaseTag, CplDbl, dpc, DpcQueued,
                   ctrlVars>>

DpcFlip ==
    /\ dpc.pc = "advance" /\ reg.pc = "flip"
    /\ FlipPhase(reg.head, rst.pc = "flip")
    /\ dpc' = [pc |-> IF Depth <= dpc.count + 1 THEN "ring" ELSE "poll",
               srb |-> NULL, count |-> dpc.count + 1]
    /\ \E seen \in {CplHead, reg.head} : reg' = [cpl |-> seen, pc |-> "load", head |-> 0]
    /\ UNCHANGED <<srb, cpu, InflightCmds, History, subVars, CplHead, CplDbl, DpcQueued, ctrlVars>>

DpcStepReset ==
    /\ \/ DpcPoint \/ DpcPopAt \/ DpcDrainedAt \/ DpcLoad \/ DpcStore \/ DpcFlip
       \/ (DpcComplete \/ DpcRetire \/ DpcRing) /\ UNCHANGED reg
    /\ UNCHANGED rst

----------------------------------------------------------------------------
\* The steps that a reset does not change.
Unaware(step) == step /\ UNCHANGED <<rst, reg>>

NextReset ==
    \/ \E p \in Cpus, r \in Reqs : Unaware(Acquire(p, r))
    \/ \E p \in Cpus : Unaware(SubmitStep(p))
    \/ DpcStepReset
    \/ Unaware(CtrlFetch)
    \/ \E r \in Reqs : Unaware(CtrlPost(r))
    \/ Unaware(Isr)
    \/ \E p \in Cpus : ResetAcquire(p)
    \/ ResetStep

SpecReset == InitReset /\ [][NextReset]_resetVars

\* ResetAllCmd is never preempted for ever; the other actors as in NvmeQueue.
FairSpecReset ==
    /\ SpecReset
    /\ WF_resetVars(ResetStep)
    /\ \A p \in Cpus : WF_resetVars(Unaware(SubmitStep(p)))
    /\ \A r \in Reqs : SF_resetVars(Unaware(CtrlPost(r)))
    /\ WF_resetVars(DpcStepReset)
    /\ WF_resetVars(Unaware(CtrlFetch))
    /\ WF_resetVars(Unaware(Isr))

----------------------------------------------------------------------------
(* Properties of a reset.                                                   *)

\* Every variable keeps its type.
TypeOKReset ==
    /\ TypeOK
    /\ rst \in [pc : {"idle", "scan", "complete", "clear", "sweep", "store", "flip", "crashed"},
                i : 0 .. HistoryDepth, srb : Reqs \cup {NULL}, head : Slots,
                calls : 0 .. MaxResets]
    /\ reg \in [cpl : Slots, pc : {"load", "store", "flip"}, head : Slots]

\* HwResetBus completes every request received before: when ResetAllCmd has gone
\* through History, the driver holds no request but the one in the DPC's hands.
ResetCompletesAll ==
    rst.pc \in {"sweep", "store", "flip"} =>
        \A r \in Reqs : srb[r] = "issued" => dpc.pc = "complete" /\ dpc.srb = r

\* Whatever a reset and a DPC do to each other, no request is forgotten: one that
\* was sent and not completed is in History, where the next reset will find it, or
\* in the hands of the DPC.
Recoverable ==
    \A r \in Reqs : Sent(r) =>
        \/ \E c \in Cids : History[c] = r
        \/ dpc.pc = "complete" /\ dpc.srb = r

\* A reset ends, or has crashed: the loop that moves CplHead to SubTail is not kept
\* running, with SubLock held, by a DPC that moves CplHead at the same time.
ResetEnds == rst.pc # "idle" ~> rst.pc \in {"idle", "crashed"}
=============================================================================
