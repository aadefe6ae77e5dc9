------------------------- MODULE NvmeQueueResetProofs -------------------------
(****************************************************************************)
(* Proofs about NvmeQueueReset: the types, for every value of the constants *)
(* and every interleaving of a reset with the DPC; and, when the requests   *)
(* have CIDs of their own, that a reset answers all of them and that none   *)
(* is forgotten.  Nothing here needs the throttle, which a reset deceives.  *)
(****************************************************************************)
EXTENDS NvmeQueueReset, NvmeQueueRequestProofs

(****************************************************************************)
(* The inductive invariant, in named parts.                                 *)
(****************************************************************************)

\* The types of the variables a reset adds, and an index in History while the loop is at one.
RstType ==
    [pc : {"idle", "scan", "complete", "clear", "sweep", "store", "flip", "crashed"},
     i : 0 .. HistoryDepth, srb : Reqs \cup {NULL}, head : Slots, calls : 0 .. MaxResets]
RegType == [cpl : Slots, pc : {"load", "store", "flip"}, head : Slots]
ResetTypeInv ==
    /\ rst \in RstType /\ reg \in RegType
    /\ rst.pc \in {"complete", "clear"} => rst.i \in Cids

\* A reset has SubLock, and no SubmitCmd runs with it.
HoldInv ==
    rst.pc # "idle" => SubLock # NULL /\ \A p \in Cpus : cpu[p].pc = "idle"

\* What the loop over History has passed is empty, and stays so; what it has just completed
\* is still there at most until it clears the slot.
ScanInv ==
    /\ rst.pc \in {"scan", "complete", "clear"} =>
           \A c \in Cids : c < rst.i => History[c] = NULL
    /\ rst.pc \in {"sweep", "store", "flip"} => \A c \in Cids : History[c] = NULL
    /\ rst.pc = "complete" =>
           rst.srb \in Reqs /\ History[rst.i] \in {NULL, rst.srb}
    /\ rst.pc = "clear" =>
           History[rst.i] = NULL \/ srb[History[rst.i]] = "free"

\* A request the driver has taken is in History, under its own CID, or with the DPC.  Unlike
\* in NvmeQueue the converse fails: a request that a reset completed can be with the DPC too.
DutyInv ==
    /\ \A c \in Cids : History[c] # NULL => CidOf[History[c]] = c
    /\ \A r \in Reqs : Accepted(r) => InHistory(r) \/ Held(r)

\* What holds without an assumption on the CIDs, and what holds with it.
ShapeInv == BasicInv /\ ResetTypeInv /\ HoldInv
ResetInv == ShapeInv /\ ScanInv /\ DutyInv

(****************************************************************************)
(* The steps of the module, against those of NvmeQueue.                     *)
(****************************************************************************)

\* The steps that are not steps of NvmeQueue.
RacingStep ==
    \/ DpcPopAt \/ DpcDrainedAt \/ DpcStore \/ DpcFlip
    \/ \E p \in Cpus : ResetAcquire(p)
    \/ ResetComplete \/ ResetClear \/ ResetCount \/ ResetStore \/ ResetFlip \/ ResetRelease

\* A step is one of these or one of NvmeQueue; SubmitCmd and its callers know no reset.
LEMMA ResetKinds ==
    ASSUME [NextReset]_resetVars
    PROVE  /\ RacingStep \/ [Next]_vars
           /\ \/ RacingStep
              \/ \E p \in Cpus, r \in Reqs : Acquire(p, r) /\ UNCHANGED <<rst, reg>>
              \/ \E p \in Cpus : SubmitStep(p) /\ UNCHANGED <<rst, reg>>
              \/ CtrlFetch \/ (\E r \in Reqs : CtrlPost(r)) \/ Isr
              \/ DpcStart \/ DpcComplete \/ DpcRetire \/ DpcRing
              \/ UNCHANGED vars
BY Zenon DEF NextReset, Unaware, DpcStepReset, DpcPoint, DpcLoad, ResetStep, ResetLook, ResetSweep,
   RacingStep, Next, DpcStep, resetVars

\* What ResetAllCmd and CompleteCmd leave alone.
LEMMA RacingFrame ==
    ASSUME RacingStep
    PROVE  /\ UNCHANGED <<cpu, SubQ, SubTail, SubDbl, CplQ, SqHead, exec, CqTail, CqPhase, irq,
                          DpcQueued, CplDbl>>
           /\ \/ UNCHANGED SubLock
              \/ ResetRelease
              \/ \E p \in Cpus : ResetAcquire(p)
BY Zenon DEF RacingStep, DpcPopAt, DpcDrainedAt, DpcStore, DpcFlip, DpcGoto, ResetAcquire,
   ResetComplete, ResetClear, ResetCount, ResetStore, ResetFlip, ResetRelease,
   subVars, dpcVars, ctrlVars

\* History has at least one slot; the bound of resets is a number.
LEMMA ResetNat == HistoryDepth \in Nat /\ 1 <= HistoryDepth /\ MaxResets \in Nat
<1>1. HistoryDepth \in Nat \ {0}
    BY Zenon, QueueAssumption
<1>2. MaxResets \in Nat
    BY Zenon, ResetAssumption
<1> QED
    BY <1>1, <1>2

\* The phase stays a phase whatever CplHead a step sees.
LEMMA FlipType ==
    ASSUME NEW stored, NEW race, PhaseTag \in Phases, FlipPhase(stored, race)
    PROVE  PhaseTag' \in Phases
<1>1. PICK seen \in {CplHead, stored} :
          PhaseTag' \in IF seen # 0 THEN {PhaseTag} ELSE IF race THEN Phases ELSE {1 - PhaseTag}
    BY DEF FlipPhase
<1> QED
    BY <1>1 DEF Phases

(****************************************************************************)
(* The types, and who is inside.                                            *)
(****************************************************************************)

\* The initial state.
LEMMA InitResetInv == InitReset => ResetInv
<1> SUFFICES ASSUME InitReset PROVE ResetInv
    OBVIOUS
<1>1. Init /\ rst = [pc |-> "idle", i |-> 0, srb |-> NULL, head |-> 0, calls |-> 0]
           /\ reg = [cpl |-> 0, pc |-> "load", head |-> 0]
    BY DEF InitReset
<1>2. BasicInv
    BY <1>1, InitInv DEF IInv, BasicInv
<1>3. ResetTypeInv
    <2>1. 0 \in Slots /\ 0 \in 0 .. HistoryDepth /\ 0 \in 0 .. MaxResets
        BY DepthNat, ResetNat DEF Slots
    <2> QED
        BY <1>1, <2>1 DEF ResetTypeInv, RstType, RegType
<1>4. HoldInv /\ ScanInv
    BY <1>1 DEF HoldInv, ScanInv
<1>5. DutyInv
    BY <1>1, NullFact DEF Init, DutyInv, Accepted
<1> QED
    BY <1>2, <1>3, <1>4, <1>5 DEF ResetInv, ShapeInv

\* A racing step keeps the types of the queue's own variables.
LEMMA RacingType ==
    ASSUME ShapeInv, RacingStep
    PROVE  TypeOK' /\ BatchInv'
<1>a. /\ TypeOK /\ RangeInv /\ BatchInv /\ ResetTypeInv
      /\ srb \in [Reqs -> {"free", "issued"}] /\ SubLock \in Cpus \cup {NULL}
      /\ InflightCmds \in Int /\ History \in [Cids -> Reqs \cup {NULL}]
      /\ CplHead \in Slots /\ PhaseTag \in Phases /\ dpc \in DpcType
      /\ CplQ \in [Slots -> [req : Reqs \cup {NULL}, phase : Phases]]
      /\ rst \in RstType /\ reg \in RegType
    BY DEF ShapeInv, BasicInv, TypeOK, DpcType, ResetTypeInv
<1>b. SUFFICES /\ srb' \in [Reqs -> {"free", "issued"}] /\ SubLock' \in Cpus \cup {NULL}
               /\ InflightCmds' \in Int /\ History' \in [Cids -> Reqs \cup {NULL}]
               /\ CplHead' \in Slots /\ PhaseTag' \in Phases /\ dpc' \in DpcType /\ BatchInv'
    BY Zenon, <1>a, RacingFrame DEF TypeOK, DpcType
<1> DEFINE Goal == /\ srb' \in [Reqs -> {"free", "issued"}] /\ SubLock' \in Cpus \cup {NULL}
                   /\ InflightCmds' \in Int /\ History' \in [Cids -> Reqs \cup {NULL}]
                   /\ CplHead' \in Slots /\ PhaseTag' \in Phases /\ dpc' \in DpcType /\ BatchInv'
<1>c. UNCHANGED dpc => BatchInv'
    BY <1>a DEF BatchInv
<1>d. rst.head \in Slots /\ reg.head \in Slots /\ reg.cpl \in Slots
    BY <1>a DEF RstType, RegType
<1>1. CASE DpcPopAt
    <2> DEFINE cid  == CidIn(CplQ[reg.cpl])
               step == IF History[cid] = NULL THEN "advance" ELSE "complete"
    <2>1. cid \in Cids
        BY <1>a, <1>d, ZeroCid DEF CidIn, RangeInv, InRange
    <2>2. /\ dpc' = [dpc EXCEPT !.srb = History[cid], !.pc = step]
          /\ History' = [History EXCEPT ![cid] = NULL] /\ dpc.pc = "poll"
          /\ UNCHANGED <<srb, SubLock, InflightCmds, CplHead, PhaseTag>>
        BY <1>1 DEF DpcPopAt, subVars
    <2>3. History[cid] \in Reqs \cup {NULL} /\ step \in DpcPcs
        BY <1>a, <2>1, PcsFact
    <2> HIDE DEF cid, step
    <2>4. dpc' \in DpcType /\ History' \in [Cids -> Reqs \cup {NULL}]
        BY <1>a, <2>2, <2>3, DpcUpdate, UpdateType
    <2>5. BatchInv'
        BY <1>a, <2>2 DEF BatchInv, DpcType
    <2> QED
        BY <1>a, <2>2, <2>4, <2>5
<1>2. CASE DpcDrainedAt
    <2>1. PICK step \in {"ring", "idle"} : dpc' = [dpc EXCEPT !.pc = step]
        BY <1>2 DEF DpcDrainedAt, DpcGoto
    <2>2. UNCHANGED <<srb, SubLock, InflightCmds, History, CplHead, PhaseTag>>
        BY <1>2 DEF DpcDrainedAt, DpcGoto, subVars
    <2>3. dpc' \in DpcType
        BY <1>a, <2>1, DpcUpdate, PcsFact
    <2>4. BatchInv'
        BY <1>a, <2>1 DEF BatchInv, DpcType
    <2> QED
        BY <1>a, <2>2, <2>3, <2>4
<1>3. CASE DpcStore \/ ResetStore
    <2>1. /\ CplHead' \in Slots
          /\ UNCHANGED <<srb, SubLock, InflightCmds, History, PhaseTag, dpc>>
        BY <1>3, <1>d, WrapSlot DEF DpcStore, ResetStore, subVars
    <2> QED
        BY <1>a, <1>c, <2>1
<1>4. CASE DpcFlip
    <2>1. /\ FlipPhase(reg.head, rst.pc = "flip") /\ dpc.pc = "advance"
          /\ dpc' = [pc |-> IF Depth <= dpc.count + 1 THEN "ring" ELSE "poll",
                     srb |-> NULL, count |-> dpc.count + 1]
          /\ UNCHANGED <<srb, SubLock, InflightCmds, History, CplHead>>
        BY <1>4 DEF DpcFlip, subVars
    <2>2. PhaseTag' \in Phases
        BY <1>a, <2>1, FlipType
    <2>3. dpc.count \in Nat /\ dpc.count + 1 \in 0 .. Depth
        BY <1>a, <2>1, DepthNat DEF BatchInv, DpcType
    <2>4. dpc' \in DpcType
        BY <2>1, <2>3 DEF DpcType, DpcPcs
    <2>5. BatchInv'
        BY <2>1, <2>3, DepthNat DEF BatchInv
    <2> QED
        BY <1>a, <2>1, <2>2, <2>4, <2>5
<1>5. ASSUME NEW p \in Cpus, ResetAcquire(p) PROVE Goal
    <2>1. SubLock' = p /\ UNCHANGED <<srb, InflightCmds, History, CplHead, PhaseTag, dpc>>
        BY <1>5 DEF ResetAcquire, dpcVars
    <2> QED
        BY <1>a, <1>c, <2>1
<1>6. CASE ResetComplete
    <2>1. UNCHANGED <<SubLock, InflightCmds, History, CplHead, PhaseTag, dpc>>
        BY <1>6 DEF ResetComplete, dpcVars, subVars
    <2>2. srb' = [srb EXCEPT ![rst.srb] = "free"] \/ UNCHANGED srb
        BY <1>6 DEF ResetComplete
    <2> QED
        BY <1>a, <1>c, <2>1, <2>2
<1>7. CASE ResetClear
    <2>1. UNCHANGED <<srb, SubLock, InflightCmds, CplHead, PhaseTag, dpc>>
        BY <1>7 DEF ResetClear, dpcVars, subVars
    <2>2. History' = [History EXCEPT ![rst.i] = NULL]
        BY <1>7 DEF ResetClear
    <2> QED
        BY <1>a, <1>c, <2>1, <2>2, UpdateType
<1>8. CASE ResetCount
    <2>1. InflightCmds' = 0 /\ UNCHANGED <<srb, SubLock, History, CplHead, PhaseTag, dpc>>
        BY <1>8 DEF ResetCount, dpcVars, subVars
    <2> QED
        BY <1>a, <1>c, <2>1
<1>9. CASE ResetFlip
    <2>1. /\ FlipPhase(rst.head, reg.pc = "flip")
          /\ UNCHANGED <<srb, SubLock, InflightCmds, History, CplHead, dpc>>
        BY <1>9 DEF ResetFlip, subVars
    <2>2. PhaseTag' \in Phases
        BY <1>a, <2>1, FlipType
    <2> QED
        BY <1>a, <1>c, <2>1, <2>2
<1>10. CASE ResetRelease
    <2>1. SubLock' = NULL /\ UNCHANGED <<srb, InflightCmds, History, CplHead, PhaseTag, dpc>>
        BY <1>10 DEF ResetRelease, dpcVars
    <2> QED
        BY <1>a, <1>c, <2>1
<1> QED
    BY <1>1, <1>2, <1>3, <1>4, <1>5, <1>6, <1>7, <1>8, <1>9, <1>10 DEF RacingStep

\* While a reset runs, SubmitCmd does not.
LEMMA NoSubmission ==
    ASSUME HoldInv, rst.pc # "idle", NEW p \in Cpus
    PROVE  ~SubmitStep(p) /\ \A r \in Reqs : ~Acquire(p, r)
BY DEF HoldInv, SubmitStep, Throttle, PassThrottle, PushOutOfRange, Push, PushTaken, Evict,
       EvictNothing, Repush, WriteSlot, CountInflight, AdvanceTail, RingSubDbl, Acquire

\* A racing step changes SubLock only while every processor is outside SubmitCmd.
LEMMA RacingLock ==
    ASSUME ShapeInv, RacingStep
    PROVE  UNCHANGED SubLock \/ \A p \in Cpus : cpu[p].pc = "idle"
<1>1. ASSUME NEW p \in Cpus, ResetAcquire(p) PROVE \A q \in Cpus : cpu[q].pc = "idle"
    BY <1>1, NobodyInside DEF ResetAcquire, ShapeInv, BasicInv
<1>2. ResetRelease => \A p \in Cpus : cpu[p].pc = "idle"
    BY DEF ResetRelease, ShapeInv, HoldInv
<1> QED
    BY <1>1, <1>2, RacingFrame

\* What does not depend on the throttle does not depend on resets either.
LEMMA ResetBasicStep == ShapeInv /\ [NextReset]_resetVars => BasicInv'
<1> SUFFICES ASSUME ShapeInv, [NextReset]_resetVars PROVE BasicInv'
    OBVIOUS
<1>a. LockInv /\ RangeInv /\ WrittenInv
    BY DEF ShapeInv, BasicInv
<1>1. CASE RacingStep
    <2>1. UNCHANGED <<cpu, SubQ, SubTail, SubDbl, CplQ, SqHead, exec>>
        BY <1>1, RacingFrame
    <2>2. LockInv'
        BY <1>1, <1>a, <2>1, RacingLock DEF LockInv
    <2>3. RangeInv' /\ WrittenInv'
        BY <1>a, <2>1 DEF RangeInv, InRange, WrittenInv
    <2> QED
        BY <1>1, <2>2, <2>3, RacingType DEF BasicInv
<1>2. CASE [Next]_vars
    BY <1>2, BasicStep DEF ShapeInv
<1> QED
    BY <1>1, <1>2, ResetKinds

\* Every step keeps rst and reg in their types.
LEMMA ResetTypeStep == ShapeInv /\ [NextReset]_resetVars => ResetTypeInv'
<1> SUFFICES ASSUME ShapeInv, [NextReset]_resetVars PROVE ResetTypeInv'
    OBVIOUS
<1>a. /\ rst \in RstType /\ reg \in RegType
      /\ rst.pc \in {"complete", "clear"} => rst.i \in Cids
      /\ CplHead \in Slots /\ History \in [Cids -> Reqs \cup {NULL}] /\ dpc \in DpcType
    BY DEF ShapeInv, ResetTypeInv, BasicInv, TypeOK, DpcType
<1>b. /\ rst.head \in Slots /\ reg.head \in Slots /\ reg.cpl \in Slots
      /\ rst.i \in 0 .. HistoryDepth /\ rst.calls \in 0 .. MaxResets
    BY <1>a DEF RstType, RegType
<1>c. ASSUME UNCHANGED rst, reg' \in RegType PROVE ResetTypeInv'
    BY <1>a, <1>c DEF ResetTypeInv
<1>d. ASSUME UNCHANGED reg, rst' \in RstType, rst'.pc \in {"complete", "clear"} => rst'.i \in Cids
      PROVE  ResetTypeInv'
    BY <1>a, <1>d DEF ResetTypeInv
<1>e. 0 \in 0 .. HistoryDepth /\ 0 \in Slots /\ \A c \in Cids : c + 1 \in 0 .. HistoryDepth
    BY ResetNat, DepthNat DEF Cids, Slots
<1>1. CASE UNCHANGED <<rst, reg>>
    BY <1>a, <1>1 DEF ResetTypeInv
<1>2. CASE DpcPoint /\ UNCHANGED rst
    <2>1. reg' = [reg EXCEPT !.cpl = CplHead]
        BY <1>2 DEF DpcPoint
    <2> QED
        BY <1>a, <1>c, <1>2, <2>1 DEF RegType
<1>3. CASE DpcLoad /\ UNCHANGED rst
    <2>1. reg' = [reg EXCEPT !.pc = "store", !.head = CplHead]
        BY <1>3 DEF DpcLoad
    <2> QED
        BY <1>a, <1>c, <1>3, <2>1 DEF RegType
<1>4. CASE DpcStore /\ UNCHANGED rst
    <2>1. reg' = [reg EXCEPT !.pc = "flip", !.head = Wrap(reg.head)] /\ Wrap(reg.head) \in Slots
        BY <1>4, <1>b, WrapSlot DEF DpcStore
    <2> QED
        BY <1>a, <1>c, <1>4, <2>1 DEF RegType
<1>5. CASE DpcFlip /\ UNCHANGED rst
    <2>1. PICK seen \in {CplHead, reg.head} : reg' = [cpl |-> seen, pc |-> "load", head |-> 0]
        BY <1>5 DEF DpcFlip
    <2> QED
        BY <1>a, <1>b, <1>c, <1>e, <1>5, <2>1 DEF RegType
<1>6. ASSUME NEW p \in Cpus, ResetAcquire(p) PROVE ResetTypeInv'
    <2>1. /\ rst' = [rst EXCEPT !.pc = "scan", !.i = 0, !.calls = rst.calls + 1]
          /\ rst.calls < MaxResets /\ UNCHANGED reg
        BY <1>6 DEF ResetAcquire
    <2>2. rst.calls + 1 \in 0 .. MaxResets
        BY <1>b, <2>1, ResetNat
    <2>9. rst' \in RstType /\ rst'.pc \notin {"complete", "clear"}
        BY <1>a, <1>e, <2>1, <2>2 DEF RstType
    <2> QED
        BY <1>d, <2>1, <2>9
<1>7. CASE ResetLook
    <2>1. rst.i \in Cids /\ UNCHANGED reg
        BY <1>7 DEF ResetLook
    <2>2. CASE rst' = [rst EXCEPT !.i = rst.i + 1]
        <3>1. rst.pc = "scan" /\ rst' = [rst EXCEPT !.pc = "scan", !.i = rst.i + 1]
            BY <1>7, <1>a, <2>2 DEF ResetLook, RstType
        <3>2. rst' \in RstType /\ rst'.pc = "scan"
            BY <1>a, <1>e, <2>1, <3>1 DEF RstType
        <3> QED
            BY <1>d, <2>1, <3>2
    <2>3. CASE rst' = [rst EXCEPT !.pc = "complete", !.srb = History[rst.i]]
        <3>1. rst' \in RstType /\ rst'.i = rst.i
            BY <1>a, <2>1, <2>3 DEF RstType
        <3> QED
            BY <1>d, <2>1, <3>1
    <2> QED
        BY <1>7, <2>2, <2>3 DEF ResetLook
<1>8. CASE ResetComplete
    <2>1. rst.pc = "complete" /\ UNCHANGED reg
        BY <1>8 DEF ResetComplete
    <2>2. PICK pc \in {"clear", "crashed"} : rst' = [rst EXCEPT !.pc = pc, !.srb = NULL]
        BY Zenon, <1>8 DEF ResetComplete
    <2>3. rst' \in RstType
        BY <1>a, <2>2 DEF RstType
    <2>4. rst'.i = rst.i
        BY <1>a, <2>2 DEF RstType
    <2> QED
        BY <1>a, <1>d, <2>1, <2>3, <2>4
<1>9. CASE ResetClear
    <2>1. rst.pc = "clear" /\ rst' = [rst EXCEPT !.pc = "scan", !.i = rst.i + 1] /\ UNCHANGED reg
        BY <1>9 DEF ResetClear
    <2>9. rst' \in RstType /\ rst'.pc \notin {"complete", "clear"}
        BY <1>a, <1>e, <2>1 DEF RstType
    <2> QED
        BY <1>d, <2>1, <2>9
<1>10. CASE ResetCount
    <2>1. rst' = [rst EXCEPT !.pc = "sweep", !.i = 0, !.head = CplHead] /\ UNCHANGED reg
        BY <1>10 DEF ResetCount
    <2>9. rst' \in RstType /\ rst'.pc \notin {"complete", "clear"}
        BY <1>a, <1>e, <2>1 DEF RstType
    <2> QED
        BY <1>d, <2>1, <2>9
<1>11. CASE ResetSweep
    <2>1. UNCHANGED reg
        BY <1>11 DEF ResetSweep
    <2>2. PICK seen \in {CplHead, rst.head} : rst' = [rst EXCEPT !.pc = "store", !.head = seen]
        BY <1>11 DEF ResetSweep
    <2>9. rst' \in RstType /\ rst'.pc \notin {"complete", "clear"}
        BY <1>a, <1>b, <2>1, <2>2 DEF RstType
    <2> QED
        BY <1>d, <2>1, <2>9
<1>12. CASE ResetStore
    <2>1. /\ rst' = [rst EXCEPT !.pc = "flip", !.head = Wrap(rst.head)] /\ UNCHANGED reg
          /\ Wrap(rst.head) \in Slots
        BY <1>12, <1>b, WrapSlot DEF ResetStore
    <2>9. rst' \in RstType /\ rst'.pc \notin {"complete", "clear"}
        BY <1>a, <2>1 DEF RstType
    <2> QED
        BY <1>d, <2>1, <2>9
<1>13. CASE ResetFlip
    <2>1. rst' = [rst EXCEPT !.pc = "sweep"] /\ UNCHANGED reg
        BY <1>13 DEF ResetFlip
    <2>9. rst' \in RstType /\ rst'.pc \notin {"complete", "clear"}
        BY <1>a, <2>1 DEF RstType
    <2> QED
        BY <1>d, <2>1, <2>9
<1>14. CASE ResetRelease
    <2>1. rst' = [rst EXCEPT !.pc = "idle", !.head = 0] /\ UNCHANGED reg
        BY <1>14 DEF ResetRelease
    <2>9. rst' \in RstType /\ rst'.pc \notin {"complete", "clear"}
        BY <1>a, <1>e, <2>1 DEF RstType
    <2> QED
        BY <1>d, <2>1, <2>9
<1> QED
    BY Zenon, <1>1, <1>2, <1>3, <1>4, <1>5, <1>6, <1>7, <1>8, <1>9, <1>10, <1>11, <1>12, <1>13, <1>14
       DEF NextReset, Unaware, DpcStepReset, ResetStep, resetVars, DpcPopAt, DpcDrainedAt

\* Every step keeps SubmitCmd and a reset apart.
LEMMA HoldStep == ShapeInv /\ [NextReset]_resetVars => HoldInv'
<1> SUFFICES ASSUME ShapeInv, [NextReset]_resetVars, rst'.pc # "idle"
             PROVE  SubLock' # NULL /\ \A p \in Cpus : cpu'[p].pc = "idle"
    BY DEF HoldInv
<1>a. HoldInv /\ LockInv /\ rst \in RstType
    BY DEF ShapeInv, BasicInv, ResetTypeInv
<1>1. ASSUME NEW p \in Cpus, ResetAcquire(p)
      PROVE  SubLock' # NULL /\ \A q \in Cpus : cpu'[q].pc = "idle"
    <2>1. SubLock = NULL /\ SubLock' = p /\ UNCHANGED cpu
        BY <1>1 DEF ResetAcquire
    <2> QED
        BY <1>a, <2>1, NobodyInside, NullFact
<1>2. ~ResetRelease
    BY <1>a DEF ResetRelease, RstType
<1>3. CASE rst.pc # "idle"
    <2>1. UNCHANGED <<cpu, SubLock>> \/ \E p \in Cpus : ResetAcquire(p)
        <3>1. CASE RacingStep
            BY <1>2, <3>1, RacingFrame
        <3>2. CASE [Next]_vars
            BY <1>3, <1>a, <3>2, NoSubmission, OthersFrame DEF Next
        <3> QED
            BY <3>1, <3>2, ResetKinds
    <2> QED
        BY <1>1, <1>3, <1>a, <2>1 DEF HoldInv
<1>4. CASE rst.pc = "idle" /\ \A p \in Cpus : ~ResetAcquire(p)
    <2>1. UNCHANGED rst
        BY Zenon, <1>4 DEF NextReset, Unaware, DpcStepReset, ResetStep, ResetLook, ResetComplete,
                    ResetClear, ResetCount, ResetSweep, ResetStore, ResetFlip, ResetRelease, resetVars
    <2> QED
        BY <1>4, <2>1
<1> QED
    BY <1>1, <1>3, <1>4

\* The part of the invariant that needs no assumption on the CIDs.
LEMMA ShapeStep == ShapeInv /\ [NextReset]_resetVars => ShapeInv'
BY ResetBasicStep, ResetTypeStep, HoldStep DEF ShapeInv

(****************************************************************************)
(* The loop over History, and the requests in it.                           *)
(****************************************************************************)

\* While a reset runs, slots of History are only emptied and requests only given back.
LEMMA OnlyEmptied ==
    ASSUME ShapeInv, [NextReset]_resetVars, rst.pc # "idle"
    PROVE  /\ \A c \in Cids : History'[c] = History[c] \/ History'[c] = NULL
           /\ \A r \in Reqs : srb[r] = "free" => srb'[r] = "free"
<1>a. /\ HoldInv /\ History \in [Cids -> Reqs \cup {NULL}] /\ srb \in [Reqs -> {"free", "issued"}]
    BY DEF ShapeInv, BasicInv, TypeOK
<1>1. UNCHANGED History \/ \E c : History' = [History EXCEPT ![c] = NULL]
    BY <1>a, NoSubmission, ResetKinds
       DEF RacingStep, DpcPopAt, DpcDrainedAt, DpcGoto, DpcStore, DpcFlip, ResetAcquire, ResetComplete,
           ResetClear, ResetCount, ResetStore, ResetFlip, ResetRelease, CtrlFetch, CtrlPost, Isr,
           DpcStart, DpcComplete, DpcRetire, DpcRing, vars
<1>2. UNCHANGED srb \/ \E r : srb' = [srb EXCEPT ![r] = "free"]
    BY <1>a, NoSubmission, ResetKinds
       DEF RacingStep, DpcPopAt, DpcDrainedAt, DpcGoto, DpcStore, DpcFlip, ResetAcquire, ResetComplete,
           ResetClear, ResetCount, ResetStore, ResetFlip, ResetRelease, CtrlFetch, CtrlPost, Isr,
           DpcStart, DpcComplete, DpcRetire, DpcRing, vars
<1> QED
    BY <1>a, <1>1, <1>2

\* Every step keeps the part of History that the loop has passed empty.
LEMMA ScanStep == ShapeInv /\ ScanInv /\ [NextReset]_resetVars => ScanInv'
<1> SUFFICES ASSUME ShapeInv, ScanInv, [NextReset]_resetVars PROVE ScanInv'
    OBVIOUS
<1>a. /\ rst \in RstType /\ HoldInv
      /\ rst.pc \in {"complete", "clear"} => rst.i \in Cids
      /\ History \in [Cids -> Reqs \cup {NULL}] /\ srb \in [Reqs -> {"free", "issued"}]
      /\ rst.i \in 0 .. HistoryDepth
    BY DEF ShapeInv, ResetTypeInv, BasicInv, TypeOK, RstType
<1>b. rst.pc # "idle" => /\ \A c \in Cids : History'[c] = History[c] \/ History'[c] = NULL
                         /\ \A r \in Reqs : srb[r] = "free" => srb'[r] = "free"
    BY OnlyEmptied
<1>c. \A c \in Cids : c \in Nat /\ c < HistoryDepth
    BY ResetNat DEF Cids
<1>1. CASE UNCHANGED rst
    <2>1. CASE rst.pc = "idle"
        BY <1>1, <2>1 DEF ScanInv
    <2>2. CASE rst.pc # "idle"
        <3>1. rst.pc = "clear" => History[rst.i] = NULL \/ History[rst.i] \in Reqs
            BY <1>a
        <3> QED
            BY <1>1, <1>a, <1>b, <2>2, <3>1 DEF ScanInv
    <2> QED
        BY <2>1, <2>2
<1>2. ASSUME NEW p \in Cpus, ResetAcquire(p) PROVE ScanInv'
    <2>1. rst'.pc = "scan" /\ rst'.i = 0
        BY <1>2, <1>a DEF ResetAcquire, RstType
    <2> QED
        BY <1>c, <2>1 DEF ScanInv
<1>3. CASE ResetLook
    <2>1. rst.pc = "scan" /\ rst.i \in Cids /\ UNCHANGED <<History, srb>>
        BY <1>3 DEF ResetLook, vars
    <2>2. CASE History[rst.i] = NULL
        <3>1. rst'.pc = "scan" /\ rst'.i = rst.i + 1
            BY <1>3, <1>a, <2>1, <2>2 DEF ResetLook, RstType
        <3>2. \A c \in Cids : c < rst.i + 1 => c < rst.i \/ c = rst.i
            BY <1>c, <2>1
        <3> QED
            BY <2>1, <2>2, <3>1, <3>2 DEF ScanInv
    <2>3. CASE History[rst.i] # NULL
        <3>1. rst'.pc = "complete" /\ rst'.i = rst.i /\ rst'.srb = History[rst.i]
            BY <1>3, <1>a, <2>3 DEF ResetLook, RstType
        <3> QED
            BY <1>a, <2>1, <2>3, <3>1 DEF ScanInv
    <2> QED
        BY <2>2, <2>3
<1>4. CASE ResetComplete
    <2>1. rst.pc = "complete" /\ UNCHANGED History /\ rst.i \in Cids
        BY <1>4, <1>a DEF ResetComplete
    <2>2. rst.srb \in Reqs /\ History[rst.i] \in {NULL, rst.srb}
        BY <2>1 DEF ScanInv
    <2>3. CASE srb' = [srb EXCEPT ![rst.srb] = "free"] /\ rst' = [rst EXCEPT !.pc = "clear", !.srb = NULL]
        <3>1. rst'.pc = "clear" /\ rst'.i = rst.i /\ srb'[rst.srb] = "free"
            BY <1>a, <2>2, <2>3 DEF RstType
        <3> QED
            BY <2>1, <2>2, <3>1 DEF ScanInv
    <2>4. CASE rst' = [rst EXCEPT !.pc = "crashed", !.srb = NULL]
        <3>1. rst'.pc = "crashed"
            BY <1>a, <2>4 DEF RstType
        <3> QED
            BY <3>1 DEF ScanInv
    <2> QED
        BY <1>4, <2>3, <2>4 DEF ResetComplete
<1>5. CASE ResetClear
    <2>1. /\ rst.pc = "clear" /\ rst.i \in Cids /\ History' = [History EXCEPT ![rst.i] = NULL]
          /\ rst' = [rst EXCEPT !.pc = "scan", !.i = rst.i + 1]
        BY <1>5, <1>a DEF ResetClear
    <2>2. rst'.pc = "scan" /\ rst'.i = rst.i + 1
        BY <1>a, <2>1 DEF RstType
    <2>3. \A c \in Cids : c < rst.i + 1 => c < rst.i \/ c = rst.i
        BY <1>c, <2>1
    <2>4. \A c \in Cids : c < rst.i + 1 => History'[c] = NULL
        BY <1>a, <2>1, <2>3 DEF ScanInv
    <2> QED
        BY <2>2, <2>4 DEF ScanInv
<1>6. CASE ResetCount
    <2>1. rst.pc = "scan" /\ rst.i \notin Cids /\ UNCHANGED History
        BY <1>6 DEF ResetCount
    <2>2. rst'.pc = "sweep"
        BY <1>6, <1>a DEF ResetCount, RstType
    <2>3. \A c \in Cids : c < rst.i
        BY <1>a, <1>c, <2>1, ResetNat DEF Cids
    <2> QED
        BY <2>1, <2>2, <2>3 DEF ScanInv
<1>7. CASE ResetSweep \/ ResetStore \/ ResetFlip
    <2>1. rst.pc \in {"sweep", "store", "flip"} /\ UNCHANGED History
        BY <1>7 DEF ResetSweep, ResetStore, ResetFlip, vars
    <2>2. rst'.pc \in {"sweep", "store", "flip"}
        BY <1>7, <1>a DEF ResetSweep, ResetStore, ResetFlip, RstType
    <2> QED
        BY <2>1, <2>2 DEF ScanInv
<1>8. CASE ResetRelease
    <2>1. rst'.pc = "idle"
        BY <1>8, <1>a DEF ResetRelease, RstType
    <2> QED
        BY <2>1 DEF ScanInv
<1>9. CASE DpcStepReset \/ UNCHANGED resetVars
    BY <1>1, <1>9 DEF DpcStepReset, resetVars
<1> QED
    BY Zenon, <1>1, <1>2, <1>3, <1>4, <1>5, <1>6, <1>7, <1>8, <1>9 DEF NextReset, Unaware, ResetStep

\* SubmitCmd keeps the driver's duty: with CIDs of their own a request meets nobody but itself
\* in History, and what it evicts there it has been answered for.
LEMMA DutySubmit ==
    ASSUME DistinctCids, ShapeInv, DutyInv, NEW p \in Cpus, SubmitStep(p)
    PROVE  DutyInv'
<1> DEFINE Way == {"throttle", "push"}
           x   == cpu[p].srb
           cid == CidOf[x]
<1>a. /\ TypeOK /\ LockInv /\ History \in [Cids -> Reqs \cup {NULL}]
      /\ srb \in [Reqs -> {"free", "issued"}] /\ "idle" \notin Way
      /\ cpu \in [Cpus -> [pc : SubmitPcs, srb : Reqs \cup {NULL}]]
    BY DEF ShapeInv, BasicInv, TypeOK
<1>b. /\ \A c \in Cids : History[c] # NULL => CidOf[History[c]] = c
      /\ \A r \in Reqs : Accepted(r) => InHistory(r) \/ Held(r)
    BY DEF DutyInv
<1>c. UNCHANGED dpc
    BY SubmitFrame DEF dpcVars
<1>d. /\ x \in Reqs
      /\ cpu'[p].srb = x \/ cpu'[p].pc = "idle"
    BY <1>a, SubmitMoves DEF IdleCpu
<1>e. \A r \in Reqs : /\ Entering(r, Way) <=> x = r /\ cpu[p].pc \in Way
                      /\ Entering(r, Way)' <=> cpu'[p].srb = r /\ cpu'[p].pc \in Way
    BY <1>a, SubmitEntering
<1>f. /\ \A r \in Reqs : Accepted(r) <=> srb[r] = "issued" /\ ~Entering(r, Way)
      /\ \A r \in Reqs : Accepted(r)' <=> srb'[r] = "issued" /\ ~Entering(r, Way)'
    BY DEF Accepted
<1>g. \A r \in Reqs : /\ Held(r)' <=> Held(r)
                      /\ InHistory(r)' <=> CidOf[r] \in Cids /\ History'[CidOf[r]] = r
    BY <1>c DEF Held, InHistory
<1>h. ASSUME \A c \in Cids : History'[c] # NULL => CidOf[History'[c]] = c,
             \A r \in Reqs : Accepted(r)' => InHistory(r)' \/ Held(r)'
      PROVE  DutyInv'
    BY <1>h DEF DutyInv
<1>i. History[cid] # NULL /\ cid \in Cids => History[cid] = x
    <2>1. SUFFICES ASSUME History[cid] # NULL, cid \in Cids PROVE History[cid] = x
        OBVIOUS
    <2>2. History[cid] \in Reqs /\ CidOf[History[cid]] = CidOf[x]
        BY <1>a, <1>b, <2>1
    <2> QED
        BY <1>d, <2>2 DEF DistinctCids
<1> HIDE DEF Way, x, cid
<1>1. CASE UNCHANGED <<srb, History>> /\ (cpu[p].pc \in Way => cpu'[p].pc \in Way \cup {"idle"})
                                      /\ (cpu'[p].pc = "idle" => cpu[p].pc \notin Way)
    <2>1. \A r \in Reqs : Accepted(r)' => Accepted(r)
        BY <1>1, <1>d, <1>e, <1>f
    <2> QED
        BY <1>1, <1>b, <1>g, <1>h, <2>1 DEF InHistory
<1>2. CASE Refuse(p)
    <2>1. UNCHANGED History /\ \A r \in Reqs : srb'[r] = IF r = x THEN "free" ELSE srb[r]
        BY <1>2, <1>a, <1>d DEF Refuse, x
    <2>2. \A r \in Reqs : Accepted(r)' => Accepted(r)
        BY <1>e, <1>f, <2>1
    <2> QED
        BY <1>b, <1>g, <1>h, <2>1, <2>2 DEF InHistory
<1>3. CASE PassThrottle(p)
    <2>1. UNCHANGED <<srb, History>> /\ cpu'[p].pc = "push"
        BY <1>3, <1>a, GotoStep DEF PassThrottle, SubmitGoto
    <2> QED
        BY <1>1, <2>1 DEF Way
<1>4. CASE Push(p) \/ Repush(p)
    <2>1. cid \in Cids /\ UNCHANGED srb
        BY <1>4 DEF Push, Repush, ShapeInv, BasicInv, RangeInv, cid, x
    <2>2. History' = [History EXCEPT ![cid] = x]
        <3>1. CASE Push(p)
            BY <3>1 DEF Push, cid, x
        <3>2. CASE Repush(p)
            <4>1. History' = [History EXCEPT ![cid] = IF History[cid] = NULL THEN x ELSE History[cid]]
                BY <3>2 DEF Repush, cid, x
            <4>2. (IF History[cid] = NULL THEN x ELSE History[cid]) = x
                BY <1>i, <2>1
            <4> QED
                BY <4>1, <4>2
        <3> QED
            BY <1>4, <3>1, <3>2
    <2>3. \A c \in Cids : History'[c] = IF c = cid THEN x ELSE History[c]
        BY <1>a, <2>1, <2>2
    <2>4. \A r \in Reqs : r # x => (Accepted(r)' => Accepted(r))
        BY <1>e, <1>f, <2>1
    <2>5. \A r \in Reqs : InHistory(r)' <=> InHistory(r) \/ r = x
        <3>1. \A r \in Reqs : CidOf[r] = cid => r = x
            BY <1>d DEF DistinctCids, cid
        <3> QED
            BY <1>d, <1>g, <2>1, <2>3, <3>1 DEF InHistory, cid
    <2> QED
        BY <1>b, <1>d, <1>g, <1>h, <2>3, <2>4, <2>5 DEF cid
<1>5. CASE PushTaken(p)
    <2>1. cid \in Cids /\ History[cid] # NULL /\ UNCHANGED <<srb, History>>
        BY <1>5 DEF PushTaken, cid, x
    <2>2. InHistory(x)
        BY <1>i, <2>1 DEF InHistory, cid
    <2>3. \A r \in Reqs : r # x => (Accepted(r)' => Accepted(r))
        BY <1>e, <1>f, <2>1
    <2> QED
        BY <1>b, <1>g, <1>h, <2>1, <2>2, <2>3 DEF InHistory
<1>6. CASE Evict(p)
    <2>1. cid \in Cids
        BY <1>6 DEF Evict, ShapeInv, BasicInv, RangeInv, cid, x
    <2>2. /\ History' = [History EXCEPT ![cid] = NULL] /\ History[cid] # NULL
          /\ srb' = [srb EXCEPT ![History[cid]] = "free"]
        BY <1>6 DEF Evict, cid, x
    <2>3. History[cid] = x
        BY <1>i, <2>1, <2>2
    <2>4. /\ \A c \in Cids : History'[c] = IF c = cid THEN NULL ELSE History[c]
          /\ \A r \in Reqs : srb'[r] = IF r = x THEN "free" ELSE srb[r]
        BY <1>a, <1>d, <2>1, <2>2, <2>3
    <2>5. \A r \in Reqs : Accepted(r)' => Accepted(r) /\ r # x
        BY <1>e, <1>f, <2>4
    <2>6. \A r \in Reqs : r # x => (InHistory(r)' <=> InHistory(r))
        BY <1>g, <1>d, <2>4 DEF InHistory, DistinctCids, cid
    <2> QED
        BY <1>b, <1>g, <1>h, <2>4, <2>5, <2>6
<1>7. CASE EvictNothing(p) \/ WriteSlot(p) \/ CountInflight(p) \/ AdvanceTail(p) \/ RingSubDbl(p)
    <2>1. UNCHANGED <<srb, History>> /\ cpu[p].pc \notin Way
        BY <1>7 DEF EvictNothing, WriteSlot, CountInflight, AdvanceTail, RingSubDbl, Way
    <2> QED
        BY <1>1, <2>1
<1> QED
    BY Zenon, <1>2, <1>3, <1>4, <1>5, <1>6, <1>7 DEF SubmitStep, Throttle, PushOutOfRange

\* Every step keeps the driver's duty.
LEMMA DutyStep == DistinctCids /\ ResetInv /\ [NextReset]_resetVars => DutyInv'
<1> SUFFICES ASSUME DistinctCids, ResetInv, [NextReset]_resetVars PROVE DutyInv'
    OBVIOUS
<1>a. /\ TypeOK /\ LockInv /\ RangeInv /\ ShapeInv /\ ScanInv /\ DutyInv
      /\ History \in [Cids -> Reqs \cup {NULL}]
      /\ srb \in [Reqs -> {"free", "issued"}] /\ dpc \in DpcType
    BY DEF ResetInv, ShapeInv, BasicInv, TypeOK, DpcType
<1>b. /\ \A c \in Cids : History[c] # NULL => CidOf[History[c]] = c
      /\ \A r \in Reqs : Accepted(r) => InHistory(r) \/ Held(r)
    BY <1>a DEF DutyInv
<1>h. ASSUME \A c \in Cids : History'[c] # NULL => CidOf[History'[c]] = c,
             \A r \in Reqs : Accepted(r)' => InHistory(r)' \/ Held(r)'
      PROVE  DutyInv'
    BY <1>h DEF DutyInv
<1>i. ASSUME UNCHANGED <<History, dpc, cpu>>,
             \A r \in Reqs : srb'[r] = "issued" => srb[r] = "issued"
      PROVE  DutyInv'
    <2>1. \A r \in Reqs : (Accepted(r)' => Accepted(r)) /\ (InHistory(r)' <=> InHistory(r))
                          /\ (Held(r)' <=> Held(r))
        BY <1>i DEF Accepted, Entering, InHistory, Held
    <2> QED
        BY <1>b, <1>h, <1>i, <2>1
<1>1. ASSUME NEW p \in Cpus, NEW x \in Reqs, Acquire(p, x) PROVE DutyInv'
    <2>1. /\ \A q \in Cpus : cpu[q].pc = "idle"
          /\ cpu'[p].srb = x /\ cpu'[p].pc = "throttle"
          /\ \A q \in Cpus : q # p => cpu'[q].pc = "idle"
          /\ \A r \in Reqs : srb'[r] = IF r = x THEN "issued" ELSE srb[r]
          /\ UNCHANGED <<History, dpc>>
        BY <1>1, <1>a, AcquireEntering DEF dpcVars
    <2>2. \A r \in Reqs : ~Entering(r, {"throttle", "push"}) /\ (Entering(r, {"throttle", "push"})' <=> r = x)
        BY <2>1, OneInside DEF Entering
    <2>3. \A r \in Reqs : (Accepted(r)' => Accepted(r)) /\ (InHistory(r)' <=> InHistory(r))
                          /\ (Held(r)' <=> Held(r))
        BY <2>1, <2>2 DEF Accepted, InHistory, Held
    <2> QED
        BY <1>b, <1>h, <2>1, <2>3
<1>2. ASSUME NEW p \in Cpus, SubmitStep(p) PROVE DutyInv'
    BY <1>2, <1>a, DutySubmit
<1>3. CASE DpcPopAt
    <2> DEFINE cid == CidIn(CplQ[reg.cpl])
               x   == History[cid]
    <2>1. /\ dpc.pc = "poll" /\ History' = [History EXCEPT ![cid] = NULL]
          /\ dpc' = [dpc EXCEPT !.srb = x, !.pc = IF x = NULL THEN "advance" ELSE "complete"]
          /\ UNCHANGED <<srb, cpu>>
        BY <1>3 DEF DpcPopAt
    <2> HIDE DEF cid
    <2>2. \A c \in Cids : History'[c] = IF c = cid THEN NULL ELSE History[c]
        BY <1>a, <2>1
    <2>3. x # NULL => dpc'.pc = "complete" /\ dpc'.srb = x
        BY <1>a, <2>1 DEF DpcType
    <2>4. \A r \in Reqs : ~Held(r) /\ (Accepted(r)' <=> Accepted(r))
        BY <2>1 DEF Held, Accepted, Entering
    <2>5. ASSUME NEW r \in Reqs, Accepted(r)' PROVE InHistory(r)' \/ Held(r)'
        <3>1. InHistory(r)
            BY <1>b, <2>4, <2>5
        <3>2. CASE CidOf[r] = cid
            BY <2>3, <3>1, <3>2, NullFact DEF InHistory, Held
        <3>3. CASE CidOf[r] # cid
            BY <2>2, <3>1, <3>3 DEF InHistory
        <3> QED
            BY <3>2, <3>3
    <2> QED
        BY <1>b, <1>h, <2>2, <2>5
<1>4. CASE DpcComplete
    <2>1. /\ dpc.pc = "complete" /\ srb' = [srb EXCEPT ![dpc.srb] = "free"]
          /\ UNCHANGED <<History, cpu>>
        BY <1>4 DEF DpcComplete
    <2>2. \A r \in Reqs : Accepted(r)' => Accepted(r) /\ ~Held(r)
        BY <1>a, <2>1 DEF Accepted, Entering, Held
    <2>3. \A r \in Reqs : InHistory(r)' <=> InHistory(r)
        BY <2>1 DEF InHistory
    <2> QED
        BY <1>b, <1>h, <2>1, <2>2, <2>3
<1>5. CASE ResetComplete
    <2>1. UNCHANGED <<History, dpc, cpu>>
        BY <1>5 DEF ResetComplete, dpcVars
    <2>2. UNCHANGED srb \/ srb' = [srb EXCEPT ![rst.srb] = "free"]
        BY <1>5 DEF ResetComplete
    <2> QED
        BY <1>a, <1>i, <2>1, <2>2
<1>6. CASE ResetClear
    <2>1. /\ rst.pc = "clear" /\ rst.i \in Cids /\ History' = [History EXCEPT ![rst.i] = NULL]
          /\ UNCHANGED <<srb, dpc, cpu>>
        BY <1>6, <1>a DEF ResetClear, dpcVars, ShapeInv, ResetTypeInv
    <2>2. History[rst.i] = NULL \/ srb[History[rst.i]] = "free"
        BY <1>a, <2>1 DEF ScanInv
    <2>3. \A c \in Cids : History'[c] = IF c = rst.i THEN NULL ELSE History[c]
        BY <1>a, <2>1
    <2>4. \A r \in Reqs : (Accepted(r)' <=> Accepted(r)) /\ (Held(r)' <=> Held(r))
        BY <2>1 DEF Accepted, Entering, Held
    <2>5. \A r \in Reqs : Accepted(r) /\ InHistory(r) => InHistory(r)'
        BY <2>2, <2>3, NullFact DEF Accepted, InHistory
    <2> QED
        BY <1>b, <1>h, <2>3, <2>4, <2>5
<1>7. CASE DpcDrainedAt \/ DpcFlip \/ DpcStart \/ DpcRetire \/ DpcRing
    <2>1. UNCHANGED <<History, cpu, srb>> /\ dpc.pc # "complete"
        BY <1>7 DEF DpcDrainedAt, DpcGoto, DpcFlip, DpcStart, DpcRetire, DpcRing
    <2>2. \A r \in Reqs : (Accepted(r)' => Accepted(r)) /\ (InHistory(r)' <=> InHistory(r)) /\ ~Held(r)
        BY <2>1 DEF Accepted, Entering, InHistory, Held
    <2> QED
        BY <1>b, <1>h, <2>1, <2>2
<1>8. CASE \/ DpcStore \/ (\E p \in Cpus : ResetAcquire(p)) \/ ResetCount \/ ResetStore \/ ResetFlip
           \/ ResetRelease \/ CtrlFetch \/ (\E r \in Reqs : CtrlPost(r)) \/ Isr \/ UNCHANGED vars
    <2>1. UNCHANGED <<History, dpc, cpu, srb>>
        BY Zenon, <1>8 DEF DpcStore, ResetAcquire, ResetCount, ResetStore, ResetFlip, ResetRelease,
                    CtrlFetch, CtrlPost, Isr, vars, dpcVars
    <2> QED
        BY <1>i, <2>1
<1> QED
    BY Zenon, <1>1, <1>2, <1>3, <1>4, <1>5, <1>6, <1>7, <1>8, ResetKinds DEF RacingStep

(****************************************************************************)
(* The theorems.                                                            *)
(****************************************************************************)

\* However a reset and the DPC interleave, every variable keeps its type: CplHead and the
\* indices that both of them move stay in the ring, and the loop stays inside History.
THEOREM ResetTypeCorrect == SpecReset => []TypeOKReset
<1>1. InitReset => ShapeInv
    BY InitResetInv DEF ResetInv
<1>2. ShapeInv => TypeOKReset
    BY DEF ShapeInv, BasicInv, ResetTypeInv, TypeOKReset, RstType, RegType
<1> QED
    BY <1>1, <1>2, ShapeStep, PTL DEF SpecReset

\* The invariant holds in every state.
THEOREM ResetInvariance ==
    ASSUME DistinctCids
    PROVE  SpecReset => []ResetInv
<1>1. ResetInv /\ [NextReset]_resetVars => ResetInv'
    BY ShapeStep, ScanStep, DutyStep DEF ResetInv
<1> QED
    BY <1>1, InitResetInv, PTL DEF SpecReset

\* HwResetBus answers every request the driver had taken, whatever the DPC pops under it.
THEOREM ResetAnswersAll ==
    ASSUME DistinctCids
    PROVE  SpecReset => []ResetCompletesAll
<1>1. ResetInv => ResetCompletesAll
    <2> SUFFICES ASSUME ResetInv, rst.pc \in {"sweep", "store", "flip"},
                        NEW r \in Reqs, srb[r] = "issued"
                 PROVE  dpc.pc = "complete" /\ dpc.srb = r
        BY DEF ResetCompletesAll
    <2>1. \A p \in Cpus : cpu[p].pc = "idle"
        BY DEF ResetInv, ShapeInv, HoldInv
    <2>2. Accepted(r)
        BY <2>1 DEF Accepted, Entering
    <2>3. ~InHistory(r)
        BY NullFact DEF ResetInv, ScanInv, InHistory
    <2> QED
        BY <2>2, <2>3 DEF ResetInv, DutyInv, Held
<1> QED
    BY <1>1, ResetInvariance, PTL

\* No request is forgotten, even when a reset and the DPC complete it twice.
THEOREM NoneForgotten ==
    ASSUME DistinctCids
    PROVE  SpecReset => []Recoverable
<1>1. ResetInv => Recoverable
    <2> SUFFICES ASSUME ResetInv, NEW r \in Reqs, Sent(r)
                 PROVE  (\E c \in Cids : History[c] = r) \/ (dpc.pc = "complete" /\ dpc.srb = r)
        BY DEF Recoverable
    <2>1. Accepted(r)
        BY DEF Sent, Entering, Accepted
    <2> QED
        BY <2>1 DEF ResetInv, DutyInv, InHistory, Held
<1> QED
    BY <1>1, ResetInvariance, PTL
=============================================================================
