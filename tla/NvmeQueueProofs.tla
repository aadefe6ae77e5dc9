--------------------------- MODULE NvmeQueueProofs ---------------------------
(****************************************************************************)
(* Proofs about NvmeQueue, for every number of processors and requests, any *)
(* CIDs, any Depth of 2 or more and any positive Threshold.  All theorems   *)
(* but TypeCorrect assume Threshold <= Depth: with a smaller Depth the      *)
(* throttle never closes.                                                   *)
(****************************************************************************)
EXTENDS NvmeQueue, FiniteSetTheorems, TLAPS

(****************************************************************************)
(* The inductive invariant, in named parts.                                 *)
(****************************************************************************)

\* Only the processor that holds SubLock is inside SubmitCmd, with a request.
LockInv ==
    \A p \in Cpus : cpu[p].pc # "idle" => SubLock = p /\ cpu[p].srb \in Reqs

\* What was pushed has a CID inside History, and so has all that follows from it:
\* every command in a ring or in the controller.
InRange(x) == x # NULL => CidOf[x] \in Cids

RangeInv ==
    /\ \A p \in Cpus : cpu[p].pc \in {"evict", "repush", "write", "count", "tail", "ring"}
                           => CidOf[cpu[p].srb] \in Cids
    /\ \A i \in Slots : InRange(SubQ[i])
    /\ \A r \in exec : InRange(r)
    /\ \A i \in Slots : InRange(CplQ[i].req)

\* The submission doorbell is SubTail, but for the moment between the two writes;
\* every slot not fetched, and the one just written, holds a command.
SubRingInv ==
    /\ \A p \in Cpus : cpu[p].pc = "ring" => SubDbl # SubTail /\ Wrap(SubDbl) = SubTail
    /\ (\A p \in Cpus : cpu[p].pc # "ring") => SubDbl = SubTail
    /\ Dist(SqHead, SubDbl) <= Dist(SqHead, SubTail)
    /\ \A i \in Slots : Dist(SqHead, i) < Dist(SqHead, SubTail) => SubQ[i] # NULL
    /\ \A p \in Cpus : cpu[p].pc \in {"count", "tail"} => SubQ[SubTail] # NULL

\* CplQ is written up to CqTail in the phase of the controller, and has the other
\* phase from there on; CplHead is in the same lap as CqTail or in the one before.
CplRingInv ==
    /\ \A i \in Slots : CplQ[i].phase = CqPhase <=> i < CqTail
    /\ PhaseTag = CqPhase <=> CplHead <= CqTail
    /\ Dist(CplDbl, CplHead) + Dist(CplHead, CqTail) < Depth
    /\ dpc.pc \in {"complete", "retire", "advance"} => CplHead # CqTail
    /\ dpc.pc \in {"poll", "complete", "retire", "advance"} => dpc.count < Depth

\* InflightCmds covers every command that is in a ring or in the controller; Entered
\* is 1 between the counting of a command and the move of SubTail, Retired between the
\* uncounting of one and the move of CplHead.
Entered == IF \E p \in Cpus : cpu[p].pc = "tail" THEN 1 ELSE 0
Retired == IF dpc.pc = "advance" THEN 1 ELSE 0
Balanced ==
    InflightCmds + Retired >=
        Dist(SqHead, SubTail) + Entered + Cardinality(exec) + Dist(CplHead, CqTail)
\* The throttle keeps InflightCmds under Depth - Threshold.
CountInv ==
    /\ Balanced
    /\ InflightCmds = 0 \/ InflightCmds <= Depth - Threshold
    /\ \A p \in Cpus : cpu[p].pc \in {"push", "evict", "repush", "write", "count"}
                           => InflightCmds < Depth - Threshold

\* One call of CompleteCmd takes at most Depth completions.
BatchInv == dpc.pc \in {"poll", "complete", "retire", "advance"} => dpc.count < Depth

\* SubTail does not move over a slot that was never written, and the controller does not fetch
\* one: before SubTail has gone round, it follows SubTail.  This needs no throttle.
WrittenInv ==
    /\ \A p \in Cpus : cpu[p].pc \in {"count", "tail"} => SubQ[SubTail] # NULL
    /\ \/ \A i \in Slots : SubQ[i] # NULL
       \/ /\ SqHead <= SubDbl /\ SubDbl <= SubTail
          /\ \A i \in Slots : i < SubTail => SubQ[i] # NULL

\* What does not depend on the throttle.
BasicInv == TypeOK /\ LockInv /\ RangeInv /\ BatchInv /\ WrittenInv

\* The inductive invariant.
IInv == TypeOK /\ LockInv /\ RangeInv /\ BatchInv /\ WrittenInv /\ SubRingInv /\ CplRingInv /\ CountInv

(****************************************************************************)
(* What QueueAssumption says, in the form the proofs use it.                *)
(****************************************************************************)

\* A ring has at least two slots.
LEMMA DepthNat == Depth \in Nat /\ 2 <= Depth
<1>1. Depth \in 2 .. USHORT_MAX
    BY Zenon, QueueAssumption
<1> QED
    BY <1>1

\* The number of slots is a USHORT, so casting a smaller counter to one changes nothing.
LEMMA CastIsSmall ==
    ASSUME NEW n \in 0 .. Depth
    PROVE  n % (USHORT_MAX + 1) = n
<1>1. Depth \in 2 .. USHORT_MAX
    BY Zenon, QueueAssumption
<1> QED
    BY SMTT(60), <1>1 DEF USHORT_MAX

\* The margin of the throttle is positive.
LEMMA ThresholdNat == Threshold \in Nat /\ Threshold >= 1
<1>1. Threshold \in Nat \ {0}
    BY Zenon, QueueAssumption
<1> QED
    BY <1>1

\* The null pointer is no request and no processor.
LEMMA NullFact == NULL \notin Reqs /\ NULL \notin Cpus
BY Zenon, QueueAssumption

\* Storport has finitely many SRB extensions.
LEMMA ReqsFinite == IsFiniteSet(Reqs)
BY Zenon, QueueAssumption

\* CID 0, which zeroed memory holds, is an index of History.
LEMMA ZeroCid == 0 \in Cids
<1>1. HistoryDepth \in Nat \ {0}
    BY Zenon, QueueAssumption
<1> QED
    BY <1>1 DEF Cids

(****************************************************************************)
(* Ring arithmetic.                                                         *)
(****************************************************************************)

\* A slot is a natural number below Depth.
LEMMA SlotNat == \A i \in Slots : i \in Nat /\ 0 <= i /\ i < Depth
BY DepthNat DEF Slots

\* The next slot is a slot, and another one.
LEMMA WrapSlot ==
    ASSUME NEW i \in Slots
    PROVE  Wrap(i) \in Slots /\ Wrap(i) # i
BY DepthNat DEF Slots, Wrap

\* The distance between two slots is below Depth, and 0 only from a slot to itself.
LEMMA DistRange ==
    ASSUME NEW a \in Slots, NEW b \in Slots
    PROVE  Dist(a, b) \in 0 .. Depth - 1 /\ (Dist(a, b) = 0 <=> a = b)
BY DepthNat DEF Slots, Dist

\* Moving the far end of a window that is not full makes it longer by one.
LEMMA DistGrow ==
    ASSUME NEW a \in Slots, NEW b \in Slots
    PROVE  /\ Wrap(b) # a => Dist(a, Wrap(b)) = Dist(a, b) + 1
           /\ Dist(a, b) < Depth - 1 => Wrap(b) # a
BY DepthNat DEF Slots, Dist, Wrap

\* Moving the near end of a window that is not empty makes it shorter by one.
LEMMA DistShrink ==
    ASSUME NEW a \in Slots, NEW b \in Slots, a # b
    PROVE  Dist(Wrap(a), b) = Dist(a, b) - 1
BY DepthNat DEF Slots, Dist, Wrap

\* Two windows in a row that do not fill the ring make one window.
LEMMA DistSum ==
    ASSUME NEW a \in Slots, NEW b \in Slots, NEW c \in Slots, Dist(a, b) + Dist(b, c) < Depth
    PROVE  Dist(a, c) = Dist(a, b) + Dist(b, c)
BY DepthNat DEF Slots, Dist

\* Two windows in a row that do not fill the ring have no slot in common.
LEMMA WindowsApart ==
    ASSUME NEW a \in Slots, NEW b \in Slots, NEW c \in Slots, Dist(a, b) + Dist(b, c) < Depth
    PROVE  Window(a, b) \cap Window(b, c) = {}
BY DepthNat DEF Slots, Dist, Window

\* Slots at the same distance are the same slot.
LEMMA DistEqual ==
    ASSUME NEW a \in Slots, NEW b \in Slots, NEW c \in Slots, Dist(a, b) = Dist(a, c)
    PROVE  b = c
BY DepthNat DEF Slots, Dist

\* A whole lap but one step.
LEMMA DistFull ==
    ASSUME NEW a \in Slots
    PROVE  Dist(Wrap(a), a) = Depth - 1
BY DepthNat DEF Slots, Dist, Wrap

\* A function keeps its type when one value is replaced by a value of the range.
LEMMA UpdateType ==
    ASSUME NEW S, NEW T, NEW f \in [S -> T], NEW x, NEW v \in T
    PROVE  [f EXCEPT ![x] = v] \in [S -> T]
OBVIOUS

\* The type of dpc.
DpcType == [pc : DpcPcs, srb : Reqs \cup {NULL}, count : 0 .. Depth]

\* The DPC keeps its type whichever of its fields a step of CompleteCmd replaces.
LEMMA DpcUpdate ==
    ASSUME NEW d \in DpcType, NEW step \in DpcPcs
    PROVE  /\ [d EXCEPT !.pc = step] \in DpcType
           /\ \A r \in Reqs \cup {NULL} : [d EXCEPT !.srb = r, !.pc = step] \in DpcType
           /\ \A n \in 0 .. Depth : [d EXCEPT !.pc = step, !.count = n] \in DpcType
BY DEF DpcType

\* The type of cpu.
CpuType == [Cpus -> [pc : SubmitPcs, srb : Reqs \cup {NULL}]]

\* A processor that goes to another step, or is set as a whole, keeps its type.
LEMMA CpuUpdate ==
    ASSUME NEW c \in CpuType, NEW p \in Cpus
    PROVE  /\ \A step \in SubmitPcs : [c EXCEPT ![p].pc = step] \in CpuType
           /\ \A step \in SubmitPcs, r \in Reqs \cup {NULL} :
                  [c EXCEPT ![p] = [pc |-> step, srb |-> r]] \in CpuType
BY DEF CpuType

\* The names of the steps.
LEMMA PcsFact ==
    /\ {"idle", "throttle", "push", "evict", "repush", "write", "count", "tail", "ring",
        "crashed"} \subseteq SubmitPcs
    /\ {"idle", "poll", "complete", "retire", "advance", "ring"} \subseteq DpcPcs
BY DEF SubmitPcs, DpcPcs

\* The queue that Setup leaves satisfies the invariant.
LEMMA InitInv == Init => IInv
<1> SUFFICES ASSUME Init PROVE IInv
    OBVIOUS
<1>0. 0 \in Slots /\ 1 \in Phases
    BY SMT, DepthNat DEF Slots, Phases
<1>1. TypeOK
    <2>1. cpu \in [Cpus -> [pc : SubmitPcs, srb : Reqs \cup {NULL}]]
        BY SMT DEF Init, IdleCpu, SubmitPcs
    <2>2. dpc \in [pc : DpcPcs, srb : Reqs \cup {NULL}, count : 0 .. Depth]
        <3>1. dpc = [pc |-> "idle", srb |-> NULL, count |-> 0] /\ 0 \in 0 .. Depth
            BY DepthNat DEF Init
        <3> QED
            BY <3>1, PcsFact
    <2>3. CplQ \in [Slots -> [req : Reqs \cup {NULL}, phase : Phases]]
        BY SMT DEF Init, Phases
    <2>4. srb \in [Reqs -> {"free", "issued"}]
        BY SMT DEF Init
    <2>5. SubQ \in [Slots -> Reqs \cup {NULL}] /\ History \in [Cids -> Reqs \cup {NULL}]
        BY SMT DEF Init
    <2> QED
        <3>1. /\ SubTail \in Slots /\ SubDbl \in Slots /\ CplHead \in Slots
              /\ CplDbl \in Slots /\ SqHead \in Slots /\ CqTail \in Slots
            BY <1>0 DEF Init
        <3>2. PhaseTag \in Phases /\ CqPhase \in Phases
            BY <1>0 DEF Init
        <3>3. /\ SubLock \in Cpus \cup {NULL} /\ DpcQueued \in BOOLEAN /\ irq \in BOOLEAN
              /\ exec \in SUBSET Reqs
            BY Zenon DEF Init
        <3>4. InflightCmds \in Int
            BY SMT DEF Init
        <3> QED
            BY Zenon, <2>1, <2>2, <2>3, <2>4, <2>5, <3>1, <3>2, <3>3, <3>4 DEF TypeOK
<1>c. /\ \A p \in Cpus : cpu[p].pc = "idle"
      /\ \A i \in Slots : SubQ[i] = NULL /\ CplQ[i].req = NULL /\ CplQ[i].phase = 0
    BY SMT DEF Init, IdleCpu
<1>d. dpc.pc = "idle" /\ dpc.count = 0 /\ Dist(0, 0) = 0
    BY SMT DEF Init, Dist
<1>2. LockInv
    BY SMT, <1>c DEF LockInv
<1>3. RangeInv
    <2>1. exec = {}
        BY DEF Init
    <2> QED
        BY SMT, <1>c, <2>1 DEF RangeInv, InRange
<1>4. SubRingInv
    <2>1. SubTail = 0 /\ SubDbl = 0 /\ SqHead = 0
        BY DEF Init
    <2>2. \A i \in Slots : ~(Dist(0, i) < Dist(0, 0))
        BY SMT, <1>0, <1>d, DistRange
    <2> QED
        BY SMT, <1>c, <1>d, <2>1, <2>2 DEF SubRingInv
<1>5. CplRingInv
    <2>1. CqPhase = 1 /\ PhaseTag = 1 /\ CqTail = 0 /\ CplHead = 0 /\ CplDbl = 0
        BY DEF Init
    <2> QED
        <3>1. \A i \in Slots : i \in Int /\ 0 <= i
            BY DepthNat DEF Slots
        <3>2. \A i \in Slots : ~(CplQ[i].phase = CqPhase) /\ ~(i < CqTail)
            BY SMT, <3>1, <1>c, <2>1
        <3>3. Dist(CplDbl, CplHead) + Dist(CplHead, CqTail) < Depth
            BY SMT, <1>d, <2>1, DepthNat
        <3>4. PhaseTag = CqPhase /\ CplHead <= CqTail /\ dpc.count < Depth
            BY SMT, <1>d, <2>1, DepthNat
        <3>5. ~(dpc.pc \in {"complete", "retire", "advance"})
            BY SMT, <1>d
        <3> QED
            BY Zenon, <3>2, <3>3, <3>4, <3>5 DEF CplRingInv
<1>6. CountInv
    <2>1. /\ InflightCmds = 0 /\ SqHead = 0 /\ SubTail = 0 /\ CplHead = 0 /\ CqTail = 0
          /\ Cardinality(exec) = 0
        BY FS_EmptySet DEF Init
    <2> QED
        BY SMT, <1>c, <1>d, <2>1 DEF CountInv, Balanced, Entered, Retired
<1>7. BatchInv
    BY <1>d, DepthNat DEF BatchInv
<1>8. WrittenInv
    <2>1. SubTail = 0 /\ SubDbl = 0 /\ SqHead = 0
        BY DEF Init
    <2>2. \A i \in Slots : ~(i < 0)
        BY SlotNat
    <2> QED
        BY <1>c, <2>1, <2>2 DEF WrittenInv
<1> QED
    BY <1>1, <1>2, <1>3, <1>4, <1>5, <1>6, <1>7, <1>8 DEF IInv

(****************************************************************************)
(* TypeOK and LockInv.                                                      *)
(****************************************************************************)

\* Every step keeps the types.
LEMMA TypeStep == BasicInv /\ [Next]_vars => TypeOK'
<1>a. SUFFICES ASSUME BasicInv, [Next]_vars PROVE TypeOK'
    OBVIOUS
<1>b. /\ srb \in [Reqs -> {"free", "issued"}]
      /\ cpu \in CpuType
      /\ InflightCmds \in Int
      /\ SubQ \in [Slots -> Reqs \cup {NULL}]
      /\ SubTail \in Slots /\ SqHead \in Slots /\ CqTail \in Slots /\ CplHead \in Slots
      /\ SubDbl \in Slots
      /\ CqPhase \in Phases /\ PhaseTag \in Phases
      /\ History \in [Cids -> Reqs \cup {NULL}]
      /\ CplQ \in [Slots -> [req : Reqs \cup {NULL}, phase : Phases]]
      /\ exec \in SUBSET Reqs
      /\ dpc \in DpcType
    BY Zenon, <1>a DEF BasicInv, TypeOK, DpcType, CpuType
<1>c. ASSUME NEW p \in Cpus, Refuse(p)
      PROVE  cpu' \in CpuType /\ srb' \in [Reqs -> {"free", "issued"}] /\ SubLock' = NULL
    <2>1. cpu' = [cpu EXCEPT ![p] = [pc |-> "idle", srb |-> NULL]] /\ "idle" \in SubmitPcs
        BY <1>c, PcsFact DEF Refuse, IdleCpu
    <2>2. PICK r : srb' = [srb EXCEPT ![r] = "free"]
        BY <1>c DEF Refuse
    <2>3. cpu' \in CpuType
        BY <1>b, <2>1, CpuUpdate
    <2>4. srb' \in [Reqs -> {"free", "issued"}]
        BY <1>b, <2>2, UpdateType
    <2> QED
        BY <1>c, <2>3, <2>4 DEF Refuse
<1>d. ASSUME NEW p \in Cpus, cpu[p].pc # "idle" PROVE cpu[p].srb \in Reqs
    BY <1>a, <1>d DEF BasicInv, LockInv
<1> USE DEF BasicInv, TypeOK, subVars, dpcVars, ctrlVars
<1>1. ASSUME NEW p \in Cpus, NEW r \in Reqs, Acquire(p, r) PROVE TypeOK'
    <2>1. /\ cpu' = [cpu EXCEPT ![p] = [pc |-> "throttle", srb |-> r]]
          /\ srb' = [srb EXCEPT ![r] = "issued"] /\ SubLock' = p
          /\ "throttle" \in SubmitPcs
        BY <1>1, PcsFact DEF Acquire
    <2>2. cpu' \in CpuType
        BY <1>b, <2>1, CpuUpdate
    <2>3. srb' \in [Reqs -> {"free", "issued"}]
        BY <1>b, <2>1, UpdateType
    <2> QED
        BY Zenon, <1>a, <1>1, <2>1, <2>2, <2>3 DEF CpuType, Acquire
<1>2. ASSUME NEW p \in Cpus, Throttle(p) PROVE TypeOK'
    <2>1. cpu' \in CpuType /\ srb' \in [Reqs -> {"free", "issued"}] /\ SubLock' = NULL
        BY <1>c, <1>2 DEF Throttle
    <2> QED
        BY Zenon, <1>a, <1>2, <2>1 DEF CpuType, DpcType, Throttle, Refuse
<1>3. ASSUME NEW p \in Cpus, PassThrottle(p) PROVE TypeOK'
    <2>1. cpu' = [cpu EXCEPT ![p].pc = "push"] /\ "push" \in SubmitPcs
        BY <1>3, PcsFact DEF PassThrottle, SubmitGoto
    <2>2. cpu' \in CpuType
        BY <1>b, <2>1, CpuUpdate
    <2> QED
        BY Zenon, <1>a, <1>3, <2>2 DEF CpuType, DpcType, PassThrottle, SubmitGoto
<1>4. ASSUME NEW p \in Cpus, PushOutOfRange(p) PROVE TypeOK'
    <2>1. cpu' \in CpuType /\ srb' \in [Reqs -> {"free", "issued"}] /\ SubLock' = NULL
        BY <1>c, <1>4 DEF PushOutOfRange
    <2> QED
        BY Zenon, <1>a, <1>4, <2>1 DEF CpuType, DpcType, PushOutOfRange, Refuse
<1>5. ASSUME NEW p \in Cpus, Push(p) PROVE TypeOK'
    <2>1. cpu' = [cpu EXCEPT ![p].pc = "write"] /\ "write" \in SubmitPcs
        BY <1>5, PcsFact DEF Push, SubmitGoto
    <2>2. cpu' \in CpuType
        BY <1>b, <2>1, CpuUpdate
    <2>3. History' = [History EXCEPT ![CidOf[cpu[p].srb]] = cpu[p].srb] /\ cpu[p].srb \in Reqs
        BY <1>5, <1>d DEF Push
    <2>4. History' \in [Cids -> Reqs \cup {NULL}]
        BY <1>b, <2>3, UpdateType
    <2> QED
        BY Zenon, <1>a, <1>5, <2>2, <2>4 DEF CpuType, DpcType, Push, SubmitGoto
<1>6. ASSUME NEW p \in Cpus, PushTaken(p) PROVE TypeOK'
    <2>1. cpu' = [cpu EXCEPT ![p].pc = "evict"] /\ "evict" \in SubmitPcs
        BY <1>6, PcsFact DEF PushTaken, SubmitGoto
    <2>2. cpu' \in CpuType
        BY <1>b, <2>1, CpuUpdate
    <2> QED
        BY Zenon, <1>a, <1>6, <2>2 DEF CpuType, DpcType, PushTaken, SubmitGoto
<1>7. ASSUME NEW p \in Cpus, Evict(p) PROVE TypeOK'
    <2>1. cpu' = [cpu EXCEPT ![p].pc = "repush"] /\ "repush" \in SubmitPcs
        BY <1>7, PcsFact DEF Evict, SubmitGoto
    <2>2. cpu' \in CpuType
        BY <1>b, <2>1, CpuUpdate
    <2>3. PICK cid : History' = [History EXCEPT ![cid] = NULL]
        BY <1>7 DEF Evict
    <2>4. PICK r : srb' = [srb EXCEPT ![r] = "free"]
        BY <1>7 DEF Evict
    <2>5. History' \in [Cids -> Reqs \cup {NULL}] /\ srb' \in [Reqs -> {"free", "issued"}]
        BY <1>b, <2>3, <2>4, UpdateType
    <2> QED
        BY Zenon, <1>a, <1>7, <2>2, <2>5 DEF CpuType, DpcType, Evict, SubmitGoto
<1>8. ASSUME NEW p \in Cpus, EvictNothing(p) PROVE TypeOK'
    <2>1. cpu' = [cpu EXCEPT ![p].pc = "crashed"] /\ "crashed" \in SubmitPcs
        BY <1>8, PcsFact DEF EvictNothing, SubmitGoto
    <2>2. cpu' \in CpuType
        BY <1>b, <2>1, CpuUpdate
    <2> QED
        BY Zenon, <1>a, <1>8, <2>2 DEF CpuType, DpcType, EvictNothing, SubmitGoto
<1>9. ASSUME NEW p \in Cpus, Repush(p) PROVE TypeOK'
    <2>1. cpu' = [cpu EXCEPT ![p].pc = "write"] /\ "write" \in SubmitPcs
        BY <1>9, PcsFact DEF Repush, SubmitGoto
    <2>2. cpu' \in CpuType
        BY <1>b, <2>1, CpuUpdate
    <2>3. cpu[p].srb \in Reqs
        BY <1>9, <1>d DEF Repush
    <2>4. History' \in [Cids -> Reqs \cup {NULL}]
        <3> DEFINE cid == CidOf[cpu[p].srb]
                   new == IF History[cid] = NULL THEN cpu[p].srb ELSE History[cid]
        <3>1. cid \in Cids
            BY <1>a, <1>9 DEF Repush, RangeInv
        <3>2. new \in Reqs \cup {NULL}
            BY <1>b, <2>3, <3>1
        <3>3. History' = [History EXCEPT ![cid] = new]
            BY <1>9 DEF Repush
        <3> HIDE DEF cid, new
        <3> QED
            BY <1>b, <3>2, <3>3, UpdateType
    <2> QED
        BY Zenon, <1>a, <1>9, <2>2, <2>4 DEF CpuType, DpcType, Repush, SubmitGoto
<1>10. ASSUME NEW p \in Cpus, WriteSlot(p) PROVE TypeOK'
    <2>1. cpu' = [cpu EXCEPT ![p].pc = "count"] /\ "count" \in SubmitPcs
        BY <1>10, PcsFact DEF WriteSlot
    <2>2. cpu' \in CpuType
        BY <1>b, <2>1, CpuUpdate
    <2>3. SubQ' = [SubQ EXCEPT ![SubTail] = cpu[p].srb] /\ cpu[p].srb \in Reqs
        BY <1>10, <1>d DEF WriteSlot
    <2>4. SubQ' \in [Slots -> Reqs \cup {NULL}]
        BY <1>b, <2>3, UpdateType
    <2> QED
        BY Zenon, <1>a, <1>10, <2>2, <2>4 DEF CpuType, DpcType, WriteSlot
<1>11. ASSUME NEW p \in Cpus, CountInflight(p) PROVE TypeOK'
    <2>1. cpu' = [cpu EXCEPT ![p].pc = "tail"] /\ "tail" \in SubmitPcs
        BY <1>11, PcsFact DEF CountInflight, SubmitGoto
    <2>2. cpu' \in CpuType
        BY <1>b, <2>1, CpuUpdate
    <2>3. InflightCmds' \in Int
        BY <1>11, <1>b DEF CountInflight
    <2> QED
        BY Zenon, <1>a, <1>11, <2>2, <2>3 DEF CpuType, DpcType, CountInflight, SubmitGoto
<1>12. ASSUME NEW p \in Cpus, AdvanceTail(p) PROVE TypeOK'
    <2>1. cpu' = [cpu EXCEPT ![p].pc = "ring"] /\ "ring" \in SubmitPcs
        BY <1>12, PcsFact DEF AdvanceTail
    <2>2. cpu' \in CpuType
        BY <1>b, <2>1, CpuUpdate
    <2>3. SubTail' \in Slots
        BY <1>12, <1>b, WrapSlot DEF AdvanceTail
    <2> QED
        BY Zenon, <1>a, <1>12, <2>2, <2>3 DEF CpuType, DpcType, AdvanceTail
<1>13. ASSUME NEW p \in Cpus, RingSubDbl(p) PROVE TypeOK'
    <2>1. /\ cpu' = [cpu EXCEPT ![p] = [pc |-> "idle", srb |-> NULL]] /\ "idle" \in SubmitPcs
          /\ SubLock' = NULL /\ SubDbl' = SubTail
        BY <1>13, PcsFact DEF RingSubDbl, IdleCpu
    <2>2. cpu' \in CpuType
        BY <1>b, <2>1, CpuUpdate
    <2> QED
        BY Zenon, <1>a, <1>13, <2>1, <2>2 DEF CpuType, RingSubDbl
<1>14. CASE DpcStart
    <2>1. dpc' \in DpcType
        BY <1>14, DepthNat, PcsFact DEF DpcStart, DpcType
    <2> QED
        BY Zenon, <1>a, <1>14, <2>1 DEF DpcType, DpcStart
<1>15. CASE DpcPop
    <2>0. 0 \in Cids
        BY ZeroCid
    <2>1. CidIn(CplQ[CplHead]) \in Cids
        BY <1>a, <1>b, <2>0 DEF CidIn, RangeInv, InRange
    <2>2. History[CidIn(CplQ[CplHead])] \in Reqs \cup {NULL}
        BY SMT, <1>b, <2>1
    <2>3. dpc' \in DpcType
        <3> DEFINE old  == History[CidIn(CplQ[CplHead])]
                   step == IF old = NULL THEN "advance" ELSE "complete"
        <3>1. dpc' = [dpc EXCEPT !.srb = old, !.pc = step]
            BY <1>15 DEF DpcPop
        <3>2. step \in DpcPcs
            BY DEF DpcPcs
        <3> HIDE DEF old, step
        <3> QED
            BY <1>b, <2>2, <3>1, <3>2, DpcUpdate DEF old
    <2>4. History' \in [Cids -> Reqs \cup {NULL}]
        <3>1. PICK cid : History' = [History EXCEPT ![cid] = NULL]
            BY <1>15 DEF DpcPop
        <3> QED
            BY <1>b, <3>1, UpdateType
    <2> QED
        BY Zenon, <1>a, <1>15, <2>3, <2>4 DEF DpcType, DpcPop
<1>16. CASE DpcComplete
    <2>1. srb' \in [Reqs -> {"free", "issued"}]
        BY <1>b, <1>16, UpdateType DEF DpcComplete
    <2>2. dpc' \in DpcType
        <3>1. dpc' = [dpc EXCEPT !.pc = "retire"] /\ "retire" \in DpcPcs
            BY <1>16 DEF DpcComplete, DpcGoto, DpcPcs
        <3> QED
            BY <1>b, <3>1, DpcUpdate
    <2> QED
        BY Zenon, <1>a, <1>16, <2>1, <2>2 DEF DpcType, DpcComplete, DpcGoto
<1>17. CASE DpcRetire
    <2>1. dpc' = [dpc EXCEPT !.pc = "advance"] /\ "advance" \in DpcPcs
        BY <1>17, PcsFact DEF DpcRetire, DpcGoto
    <2>2. dpc' \in DpcType
        BY <1>b, <2>1, DpcUpdate
    <2>3. InflightCmds' \in Int
        BY <1>17, <1>b DEF DpcRetire
    <2> QED
        BY Zenon, <1>a, <1>17, <2>2, <2>3 DEF DpcType, DpcRetire, DpcGoto
<1>18. CASE DpcAdvance
    <2>1. dpc.count \in Nat /\ dpc.count + 1 \in 0 .. Depth
        BY <1>a, <1>b, <1>18, DepthNat DEF DpcAdvance, BatchInv, DpcType
    <2>2. dpc' \in DpcType
        BY SMT, <1>b, <1>18, <2>1 DEF DpcAdvance, DpcType, DpcPcs
    <2>3. CplHead' \in Slots /\ PhaseTag' \in Phases
        BY <1>b, <1>18, WrapSlot DEF DpcAdvance, WrapPhase, Phases
    <2> QED
        BY Zenon, <1>a, <1>18, <2>2, <2>3 DEF DpcType, DpcAdvance
<1>19. CASE DpcDrained
    <2>1. PICK step \in {"ring", "idle"} : dpc' = [dpc EXCEPT !.pc = step]
        BY <1>19 DEF DpcDrained, DpcGoto
    <2>2. dpc' \in DpcType
        BY <1>b, <2>1, DpcUpdate, PcsFact
    <2> QED
        BY Zenon, <1>a, <1>19, <2>2 DEF DpcType, DpcDrained, DpcGoto
<1>20. CASE DpcRing
    <2>1. dpc' \in DpcType
        <3>1. dpc' = [dpc EXCEPT !.pc = "idle", !.count = 0] /\ "idle" \in DpcPcs
            BY <1>20 DEF DpcRing, DpcPcs
        <3>2. 0 \in 0 .. Depth
            BY DepthNat
        <3> QED
            BY <1>b, <3>1, <3>2, DpcUpdate
    <2> QED
        BY Zenon, <1>a, <1>20, <2>1 DEF DpcType, DpcRing
<1>21. CASE CtrlFetch
    <2>1. SqHead' = Wrap(SqHead) /\ SqHead # SubDbl /\ exec' = exec \cup {SubQ[SqHead]}
        BY <1>21 DEF CtrlFetch
    <2>2. SqHead' \in Slots
        BY <1>b, <2>1, WrapSlot
    <2>3. SubQ[SqHead] # NULL
        <3>1. SqHead \in Nat /\ SubDbl \in Nat /\ SubTail \in Nat
            BY <1>b, SlotNat
        <3>2. SqHead <= SubDbl /\ SubDbl <= SubTail => SqHead < SubTail
            BY <2>1, <3>1
        <3> QED
            BY <1>a, <1>b, <3>2 DEF WrittenInv
    <2>4. SubQ[SqHead] \in Reqs
        BY <1>b, <2>3
    <2>5. exec' \in SUBSET Reqs
        BY <1>b, <2>1, <2>4
    <2> QED
        BY Zenon, <1>a, <1>21, <2>2, <2>5 DEF CtrlFetch
<1>22. ASSUME NEW r \in Reqs, CtrlPost(r) PROVE TypeOK'
    <2>1. /\ CplQ' = [CplQ EXCEPT ![CqTail] = [req |-> r, phase |-> CqPhase]]
          /\ CqTail' = Wrap(CqTail) /\ CqPhase' = WrapPhase(CqTail, CqPhase)
          /\ exec' = exec \ {r} /\ irq' = TRUE
        BY <1>22 DEF CtrlPost
    <2>2. CplQ' \in [Slots -> [req : Reqs \cup {NULL}, phase : Phases]]
        BY <1>b, <2>1, UpdateType
    <2>3. CqTail' \in Slots /\ exec' \in SUBSET Reqs
        BY <1>b, <2>1, WrapSlot
    <2>4. CqPhase' \in Phases
        BY <1>b, <2>1 DEF WrapPhase, Phases
    <2> QED
        BY Zenon, <1>a, <1>22, <2>1, <2>2, <2>3, <2>4 DEF CtrlPost
<1>23. CASE Isr
    <2>1. irq' \in BOOLEAN /\ DpcQueued' \in BOOLEAN
        BY Zenon, <1>a, <1>23 DEF Isr
    <2> QED
        BY Zenon, <1>a, <1>23, <2>1 DEF Isr
<1>24. CASE UNCHANGED vars
    BY Zenon, <1>a, <1>24 DEF vars
<1> QED
    BY Zenon, <1>a, <1>1, <1>2, <1>3, <1>4, <1>5, <1>6, <1>7, <1>8, <1>9, <1>10, <1>11, <1>12, <1>13, <1>14, <1>15, <1>16, <1>17, <1>18, <1>19, <1>20, <1>21, <1>22, <1>23, <1>24 DEF Next, SubmitStep, DpcStep

(****************************************************************************)
(* What the actors leave alone.                                             *)
(****************************************************************************)

\* The DPC, the controller and the interrupt leave the submitter's state alone.
LEMMA OthersFrame ==
    ASSUME DpcStep \/ CtrlFetch \/ (\E r \in Reqs : CtrlPost(r)) \/ Isr \/ UNCHANGED vars
    PROVE  UNCHANGED <<cpu, SubLock, SubQ, SubTail, SubDbl>>
<1>1. CASE DpcStep
    BY Zenon, <1>1 DEF DpcStep, DpcStart, DpcPop, DpcComplete, DpcRetire, DpcAdvance,
                       DpcDrained, DpcRing, DpcGoto, subVars
<1>2. CASE CtrlFetch
    BY Zenon, <1>2 DEF CtrlFetch, subVars
<1>3. ASSUME NEW r \in Reqs, CtrlPost(r)
      PROVE  UNCHANGED <<cpu, SubLock, SubQ, SubTail, SubDbl>>
    BY Zenon, <1>3 DEF CtrlPost, subVars
<1>4. CASE Isr
    BY Zenon, <1>4 DEF Isr, subVars
<1>5. CASE UNCHANGED vars
    BY Zenon, <1>5 DEF vars, subVars
<1> QED
    BY <1>1, <1>2, <1>3, <1>4, <1>5

\* A submission leaves the state of the DPC and of the controller alone.
LEMMA SubmitFrame ==
    ASSUME NEW p \in Cpus, SubmitStep(p) \/ \E r \in Reqs : Acquire(p, r)
    PROVE  UNCHANGED <<dpcVars, ctrlVars>>
BY Zenon DEF SubmitStep, Acquire, Throttle, PassThrottle, PushOutOfRange, Push, PushTaken,
     Evict, EvictNothing, Repush, WriteSlot, CountInflight, AdvanceTail, RingSubDbl,
     Refuse, SubmitGoto

\* A submission step happens under the lock and moves one processor only.
LEMMA SubmitMoves ==
    ASSUME TypeOK, LockInv, NEW p \in Cpus, SubmitStep(p)
    PROVE  /\ SubLock = p
           /\ cpu[p].srb \in Reqs
           /\ \A q \in Cpus : q # p => cpu'[q] = cpu[q] /\ cpu[q].pc = "idle"
           /\ \/ cpu'[p] = IdleCpu /\ SubLock' = NULL
              \/ cpu'[p].srb = cpu[p].srb /\ SubLock' = SubLock
<1> DEFINE Goal ==
        /\ \A q \in Cpus : q # p => cpu'[q] = cpu[q]
        /\ \/ cpu'[p] = IdleCpu /\ SubLock' = NULL
           \/ cpu'[p].srb = cpu[p].srb /\ SubLock' = SubLock
<1>a. cpu \in [Cpus -> [pc : SubmitPcs, srb : Reqs \cup {NULL}]]
    BY DEF TypeOK
<1>b. cpu[p].pc # "idle"
    BY DEF SubmitStep, Throttle, PassThrottle, PushOutOfRange, Push, PushTaken, Evict, EvictNothing, Repush, WriteSlot, CountInflight, AdvanceTail, RingSubDbl
<1>c. SubLock = p /\ cpu[p].srb \in Reqs /\ \A q \in Cpus : q # p => cpu[q].pc = "idle"
    BY <1>b DEF LockInv
<1>d. Goal
    <2>1. CASE Refuse(p)
        BY SMT, <1>a, <2>1 DEF Refuse
    <2>2. ASSUME NEW step, SubmitGoto(p, step) PROVE Goal
        BY SMT, <1>a, <2>2 DEF SubmitGoto, subVars
    <2>3. CASE WriteSlot(p)
        BY SMT, <1>a, <2>3 DEF WriteSlot
    <2>4. CASE AdvanceTail(p)
        BY SMT, <1>a, <2>4 DEF AdvanceTail
    <2>5. CASE RingSubDbl(p)
        BY SMT, <1>a, <2>5 DEF RingSubDbl
    <2> HIDE DEF Goal
    <2> QED
        BY <2>1, <2>2, <2>3, <2>4, <2>5
           DEF SubmitStep, Throttle, PassThrottle, PushOutOfRange, Push, PushTaken, Evict,
               EvictNothing, Repush, CountInflight
<1> QED
    BY <1>c, <1>d

\* Every step keeps the discipline of SubLock: a processor enters SubmitCmd with the lock
\* and leaves it when it gives the lock back.
LEMMA LockStep == BasicInv /\ [Next]_vars => LockInv'
<1> SUFFICES ASSUME BasicInv, [Next]_vars PROVE LockInv'
    OBVIOUS
<1>a. TypeOK /\ LockInv
    BY DEF BasicInv
<1>b. cpu \in [Cpus -> [pc : SubmitPcs, srb : Reqs \cup {NULL}]] /\ NULL \notin Cpus
    BY <1>a, NullFact DEF TypeOK
<1>1. ASSUME NEW p \in Cpus, NEW r \in Reqs, Acquire(p, r) PROVE LockInv'
    <2>1. \A q \in Cpus : cpu[q].pc = "idle"
        BY <1>a, <1>b, <1>1 DEF Acquire, LockInv
    <2> QED
        BY SMT, <1>b, <1>1, <2>1 DEF Acquire, LockInv
<1>2. ASSUME NEW p \in Cpus, SubmitStep(p) PROVE LockInv'
    BY <1>a, <1>2, SubmitMoves DEF LockInv, IdleCpu
<1>3. CASE UNCHANGED <<cpu, SubLock>>
    BY <1>a, <1>3 DEF LockInv
<1> QED
    BY <1>1, <1>2, <1>3, OthersFrame DEF Next

\* Going to another step changes nothing else, and no other processor.
LEMMA GotoStep ==
    ASSUME TypeOK, NEW p \in Cpus, NEW step, cpu' = [cpu EXCEPT ![p].pc = step]
    PROVE  /\ cpu'[p].pc = step
           /\ cpu'[p].srb = cpu[p].srb
           /\ \A q \in Cpus : q # p => cpu'[q] = cpu[q]
<1>1. cpu \in [Cpus -> [pc : SubmitPcs, srb : Reqs \cup {NULL}]]
    BY DEF TypeOK
<1> QED
    BY SMT, <1>1

(****************************************************************************)
(* RangeInv: every command that is somewhere has a CID inside History.      *)
(****************************************************************************)

\* The steps of SubmitCmd after a successful Push.
InSubmit == {"evict", "repush", "write", "count", "tail", "ring"}

\* Every step keeps the CIDs of what is in the rings and the controller inside History.
LEMMA RangeStep == BasicInv /\ [Next]_vars => RangeInv'
<1> SUFFICES ASSUME BasicInv, [Next]_vars PROVE RangeInv'
    OBVIOUS
<1>a. TypeOK /\ LockInv /\ RangeInv
    BY DEF BasicInv
<1>b. /\ SubQ \in [Slots -> Reqs \cup {NULL}]
      /\ CplQ \in [Slots -> [req : Reqs \cup {NULL}, phase : Phases]]
      /\ SubTail \in Slots /\ SqHead \in Slots /\ CqTail \in Slots
    BY <1>a DEF TypeOK
<1> DEFINE CpuPart  == \A p \in Cpus : cpu[p].pc \in InSubmit => CidOf[cpu[p].srb] \in Cids
           SubPart  == \A i \in Slots : InRange(SubQ[i])
           ExecPart == \A r \in exec : InRange(r)
           CplPart  == \A i \in Slots : InRange(CplQ[i].req)
<1>c. RangeInv <=> CpuPart /\ SubPart /\ ExecPart /\ CplPart
    BY Zenon DEF RangeInv, InSubmit
<1>d. RangeInv' <=> CpuPart' /\ SubPart' /\ ExecPart' /\ CplPart'
    BY Zenon DEF RangeInv, InSubmit
\* The controller's part of the invariant follows from SubQ and CplQ.
<1>1. UNCHANGED <<exec, CplQ>> => ExecPart' /\ CplPart'
    BY <1>a, <1>c DEF InRange
<1>2. UNCHANGED SubQ => SubPart'
    BY <1>a, <1>c DEF InRange
<1>3. UNCHANGED cpu => CpuPart'
    BY <1>a, <1>c
<1>4. ASSUME NEW p \in Cpus, NEW r \in Reqs, Acquire(p, r) PROVE CpuPart' /\ SubPart'
    <2>1. cpu'[p].pc = "throttle" /\ \A q \in Cpus : q # p => cpu'[q] = cpu[q]
        <3>1. cpu \in [Cpus -> [pc : SubmitPcs, srb : Reqs \cup {NULL}]]
            BY <1>a DEF TypeOK
        <3> QED
            BY SMT, <1>4, <3>1 DEF Acquire
    <2> QED
        BY <1>2, <1>4, <1>a, <1>c, <2>1 DEF Acquire, InSubmit
<1>5. ASSUME NEW p \in Cpus, SubmitStep(p) PROVE CpuPart' /\ SubPart'
    <2>a. /\ cpu[p].srb \in Reqs
          /\ \A q \in Cpus : q # p => cpu'[q] = cpu[q] /\ cpu[q].pc = "idle"
          /\ cpu'[p] = IdleCpu \/ cpu'[p].srb = cpu[p].srb
        BY <1>a, <1>5, SubmitMoves
    <2>b. \A q \in Cpus : q # p => ~(cpu'[q].pc \in InSubmit)
        BY <2>a DEF InSubmit
    <2>c. cpu'[p].pc \in InSubmit => CidOf[cpu[p].srb] \in Cids
        <3>1. cpu[p].pc \in InSubmit => CidOf[cpu[p].srb] \in Cids
            BY <1>a, <1>c
        <3>2. CASE Refuse(p)
            BY <1>a, <3>2 DEF Refuse, InSubmit, IdleCpu, TypeOK
        <3>3. CASE PassThrottle(p)
            BY <1>a, <3>3, GotoStep DEF PassThrottle, SubmitGoto, InSubmit
        <3> QED
            BY <1>5, <3>1, <3>2, <3>3
               DEF SubmitStep, Throttle, PushOutOfRange, Push, PushTaken, Evict, EvictNothing,
                   Repush, WriteSlot, CountInflight, AdvanceTail, RingSubDbl, InSubmit
    <2>1. CpuPart'
        BY <2>a, <2>b, <2>c DEF IdleCpu, InSubmit
    <2>2. CASE WriteSlot(p)
        <3>1. InRange(cpu[p].srb)
            BY <1>a, <1>c, <2>2 DEF WriteSlot, InSubmit, InRange
        <3>2. \A i \in Slots : SubQ'[i] = IF i = SubTail THEN cpu[p].srb ELSE SubQ[i]
            BY SMT, <1>b, <2>2 DEF WriteSlot
        <3> QED
            BY <1>a, <1>c, <2>1, <3>1, <3>2 DEF InRange
    <2>3. UNCHANGED SubQ \/ WriteSlot(p)
        BY <1>5 DEF SubmitStep, Throttle, PassThrottle, PushOutOfRange, Push, PushTaken, Evict,
                    EvictNothing, Repush, CountInflight, AdvanceTail, RingSubDbl, Refuse,
                    SubmitGoto, subVars
    <2> QED
        BY <1>2, <2>1, <2>2, <2>3
<1>6. CASE DpcStep \/ Isr \/ UNCHANGED vars
    <2>1. UNCHANGED <<exec, CplQ>>
        BY <1>6 DEF DpcStep, DpcStart, DpcPop, DpcComplete, DpcRetire, DpcAdvance, DpcDrained,
                    DpcRing, DpcGoto, Isr, vars, ctrlVars
    <2> QED
        BY <1>1, <1>2, <1>3, <1>6, <1>d, <2>1, OthersFrame
<1>7. CASE CtrlFetch
    <2>1. InRange(SubQ[SqHead])
        BY <1>a, <1>b, <1>c
    <2>2. exec' = exec \cup {SubQ[SqHead]} /\ UNCHANGED CplQ
        BY <1>7 DEF CtrlFetch
    <2>3. ExecPart' /\ CplPart'
        BY <1>a, <1>c, <2>1, <2>2 DEF InRange
    <2> QED
        BY <1>2, <1>3, <1>7, <1>d, <2>3, OthersFrame
<1>8. ASSUME NEW r \in Reqs, CtrlPost(r) PROVE RangeInv'
    <2>1. InRange(r) /\ ExecPart'
        BY <1>a, <1>c, <1>8 DEF CtrlPost, InRange
    <2>2. \A i \in Slots : CplQ'[i].req = IF i = CqTail THEN r ELSE CplQ[i].req
        BY SMT, <1>b, <1>8 DEF CtrlPost
    <2>3. CplPart'
        BY <1>a, <1>c, <2>1, <2>2 DEF InRange
    <2> QED
        BY <1>2, <1>3, <1>8, <1>d, <2>1, <2>3, OthersFrame
<1> QED
    BY <1>1, <1>4, <1>5, <1>6, <1>7, <1>8, <1>d, SubmitFrame DEF Next, ctrlVars

(****************************************************************************)
(* BatchInv and WrittenInv.                                                 *)
(****************************************************************************)

\* Every step keeps the count of CompleteCmd below Depth while it has entries to take.
LEMMA BatchStep == BasicInv /\ [Next]_vars => BatchInv'
<1> SUFFICES ASSUME BasicInv, [Next]_vars PROVE BatchInv'
    OBVIOUS
<1>a. BatchInv /\ dpc \in DpcType
    BY DEF BasicInv, TypeOK, DpcType
<1>1. CASE UNCHANGED dpc
    BY <1>a, <1>1 DEF BatchInv
<1>2. CASE DpcStart
    BY <1>2, DepthNat DEF DpcStart, BatchInv
<1>3. CASE DpcPop \/ DpcComplete \/ DpcRetire \/ DpcDrained \/ DpcRing
    BY <1>a, <1>3 DEF DpcPop, DpcComplete, DpcRetire, DpcDrained, DpcRing, DpcGoto, BatchInv, DpcType
<1>4. CASE DpcAdvance
    BY <1>a, <1>4, DepthNat DEF DpcAdvance, BatchInv, DpcType
<1>5. CASE CtrlFetch \/ (\E r \in Reqs : CtrlPost(r)) \/ Isr \/ UNCHANGED vars
    BY Zenon, <1>1, <1>5 DEF CtrlFetch, CtrlPost, Isr, vars, dpcVars
<1> QED
    BY <1>1, <1>2, <1>3, <1>4, <1>5, SubmitFrame DEF Next, DpcStep, dpcVars

\* The steps that leave the submission ring alone.
LEMMA RingKept ==
    ASSUME [Next]_vars
    PROVE  \/ UNCHANGED <<SubQ, SubTail, SubDbl, SqHead>>
           \/ CtrlFetch
           \/ \E p \in Cpus : WriteSlot(p) \/ AdvanceTail(p) \/ RingSubDbl(p)
<1>1. CASE DpcStep \/ (\E r \in Reqs : CtrlPost(r)) \/ Isr \/ UNCHANGED vars
    <2>1. UNCHANGED SqHead
        BY Zenon, <1>1 DEF DpcStep, DpcStart, DpcPop, DpcComplete, DpcRetire, DpcAdvance,
                           DpcDrained, DpcRing, DpcGoto, CtrlPost, Isr, vars, ctrlVars
    <2> QED
        BY <1>1, <2>1, OthersFrame
<1>2. ASSUME NEW p \in Cpus, SubmitStep(p) \/ \E r \in Reqs : Acquire(p, r),
             ~WriteSlot(p), ~AdvanceTail(p), ~RingSubDbl(p)
      PROVE  UNCHANGED <<SubQ, SubTail, SubDbl, SqHead>>
    BY Zenon, <1>2 DEF SubmitStep, Acquire, Throttle, PassThrottle, PushOutOfRange, Push, PushTaken,
       Evict, EvictNothing, Repush, CountInflight, Refuse, SubmitGoto, subVars, ctrlVars
<1> QED
    BY <1>1, <1>2 DEF Next

\* Every step keeps SubTail and SqHead on written slots.
LEMMA WrittenStep == BasicInv /\ [Next]_vars => WrittenInv'
<1> SUFFICES ASSUME BasicInv, [Next]_vars PROVE WrittenInv'
    OBVIOUS
<1> DEFINE All == \A i \in Slots : SubQ[i] # NULL
           Part == /\ SqHead <= SubDbl /\ SubDbl <= SubTail
                   /\ \A i \in Slots : i < SubTail => SubQ[i] # NULL
           Ready == \A p \in Cpus : cpu[p].pc \in {"count", "tail"} => SubQ[SubTail] # NULL
<1>a. /\ TypeOK /\ LockInv /\ Ready /\ (All \/ Part)
      /\ SubQ \in [Slots -> Reqs \cup {NULL}]
      /\ SubTail \in Slots /\ SubDbl \in Slots /\ SqHead \in Slots
    BY DEF BasicInv, TypeOK, WrittenInv
<1>b. Ready' /\ (All' \/ Part') => WrittenInv'
    BY DEF WrittenInv
<1>c. ASSUME NEW p \in Cpus, SubmitStep(p),
             cpu'[p].pc \in {"count", "tail"} => SubQ'[SubTail'] # NULL
      PROVE  Ready'
    BY <1>a, <1>c, SubmitMoves
<1>1. CASE UNCHANGED <<SubQ, SubTail, SubDbl, SqHead>>
    <2>1. All' \/ Part'
        BY <1>a, <1>1
    <2>2. CASE UNCHANGED cpu
        BY <1>a, <1>b, <1>1, <2>1, <2>2
    <2>3. ASSUME NEW p \in Cpus, NEW r \in Reqs, Acquire(p, r) PROVE Ready'
        <3>1. \A q \in Cpus : cpu[q].pc = "idle"
            BY <1>a, <2>3, NullFact DEF Acquire, LockInv
        <3>2. cpu \in [Cpus -> [pc : SubmitPcs, srb : Reqs \cup {NULL}]]
            BY <1>a DEF TypeOK
        <3> QED
            BY <2>3, <3>1, <3>2 DEF Acquire
    <2>4. ASSUME NEW p \in Cpus, SubmitStep(p) PROVE Ready'
        <3>1. cpu'[p].pc \in {"count", "tail"} => SubQ'[SubTail'] # NULL
            <4>1. CASE WriteSlot(p)
                <5>1. cpu[p].srb # NULL
                    BY <1>a, <2>4, SubmitMoves, NullFact
                <5> QED
                    BY <1>a, <4>1, <5>1 DEF WriteSlot
            <4>2. CASE CountInflight(p)
                BY <1>a, <1>1, <4>2 DEF CountInflight
            <4>3. CASE ~WriteSlot(p) /\ ~CountInflight(p)
                <5>1. CASE Refuse(p)
                    BY <1>a, <5>1 DEF Refuse, IdleCpu, TypeOK
                <5>2. CASE RingSubDbl(p)
                    BY <1>a, <5>2 DEF RingSubDbl, IdleCpu, TypeOK
                <5>3. CASE ~Refuse(p) /\ ~RingSubDbl(p)
                    BY <1>a, <2>4, <4>3, <5>3, GotoStep
                       DEF SubmitStep, Throttle, PassThrottle, PushOutOfRange, Push, PushTaken, Evict,
                           EvictNothing, Repush, AdvanceTail, SubmitGoto
                <5> QED
                    BY <5>1, <5>2, <5>3
            <4> QED
                BY <4>1, <4>2, <4>3
        <3> QED
            BY <1>c, <2>4, <3>1
    <2> HIDE DEF Ready
    <2> QED
        BY <1>b, <2>1, <2>2, <2>3, <2>4, OthersFrame DEF Next
<1>2. CASE CtrlFetch
    <2>1. SqHead # SubDbl /\ SqHead' = Wrap(SqHead)
        BY <1>2 DEF CtrlFetch
    <2>2. UNCHANGED <<cpu, SubQ, SubTail, SubDbl>>
        BY <1>2, OthersFrame
    <2>3. Part => SqHead' <= SubDbl
        BY <1>a, <2>1, DepthNat DEF Slots, Wrap
    <2> QED
        BY <1>a, <1>b, <2>2, <2>3
<1>3. ASSUME NEW p \in Cpus, WriteSlot(p) PROVE WrittenInv'
    <2>1. SubmitStep(p)
        BY <1>3 DEF SubmitStep
    <2>2. cpu[p].srb # NULL
        BY <1>a, <2>1, SubmitMoves, NullFact
    <2>3. /\ \A i \in Slots : SubQ'[i] = IF i = SubTail THEN cpu[p].srb ELSE SubQ[i]
          /\ UNCHANGED <<SubTail, SubDbl, SqHead>>
        BY <1>a, <1>3 DEF WriteSlot, ctrlVars
    <2>4. Ready'
        BY <1>a, <1>c, <2>1, <2>2, <2>3
    <2>5. All' \/ Part'
        BY <1>a, <2>2, <2>3
    <2> QED
        BY <1>b, <2>4, <2>5
<1>4. ASSUME NEW p \in Cpus, AdvanceTail(p) PROVE WrittenInv'
    <2>1. SubmitStep(p) /\ cpu'[p].pc = "ring" /\ cpu[p].pc = "tail"
        BY <1>a, <1>4, GotoStep DEF SubmitStep, AdvanceTail
    <2>2. SubTail' = Wrap(SubTail) /\ UNCHANGED <<SubQ, SubDbl, SqHead>>
        BY <1>4 DEF AdvanceTail, ctrlVars
    <2>3. Ready' /\ SubQ[SubTail] # NULL
        BY <1>a, <1>c, <2>1
    <2>4. CASE SubTail + 1 = Depth /\ Part
        <3>1. \A i \in Slots : i < SubTail \/ i = SubTail
            BY <1>a, <2>4, DepthNat DEF Slots
        <3>2. All
            BY <2>3, <2>4, <3>1
        <3> QED
            BY <1>b, <2>2, <2>3, <3>2
    <2>5. CASE SubTail + 1 # Depth /\ Part
        <3>1. SubTail' = SubTail + 1
            BY <2>2, <2>5 DEF Wrap
        <3>2. \A i \in Slots : i < SubTail' => i < SubTail \/ i = SubTail
            BY <1>a, <3>1, DepthNat DEF Slots
        <3>3. SubDbl' <= SubTail'
            BY <1>a, <2>2, <2>5, <3>1, SlotNat
        <3> QED
            BY <1>b, <2>2, <2>3, <2>5, <3>2, <3>3
    <2>6. CASE All
        BY <1>b, <2>2, <2>3, <2>6
    <2> QED
        BY <1>a, <2>4, <2>5, <2>6
<1>5. ASSUME NEW p \in Cpus, RingSubDbl(p) PROVE WrittenInv'
    <2>1. SubmitStep(p) /\ cpu'[p].pc = "idle"
        BY <1>a, <1>5 DEF SubmitStep, RingSubDbl, IdleCpu, TypeOK
    <2>2. SubDbl' = SubTail /\ UNCHANGED <<SubQ, SubTail, SqHead>>
        BY <1>5 DEF RingSubDbl, ctrlVars
    <2>3. Ready'
        BY <1>c, <2>1
    <2>4. Part => SqHead <= SubTail /\ SubTail <= SubTail
        BY <1>a, SlotNat
    <2> QED
        BY <1>a, <1>b, <2>2, <2>3, <2>4
<1> QED
    BY <1>1, <1>2, <1>3, <1>4, <1>5, RingKept

\* What does not depend on the throttle is inductive without it.
LEMMA BasicStep == BasicInv /\ [Next]_vars => BasicInv'
BY TypeStep, LockStep, RangeStep, BatchStep, WrittenStep DEF BasicInv

(****************************************************************************)
(* SubRingInv: the submission ring.  It is here that the throttle matters.  *)
(****************************************************************************)

\* The controller executes finitely many commands.
LEMMA ExecFinite ==
    ASSUME TypeOK
    PROVE  IsFiniteSet(exec) /\ Cardinality(exec) \in Nat
<1>1. IsFiniteSet(Reqs)
    BY ReqsFinite
<1>2. exec \subseteq Reqs
    BY DEF TypeOK
<1> QED
    BY <1>1, <1>2, FS_Subset, FS_CardinalityType

\* At the moment SubTail is about to move there is room for the move.
LEMMA NoOverrun ==
    ASSUME IInv, NEW p \in Cpus, cpu[p].pc = "tail"
    PROVE  Wrap(SubTail) # SqHead
<1>a. TypeOK /\ CplRingInv /\ CountInv
    BY DEF IInv
<1>b. /\ SubTail \in Slots /\ SqHead \in Slots /\ CplHead \in Slots /\ CqTail \in Slots
      /\ InflightCmds \in Int
    BY <1>a DEF TypeOK
<1>1. Entered = 1
    BY DEF Entered
<1>2. Retired \in {0, 1} /\ Retired <= Dist(CplHead, CqTail)
    BY <1>a, <1>b, DistRange DEF Retired, CplRingInv
<1>3. Cardinality(exec) \in Nat /\ Dist(SqHead, SubTail) \in Nat /\ Dist(CplHead, CqTail) \in Nat
    BY <1>a, <1>b, ExecFinite, DistRange, DepthNat
<1>4. /\ InflightCmds + Retired >=
             Dist(SqHead, SubTail) + Entered + Cardinality(exec) + Dist(CplHead, CqTail)
      /\ InflightCmds = 0 \/ InflightCmds <= Depth - Threshold
    BY <1>a DEF CountInv, Balanced
<1>5. Threshold \in Nat /\ Threshold >= 1
    BY ThresholdNat
<1>6. Dist(SqHead, SubTail) < Depth - 1
    BY SMT, <1>b, <1>1, <1>2, <1>3, <1>4, <1>5, DepthNat
<1> QED
    BY <1>b, <1>6, DistGrow

\* The steps of SubmitCmd after the command is in its slot.
RingSteps == {"count", "tail", "ring"}
\* The steps before the ring is touched leave it alone.
LEMMA PlainSubmit ==
    ASSUME TypeOK, LockInv, NEW p \in Cpus, SubmitStep(p),
           ~WriteSlot(p), ~CountInflight(p), ~AdvanceTail(p), ~RingSubDbl(p)
    PROVE  /\ UNCHANGED <<SubQ, SubTail, SubDbl>>
           /\ cpu[p].pc \notin RingSteps /\ cpu'[p].pc \notin RingSteps
<1>1. CASE Throttle(p) \/ PushOutOfRange(p)
    <2>1. Refuse(p) /\ cpu[p].pc \notin RingSteps
        BY <1>1 DEF Throttle, PushOutOfRange, RingSteps
    <2> QED
        BY <2>1 DEF Refuse, TypeOK, IdleCpu, RingSteps
<1>2. ASSUME NEW step \in {"push", "write", "evict", "repush", "crashed"}, SubmitGoto(p, step),
             cpu[p].pc \notin RingSteps
      PROVE  UNCHANGED <<SubQ, SubTail, SubDbl>> /\ cpu'[p].pc \notin RingSteps
    BY <1>2, GotoStep DEF SubmitGoto, subVars, RingSteps
<1> QED
    BY <1>1, <1>2 DEF SubmitStep, PassThrottle, Push, PushTaken, Evict, EvictNothing, Repush, RingSteps

\* Every step keeps the submission ring in order.
LEMMA SubRingStep == IInv /\ [Next]_vars => SubRingInv'
<1> SUFFICES ASSUME IInv, [Next]_vars PROVE SubRingInv'
    OBVIOUS
<1>a. TypeOK /\ LockInv /\ SubRingInv
    BY DEF IInv
<1>b. /\ SubQ \in [Slots -> Reqs \cup {NULL}]
      /\ SubTail \in Slots /\ SubDbl \in Slots /\ SqHead \in Slots
    BY <1>a DEF TypeOK
<1>1. ASSUME NEW p \in Cpus, NEW r \in Reqs, Acquire(p, r) PROVE SubRingInv'
    <2>1. \A q \in Cpus : cpu[q].pc = "idle"
        BY <1>a, <1>1, NullFact DEF Acquire, LockInv
    <2>2. \A q \in Cpus : cpu'[q].pc \in {"idle", "throttle"}
        <3>1. cpu \in [Cpus -> [pc : SubmitPcs, srb : Reqs \cup {NULL}]]
            BY <1>a DEF TypeOK
        <3> QED
            BY SMT, <1>1, <2>1, <3>1 DEF Acquire
    <2>3. UNCHANGED <<SubQ, SubTail, SubDbl, SqHead>>
        BY <1>1 DEF Acquire, ctrlVars
    <2> QED
        BY <1>a, <2>1, <2>2, <2>3 DEF SubRingInv
<1>2. ASSUME NEW p \in Cpus, SubmitStep(p) PROVE SubRingInv'
    <2>a. /\ cpu[p].srb \in Reqs
          /\ \A q \in Cpus : q # p => cpu'[q] = cpu[q] /\ cpu[q].pc = "idle"
        BY <1>a, <1>2, SubmitMoves
    <2>b. UNCHANGED SqHead
        BY <1>2, SubmitFrame DEF ctrlVars
    <2>1. CASE WriteSlot(p)
        <3>1. cpu[p].pc = "write" /\ cpu'[p].pc = "count" /\ UNCHANGED <<SubTail, SubDbl>>
            BY <1>a, <2>1, GotoStep DEF WriteSlot
        <3>2. \A i \in Slots : SubQ'[i] = IF i = SubTail THEN cpu[p].srb ELSE SubQ[i]
            BY SMT, <1>b, <2>1 DEF WriteSlot
        <3>3. SubQ'[SubTail] # NULL /\ \A i \in Slots : SubQ[i] # NULL => SubQ'[i] # NULL
            BY <1>b, <2>a, <3>2, NullFact
        <3> QED
            BY <1>a, <2>a, <2>b, <3>1, <3>3 DEF SubRingInv
    <2>2. CASE CountInflight(p)
        <3>1. cpu[p].pc = "count" /\ cpu'[p].pc = "tail" /\ UNCHANGED <<SubQ, SubTail, SubDbl>>
            BY <1>a, <2>2, GotoStep DEF CountInflight, SubmitGoto, subVars
        <3> QED
            BY <1>a, <2>a, <2>b, <3>1 DEF SubRingInv
    <2>3. CASE AdvanceTail(p)
        <3>1. /\ cpu[p].pc = "tail" /\ cpu'[p].pc = "ring" /\ SubTail' = Wrap(SubTail)
              /\ UNCHANGED <<SubQ, SubDbl>>
            BY <1>a, <2>3, GotoStep DEF AdvanceTail
        <3>2. SubDbl = SubTail /\ SubQ[SubTail] # NULL
            BY <1>a, <2>a, <3>1 DEF SubRingInv
        <3>3. Wrap(SubTail) # SqHead /\ Wrap(SubTail) # SubTail
            BY <1>b, <3>1, NoOverrun, WrapSlot
        <3>4. Dist(SqHead, SubTail') = Dist(SqHead, SubTail) + 1
            BY <1>b, <3>1, <3>3, DistGrow
        <3>5. \A i \in Slots : Dist(SqHead, i) < Dist(SqHead, SubTail) + 1 => SubQ[i] # NULL
            <4>1. SUFFICES ASSUME NEW i \in Slots, Dist(SqHead, i) < Dist(SqHead, SubTail) + 1
                           PROVE  SubQ[i] # NULL
                OBVIOUS
            <4>2. CASE Dist(SqHead, i) < Dist(SqHead, SubTail)
                BY <1>a, <4>2 DEF SubRingInv
            <4>3. CASE Dist(SqHead, i) = Dist(SqHead, SubTail)
                <5>1. i = SubTail
                    BY <1>b, <4>3, DistEqual
                <5> QED
                    BY <3>2, <5>1
            <4> QED
                BY <1>b, <4>1, <4>2, <4>3, DistRange
        <3>6. Dist(SqHead, SubDbl) <= Dist(SqHead, SubTail) + 1
            BY <1>b, <3>2, DistRange
        <3> QED
            BY <2>a, <2>b, <3>1, <3>2, <3>3, <3>4, <3>5, <3>6 DEF SubRingInv
    <2>4. CASE RingSubDbl(p)
        <3>1. /\ cpu[p].pc = "ring" /\ cpu'[p] = IdleCpu /\ SubDbl' = SubTail
              /\ UNCHANGED <<SubQ, SubTail>>
            BY <1>a, <2>4 DEF RingSubDbl, TypeOK
        <3>2. Dist(SqHead, SubTail) <= Dist(SqHead, SubTail)
            BY <1>b, DistRange
        <3> QED
            BY <1>a, <2>a, <2>b, <3>1, <3>2 DEF SubRingInv, IdleCpu
    <2>5. CASE ~WriteSlot(p) /\ ~CountInflight(p) /\ ~AdvanceTail(p) /\ ~RingSubDbl(p)
        <3>1. /\ UNCHANGED <<SubQ, SubTail, SubDbl>>
              /\ cpu[p].pc \notin RingSteps /\ cpu'[p].pc \notin RingSteps
            BY <1>a, <1>2, <2>5, PlainSubmit
        <3> QED
            BY <1>a, <2>a, <2>b, <3>1 DEF SubRingInv, RingSteps
    <2> QED
        BY <2>1, <2>2, <2>3, <2>4, <2>5
<1>3. CASE UNCHANGED <<cpu, SubQ, SubTail, SubDbl, SqHead>>
    BY <1>a, <1>3 DEF SubRingInv
<1>4. CASE CtrlFetch
    <2>1. SqHead # SubDbl /\ SqHead' = Wrap(SqHead) /\ UNCHANGED <<cpu, SubQ, SubTail, SubDbl>>
        BY <1>4, OthersFrame DEF CtrlFetch
    <2>2. SqHead # SubTail
        BY <1>a, <1>b, <2>1, DistRange DEF SubRingInv
    <2>3. /\ Dist(SqHead', SubDbl) = Dist(SqHead, SubDbl) - 1
          /\ Dist(SqHead', SubTail) = Dist(SqHead, SubTail) - 1
        BY <1>b, <2>1, <2>2, DistShrink
    <2>4. Dist(SqHead', SubDbl) <= Dist(SqHead', SubTail)
        BY <1>a, <1>b, <2>3, DistRange DEF SubRingInv
    <2>5. ASSUME NEW i \in Slots, Dist(SqHead', i) < Dist(SqHead', SubTail)
          PROVE  SubQ[i] # NULL
        <3>1. i # SqHead
            BY <1>b, <2>1, <2>3, <2>5, DistFull, DistRange, DepthNat
        <3>2. Dist(SqHead', i) = Dist(SqHead, i) - 1
            BY <1>b, <2>1, <3>1, DistShrink
        <3>3. Dist(SqHead, i) < Dist(SqHead, SubTail)
            BY <1>b, <2>3, <2>5, <3>2, DistRange
        <3> QED
            BY <1>a, <3>3 DEF SubRingInv
    <2> QED
        BY <1>a, <2>1, <2>4, <2>5 DEF SubRingInv
<1>5. ASSUME DpcStep \/ (\E r \in Reqs : CtrlPost(r)) \/ Isr \/ UNCHANGED vars
      PROVE  UNCHANGED SqHead
    BY <1>5 DEF DpcStep, DpcStart, DpcPop, DpcComplete, DpcRetire, DpcAdvance, DpcDrained,
                DpcRing, DpcGoto, CtrlPost, Isr, vars, ctrlVars
<1> QED
    BY <1>1, <1>2, <1>3, <1>4, <1>5, OthersFrame DEF Next

(****************************************************************************)
(* CplRingInv: the completion ring and its phase tag.                       *)
(****************************************************************************)

\* PhaseTellsNew follows from the state of the ring, whatever the DPC is doing.
LEMMA NewIffPosted ==
    ASSUME TypeOK, CplRingInv
    PROVE  NewCplArrived <=> CplHead # CqTail
<1>1. /\ CplHead \in Slots /\ CqTail \in Slots /\ PhaseTag \in {0, 1} /\ CqPhase \in {0, 1}
      /\ CplQ[CplHead].phase \in {0, 1}
    BY DEF TypeOK, Phases
<1>2. /\ CplQ[CplHead].phase = CqPhase <=> CplHead < CqTail
      /\ PhaseTag = CqPhase <=> CplHead <= CqTail
    BY <1>1 DEF CplRingInv
<1>3. CplHead \in Int /\ CqTail \in Int
    BY <1>1, SlotNat
<1> QED
    BY SMT, <1>1, <1>2, <1>3 DEF NewCplArrived

\* When the controller may post, the slot after CqTail is not CplHead either.
LEMMA RoomToPost ==
    ASSUME TypeOK, CplRingInv, Wrap(CqTail) # CplDbl
    PROVE  /\ Wrap(CqTail) # CplHead
           /\ Dist(CplDbl, CplHead) + Dist(CplHead, CqTail) + 1 < Depth
           /\ Dist(CplHead, Wrap(CqTail)) = Dist(CplHead, CqTail) + 1
<1>1. CplHead \in Slots /\ CqTail \in Slots /\ CplDbl \in Slots
    BY DEF TypeOK
<1>2. /\ Dist(CplDbl, CqTail) = Dist(CplDbl, CplHead) + Dist(CplHead, CqTail)
      /\ Dist(CplDbl, Wrap(CqTail)) = Dist(CplDbl, CqTail) + 1
    BY <1>1, DistSum, DistGrow DEF CplRingInv
<1>3. /\ Dist(CplDbl, Wrap(CqTail)) \in 0 .. Depth - 1
      /\ Dist(CplDbl, CplHead) \in 0 .. Depth - 1
      /\ Dist(CplHead, CqTail) \in 0 .. Depth - 1
    BY <1>1, DistRange, WrapSlot
<1>4. Dist(CplDbl, CplHead) + Dist(CplHead, CqTail) + 1 < Depth
    BY <1>2, <1>3, DepthNat
<1>5. Wrap(CqTail) # CplHead
    BY <1>1, <1>3, <1>4, DistGrow, DepthNat
<1> QED
    BY <1>1, <1>4, <1>5, DistGrow

\* Every step keeps the phases of the completion ring in order.
LEMMA CplRingStep == IInv /\ [Next]_vars => CplRingInv'
<1> SUFFICES ASSUME IInv, [Next]_vars PROVE CplRingInv'
    OBVIOUS
<1>a. TypeOK /\ CplRingInv
    BY DEF IInv
<1>b. /\ CplHead \in Slots /\ CqTail \in Slots /\ CplDbl \in Slots
      /\ PhaseTag \in {0, 1} /\ CqPhase \in {0, 1}
      /\ CplQ \in [Slots -> [req : Reqs \cup {NULL}, phase : Phases]]
      /\ dpc \in DpcType
    BY <1>a DEF TypeOK, Phases, DpcType
<1>c. CplHead \in Nat /\ CqTail \in Nat /\ CplHead < Depth /\ CqTail < Depth
    BY <1>b, SlotNat
<1>1. CASE UNCHANGED <<CplQ, CqPhase, CqTail, PhaseTag, CplHead, CplDbl, dpc>>
    BY <1>a, <1>1 DEF CplRingInv
<1>2. ASSUME UNCHANGED <<CplQ, CqPhase, CqTail, PhaseTag, CplHead, CplDbl>>,
             dpc'.pc \in {"complete", "retire", "advance"} => CplHead # CqTail,
             dpc'.pc \in {"poll", "complete", "retire", "advance"} => dpc'.count < Depth
      PROVE  CplRingInv'
    BY <1>a, <1>2 DEF CplRingInv
<1>3. CASE DpcStart
    <2>1. dpc'.pc = "poll" /\ dpc'.count = 0 /\ 0 < Depth
        BY <1>3, DepthNat DEF DpcStart
    <2> QED
        BY <1>2, <1>3, <2>1 DEF DpcStart, ctrlVars
<1>4. CASE DpcPop
    <2>1. CplHead # CqTail
        BY <1>a, <1>4, NewIffPosted DEF DpcPop
    <2>2. dpc'.count = dpc.count /\ dpc.pc = "poll"
        BY <1>4, <1>b DEF DpcPop, DpcType
    <2> QED
        BY <1>2, <1>4, <1>a, <2>1, <2>2 DEF DpcPop, ctrlVars, CplRingInv
<1>5. ASSUME NEW step, DpcGoto(step), dpc.pc \in {"complete", "retire"} \/ step \in {"ring", "idle"}
      PROVE  CplRingInv'
    <2>1. dpc'.pc = step /\ dpc'.count = dpc.count
        BY <1>5, <1>b DEF DpcGoto, DpcType
    <2> QED
        BY <1>2, <1>5, <1>a, <2>1 DEF DpcGoto, ctrlVars, CplRingInv
<1>6. CASE DpcComplete \/ DpcRetire \/ DpcDrained
    BY <1>5, <1>6 DEF DpcComplete, DpcRetire, DpcDrained
<1>7. CASE DpcAdvance
    <2>1. /\ CplHead # CqTail /\ CplHead' = Wrap(CplHead)
          /\ PhaseTag' = WrapPhase(CplHead, PhaseTag)
          /\ UNCHANGED <<CplQ, CqPhase, CqTail, CplDbl>>
        BY <1>7, <1>a DEF DpcAdvance, ctrlVars, CplRingInv
    <2>2. PhaseTag' = CqPhase' <=> CplHead' <= CqTail'
        <3>1. PhaseTag = CqPhase <=> CplHead <= CqTail
            BY <1>a DEF CplRingInv
        <3> QED
            BY SMT, <1>b, <1>c, <2>1, <3>1, DepthNat DEF Wrap, WrapPhase
    <2>3. Dist(CplDbl, CplHead') + Dist(CplHead', CqTail) < Depth
        <3>1. Dist(CplHead', CqTail) = Dist(CplHead, CqTail) - 1 /\ Dist(CplHead, CqTail) # 0
            BY <1>b, <2>1, DistShrink, DistRange
        <3>2. Dist(CplDbl, CplHead) + Dist(CplHead, CqTail) < Depth
            BY <1>a DEF CplRingInv
        <3>3. Wrap(CplHead) # CplDbl
            BY <1>b, <3>1, <3>2, DistGrow, DistRange, DepthNat
        <3>4. Dist(CplDbl, CplHead') = Dist(CplDbl, CplHead) + 1
            BY <1>b, <2>1, <3>3, DistGrow
        <3> QED
            BY <1>b, <3>1, <3>2, <3>4, DistRange, DepthNat
    <2>4. dpc'.pc \in {"poll", "ring"} /\ (dpc'.pc = "poll" => dpc'.count < Depth)
        <3>1. dpc.count \in Nat
            BY <1>b, DepthNat DEF DpcType
        <3> QED
            BY <1>7, <3>1, DepthNat DEF DpcAdvance
    <2> QED
        BY <1>a, <2>1, <2>2, <2>3, <2>4 DEF CplRingInv
<1>8. CASE DpcRing
    <2>1. /\ CplDbl' = CplHead /\ dpc'.pc = "idle"
          /\ UNCHANGED <<CplQ, CqPhase, CqTail, PhaseTag, CplHead>>
        BY <1>8, <1>b DEF DpcRing, ctrlVars, DpcType
    <2>2. Dist(CplHead, CplHead) + Dist(CplHead, CqTail) < Depth
        BY <1>b, DistRange, DepthNat
    <2> QED
        BY <1>a, <2>1, <2>2 DEF CplRingInv
<1>9. ASSUME NEW r \in Reqs, CtrlPost(r) PROVE CplRingInv'
    <2>1. /\ CqTail' = Wrap(CqTail) /\ CqPhase' = WrapPhase(CqTail, CqPhase)
          /\ Wrap(CqTail) # CplDbl /\ UNCHANGED <<PhaseTag, CplHead, CplDbl, dpc>>
        BY <1>9 DEF CtrlPost, dpcVars
    <2>2. \A i \in Slots : CplQ'[i].phase = IF i = CqTail THEN CqPhase ELSE CplQ[i].phase
        BY SMT, <1>b, <1>9 DEF CtrlPost
    <2>3. /\ Wrap(CqTail) # CplHead
          /\ Dist(CplDbl, CplHead) + Dist(CplHead, CqTail) + 1 < Depth
          /\ Dist(CplHead, Wrap(CqTail)) = Dist(CplHead, CqTail) + 1
        BY <1>a, <2>1, RoomToPost
    <2>4. ASSUME NEW i \in Slots PROVE CplQ'[i].phase = CqPhase' <=> i < CqTail'
        <3>1. CplQ[i].phase = CqPhase <=> i < CqTail
            BY <1>a DEF CplRingInv
        <3>2. CplQ[i].phase \in {0, 1} /\ i \in Nat /\ i < Depth
            BY <1>b, SlotNat DEF Phases
        <3> QED
            BY SMT, <1>b, <1>c, <2>1, <2>2, <3>1, <3>2, DepthNat DEF Wrap, WrapPhase
    <2>5. PhaseTag' = CqPhase' <=> CplHead' <= CqTail'
        <3>1. PhaseTag = CqPhase <=> CplHead <= CqTail
            BY <1>a DEF CplRingInv
        <3> QED
            BY SMT, <1>b, <1>c, <2>1, <2>3, <3>1, DepthNat DEF Wrap, WrapPhase
    <2>6. Dist(CplDbl, CplHead) + Dist(CplHead, CqTail') < Depth
        BY <1>b, <2>1, <2>3, DistRange, DepthNat
    <2>7. dpc.pc \in {"complete", "retire", "advance"} => CplHead # CqTail'
        BY <2>1, <2>3
    <2> QED
        BY <1>a, <2>1, <2>4, <2>5, <2>6, <2>7 DEF CplRingInv
<1>10. ASSUME NEW p \in Cpus, SubmitStep(p) \/ \E r \in Reqs : Acquire(p, r) PROVE CplRingInv'
    BY <1>1, <1>10, SubmitFrame DEF dpcVars, ctrlVars
<1>11. CASE CtrlFetch \/ Isr \/ UNCHANGED vars
    BY <1>1, <1>11 DEF CtrlFetch, Isr, vars, dpcVars, ctrlVars
<1> QED
    BY <1>3, <1>4, <1>6, <1>7, <1>8, <1>9, <1>10, <1>11 DEF Next, DpcStep

(****************************************************************************)
(* CountInv: InflightCmds covers what is in the rings and the controller.   *)
(****************************************************************************)

\* The numbers in CountInv, and that the cast of InflightCmds changes nothing.
LEMMA CountNumbers ==
    ASSUME TypeOK, CplRingInv, CountInv
    PROVE  /\ InflightCmds \in 0 .. Depth
           /\ InflightCmds % (USHORT_MAX + 1) = InflightCmds
           /\ Dist(SqHead, SubTail) \in Nat /\ Dist(CplHead, CqTail) \in Nat
           /\ Cardinality(exec) \in Nat
           /\ Entered \in {0, 1} /\ Retired \in {0, 1}
<1>1. /\ SubTail \in Slots /\ SqHead \in Slots /\ CplHead \in Slots /\ CqTail \in Slots
      /\ InflightCmds \in Int
    BY DEF TypeOK
<1>2. Dist(SqHead, SubTail) \in Nat /\ Dist(CplHead, CqTail) \in Nat
    BY <1>1, DistRange, DepthNat
<1>3. Cardinality(exec) \in Nat
    BY ExecFinite
<1>4. Entered \in {0, 1} /\ Retired \in {0, 1}
    BY DEF Entered, Retired
<1>5. Retired <= Dist(CplHead, CqTail)
    BY <1>1, DistRange DEF Retired, CplRingInv
<1>6. Threshold \in Nat
    BY ThresholdNat
<1>7. /\ InflightCmds + Retired >=
             Dist(SqHead, SubTail) + Entered + Cardinality(exec) + Dist(CplHead, CqTail)
      /\ InflightCmds = 0 \/ InflightCmds <= Depth - Threshold
    BY DEF CountInv, Balanced
<1>8. InflightCmds \in 0 .. Depth
    BY SMT, <1>1, <1>2, <1>3, <1>4, <1>5, <1>6, <1>7, DepthNat
<1>9. InflightCmds % (USHORT_MAX + 1) = InflightCmds
    BY <1>8, CastIsSmall
<1> QED
    BY <1>2, <1>3, <1>4, <1>8, <1>9

\* The steps between the throttle and the counting of the command.
BelowLimit == {"push", "evict", "repush", "write", "count"}

\* Every step keeps InflightCmds large enough and below the limit of the throttle.
LEMMA CountStep ==
    ASSUME Threshold <= Depth
    PROVE  IInv /\ [Next]_vars => CountInv'
<1> SUFFICES ASSUME IInv, [Next]_vars PROVE CountInv'
    OBVIOUS
<1>a. TypeOK /\ LockInv /\ SubRingInv /\ CplRingInv /\ CountInv
    BY DEF IInv
<1>b. /\ SubTail \in Slots /\ SqHead \in Slots /\ CplHead \in Slots /\ CqTail \in Slots
      /\ cpu \in [Cpus -> [pc : SubmitPcs, srb : Reqs \cup {NULL}]]
      /\ dpc \in DpcType
    BY <1>a DEF TypeOK, DpcType
<1>c. /\ InflightCmds \in 0 .. Depth
      /\ InflightCmds % (USHORT_MAX + 1) = InflightCmds
      /\ Dist(SqHead, SubTail) \in Nat /\ Dist(CplHead, CqTail) \in Nat
      /\ Cardinality(exec) \in Nat
      /\ Entered \in {0, 1} /\ Retired \in {0, 1}
    BY <1>a, CountNumbers
<1>d. /\ Balanced
      /\ InflightCmds = 0 \/ InflightCmds <= Depth - Threshold
      /\ \A p \in Cpus : cpu[p].pc \in BelowLimit => InflightCmds < Depth - Threshold
    BY <1>a DEF CountInv, Balanced, BelowLimit
<1>e. Threshold \in Nat /\ Threshold >= 1
    BY ThresholdNat
<1>f. UNCHANGED cpu => UNCHANGED Entered
    BY DEF Entered
<1>g. UNCHANGED dpc => UNCHANGED Retired
    BY DEF Retired
<1>1. ASSUME NEW p \in Cpus, NEW r \in Reqs, Acquire(p, r) PROVE CountInv'
    <2>1. \A q \in Cpus : cpu[q].pc = "idle"
        BY <1>a, <1>1, NullFact DEF Acquire, LockInv
    <2>2. \A q \in Cpus : cpu'[q].pc \in {"idle", "throttle"}
        BY SMT, <1>b, <1>1, <2>1 DEF Acquire
    <2>3. UNCHANGED <<InflightCmds, SubTail, SqHead, exec, CplHead, CqTail, dpc>>
        BY <1>1 DEF Acquire, dpcVars, ctrlVars
    <2>4. Entered' = Entered
        BY <2>1, <2>2 DEF Entered
    <2> QED
        BY <1>d, <1>g, <2>2, <2>3, <2>4 DEF CountInv, Balanced
<1>2. ASSUME NEW p \in Cpus, SubmitStep(p) PROVE CountInv'
    <2>a. /\ cpu[p].srb \in Reqs
          /\ \A q \in Cpus : q # p => cpu'[q] = cpu[q] /\ cpu[q].pc = "idle"
        BY <1>a, <1>2, SubmitMoves
    <2>b. UNCHANGED <<SqHead, exec, CplHead, CqTail, dpc>> /\ UNCHANGED Retired
        BY <1>2, <1>g, SubmitFrame DEF dpcVars, ctrlVars
    <2>c. /\ Entered = IF cpu[p].pc = "tail" THEN 1 ELSE 0
          /\ Entered' = IF cpu'[p].pc = "tail" THEN 1 ELSE 0
        BY <2>a DEF Entered
    <2>d. ASSUME UNCHANGED <<InflightCmds, SubTail>>,
                 cpu[p].pc # "tail" /\ cpu'[p].pc # "tail",
                 cpu'[p].pc \in BelowLimit => InflightCmds < Depth - Threshold
          PROVE  CountInv'
        BY <1>d, <2>a, <2>b, <2>c, <2>d DEF CountInv, Balanced, BelowLimit
    <2>1. CASE Throttle(p) \/ PushOutOfRange(p)
        <3>1. Refuse(p) /\ cpu[p].pc \in {"throttle", "push"}
            BY <2>1 DEF Throttle, PushOutOfRange
        <3>2. cpu'[p].pc = "idle" /\ UNCHANGED <<InflightCmds, SubTail>>
            BY <1>b, <3>1 DEF Refuse, IdleCpu
        <3> QED
            BY <2>d, <3>1, <3>2 DEF BelowLimit
    <2>2. CASE PassThrottle(p)
        <3>1. /\ cpu[p].pc = "throttle" /\ cpu'[p].pc = "push" /\ IsSafeForSubmit
              /\ UNCHANGED <<InflightCmds, SubTail>>
            BY <1>a, <2>2, GotoStep DEF PassThrottle, SubmitGoto, subVars
        <3>2. InflightCmds < Depth - Threshold
            BY <1>c, <1>e, <3>1, DepthNat DEF IsSafeForSubmit
        <3> QED
            BY <2>d, <3>1, <3>2
    <2>3. CASE Push(p) \/ PushTaken(p) \/ Evict(p) \/ EvictNothing(p) \/ Repush(p) \/ WriteSlot(p)
        <3>1. /\ cpu[p].pc \in BelowLimit /\ cpu'[p].pc \in BelowLimit \cup {"crashed"}
              /\ UNCHANGED <<InflightCmds, SubTail>>
            BY <1>a, <2>3, GotoStep DEF Push, PushTaken, Evict, EvictNothing, Repush, WriteSlot,
                                        SubmitGoto, subVars, BelowLimit
        <3> QED
            BY <1>d, <2>d, <3>1 DEF BelowLimit
    <2>4. CASE CountInflight(p)
        <3>1. /\ cpu[p].pc = "count" /\ cpu'[p].pc = "tail" /\ UNCHANGED SubTail
              /\ InflightCmds' = InflightCmds + 1
            BY <1>a, <2>4, GotoStep DEF CountInflight, SubmitGoto, subVars
        <3>2. InflightCmds < Depth - Threshold
            BY <1>d, <3>1 DEF BelowLimit
        <3>3. \A q \in Cpus : ~(cpu'[q].pc \in BelowLimit)
            BY <2>a, <3>1 DEF BelowLimit
        <3>4. Entered = 0 /\ Entered' = 1
            BY <2>c, <3>1
        <3>5. InflightCmds' + Retired >=
                  Dist(SqHead, SubTail) + Entered' + Cardinality(exec) + Dist(CplHead, CqTail)
            BY SMT, <1>c, <1>d, <3>1, <3>4 DEF Balanced
        <3>6. InflightCmds' <= Depth - Threshold
            BY SMT, <1>c, <1>e, <3>1, <3>2, DepthNat
        <3> QED
            BY <2>b, <3>1, <3>3, <3>5, <3>6 DEF CountInv, Balanced, BelowLimit
    <2>5. CASE AdvanceTail(p)
        <3>1. /\ cpu[p].pc = "tail" /\ cpu'[p].pc = "ring" /\ UNCHANGED InflightCmds
              /\ SubTail' = Wrap(SubTail)
            BY <1>a, <2>5, GotoStep DEF AdvanceTail
        <3>2. Dist(SqHead, SubTail') = Dist(SqHead, SubTail) + 1
            BY <1>b, <3>1, NoOverrun, DistGrow
        <3>3. \A q \in Cpus : ~(cpu'[q].pc \in BelowLimit)
            BY <2>a, <3>1 DEF BelowLimit
        <3>4. Entered = 1 /\ Entered' = 0
            BY <2>c, <3>1
        <3>5. InflightCmds + Retired >=
                  Dist(SqHead, SubTail') + Entered' + Cardinality(exec) + Dist(CplHead, CqTail)
            BY SMT, <1>c, <1>d, <3>2, <3>4 DEF Balanced
        <3> QED
            BY <1>d, <2>b, <3>1, <3>3, <3>5 DEF CountInv, Balanced, BelowLimit
    <2>6. CASE RingSubDbl(p)
        <3>1. cpu[p].pc = "ring" /\ cpu'[p].pc = "idle" /\ UNCHANGED <<InflightCmds, SubTail>>
            BY <1>b, <2>6 DEF RingSubDbl, IdleCpu
        <3> QED
            BY <2>d, <3>1 DEF BelowLimit
    <2> QED
        BY <1>2, <2>1, <2>2, <2>3, <2>4, <2>5, <2>6 DEF SubmitStep
\* Steps of the DPC and the controller: what they do to each side of Balanced.
<1>i. InflightCmds \in Nat
    BY <1>c, DepthNat
<1>h. ASSUME UNCHANGED cpu, Balanced', InflightCmds' \in Nat, InflightCmds' <= InflightCmds
      PROVE  CountInv'
    <2>1. InflightCmds' = 0 \/ InflightCmds' <= Depth - Threshold
        <3>1. InflightCmds = 0 \/ InflightCmds <= Depth - Threshold
            BY <1>d
        <3> QED
            BY SMT, <1>i, <1>e, <1>h, <3>1, DepthNat
    <2>2. ASSUME NEW q \in Cpus, cpu'[q].pc \in BelowLimit
          PROVE  InflightCmds' < Depth - Threshold
        <3>1. cpu[q].pc \in BelowLimit
            BY <1>h, <2>2
        <3>2. InflightCmds < Depth - Threshold
            BY <1>d, <3>1
        <3> QED
            BY SMT, <1>i, <1>e, <1>h, <3>2, DepthNat
    <2> QED
        BY <1>h, <2>1, <2>2 DEF CountInv, BelowLimit
<1>j. InflightCmds <= InflightCmds
    BY <1>i
<1>3. CASE DpcStart \/ DpcComplete \/ DpcDrained \/ DpcRing
    <2>1. UNCHANGED <<cpu, InflightCmds, SubTail, SqHead, exec, CplHead, CqTail>>
        BY <1>3 DEF DpcStart, DpcComplete, DpcDrained, DpcRing, DpcGoto, subVars, ctrlVars
    <2>2. dpc.pc # "advance" /\ dpc'.pc # "advance"
        <3>1. CASE DpcStart
            BY <3>1 DEF DpcStart
        <3>2. CASE DpcComplete
            BY <1>b, <3>2 DEF DpcComplete, DpcGoto, DpcType
        <3>3. CASE DpcDrained
            <4>1. PICK step \in {"ring", "idle"} : dpc' = [dpc EXCEPT !.pc = step]
                BY <3>3 DEF DpcDrained, DpcGoto
            <4> QED
                BY <1>b, <3>3, <4>1 DEF DpcDrained, DpcType
        <3>4. CASE DpcRing
            BY <1>b, <3>4 DEF DpcRing, DpcType
        <3> QED
            BY <1>3, <3>1, <3>2, <3>3, <3>4
    <2>3. UNCHANGED <<Retired, Entered>>
        BY <1>f, <2>1, <2>2 DEF Retired
    <2>4. Balanced'
        BY <1>d, <2>1, <2>3 DEF Balanced
    <2> QED
        BY <1>h, <1>i, <1>j, <2>1, <2>4
<1>4. CASE DpcPop
    <2>1. UNCHANGED <<cpu, InflightCmds, SubTail, SqHead, exec, CplHead, CqTail>>
        BY <1>4 DEF DpcPop, subVars, ctrlVars
    <2>2. Retired = 0 /\ Retired' \in {0, 1} /\ UNCHANGED Entered
        BY <1>4, <1>f, <2>1 DEF DpcPop, Retired
    <2>3. InflightCmds + Retired' >=
              Dist(SqHead, SubTail) + Entered + Cardinality(exec) + Dist(CplHead, CqTail)
        BY SMT, <1>i, <1>c, <1>d, <2>2 DEF Balanced
    <2>4. Balanced'
        BY <2>1, <2>2, <2>3 DEF Balanced
    <2> QED
        BY <1>h, <1>i, <1>j, <2>1, <2>4
<1>5. CASE DpcRetire
    <2>1. /\ UNCHANGED <<cpu, SubTail, SqHead, exec, CplHead, CqTail>>
          /\ InflightCmds' = InflightCmds - 1
        BY <1>5 DEF DpcRetire, DpcGoto, subVars, ctrlVars
    <2>2. Retired = 0 /\ Retired' = 1 /\ UNCHANGED Entered
        BY <1>5, <1>b, <1>f, <2>1 DEF DpcRetire, DpcGoto, Retired, DpcType
    <2>3. Dist(CplHead, CqTail) # 0
        BY <1>5, <1>a, <1>b, DistRange DEF DpcRetire, CplRingInv
    <2>4. /\ InflightCmds' \in Nat /\ InflightCmds' <= InflightCmds
          /\ InflightCmds' + Retired' >=
                 Dist(SqHead, SubTail) + Entered + Cardinality(exec) + Dist(CplHead, CqTail)
        BY SMT, <1>i, <1>c, <1>d, <2>1, <2>2, <2>3 DEF Balanced
    <2>5. Balanced'
        BY <2>1, <2>2, <2>4 DEF Balanced
    <2> QED
        BY <1>h, <2>1, <2>4, <2>5
<1>6. CASE DpcAdvance
    <2>1. /\ UNCHANGED <<cpu, InflightCmds, SubTail, SqHead, exec, CqTail>>
          /\ CplHead' = Wrap(CplHead) /\ CplHead # CqTail
        BY <1>6, <1>a DEF DpcAdvance, subVars, ctrlVars, CplRingInv
    <2>2. Retired = 1 /\ Retired' = 0 /\ UNCHANGED Entered
        BY <1>6, <1>f, <2>1 DEF DpcAdvance, Retired
    <2>3. Dist(CplHead', CqTail) = Dist(CplHead, CqTail) - 1
        BY <1>b, <2>1, DistShrink
    <2>4. InflightCmds + Retired' >=
              Dist(SqHead, SubTail) + Entered + Cardinality(exec) + Dist(CplHead', CqTail)
        BY SMT, <1>i, <1>c, <1>d, <2>2, <2>3 DEF Balanced
    <2>5. Balanced'
        BY <2>1, <2>2, <2>4 DEF Balanced
    <2> QED
        BY <1>h, <1>i, <1>j, <2>1, <2>5
<1>7. CASE CtrlFetch
    <2>1. /\ UNCHANGED <<cpu, InflightCmds, SubTail, SubDbl, CplHead, CqTail, dpc>>
          /\ SqHead' = Wrap(SqHead) /\ SqHead # SubDbl
          /\ exec' = exec \cup {SubQ[SqHead]} /\ SubQ[SqHead] \notin exec
        BY <1>7 DEF CtrlFetch, subVars, dpcVars
    <2>2. SubDbl \in Slots
        BY <1>a DEF TypeOK
    <2>3. SqHead # SubTail
        BY <1>a, <1>b, <2>1, <2>2, DistRange DEF SubRingInv
    <2>4. Dist(SqHead', SubTail) = Dist(SqHead, SubTail) - 1
        BY <1>b, <2>1, <2>3, DistShrink
    <2>5. Cardinality(exec') = Cardinality(exec) + 1
        BY <1>a, <2>1, ExecFinite, FS_AddElement
    <2>6. InflightCmds + Retired >=
              Dist(SqHead', SubTail) + Entered + Cardinality(exec') + Dist(CplHead, CqTail)
        BY SMT, <1>i, <1>c, <1>d, <2>4, <2>5 DEF Balanced
    <2>7. UNCHANGED <<Retired, Entered>>
        BY <1>f, <1>g, <2>1
    <2>8. Balanced'
        BY <2>1, <2>6, <2>7 DEF Balanced
    <2> QED
        BY <1>h, <1>i, <1>j, <2>1, <2>8
<1>8. ASSUME NEW r \in Reqs, CtrlPost(r) PROVE CountInv'
    <2>1. /\ UNCHANGED <<cpu, InflightCmds, SubTail, SqHead, CplHead, dpc>>
          /\ CqTail' = Wrap(CqTail) /\ Wrap(CqTail) # CplDbl
          /\ exec' = exec \ {r} /\ r \in exec
        BY <1>8 DEF CtrlPost, subVars, dpcVars
    <2>2. Dist(CplHead, CqTail') = Dist(CplHead, CqTail) + 1
        BY <1>a, <2>1, RoomToPost
    <2>3. Cardinality(exec') = Cardinality(exec) - 1
        BY <1>a, <2>1, ExecFinite, FS_RemoveElement
    <2>4. InflightCmds + Retired >=
              Dist(SqHead, SubTail) + Entered + Cardinality(exec') + Dist(CplHead, CqTail')
        BY SMT, <1>i, <1>c, <1>d, <2>2, <2>3 DEF Balanced
    <2>5. UNCHANGED <<Retired, Entered>>
        BY <1>f, <1>g, <2>1
    <2>6. Balanced'
        BY <2>1, <2>4, <2>5 DEF Balanced
    <2> QED
        BY <1>h, <1>i, <1>j, <2>1, <2>6
<1>9. CASE Isr \/ UNCHANGED vars
    <2>1. UNCHANGED <<cpu, InflightCmds, SubTail, SqHead, exec, CplHead, CqTail, dpc>>
        BY <1>9 DEF Isr, vars, subVars, dpcVars, ctrlVars
    <2>2. UNCHANGED <<Retired, Entered>>
        BY <1>f, <1>g, <2>1
    <2>3. Balanced'
        BY <1>d, <2>1, <2>2 DEF Balanced
    <2> QED
        BY <1>h, <1>i, <1>j, <2>1, <2>3
<1> QED
    BY <1>1, <1>2, <1>3, <1>4, <1>5, <1>6, <1>7, <1>8, <1>9 DEF Next, DpcStep

(****************************************************************************)
(* The theorems.                                                            *)
(****************************************************************************)

\* IInv is inductive when the throttle can close.
LEMMA StepInv ==
    ASSUME Threshold <= Depth
    PROVE  IInv /\ [Next]_vars => IInv'
BY BasicStep, SubRingStep, CplRingStep, CountStep DEF IInv, BasicInv

\* The inductive invariant of the queue holds in every state SubmitCmd, the DPC and
\* the controller can reach, whatever the CIDs are.
THEOREM Invariance ==
    ASSUME Threshold <= Depth
    PROVE  Spec => []IInv
BY InitInv, StepInv, PTL DEF Spec

\* Every variable of the queue keeps its type, and the controller never fetches a slot nobody
\* wrote, whatever the throttle does.
THEOREM TypeCorrect == Spec => []TypeOK
<1>1. Init => BasicInv
    BY InitInv DEF IInv, BasicInv
<1>2. BasicInv => TypeOK
    BY DEF BasicInv
<1> QED
    BY <1>1, <1>2, BasicStep, PTL DEF Spec

\* The throttle of SubmitCmd never lets SubTail run into a command the controller
\* has not fetched, although it counts with InflightCmds, which the DPC lowers
\* without the lock.
THEOREM ThrottleIsEnough ==
    ASSUME Threshold <= Depth
    PROVE  Spec => []SubQNeverOverrun
<1>1. IInv => SubQNeverOverrun
    BY NoOverrun DEF SubQNeverOverrun
<1> QED
    BY <1>1, Invariance, PTL

\* CompleteCmd never takes an old completion for a new one, nor overlooks a new one.
THEOREM PhaseIsSound ==
    ASSUME Threshold <= Depth
    PROVE  Spec => []PhaseTellsNew
<1>1. IInv => PhaseTellsNew
    BY NewIffPosted DEF IInv, PhaseTellsNew
<1> QED
    BY <1>1, Invariance, PTL

\* The completion doorbell never gives the controller a slot that CompleteCmd has
\* still to read.
THEOREM DoorbellIsSound ==
    ASSUME Threshold <= Depth
    PROVE  Spec => DoorbellFreesOnlyRead
<1>1. IInv /\ [Next]_vars =>
          [Window(CplDbl, CplDbl') \cap Window(CplHead, CqTail) = {}]_CplDbl
    <2> SUFFICES ASSUME IInv, [Next]_vars, CplDbl' # CplDbl
                 PROVE  Window(CplDbl, CplDbl') \cap Window(CplHead, CqTail) = {}
        OBVIOUS
    <2>1. DpcRing
        BY DEF Next, DpcStep, DpcStart, DpcPop, DpcComplete, DpcRetire, DpcAdvance, DpcDrained,
               DpcGoto, CtrlFetch, CtrlPost, Isr, vars, dpcVars, SubmitStep, Acquire, Throttle,
               PassThrottle, PushOutOfRange, Push, PushTaken, Evict, EvictNothing, Repush,
               WriteSlot, CountInflight, AdvanceTail, RingSubDbl, Refuse, SubmitGoto
    <2>2. CplDbl' = CplHead
        BY <2>1 DEF DpcRing
    <2>3. CplHead \in Slots /\ CqTail \in Slots /\ CplDbl \in Slots
        BY DEF IInv, TypeOK
    <2>4. Dist(CplDbl, CplHead) + Dist(CplHead, CqTail) < Depth
        BY DEF IInv, CplRingInv
    <2> QED
        BY <2>2, <2>3, <2>4, WindowsApart
<1> QED
    BY <1>1, Invariance, PTL DEF Spec, DoorbellFreesOnlyRead
=============================================================================
