------------------------ MODULE NvmeQueueRequestProofs ------------------------
(****************************************************************************)
(* Proofs about the requests in NvmeQueue when each has a CID of its own,   *)
(* as the queue tags of Storport are: which request a completion belongs    *)
(* to, where the command of a request is, what InflightCmds counts, and     *)
(* that the queue does what SrbContract promises.  They hold for every      *)
(* number of processors and requests, and every Depth of at least Threshold.*)
(****************************************************************************)
EXTENDS NvmeQueueProofs

\* Storport never has two requests with one queue tag.
DistinctCids == \A r, s \in Reqs : CidOf[r] = CidOf[s] => r = s

(****************************************************************************)
(* The inductive invariant about requests, in named parts.                  *)
(****************************************************************************)

\* The slots that hold the command of a request, and its completion.
SubAt(r) == {i \in Unfetched : SubQ[i] = r}
CplAt(r) == {i \in Unconsumed : CplQ[i].req = r}

\* The command of a request is in none of the three places, or in one of them once.
Nowhere(r) == SubAt(r) = {} /\ r \notin exec /\ CplAt(r) = {}
InSubQ(r)  == (\E i \in Slots : SubAt(r) = {i}) /\ r \notin exec /\ CplAt(r) = {}
InExec(r)  == SubAt(r) = {} /\ r \in exec /\ CplAt(r) = {}
InCplQ(r)  == SubAt(r) = {} /\ r \notin exec /\ (\E i \in Slots : CplAt(r) = {i})

\* A command is in the queue from the move of SubTail to the completion of its request.
PlaceInv ==
    /\ \A r \in Reqs : IF Sent(r) THEN InSubQ(r) \/ InExec(r) \/ InCplQ(r) ELSE Nowhere(r)
    /\ \A i \in Unconsumed : CplQ[i].req # NULL

\* History has a request under its own CID, from its Push until the DPC takes it.
Held(r)      == dpc.pc = "complete" /\ dpc.srb = r
InHistory(r) == CidOf[r] \in Cids /\ History[CidOf[r]] = r
HistoryInv ==
    /\ \A c \in Cids : History[c] # NULL => CidOf[History[c]] = c
    /\ \A r \in Reqs :
          InHistory(r) <=> srb[r] = "issued" /\ ~Entering(r, {"throttle", "push"}) /\ ~Held(r)

\* A request on its way in is the driver's, its CID is never taken, and its command is in the
\* slot at SubTail before SubTail moves.
EntrySteps == {"throttle", "push", "evict", "repush", "write", "count", "tail"}
EntryInv ==
    \A p \in Cpus :
        /\ cpu[p].pc \notin {"evict", "repush", "crashed"}
        /\ cpu[p].pc \in EntrySteps => srb[cpu[p].srb] = "issued"
        /\ cpu[p].pc \in {"count", "tail"} => SubQ[SubTail] = cpu[p].srb

\* The inductive invariant about requests; it needs IInv beside it.
RInv == PlaceInv /\ HistoryInv /\ EntryInv /\ CompletesOwnRequest /\ InflightExact

(****************************************************************************)
(* Windows of a ring, and processors.                                       *)
(****************************************************************************)

\* Moving the far end of a window that is not full adds the slot it moves over.
LEMMA WindowGrow ==
    ASSUME NEW a \in Slots, NEW b \in Slots, Wrap(b) # a
    PROVE  Window(a, Wrap(b)) = Window(a, b) \cup {b} /\ b \notin Window(a, b)
BY DepthNat DEF Slots, Window, Wrap

\* Moving the near end of a window that is not empty takes the slot it moves over.
LEMMA WindowShrink ==
    ASSUME NEW a \in Slots, NEW b \in Slots, a # b
    PROVE  Window(Wrap(a), b) = Window(a, b) \ {a} /\ a \in Window(a, b)
BY DepthNat DEF Slots, Window, Wrap

\* A window does not reach its far end; one from a slot to itself is empty.
LEMMA WindowEmpty ==
    ASSUME NEW a \in Slots
    PROVE  /\ Window(a, a) = {}
           /\ \A b \in Slots : Window(a, b) \subseteq Slots /\ b \notin Window(a, b)
BY DepthNat DEF Slots, Window

\* Of processors all but one idle, only that one can be at a step.
LEMMA OneInside ==
    ASSUME NEW c, NEW p \in Cpus, \A q \in Cpus : q # p => c[q].pc = "idle",
           NEW r, NEW S, "idle" \notin S
    PROVE  (\E q \in Cpus : c[q].srb = r /\ c[q].pc \in S) <=> c[p].srb = r /\ c[p].pc \in S
OBVIOUS

\* A step of SubmitCmd, as far as the requests on their way in are concerned.
LEMMA SubmitEntering ==
    ASSUME TypeOK, LockInv, NEW p \in Cpus, SubmitStep(p), NEW S, "idle" \notin S
    PROVE  \A r \in Reqs :
              /\ Entering(r, S) <=> cpu[p].srb = r /\ cpu[p].pc \in S
              /\ Entering(r, S)' <=> cpu'[p].srb = r /\ cpu'[p].pc \in S
<1>1. \A q \in Cpus : q # p => cpu[q].pc = "idle" /\ cpu'[q].pc = "idle"
    BY SubmitMoves
<1> QED
    BY <1>1, OneInside DEF Entering

\* With SubLock free nobody is on the way in.
LEMMA NobodyInside ==
    ASSUME LockInv, SubLock = NULL
    PROVE  /\ \A p \in Cpus : cpu[p].pc = "idle"
           /\ \A r, S : "idle" \notin S => ~Entering(r, S)
<1>1. \A p \in Cpus : cpu[p].pc = "idle"
    BY NullFact DEF LockInv
<1> QED
    BY <1>1 DEF Entering

(****************************************************************************)
(* The initial state.                                                       *)
(****************************************************************************)

\* An empty queue satisfies the invariant.
LEMMA InitRInv == Init => RInv
<1> SUFFICES ASSUME Init PROVE RInv
    OBVIOUS
<1>1. /\ \A r \in Reqs : srb[r] = "free"
      /\ \A p \in Cpus : cpu[p].pc = "idle"
      /\ \A c \in Cids : History[c] = NULL
      /\ dpc.pc = "idle" /\ exec = {}
    BY SMT DEF Init, IdleCpu
<1>2. Unfetched = {} /\ Unconsumed = {}
    <2>1. 0 \in Slots /\ SqHead = 0 /\ SubTail = 0 /\ CplHead = 0 /\ CqTail = 0
        BY DepthNat DEF Init, Slots
    <2>2. Window(0, 0) = {}
        BY <2>1, WindowEmpty
    <2> QED
        BY <1>1, <2>1, <2>2 DEF Unfetched, Unconsumed
<1>3. PlaceInv
    BY <1>1, <1>2 DEF PlaceInv, Nowhere, SubAt, CplAt, Sent
<1>4. HistoryInv
    BY <1>1, NullFact DEF HistoryInv, InHistory
<1>5. EntryInv
    BY <1>1 DEF EntryInv, EntrySteps
<1>6. CompletesOwnRequest
    BY <1>1 DEF CompletesOwnRequest
<1>7. InflightExact
    <2>1. {c \in Cids : History[c] # NULL /\ ~Entering(History[c], {"write", "count"})} = {}
        BY <1>1
    <2>2. InflightCmds = 0
        BY DEF Init
    <2> QED
        BY <1>1, <2>1, <2>2, FS_EmptySet DEF InflightExact
<1> QED
    BY <1>3, <1>4, <1>5, <1>6, <1>7 DEF RInv

(****************************************************************************)
(* What the steps do to the requests that wait for their completion.        *)
(****************************************************************************)

\* A taken CID is never met, so SubmitCmd neither evicts nor pushes again.
LEMMA NoEviction ==
    ASSUME DistinctCids, IInv, RInv, NEW p \in Cpus
    PROVE  ~PushTaken(p) /\ ~Evict(p) /\ ~EvictNothing(p) /\ ~Repush(p)
<1>a. TypeOK /\ LockInv /\ HistoryInv /\ EntryInv
    BY DEF IInv, RInv
<1>1. ~Evict(p) /\ ~EvictNothing(p) /\ ~Repush(p)
    BY <1>a DEF EntryInv, Evict, EvictNothing, Repush
<1>2. ASSUME PushTaken(p) PROVE FALSE
    <2> DEFINE cid == CidOf[cpu[p].srb]
               r   == History[cid]
    <2>1. cpu[p].pc = "push" /\ cid \in Cids /\ r # NULL
        BY <1>2 DEF PushTaken
    <2>2. cpu[p].srb \in Reqs /\ r \in Reqs
        BY <1>a, <2>1 DEF LockInv, TypeOK
    <2>3. CidOf[r] = cid /\ InHistory(r)
        BY <1>a, <2>1 DEF HistoryInv, InHistory
    <2>4. r = cpu[p].srb
        BY <2>2, <2>3 DEF DistinctCids
    <2>5. Entering(r, {"throttle", "push"})
        BY <2>1, <2>4 DEF Entering
    <2> QED
        BY <1>a, <2>2, <2>3, <2>5 DEF HistoryInv
<1> QED
    BY <1>1, <1>2

\* The steps of SubmitCmd that leave a request on its way in, or that end with its refusal.
LEMMA EntryMoves ==
    ASSUME DistinctCids, IInv, RInv, NEW p \in Cpus, SubmitStep(p), ~AdvanceTail(p), ~RingSubDbl(p)
    PROVE  /\ cpu[p].pc \in EntrySteps
           /\ \/ UNCHANGED srb /\ cpu'[p].srb = cpu[p].srb /\ cpu'[p].pc \in EntrySteps
              \/ srb' = [srb EXCEPT ![cpu[p].srb] = "free"] /\ cpu'[p] = IdleCpu
<1>a. TypeOK
    BY DEF IInv
<1>b. cpu \in [Cpus -> [pc : SubmitPcs, srb : Reqs \cup {NULL}]]
    BY <1>a DEF TypeOK
<1>1. CASE Throttle(p) \/ PushOutOfRange(p)
    <2>1. Refuse(p) /\ cpu[p].pc \in EntrySteps
        BY <1>1 DEF Throttle, PushOutOfRange, EntrySteps
    <2> QED
        BY <1>b, <2>1 DEF Refuse
<1>2. CASE PassThrottle(p) \/ Push(p) \/ WriteSlot(p) \/ CountInflight(p)
    <2>1. UNCHANGED srb /\ cpu[p].pc \in EntrySteps
        BY <1>2 DEF PassThrottle, Push, WriteSlot, CountInflight, EntrySteps
    <2>2. PICK step \in {"push", "write", "count", "tail"} : cpu' = [cpu EXCEPT ![p].pc = step]
        BY Zenon, <1>2 DEF PassThrottle, Push, WriteSlot, CountInflight, SubmitGoto
    <2>3. cpu'[p].srb = cpu[p].srb /\ cpu'[p].pc = step
        BY <1>a, <2>2, GotoStep
    <2> QED
        BY <2>1, <2>3 DEF EntrySteps
<1> QED
    BY Zenon, <1>1, <1>2, NoEviction DEF SubmitStep

\* Which requests wait for completion changes only with SubTail and with CompleteSrb.
LEMMA SentKept ==
    ASSUME DistinctCids, IInv, RInv, [Next]_vars, ~DpcComplete, \A p \in Cpus : ~AdvanceTail(p)
    PROVE  \A r \in Reqs : Sent(r)' <=> Sent(r)
<1>a. TypeOK /\ LockInv /\ EntryInv
    BY DEF IInv, RInv
<1>b. srb \in [Reqs -> {"free", "issued"}] /\ "idle" \notin EntrySteps
    BY <1>a DEF TypeOK, EntrySteps
<1>c. \A r \in Reqs : Sent(r) <=> srb[r] = "issued" /\ ~Entering(r, EntrySteps)
    BY DEF Sent, EntrySteps
<1>d. \A r \in Reqs : Sent(r)' <=> srb'[r] = "issued" /\ ~Entering(r, EntrySteps)'
    BY DEF Sent, EntrySteps
<1>1. ASSUME NEW p \in Cpus, NEW x \in Reqs, Acquire(p, x)
      PROVE  \A r \in Reqs : Sent(r)' <=> Sent(r)
    <2>1. \A r \in Reqs : srb'[r] = IF r = x THEN "issued" ELSE srb[r]
        BY <1>1, <1>b DEF Acquire
    <2>2. srb[x] = "free" /\ \A r \in Reqs : ~Entering(r, EntrySteps)
        BY <1>a, <1>1, <1>b, NobodyInside DEF Acquire
    <2>3. /\ cpu'[p].srb = x /\ cpu'[p].pc = "throttle"
          /\ \A q \in Cpus : q # p => cpu'[q].pc = "idle"
        <3>1. \A q \in Cpus : cpu[q].pc = "idle"
            BY <1>a, <1>1, NobodyInside DEF Acquire
        <3>2. cpu \in [Cpus -> [pc : SubmitPcs, srb : Reqs \cup {NULL}]]
            BY <1>a DEF TypeOK
        <3> QED
            BY <1>1, <3>1, <3>2 DEF Acquire
    <2>4. \A r \in Reqs : Entering(r, EntrySteps)' <=> r = x
        BY <1>b, <2>3, OneInside DEF Entering, EntrySteps
    <2> QED
        BY <1>c, <1>d, <2>1, <2>2, <2>4
<1>2. ASSUME NEW p \in Cpus, SubmitStep(p)
      PROVE  \A r \in Reqs : Sent(r)' <=> Sent(r)
    <2>1. \A r \in Reqs : /\ Entering(r, EntrySteps) <=> cpu[p].srb = r /\ cpu[p].pc \in EntrySteps
                          /\ Entering(r, EntrySteps)' <=> cpu'[p].srb = r /\ cpu'[p].pc \in EntrySteps
        BY <1>a, <1>2, <1>b, SubmitEntering
    <2>2. CASE RingSubDbl(p)
        <3>1. UNCHANGED srb /\ cpu[p].pc = "ring" /\ cpu'[p].pc = "idle"
            BY <1>a, <2>2 DEF RingSubDbl, IdleCpu, TypeOK
        <3> QED
            BY <1>c, <1>d, <2>1, <3>1 DEF EntrySteps
    <2>3. CASE ~RingSubDbl(p)
        <3>1. /\ cpu[p].pc \in EntrySteps
              /\ \/ UNCHANGED srb /\ cpu'[p].srb = cpu[p].srb /\ cpu'[p].pc \in EntrySteps
                 \/ srb' = [srb EXCEPT ![cpu[p].srb] = "free"] /\ cpu'[p] = IdleCpu
            BY <1>2, <2>3, EntryMoves
        <3>2. CASE UNCHANGED srb /\ cpu'[p].srb = cpu[p].srb /\ cpu'[p].pc \in EntrySteps
            BY <1>c, <1>d, <2>1, <3>1, <3>2
        <3>3. CASE srb' = [srb EXCEPT ![cpu[p].srb] = "free"] /\ cpu'[p] = IdleCpu
            <4>1. cpu[p].srb \in Reqs /\ cpu'[p].pc = "idle"
                BY <1>a, <1>2, <3>3, SubmitMoves DEF IdleCpu
            <4>2. \A r \in Reqs : srb'[r] = IF r = cpu[p].srb THEN "free" ELSE srb[r]
                BY <1>b, <3>3, <4>1
            <4> QED
                BY <1>b, <1>c, <1>d, <2>1, <3>1, <4>1, <4>2
        <3> QED
            BY <3>1, <3>2, <3>3
    <2> QED
        BY <2>2, <2>3
<1>3. CASE UNCHANGED <<cpu, srb>>
    BY <1>3 DEF Sent, Entering
<1>4. CASE DpcStep \/ CtrlFetch \/ (\E r \in Reqs : CtrlPost(r)) \/ Isr \/ UNCHANGED vars
    <2>1. UNCHANGED srb
        BY Zenon, <1>4 DEF DpcStep, DpcStart, DpcPop, DpcRetire, DpcAdvance,
                       DpcDrained, DpcRing, DpcGoto, CtrlFetch, CtrlPost, Isr, vars
    <2> QED
        BY <1>3, <1>4, <2>1, OthersFrame
<1> QED
    BY <1>1, <1>2, <1>4 DEF Next

\* The move of SubTail makes the request on its way in one that waits.
LEMMA SentByTail ==
    ASSUME IInv, RInv, NEW p \in Cpus, AdvanceTail(p)
    PROVE  /\ cpu[p].srb \in Reqs /\ ~Sent(cpu[p].srb)
           /\ \A r \in Reqs : Sent(r)' <=> Sent(r) \/ r = cpu[p].srb
<1>a. TypeOK /\ LockInv /\ EntryInv
    BY DEF IInv, RInv
<1>b. SubmitStep(p) /\ "idle" \notin EntrySteps
    BY DEF SubmitStep, EntrySteps
<1>1. \A r \in Reqs : /\ Entering(r, EntrySteps) <=> cpu[p].srb = r /\ cpu[p].pc \in EntrySteps
                      /\ Entering(r, EntrySteps)' <=> cpu'[p].srb = r /\ cpu'[p].pc \in EntrySteps
    BY <1>a, <1>b, SubmitEntering
<1>2. UNCHANGED srb /\ cpu[p].pc = "tail" /\ cpu'[p].pc = "ring" /\ cpu[p].srb \in Reqs
    BY <1>a, <1>b, SubmitMoves, GotoStep DEF AdvanceTail
<1>3. srb[cpu[p].srb] = "issued"
    BY <1>a, <1>2 DEF EntryInv, EntrySteps
<1> QED
    BY <1>1, <1>2, <1>3 DEF Sent, EntrySteps

\* CompleteSrb hands back the request whose completion is at CplHead, which waits for it.
LEMMA SentByComplete ==
    ASSUME IInv, RInv, DpcComplete
    PROVE  /\ dpc.srb \in Reqs /\ Sent(dpc.srb) /\ CplQ[CplHead].req = dpc.srb
           /\ srb'[dpc.srb] = "free"
           /\ \A r \in Reqs : r # dpc.srb => srb'[r] = srb[r]
           /\ \A r \in Reqs : Sent(r)' <=> Sent(r) /\ r # dpc.srb
<1>a. TypeOK /\ RangeInv /\ CplRingInv /\ CompletesOwnRequest
    BY DEF IInv, RInv
<1>b. dpc.pc = "complete" /\ srb' = [srb EXCEPT ![dpc.srb] = "free"] /\ UNCHANGED cpu
    BY DEF DpcComplete
<1>1. dpc.srb = CplQ[CplHead].req /\ Sent(dpc.srb)
    BY <1>a, <1>b DEF CompletesOwnRequest
<1>2. dpc.srb \in Reqs
    <2>1. CplHead \in Unconsumed
        <3>1. CplHead # CqTail /\ CplHead \in Slots /\ CqTail \in Slots
            BY <1>a, <1>b DEF CplRingInv, TypeOK
        <3> QED
            BY <1>b, <3>1, WindowShrink DEF Unconsumed
    <2>2. CplQ[CplHead].req # NULL
        BY <2>1 DEF RInv, PlaceInv
    <2> QED
        BY <1>a, <1>1, <2>2 DEF TypeOK
<1>3. \A r \in Reqs : srb'[r] = IF r = dpc.srb THEN "free" ELSE srb[r]
    BY <1>a, <1>b DEF TypeOK
<1>4. \A r \in Reqs : Sent(r)' <=> Sent(r) /\ r # dpc.srb
    BY <1>b, <1>3 DEF Sent, Entering
<1> QED
    BY <1>1, <1>2, <1>3, <1>4

\* CompleteCmd finds the request of a new completion in History.
LEMMA PopFinds ==
    ASSUME IInv, RInv, DpcPop
    PROVE  LET r == CplQ[CplHead].req
           IN  /\ r \in Reqs /\ Sent(r) /\ CidOf[r] \in Cids
               /\ History[CidOf[r]] = r
               /\ History' = [History EXCEPT ![CidOf[r]] = NULL]
               /\ dpc.pc = "poll" /\ dpc'.pc = "complete" /\ dpc'.srb = r
<1> DEFINE r == CplQ[CplHead].req
<1>a. TypeOK /\ RangeInv /\ CplRingInv /\ PlaceInv /\ HistoryInv
    BY DEF IInv, RInv
<1>b. dpc.pc = "poll" /\ CplHead # CqTail /\ CplHead \in Slots /\ CqTail \in Slots
    BY <1>a, NewIffPosted DEF DpcPop, TypeOK
<1>1. CplHead \in Unconsumed
    BY <1>b, WindowShrink DEF Unconsumed
<1>2. r \in Reqs
    BY <1>a, <1>b, <1>1 DEF PlaceInv, TypeOK
<1>3. Sent(r)
    BY <1>a, <1>1, <1>2 DEF PlaceInv, Nowhere, CplAt
<1>4. ~Entering(r, {"throttle", "push"}) /\ srb[r] = "issued"
    BY <1>3 DEF Sent, Entering
<1>5. InHistory(r)
    BY <1>a, <1>b, <1>2, <1>4 DEF HistoryInv, Held
<1>6. CidIn(CplQ[CplHead]) = CidOf[r]
    BY <1>2, NullFact DEF CidIn
<1>7. History[CidOf[r]] = r /\ CidOf[r] \in Cids /\ r # NULL
    BY <1>2, <1>5, NullFact DEF InHistory
<1>8. dpc' = [dpc EXCEPT !.srb = r, !.pc = "complete"] /\ History' = [History EXCEPT ![CidOf[r]] = NULL]
    BY <1>6, <1>7 DEF DpcPop
<1>9. dpc'.pc = "complete" /\ dpc'.srb = r
    BY <1>a, <1>8 DEF TypeOK
<1> QED
    BY <1>2, <1>3, <1>7, <1>8, <1>9, <1>b

(****************************************************************************)
(* PlaceInv: the command of a request is in one place.                      *)
(****************************************************************************)

\* The window of commands moves with SubTail and SqHead only.
LEMMA SubAtKept ==
    ASSUME IInv, UNCHANGED <<SubTail, SqHead>>,
           UNCHANGED SubQ \/ \E p \in Cpus : WriteSlot(p)
    PROVE  \A r : SubAt(r)' = SubAt(r)
<1>a. TypeOK /\ SubTail \in Slots /\ SqHead \in Slots /\ SubQ \in [Slots -> Reqs \cup {NULL}]
    BY DEF IInv, TypeOK
<1>1. SubTail \notin Unfetched /\ Unfetched \subseteq Slots
    BY <1>a, WindowEmpty DEF Unfetched
<1>2. \A i \in Unfetched : SubQ'[i] = SubQ[i]
    BY <1>a, <1>1 DEF WriteSlot
<1> QED
    BY <1>2 DEF SubAt, Unfetched

\* The window of completions keeps its entries when the DPC pops, retires or advances.
LEMMA CplAtKept ==
    ASSUME DistinctCids, IInv, RInv, [Next]_vars, ~DpcComplete, \A r \in Reqs : ~CtrlPost(r)
    PROVE  UNCHANGED <<CplQ, Unconsumed>>
<1>a. TypeOK /\ CplHead \in Slots /\ CqTail \in Slots /\ dpc \in DpcType
    BY DEF IInv, TypeOK, DpcType
<1>1. CASE UNCHANGED <<CplQ, CplHead, CqTail>> /\
           (dpc'.pc \in {"retire", "advance"} <=> dpc.pc \in {"retire", "advance"})
    BY <1>1 DEF Unconsumed
<1>2. ASSUME NEW p \in Cpus, SubmitStep(p) \/ \E r \in Reqs : Acquire(p, r)
      PROVE  UNCHANGED <<CplQ, Unconsumed>>
    BY <1>1, <1>2, SubmitFrame DEF dpcVars, ctrlVars
<1>3. CASE CtrlFetch \/ Isr \/ UNCHANGED vars
    BY <1>1, <1>3 DEF CtrlFetch, Isr, vars, dpcVars, ctrlVars
<1>4. CASE DpcPop
    <2>1. UNCHANGED <<CplQ, CplHead, CqTail>>
        BY <1>4 DEF DpcPop, ctrlVars
    <2> QED
        BY <1>1, <1>4, <2>1, PopFinds
<1>5. CASE DpcAdvance
    <2>1. /\ dpc.pc = "advance" /\ CplHead' = Wrap(CplHead) /\ UNCHANGED <<CplQ, CqTail>>
          /\ dpc'.pc \in {"ring", "poll"}
        BY <1>5 DEF DpcAdvance, ctrlVars
    <2>2. CplHead # CqTail
        BY <2>1 DEF IInv, CplRingInv
    <2>3. Window(CplHead', CqTail') = Window(CplHead, CqTail) \ {CplHead}
        BY <1>a, <2>1, <2>2, WindowShrink
    <2> QED
        BY <2>1, <2>3 DEF Unconsumed
<1>6. CASE DpcStart \/ DpcRetire \/ DpcDrained \/ DpcRing
    <2>1. UNCHANGED <<CplQ, CplHead, CqTail>>
        BY <1>6 DEF DpcStart, DpcRetire, DpcDrained, DpcRing, DpcGoto, ctrlVars
    <2>2. dpc'.pc \in {"retire", "advance"} <=> dpc.pc \in {"retire", "advance"}
        <3>1. CASE DpcStart
            BY <3>1 DEF DpcStart
        <3>2. CASE DpcRetire
            BY <1>a, <3>2 DEF DpcRetire, DpcGoto, DpcType
        <3>3. CASE DpcDrained
            BY <1>a, <3>3 DEF DpcDrained, DpcGoto, DpcType
        <3>4. CASE DpcRing
            BY <1>a, <3>4 DEF DpcRing, DpcType
        <3> QED
            BY <1>6, <3>1, <3>2, <3>3, <3>4
    <2> QED
        BY <1>1, <2>1, <2>2
<1> QED
    BY <1>2, <1>3, <1>4, <1>5, <1>6 DEF Next, DpcStep

\* Every step keeps the command of each request where its owner expects it.
LEMMA PlaceStep == DistinctCids /\ IInv /\ RInv /\ [Next]_vars => PlaceInv'
<1> SUFFICES ASSUME DistinctCids, IInv, RInv, [Next]_vars PROVE PlaceInv'
    OBVIOUS
<1>a. /\ TypeOK /\ PlaceInv /\ SubTail \in Slots /\ SqHead \in Slots /\ CqTail \in Slots
      /\ CplHead \in Slots /\ SubQ \in [Slots -> Reqs \cup {NULL}]
      /\ CplQ \in [Slots -> [req : Reqs \cup {NULL}, phase : Phases]]
    BY DEF IInv, RInv, TypeOK
<1>b. \A r \in Reqs : IF Sent(r) THEN InSubQ(r) \/ InExec(r) \/ InCplQ(r) ELSE Nowhere(r)
    BY <1>a DEF PlaceInv
<1>c. Unconsumed \subseteq Slots /\ \A i \in Unconsumed : CplQ[i].req # NULL
    BY <1>a, WindowEmpty DEF Unconsumed, PlaceInv
<1>q. ASSUME \A r \in Reqs : (Sent(r)' <=> Sent(r)) /\ SubAt(r)' = SubAt(r),
             UNCHANGED <<exec, CplQ, Unconsumed>>
      PROVE  PlaceInv'
    <2>1. \A r \in Reqs : CplAt(r)' = CplAt(r)
        BY <1>q DEF CplAt
    <2>2. \A r \in Reqs : /\ InSubQ(r)' <=> InSubQ(r)
                          /\ InExec(r)' <=> InExec(r)
                          /\ InCplQ(r)' <=> InCplQ(r)
                          /\ Nowhere(r)' <=> Nowhere(r)
        BY <1>q, <2>1 DEF InSubQ, InExec, InCplQ, Nowhere
    <2> QED
        BY <1>b, <1>c, <1>q, <2>2 DEF PlaceInv
<1>1. CASE DpcComplete
    <2> DEFINE x == dpc.srb
    <2>1. /\ x \in Reqs /\ Sent(x) /\ CplQ[CplHead].req = x
          /\ \A r \in Reqs : Sent(r)' <=> Sent(r) /\ r # x
        BY <1>1, SentByComplete
    <2>2. UNCHANGED <<SubQ, SubTail, SqHead, exec, CplQ, CplHead, CqTail>>
        BY <1>1 DEF DpcComplete, DpcGoto, subVars, ctrlVars
    <2>3. dpc.pc = "complete" /\ dpc'.pc = "retire" /\ CplHead # CqTail
        BY <1>1, <1>a DEF DpcComplete, DpcGoto, TypeOK, IInv, CplRingInv
    <2>4. Unconsumed' = Unconsumed \ {CplHead} /\ CplHead \in Unconsumed
        BY <1>a, <2>2, <2>3, WindowShrink DEF Unconsumed
    <2>5. /\ \A r \in Reqs : SubAt(r)' = SubAt(r)
          /\ \A r \in Reqs : CplAt(r)' = CplAt(r) \ {CplHead}
        BY <2>2, <2>4 DEF SubAt, Unfetched, CplAt
    <2>6. CplHead \in CplAt(x) /\ \A r \in Reqs : r # x => CplHead \notin CplAt(r)
        BY <2>1, <2>4 DEF CplAt
    <2>7. ASSUME NEW r \in Reqs
          PROVE  IF Sent(r)' THEN InSubQ(r)' \/ InExec(r)' \/ InCplQ(r)' ELSE Nowhere(r)'
        <3>1. CASE r = x
            <4>1. InCplQ(x)
                BY <1>b, <2>1, <2>6 DEF InSubQ, InExec
            <4> QED
                BY <2>1, <2>2, <2>5, <2>6, <3>1, <4>1 DEF InCplQ, Nowhere
        <3>2. CASE r # x
            <4>1. CplAt(r)' = CplAt(r) /\ SubAt(r)' = SubAt(r) /\ (Sent(r)' <=> Sent(r))
                BY <2>1, <2>5, <2>6, <3>2
            <4> QED
                BY <1>b, <2>2, <4>1 DEF InSubQ, InExec, InCplQ, Nowhere
        <3> QED
            BY <3>1, <3>2
    <2> QED
        BY <1>c, <2>2, <2>4, <2>7 DEF PlaceInv
<1>2. ASSUME NEW p \in Cpus, AdvanceTail(p) PROVE PlaceInv'
    <2> DEFINE x == cpu[p].srb
    <2>1. /\ x \in Reqs /\ ~Sent(x)
          /\ \A r \in Reqs : Sent(r)' <=> Sent(r) \/ r = x
        BY <1>2, SentByTail
    <2>2. /\ cpu[p].pc = "tail" /\ SubTail' = Wrap(SubTail)
          /\ UNCHANGED <<SubQ, SqHead, exec, CplQ, CplHead, CqTail, dpc>>
        BY <1>2 DEF AdvanceTail, dpcVars, ctrlVars
    <2>3. SubQ[SubTail] = x /\ Wrap(SubTail) # SqHead
        BY <2>2, NoOverrun DEF RInv, EntryInv
    <2>4. Unfetched' = Unfetched \cup {SubTail} /\ SubTail \notin Unfetched
        BY <1>a, <2>2, <2>3, WindowGrow DEF Unfetched
    <2>5. UNCHANGED Unconsumed /\ \A r \in Reqs : CplAt(r)' = CplAt(r)
        BY <2>2 DEF Unconsumed, CplAt
    <2>6. \A r \in Reqs : SubAt(r)' = IF r = x THEN SubAt(r) \cup {SubTail} ELSE SubAt(r)
        BY <2>2, <2>3, <2>4 DEF SubAt
    <2>7. ASSUME NEW r \in Reqs
          PROVE  IF Sent(r)' THEN InSubQ(r)' \/ InExec(r)' \/ InCplQ(r)' ELSE Nowhere(r)'
        <3>1. CASE r = x
            <4>1. Nowhere(x)
                BY <1>b, <2>1
            <4> QED
                BY <1>a, <2>1, <2>2, <2>5, <2>6, <3>1, <4>1 DEF InSubQ, Nowhere
        <3>2. CASE r # x
            <4>1. CplAt(r)' = CplAt(r) /\ SubAt(r)' = SubAt(r) /\ (Sent(r)' <=> Sent(r))
                BY <2>1, <2>5, <2>6, <3>2
            <4> QED
                BY <1>b, <2>2, <4>1 DEF InSubQ, InExec, InCplQ, Nowhere
        <3> QED
            BY <3>1, <3>2
    <2> QED
        BY <1>c, <2>2, <2>5, <2>7 DEF PlaceInv
<1>3. CASE CtrlFetch
    <2> DEFINE x == SubQ[SqHead]
    <2>1. /\ SqHead # SubDbl /\ exec' = exec \cup {x} /\ SqHead' = Wrap(SqHead)
          /\ UNCHANGED <<srb, cpu, SubQ, SubTail, CplQ, CplHead, CqTail, dpc>>
        BY <1>3 DEF CtrlFetch, subVars, dpcVars
    <2>2. SqHead # SubTail /\ x # NULL
        <3>1. SubDbl \in Slots
            BY <1>a DEF TypeOK
        <3> QED
            BY <1>a, <2>1, <3>1, DistRange, SlotNat DEF IInv, SubRingInv
    <2>3. x \in Reqs /\ Unfetched' = Unfetched \ {SqHead} /\ SqHead \in Unfetched
        BY <1>a, <2>1, <2>2, WindowShrink DEF Unfetched
    <2>4. /\ UNCHANGED Unconsumed
          /\ \A r \in Reqs : CplAt(r)' = CplAt(r) /\ (Sent(r)' <=> Sent(r))
        BY <2>1 DEF Unconsumed, CplAt, Sent, Entering
    <2>5. /\ \A r \in Reqs : SubAt(r)' = SubAt(r) \ {SqHead}
          /\ SqHead \in SubAt(x) /\ \A r \in Reqs : r # x => SqHead \notin SubAt(r)
        BY <2>1, <2>3 DEF SubAt
    <2>6. ASSUME NEW r \in Reqs
          PROVE  IF Sent(r)' THEN InSubQ(r)' \/ InExec(r)' \/ InCplQ(r)' ELSE Nowhere(r)'
        <3>1. CASE r = x
            <4>1. Sent(x) /\ InSubQ(x)
                BY <1>b, <2>3, <2>5 DEF InExec, InCplQ, Nowhere
            <4> QED
                BY <2>1, <2>3, <2>4, <2>5, <3>1, <4>1 DEF InSubQ, InExec
        <3>2. CASE r # x
            <4>1. SubAt(r)' = SubAt(r) /\ (r \in exec' <=> r \in exec)
                BY <2>1, <2>5, <3>2
            <4> QED
                BY <1>b, <2>4, <4>1 DEF InSubQ, InExec, InCplQ, Nowhere
        <3> QED
            BY <3>1, <3>2
    <2> QED
        BY <1>c, <2>1, <2>4, <2>6 DEF PlaceInv
<1>4. ASSUME NEW x \in Reqs, CtrlPost(x) PROVE PlaceInv'
    <2>1. /\ x \in exec /\ exec' = exec \ {x} /\ CqTail' = Wrap(CqTail) /\ Wrap(CqTail) # CplDbl
          /\ CplQ' = [CplQ EXCEPT ![CqTail] = [req |-> x, phase |-> CqPhase]]
          /\ UNCHANGED <<srb, cpu, SubQ, SubTail, SqHead, CplHead, dpc>>
        BY <1>4 DEF CtrlPost, subVars, dpcVars
    <2>2. Wrap(CqTail) # CplHead
        BY <1>a, <2>1, RoomToPost DEF IInv
    <2>3. /\ Window(CplHead, CqTail') = Window(CplHead, CqTail) \cup {CqTail}
          /\ CqTail \notin Window(CplHead, CqTail)
        BY <1>a, <2>1, <2>2, WindowGrow
    <2>4. dpc.pc \in {"retire", "advance"} => CplHead # CqTail
        BY DEF IInv, CplRingInv
    <2>5. Unconsumed' = Unconsumed \cup {CqTail} /\ CqTail \notin Unconsumed
        BY <2>1, <2>3, <2>4 DEF Unconsumed
    <2>6. \A i \in Slots : CplQ'[i].req = IF i = CqTail THEN x ELSE CplQ[i].req
        BY <1>a, <2>1
    <2>7. \A r \in Reqs : CplAt(r)' = IF r = x THEN CplAt(r) \cup {CqTail} ELSE CplAt(r)
        BY <1>a, <1>c, <2>5, <2>6 DEF CplAt
    <2>8. \A r \in Reqs : SubAt(r)' = SubAt(r) /\ (Sent(r)' <=> Sent(r))
        BY <2>1 DEF SubAt, Unfetched, Sent, Entering
    <2>9. ASSUME NEW r \in Reqs
          PROVE  IF Sent(r)' THEN InSubQ(r)' \/ InExec(r)' \/ InCplQ(r)' ELSE Nowhere(r)'
        <3>1. CASE r = x
            <4>1. Sent(x) /\ InExec(x)
                BY <1>b, <2>1 DEF InSubQ, InCplQ, Nowhere
            <4> QED
                BY <1>a, <2>1, <2>7, <2>8, <3>1, <4>1 DEF InCplQ, InExec
        <3>2. CASE r # x
            <4>1. CplAt(r)' = CplAt(r) /\ (r \in exec' <=> r \in exec)
                BY <2>1, <2>7, <3>2
            <4> QED
                BY <1>b, <2>8, <4>1 DEF InSubQ, InExec, InCplQ, Nowhere
        <3> QED
            BY <3>1, <3>2
    <2>10. \A i \in Unconsumed' : CplQ'[i].req # NULL
        BY <1>a, <1>c, <2>5, <2>6, NullFact
    <2> QED
        BY <2>9, <2>10 DEF PlaceInv
<1>5. CASE /\ ~DpcComplete /\ ~CtrlFetch
           /\ (\A p \in Cpus : ~AdvanceTail(p)) /\ (\A r \in Reqs : ~CtrlPost(r))
    <2>1. UNCHANGED <<SubTail, SqHead, exec>> /\ (UNCHANGED SubQ \/ \E p \in Cpus : WriteSlot(p))
        <3>1. ASSUME NEW p \in Cpus, SubmitStep(p) \/ \E r \in Reqs : Acquire(p, r)
              PROVE  UNCHANGED <<SubTail, SqHead, exec>> /\ (UNCHANGED SubQ \/ WriteSlot(p))
            BY Zenon, <1>5, <3>1 DEF SubmitStep, Acquire, Throttle, PassThrottle, PushOutOfRange, Push,
               PushTaken, Evict, EvictNothing, Repush, WriteSlot, CountInflight, RingSubDbl,
               Refuse, SubmitGoto, subVars, ctrlVars
        <3>2. CASE DpcStep \/ Isr \/ UNCHANGED vars
            BY Zenon, <3>2 DEF DpcStep, DpcStart, DpcPop, DpcComplete, DpcRetire, DpcAdvance, DpcDrained,
               DpcRing, DpcGoto, Isr, vars, subVars, ctrlVars
        <3> QED
            BY Zenon, <1>5, <3>1, <3>2 DEF Next
    <2>2. \A r \in Reqs : SubAt(r)' = SubAt(r)
        BY <2>1, SubAtKept
    <2> QED
        BY <1>5, <1>q, <2>1, <2>2, SentKept, CplAtKept
<1> QED
    BY <1>1, <1>2, <1>3, <1>4, <1>5

(****************************************************************************)
(* HistoryInv: a CID leads to the request that waits under it.              *)
(****************************************************************************)

\* A step of SubmitCmd moves from the name of one step to that of the next.
LEMMA NextSteps ==
    ASSUME DistinctCids, IInv, RInv, NEW p \in Cpus, SubmitStep(p)
    PROVE  \/ Refuse(p) /\ cpu[p].pc \in {"throttle", "push"} /\ cpu'[p].pc = "idle"
           \/ PassThrottle(p) /\ cpu[p].pc = "throttle" /\ cpu'[p].pc = "push"
           \/ Push(p) /\ cpu[p].pc = "push" /\ cpu'[p].pc = "write"
           \/ WriteSlot(p) /\ cpu[p].pc = "write" /\ cpu'[p].pc = "count"
           \/ CountInflight(p) /\ cpu[p].pc = "count" /\ cpu'[p].pc = "tail"
           \/ AdvanceTail(p) /\ cpu[p].pc = "tail" /\ cpu'[p].pc = "ring"
           \/ RingSubDbl(p) /\ cpu[p].pc = "ring" /\ cpu'[p].pc = "idle"
<1>a. TypeOK
    BY DEF IInv
<1>b. cpu \in [Cpus -> [pc : SubmitPcs, srb : Reqs \cup {NULL}]]
    BY <1>a DEF TypeOK
<1>1. CASE Throttle(p) \/ PushOutOfRange(p)
    BY <1>b, <1>1 DEF Throttle, PushOutOfRange, Refuse, IdleCpu
<1>2. CASE PassThrottle(p)
    BY <1>a, <1>2, GotoStep DEF PassThrottle, SubmitGoto
<1>3. CASE Push(p)
    BY <1>a, <1>3, GotoStep DEF Push, SubmitGoto
<1>4. CASE WriteSlot(p)
    BY <1>a, <1>4, GotoStep DEF WriteSlot
<1>5. CASE CountInflight(p)
    BY <1>a, <1>5, GotoStep DEF CountInflight, SubmitGoto
<1>6. CASE AdvanceTail(p)
    BY <1>a, <1>6, GotoStep DEF AdvanceTail
<1>7. CASE RingSubDbl(p)
    BY <1>b, <1>7 DEF RingSubDbl, IdleCpu
<1> QED
    BY Zenon, <1>1, <1>2, <1>3, <1>4, <1>5, <1>6, <1>7, NoEviction DEF SubmitStep

\* The steps of the DPC but Pop and CompleteSrb, and those of the controller, neither reach
\* nor leave the moment at which the DPC has a request, and leave History and srb alone.
LEMMA PlainStep ==
    ASSUME IInv, \/ DpcStart \/ DpcRetire \/ DpcAdvance \/ DpcDrained \/ DpcRing
                 \/ CtrlFetch \/ (\E r \in Reqs : CtrlPost(r)) \/ Isr \/ UNCHANGED vars
    PROVE  /\ UNCHANGED <<History, srb, cpu, SubQ, SubTail>>
           /\ UNCHANGED dpc \/ (dpc.pc # "complete" /\ dpc'.pc # "complete")
<1>a. dpc \in DpcType
    BY DEF IInv, TypeOK, DpcType
<1>1. CASE DpcStart \/ DpcRetire \/ DpcAdvance \/ DpcDrained \/ DpcRing
    <2>1. UNCHANGED <<History, srb, cpu, SubQ, SubTail>>
        BY Zenon, <1>1 DEF DpcStart, DpcRetire, DpcAdvance, DpcDrained, DpcRing, DpcGoto, subVars
    <2>2. CASE DpcStart \/ DpcAdvance
        BY <2>1, <2>2 DEF DpcStart, DpcAdvance
    <2>3. CASE DpcRetire \/ DpcDrained \/ DpcRing
        BY <1>a, <2>1, <2>3 DEF DpcRetire, DpcDrained, DpcRing, DpcGoto, DpcType
    <2> QED
        BY <1>1, <2>2, <2>3
<1>2. CASE CtrlFetch \/ (\E r \in Reqs : CtrlPost(r)) \/ Isr \/ UNCHANGED vars
    BY Zenon, <1>2 DEF CtrlFetch, CtrlPost, Isr, vars, subVars, dpcVars
<1> QED
    BY <1>1, <1>2

\* The kinds of steps.
LEMMA StepKinds ==
    ASSUME [Next]_vars
    PROVE  \/ \E p \in Cpus, x \in Reqs : Acquire(p, x)
           \/ \E p \in Cpus : SubmitStep(p)
           \/ DpcPop \/ DpcComplete
           \/ DpcStart \/ DpcRetire \/ DpcAdvance \/ DpcDrained \/ DpcRing
           \/ CtrlFetch \/ (\E r \in Reqs : CtrlPost(r)) \/ Isr \/ UNCHANGED vars
BY Zenon DEF Next, DpcStep

\* Storport enters a request with the lock free.
LEMMA AcquireEntering ==
    ASSUME TypeOK, LockInv, NEW p \in Cpus, NEW x \in Reqs, Acquire(p, x)
    PROVE  /\ \A q \in Cpus : cpu[q].pc = "idle"
           /\ cpu'[p].srb = x /\ cpu'[p].pc = "throttle"
           /\ \A q \in Cpus : q # p => cpu'[q].pc = "idle"
           /\ \A r \in Reqs : srb'[r] = IF r = x THEN "issued" ELSE srb[r]
           /\ srb[x] = "free"
           /\ UNCHANGED <<History, InflightCmds, dpcVars, ctrlVars>>
<1>1. \A q \in Cpus : cpu[q].pc = "idle"
    BY NobodyInside DEF Acquire
<1>2. cpu \in [Cpus -> [pc : SubmitPcs, srb : Reqs \cup {NULL}]] /\ srb \in [Reqs -> {"free", "issued"}]
    BY DEF TypeOK
<1> QED
    BY <1>1, <1>2 DEF Acquire

\* Every step keeps History in agreement with the requests.
LEMMA HistoryStep == DistinctCids /\ IInv /\ RInv /\ [Next]_vars => HistoryInv'
<1> SUFFICES ASSUME DistinctCids, IInv, RInv, [Next]_vars PROVE HistoryInv'
    OBVIOUS
<1> DEFINE Way == {"throttle", "push"}
           Waits(r) == srb[r] = "issued" /\ ~Entering(r, Way) /\ ~Held(r)
<1>a. /\ TypeOK /\ LockInv /\ HistoryInv /\ EntryInv
      /\ History \in [Cids -> Reqs \cup {NULL}] /\ srb \in [Reqs -> {"free", "issued"}]
    BY DEF IInv, RInv, TypeOK
<1>b. /\ \A c \in Cids : History[c] # NULL => CidOf[History[c]] = c
      /\ \A r \in Reqs : InHistory(r) <=> Waits(r)
    BY <1>a DEF HistoryInv
<1>c. ASSUME \A c \in Cids : History'[c] # NULL => CidOf[History'[c]] = c,
             \A r \in Reqs : InHistory(r)' <=> Waits(r)'
      PROVE  HistoryInv'
    BY <1>c DEF HistoryInv
<1>d. "idle" \notin Way /\ Way \subseteq EntrySteps
    BY DEF EntrySteps
<1>e. ASSUME UNCHANGED History, \A r \in Reqs : Waits(r)' <=> Waits(r)
      PROVE  HistoryInv'
    BY <1>b, <1>c, <1>e DEF InHistory
<1> HIDE DEF Way
<1>1. ASSUME NEW p \in Cpus, NEW x \in Reqs, Acquire(p, x) PROVE HistoryInv'
    <2>1. /\ \A q \in Cpus : cpu[q].pc = "idle"
          /\ cpu'[p].srb = x /\ cpu'[p].pc = "throttle"
          /\ \A q \in Cpus : q # p => cpu'[q].pc = "idle"
          /\ \A r \in Reqs : srb'[r] = IF r = x THEN "issued" ELSE srb[r]
          /\ srb[x] = "free" /\ UNCHANGED <<History, dpc>>
        BY <1>a, <1>1, AcquireEntering DEF dpcVars
    <2>2. \A r \in Reqs : ~Entering(r, Way) /\ (Entering(r, Way)' <=> r = x)
        BY <1>d, <2>1, OneInside DEF Entering, Way
    <2> QED
        BY <1>e, <2>1, <2>2 DEF Held
<1>2. ASSUME NEW p \in Cpus, SubmitStep(p) PROVE HistoryInv'
    <2> DEFINE x == cpu[p].srb
    <2>1. \A r \in Reqs : /\ Entering(r, Way) <=> x = r /\ cpu[p].pc \in Way
                          /\ Entering(r, Way)' <=> cpu'[p].srb = r /\ cpu'[p].pc \in Way
        BY <1>a, <1>2, <1>d, SubmitEntering
    <2>2. x \in Reqs /\ UNCHANGED dpc /\ (cpu'[p].srb = x \/ cpu'[p].pc = "idle")
        BY <1>a, <1>2, SubmitMoves, SubmitFrame DEF dpcVars, IdleCpu
    <2>3. CASE Refuse(p) /\ cpu[p].pc \in {"throttle", "push"} /\ cpu'[p].pc = "idle"
        <3>1. /\ \A r \in Reqs : srb'[r] = IF r = x THEN "free" ELSE srb[r]
              /\ UNCHANGED History
            BY <1>a, <2>2, <2>3 DEF Refuse
        <3> QED
            BY <1>d, <1>e, <2>1, <2>2, <2>3, <3>1 DEF Held, Way
    <2>4. CASE PassThrottle(p) /\ cpu[p].pc = "throttle" /\ cpu'[p].pc = "push"
        <3>1. UNCHANGED <<srb, History>>
            BY <2>4 DEF PassThrottle
        <3> QED
            BY <1>d, <1>e, <2>1, <2>2, <2>4, <3>1 DEF Held, Way
    <2>5. CASE Push(p) /\ cpu[p].pc = "push" /\ cpu'[p].pc = "write"
        <3>1. /\ CidOf[x] \in Cids /\ History[CidOf[x]] = NULL
              /\ History' = [History EXCEPT ![CidOf[x]] = x] /\ UNCHANGED srb
            BY <2>5 DEF Push
        <3>2. \A c \in Cids : History'[c] = IF c = CidOf[x] THEN x ELSE History[c]
            BY <1>a, <3>1
        <3>3. \A r \in Reqs : InHistory(r)' <=> InHistory(r) \/ r = x
            BY <2>2, <3>1, <3>2 DEF InHistory, DistinctCids
        <3>4. srb[x] = "issued" /\ ~Held(x)
            <4>1. srb[x] = "issued"
                BY <1>a, <2>5 DEF EntryInv, EntrySteps
            <4>2. Entering(x, EntrySteps)
                BY <2>5 DEF Entering, EntrySteps
            <4>3. Held(x) => Sent(x)
                BY DEF RInv, CompletesOwnRequest, Held
            <4> QED
                BY <4>1, <4>2, <4>3 DEF Sent, EntrySteps
        <3>5. \A r \in Reqs : Waits(r)' <=> Waits(r) \/ r = x
            BY <2>1, <2>2, <2>5, <3>1, <3>4 DEF Held, Way
        <3> QED
            BY <1>b, <1>c, <3>2, <3>3, <3>5
    <2>6. CASE /\ WriteSlot(p) \/ CountInflight(p) \/ AdvanceTail(p) \/ RingSubDbl(p)
               /\ cpu[p].pc \notin Way /\ cpu'[p].pc \notin Way
        <3>1. UNCHANGED <<srb, History>>
            BY <2>6 DEF WriteSlot, CountInflight, AdvanceTail, RingSubDbl
        <3> QED
            BY <1>e, <2>1, <2>2, <2>6, <3>1 DEF Held
    <2> QED
        BY <1>2, <2>3, <2>4, <2>5, <2>6, NextSteps DEF Way
<1>3. CASE DpcPop
    <2> DEFINE x == CplQ[CplHead].req
    <2>1. /\ x \in Reqs /\ Sent(x) /\ CidOf[x] \in Cids /\ History[CidOf[x]] = x
          /\ History' = [History EXCEPT ![CidOf[x]] = NULL]
          /\ dpc.pc = "poll" /\ dpc'.pc = "complete" /\ dpc'.srb = x
        BY <1>3, PopFinds
    <2> HIDE DEF x
    <2>2. \A c \in Cids : History'[c] = IF c = CidOf[x] THEN NULL ELSE History[c]
        BY <1>a, <2>1
    <2>3. \A r \in Reqs : InHistory(r)' <=> InHistory(r) /\ r # x
        BY <2>1, <2>2, NullFact DEF InHistory, DistinctCids
    <2>4. UNCHANGED <<srb, cpu>>
        BY <1>3 DEF DpcPop
    <2>5. \A r \in Reqs : Waits(r)' <=> Waits(r) /\ r # x
        BY <2>1, <2>4 DEF Held, Entering
    <2> QED
        BY <1>b, <1>c, <2>2, <2>3, <2>5
<1>4. CASE DpcComplete
    <2>1. /\ dpc.srb \in Reqs /\ srb'[dpc.srb] = "free"
          /\ \A r \in Reqs : r # dpc.srb => srb'[r] = srb[r]
        BY <1>4, SentByComplete
    <2>2. UNCHANGED <<History, cpu>> /\ dpc.pc = "complete" /\ dpc'.pc = "retire"
        BY <1>a, <1>4 DEF DpcComplete, DpcGoto, TypeOK
    <2>3. \A r \in Reqs : Waits(r)' <=> Waits(r)
        BY <2>1, <2>2 DEF Held, Entering
    <2> QED
        BY <1>e, <2>2, <2>3
<1>5. CASE \/ DpcStart \/ DpcRetire \/ DpcAdvance \/ DpcDrained \/ DpcRing
           \/ CtrlFetch \/ (\E r \in Reqs : CtrlPost(r)) \/ Isr \/ UNCHANGED vars
    <2>1. /\ UNCHANGED <<History, srb, cpu>>
          /\ UNCHANGED dpc \/ (dpc.pc # "complete" /\ dpc'.pc # "complete")
        BY <1>5, PlainStep
    <2>2. \A r \in Reqs : Waits(r)' <=> Waits(r)
        BY <2>1 DEF Held, Entering
    <2> QED
        BY <1>e, <2>1, <2>2
<1> QED
    BY <1>1, <1>2, <1>3, <1>4, <1>5, StepKinds

(****************************************************************************)
(* The other parts of the invariant.                                        *)
(****************************************************************************)

\* Every step keeps what is known of the requests on their way in.
LEMMA EntryStep == DistinctCids /\ IInv /\ RInv /\ [Next]_vars => EntryInv'
<1> SUFFICES ASSUME DistinctCids, IInv, RInv, [Next]_vars PROVE EntryInv'
    OBVIOUS
<1>a. /\ TypeOK /\ LockInv /\ EntryInv /\ srb \in [Reqs -> {"free", "issued"}]
      /\ SubQ \in [Slots -> Reqs \cup {NULL}] /\ SubTail \in Slots
    BY DEF IInv, RInv, TypeOK
<1>1. ASSUME NEW p \in Cpus, NEW x \in Reqs, Acquire(p, x) PROVE EntryInv'
    BY <1>a, <1>1, AcquireEntering DEF EntryInv, EntrySteps
<1>2. ASSUME NEW p \in Cpus, SubmitStep(p) PROVE EntryInv'
    <2> DEFINE x == cpu[p].srb
    <2>1. /\ x \in Reqs /\ (cpu'[p].srb = x \/ cpu'[p].pc = "idle")
          /\ \A q \in Cpus : q # p => cpu'[q].pc = "idle"
        BY <1>a, <1>2, SubmitMoves DEF IdleCpu
    <2>2. CASE cpu'[p].pc = "idle"
        BY <2>1, <2>2 DEF EntryInv, EntrySteps
    <2>3. CASE cpu'[p].pc # "idle"
        <3>1. /\ cpu[p].pc \in EntrySteps /\ UNCHANGED srb /\ cpu'[p].srb = x
              /\ cpu'[p].pc \in {"push", "write", "count", "tail", "ring"}
            BY <1>2, <2>1, <2>3, NextSteps
               DEF EntrySteps, PassThrottle, Push, WriteSlot, CountInflight, AdvanceTail
        <3>2. srb[x] = "issued"
            BY <1>a, <3>1 DEF EntryInv
        <3>3. cpu'[p].pc \in {"count", "tail"} => SubQ'[SubTail'] = x
            <4>1. CASE WriteSlot(p)
                BY <1>a, <4>1 DEF WriteSlot
            <4>2. CASE CountInflight(p)
                BY <1>a, <4>2 DEF CountInflight, SubmitGoto, subVars, EntryInv
            <4> QED
                BY <1>2, <4>1, <4>2, NextSteps
        <3> QED
            BY <2>1, <3>1, <3>2, <3>3 DEF EntryInv, EntrySteps
    <2> QED
        BY <2>2, <2>3
<1>3. CASE DpcComplete
    <2>1. /\ dpc.srb \in Reqs /\ Sent(dpc.srb)
          /\ \A r \in Reqs : r # dpc.srb => srb'[r] = srb[r]
        BY <1>3, SentByComplete
    <2>2. UNCHANGED <<cpu, SubQ, SubTail>>
        BY <1>3 DEF DpcComplete, DpcGoto, subVars
    <2>3. \A p \in Cpus : cpu[p].pc \in EntrySteps => cpu[p].srb \in Reqs /\ cpu[p].srb # dpc.srb
        BY <1>a, <2>1 DEF Sent, Entering, EntrySteps, LockInv
    <2> QED
        BY <1>a, <2>1, <2>2, <2>3 DEF EntryInv
<1>4. CASE UNCHANGED <<cpu, srb, SubQ, SubTail>>
    BY <1>a, <1>4 DEF EntryInv
<1>5. CASE DpcPop
    BY <1>4, <1>5 DEF DpcPop, subVars
<1> QED
    BY <1>1, <1>2, <1>3, <1>4, <1>5, StepKinds, PlainStep

\* Every step keeps the DPC with the request of the completion at CplHead.
LEMMA OwnStep == DistinctCids /\ IInv /\ RInv /\ [Next]_vars => CompletesOwnRequest'
<1> SUFFICES ASSUME DistinctCids, IInv, RInv, [Next]_vars, dpc'.pc = "complete"
             PROVE  dpc'.srb = CplQ'[CplHead'].req /\ Sent(dpc.srb)'
    BY DEF CompletesOwnRequest
<1>a. /\ TypeOK /\ CplRingInv /\ CompletesOwnRequest /\ CplHead \in Slots /\ CqTail \in Slots
      /\ CplQ \in [Slots -> [req : Reqs \cup {NULL}, phase : Phases]] /\ dpc \in DpcType
    BY DEF IInv, RInv, TypeOK, DpcType
<1>1. CASE DpcPop
    <2>1. /\ CplQ[CplHead].req \in Reqs /\ Sent(CplQ[CplHead].req) /\ dpc'.srb = CplQ[CplHead].req
          /\ UNCHANGED <<CplQ, CplHead, srb, cpu>>
        BY <1>1, PopFinds DEF DpcPop, ctrlVars
    <2> QED
        BY <2>1 DEF Sent, Entering
<1>2. CASE DpcComplete
    BY <1>a, <1>2 DEF DpcComplete, DpcGoto, DpcType
<1>b. dpc.pc = "complete" => dpc.srb \in Reqs /\ CplHead # CqTail
    <2>1. SUFFICES ASSUME dpc.pc = "complete" PROVE dpc.srb \in Reqs /\ CplHead # CqTail
        OBVIOUS
    <2>2. CplHead # CqTail
        BY <1>a, <2>1 DEF CplRingInv
    <2>3. CplHead \in Unconsumed
        BY <1>a, <2>1, <2>2, WindowShrink DEF Unconsumed
    <2> QED
        BY <1>a, <2>1, <2>2, <2>3 DEF RInv, PlaceInv, CompletesOwnRequest
<1>3. ASSUME dpc' = dpc, CplQ'[CplHead'].req = CplQ[CplHead].req, \A r \in Reqs : Sent(r) => Sent(r)'
      PROVE  dpc'.srb = CplQ'[CplHead'].req /\ Sent(dpc.srb)'
    BY <1>a, <1>b, <1>3 DEF CompletesOwnRequest, Sent, Entering
<1>4. ASSUME NEW p \in Cpus, SubmitStep(p) \/ \E x \in Reqs : Acquire(p, x)
      PROVE  dpc'.srb = CplQ'[CplHead'].req /\ Sent(dpc.srb)'
    <2>1. UNCHANGED <<dpc, CplQ, CplHead>>
        BY <1>4, SubmitFrame DEF dpcVars, ctrlVars
    <2>2. ~DpcComplete
        <3>1. DpcComplete => dpc'.pc = "retire"
            BY <1>a DEF DpcComplete, DpcGoto, DpcType
        <3> QED
            BY <3>1
    <2>3. \A r \in Reqs : Sent(r) => Sent(r)'
        <3>1. CASE \E q \in Cpus : AdvanceTail(q)
            BY <3>1, SentByTail
        <3>2. CASE \A q \in Cpus : ~AdvanceTail(q)
            BY <2>2, <3>2, SentKept
        <3> QED
            BY <3>1, <3>2
    <2> QED
        BY <1>3, <2>1, <2>3
<1>5. CASE \/ DpcStart \/ DpcRetire \/ DpcAdvance \/ DpcDrained \/ DpcRing
           \/ CtrlFetch \/ Isr \/ UNCHANGED vars
    <2>1. UNCHANGED dpc /\ UNCHANGED <<srb, cpu>>
        BY <1>5, PlainStep
    <2>2. UNCHANGED <<CplQ, CplHead>>
        <3>1. CASE CtrlFetch \/ Isr \/ UNCHANGED vars
            BY <3>1 DEF CtrlFetch, Isr, vars, dpcVars, ctrlVars
        <3>2. CASE DpcStart \/ DpcRetire \/ DpcAdvance \/ DpcDrained \/ DpcRing
            BY <2>1, <3>2 DEF DpcStart, DpcRetire, DpcAdvance, DpcDrained, DpcRing
        <3> QED
            BY <1>5, <3>1, <3>2
    <2> QED
        BY <1>3, <2>1, <2>2 DEF Sent, Entering
<1>6. ASSUME NEW x \in Reqs, CtrlPost(x)
      PROVE  dpc'.srb = CplQ'[CplHead'].req /\ Sent(dpc.srb)'
    <2>1. UNCHANGED <<dpc, CplHead, srb, cpu>>
          /\ CplQ' = [CplQ EXCEPT ![CqTail] = [req |-> x, phase |-> CqPhase]]
        BY <1>6 DEF CtrlPost, dpcVars
    <2>2. CplQ'[CplHead] = CplQ[CplHead]
        BY <1>a, <1>b, <2>1
    <2> QED
        BY <1>3, <2>1, <2>2 DEF Sent, Entering
<1> QED
    BY <1>1, <1>2, <1>4, <1>5, <1>6, StepKinds

\* The requests in History that SubmitCmd has counted.
Counted == {c \in Cids : History[c] # NULL /\ ~Entering(History[c], {"write", "count"})}
Taken   == IF dpc.pc \in {"complete", "retire"} THEN 1 ELSE 0

\* History is finite.
LEMMA CountedFinite == IsFiniteSet(Counted) /\ Cardinality(Counted) \in Nat
<1>1. HistoryDepth \in Nat \ {0}
    BY Zenon, QueueAssumption
<1>2. IsFiniteSet(Cids)
    BY <1>1, FS_Interval DEF Cids
<1> QED
    BY <1>2, FS_Subset, FS_CardinalityType DEF Counted

\* Every step keeps InflightCmds the number of requests that are counted and not retired.
LEMMA InflightStep == DistinctCids /\ IInv /\ RInv /\ [Next]_vars => InflightExact'
<1> SUFFICES ASSUME DistinctCids, IInv, RInv, [Next]_vars
             PROVE  InflightCmds' = Cardinality(Counted') + Taken'
    BY DEF InflightExact, Counted, Taken
<1> DEFINE Goal == InflightCmds' = Cardinality(Counted') + Taken'
           Way == {"write", "count"}
           On(c, r) == \E q \in Cpus : c[q].srb = r /\ c[q].pc \in Way
<1>a. /\ TypeOK /\ LockInv /\ HistoryInv /\ History \in [Cids -> Reqs \cup {NULL}]
      /\ InflightCmds \in Int /\ dpc \in DpcType /\ "idle" \notin Way
    BY DEF IInv, RInv, TypeOK, DpcType
<1>b. InflightCmds = Cardinality(Counted) + Taken /\ Taken \in {0, 1}
    BY DEF RInv, InflightExact, Counted, Taken
<1>c. IsFiniteSet(Counted) /\ Cardinality(Counted) \in Nat
    BY CountedFinite
<1> HIDE DEF Way, On
<1>d. \A c \in Cids : c \in Counted <=> History[c] # NULL /\ ~On(cpu, History[c])
    BY DEF Counted, Entering, Way, On
<1>e. \A c \in Cids : c \in Counted' <=> History'[c] # NULL /\ ~On(cpu', History'[c])
    BY DEF Counted, Entering, Way, On
<1>f. Counted \subseteq Cids /\ Counted' \subseteq Cids
    BY DEF Counted, Cids
<1>g. ASSUME UNCHANGED <<History, InflightCmds>>, Taken' = Taken,
             \A r \in Reqs : On(cpu', r) <=> On(cpu, r)
      PROVE  Goal
    <2>1. \A c \in Cids : c \in Counted' <=> c \in Counted
        BY <1>a, <1>d, <1>e, <1>g
    <2>2. Counted' = Counted
        BY <1>f, <2>1
    <2> QED
        BY <1>b, <1>g, <2>2
<1> HIDE DEF Goal
<1>1. ASSUME NEW p \in Cpus, NEW x \in Reqs, Acquire(p, x) PROVE Goal
    <2>1. /\ \A q \in Cpus : cpu[q].pc = "idle"
          /\ cpu'[p].pc = "throttle"
          /\ \A q \in Cpus : q # p => cpu'[q].pc = "idle"
          /\ UNCHANGED <<History, InflightCmds, dpc>>
        BY <1>a, <1>1, AcquireEntering DEF dpcVars
    <2>2. \A r \in Reqs : ~On(cpu, r) /\ ~On(cpu', r)
        BY <1>a, <2>1 DEF On, Way
    <2> QED
        BY <1>g, <2>1, <2>2 DEF Taken
<1>2. ASSUME NEW p \in Cpus, SubmitStep(p) PROVE Goal
    <2> DEFINE x == cpu[p].srb
    <2>1. \A r \in Reqs : /\ On(cpu, r) <=> x = r /\ cpu[p].pc \in Way
                          /\ On(cpu', r) <=> cpu'[p].srb = r /\ cpu'[p].pc \in Way
        BY <1>2, <1>a, SubmitEntering DEF Entering, On
    <2>2. x \in Reqs /\ Taken' = Taken /\ (cpu'[p].srb = x \/ cpu'[p].pc = "idle")
        BY <1>a, <1>2, SubmitMoves, SubmitFrame DEF dpcVars, IdleCpu, Taken
    <2>3. CASE Push(p) /\ cpu[p].pc = "push" /\ cpu'[p].pc = "write"
        <3>1. /\ CidOf[x] \in Cids /\ History[CidOf[x]] = NULL /\ UNCHANGED InflightCmds
              /\ History' = [History EXCEPT ![CidOf[x]] = x]
            BY <2>3 DEF Push
        <3>2. \A c \in Cids : History'[c] = IF c = CidOf[x] THEN x ELSE History[c]
            BY <1>a, <3>1
        <3>3. \A c \in Cids : c # CidOf[x] /\ History[c] # NULL => History[c] \in Reqs /\ History[c] # x
            BY <1>a DEF HistoryInv
        <3>4. On(cpu', x) /\ \A r \in Reqs : ~On(cpu, r) /\ (r # x => ~On(cpu', r))
            BY <2>1, <2>2, <2>3 DEF Way
        <3>5. \A c \in Cids : c \in Counted' <=> c \in Counted
            BY <1>d, <1>e, <3>1, <3>2, <3>3, <3>4
        <3>6. Counted' = Counted
            BY <1>f, <3>5
        <3> QED
            BY <1>b, <2>2, <3>1, <3>6 DEF Goal
    <2>4. CASE CountInflight(p) /\ cpu[p].pc = "count" /\ cpu'[p].pc = "tail"
        <3>1. UNCHANGED History /\ InflightCmds' = InflightCmds + 1
            BY <2>4 DEF CountInflight
        <3>2. /\ On(cpu, x) /\ \A r \in Reqs : r # x => ~On(cpu, r)
              /\ \A r \in Reqs : ~On(cpu', r)
            BY <2>1, <2>2, <2>4 DEF Way
        <3>3. CidOf[x] \in Cids /\ History[CidOf[x]] = x
            <4>1. srb[x] = "issued"
                BY <2>4 DEF RInv, EntryInv, EntrySteps
            <4>2. \A q \in Cpus : q # p => cpu[q].pc = "idle"
                BY <1>a, <1>2, SubmitMoves
            <4>3. ~Entering(x, {"throttle", "push"})
                BY <2>4, <4>2 DEF Entering
            <4>4. ~Held(x)
                <5>1. Entering(x, EntrySteps)
                    BY <2>4 DEF Entering, EntrySteps
                <5> QED
                    BY <5>1 DEF RInv, CompletesOwnRequest, Held, Sent, EntrySteps
            <4> QED
                BY <1>a, <2>2, <4>1, <4>3, <4>4 DEF HistoryInv, InHistory
        <3>4. \A c \in Cids : c # CidOf[x] /\ History[c] # NULL => History[c] \in Reqs /\ History[c] # x
            BY <1>a DEF HistoryInv
        <3>5. CidOf[x] \notin Counted
            BY <1>d, <3>2, <3>3
        <3>6. \A c \in Cids : c \in Counted' <=> c \in Counted \/ c = CidOf[x]
            BY <1>d, <1>e, <2>2, <3>1, <3>2, <3>3, <3>4, NullFact
        <3>7. Counted' = Counted \cup {CidOf[x]}
            BY <1>f, <3>3, <3>6
        <3>8. Cardinality(Counted') = Cardinality(Counted) + 1
            BY <1>c, <3>5, <3>7, FS_AddElement
        <3> QED
            BY <1>b, <1>c, <2>2, <3>1, <3>8 DEF Goal
    <2>5. CASE WriteSlot(p) /\ cpu[p].pc = "write" /\ cpu'[p].pc = "count"
        BY <1>g, <2>1, <2>2, <2>5 DEF Way, WriteSlot
    <2>6. CASE /\ Refuse(p) \/ PassThrottle(p) \/ AdvanceTail(p) \/ RingSubDbl(p)
               /\ cpu[p].pc \notin Way /\ cpu'[p].pc \notin Way
        BY <1>g, <2>1, <2>2, <2>6 DEF Refuse, PassThrottle, AdvanceTail, RingSubDbl
    <2> QED
        BY <1>2, <2>3, <2>4, <2>5, <2>6, NextSteps DEF Way
<1>3. CASE DpcPop
    <2> DEFINE x == CplQ[CplHead].req
    <2>1. /\ x \in Reqs /\ Sent(x) /\ CidOf[x] \in Cids /\ History[CidOf[x]] = x
          /\ History' = [History EXCEPT ![CidOf[x]] = NULL]
          /\ dpc.pc = "poll" /\ dpc'.pc = "complete" /\ dpc'.srb = x
        BY <1>3, PopFinds
    <2> HIDE DEF x
    <2>2. UNCHANGED <<cpu, InflightCmds>>
        BY <1>3 DEF DpcPop
    <2>3. \A c \in Cids : History'[c] = IF c = CidOf[x] THEN NULL ELSE History[c]
        BY <1>a, <2>1
    <2>4. ~On(cpu, x)
        BY <2>1 DEF Sent, Entering, Way, On
    <2>5. CidOf[x] \in Counted
        BY <1>d, <2>1, <2>4, NullFact
    <2>6. \A r \in Reqs : On(cpu', r) <=> On(cpu, r)
        BY <2>2
    <2>7. \A c \in Cids : c \in Counted' <=> c \in Counted /\ c # CidOf[x]
        BY <1>a, <1>d, <1>e, <2>3, <2>6
    <2>8. Counted' = Counted \ {CidOf[x]}
        BY <1>f, <2>7
    <2>9. Cardinality(Counted') = Cardinality(Counted) - 1
        BY <1>c, <2>5, <2>8, FS_RemoveElement
    <2>10. Taken = 0 /\ Taken' = 1
        BY <2>1 DEF Taken
    <2> QED
        BY <1>b, <1>c, <2>2, <2>9, <2>10 DEF Goal
<1>4. CASE DpcRetire
    <2>1. UNCHANGED <<History, cpu>> /\ InflightCmds' = InflightCmds - 1
        BY <1>4 DEF DpcRetire
    <2>2. dpc.pc = "retire" /\ dpc'.pc = "advance"
        BY <1>a, <1>4 DEF DpcRetire, DpcGoto, DpcType
    <2>3. UNCHANGED Counted
        BY <2>1 DEF Counted, Entering
    <2>4. Taken = 1 /\ Taken' = 0
        BY <2>2 DEF Taken
    <2> QED
        BY <1>b, <1>c, <2>1, <2>3, <2>4 DEF Goal
<1>5. CASE \/ DpcComplete \/ DpcStart \/ DpcAdvance \/ DpcDrained \/ DpcRing
           \/ CtrlFetch \/ (\E r \in Reqs : CtrlPost(r)) \/ Isr \/ UNCHANGED vars
    <2>1. UNCHANGED <<History, InflightCmds>> /\ UNCHANGED cpu
        BY Zenon, <1>5 DEF DpcComplete, DpcStart, DpcAdvance, DpcDrained, DpcRing, DpcGoto,
                           CtrlFetch, CtrlPost, Isr, vars
    <2>2. Taken' = Taken
        <3>1. CASE CtrlFetch \/ (\E r \in Reqs : CtrlPost(r)) \/ Isr \/ UNCHANGED vars
            <4>1. UNCHANGED dpc
                BY Zenon, <3>1 DEF CtrlFetch, CtrlPost, Isr, vars, dpcVars
            <4> QED
                BY <4>1 DEF Taken
        <3>2. CASE DpcComplete \/ DpcDrained \/ DpcRing
            BY <1>a, <3>2 DEF DpcComplete, DpcDrained, DpcRing, DpcGoto, DpcType, Taken
        <3>3. CASE DpcStart \/ DpcAdvance
            BY <3>3 DEF DpcStart, DpcAdvance, Taken
        <3> QED
            BY <1>5, <3>1, <3>2, <3>3
    <2>3. \A r \in Reqs : On(cpu', r) <=> On(cpu, r)
        BY <2>1
    <2> QED
        BY <1>g, <2>1, <2>2, <2>3 DEF Goal
<1> QED
    BY <1>1, <1>2, <1>3, <1>4, <1>5, StepKinds DEF Goal

(****************************************************************************)
(* The theorems.                                                            *)
(****************************************************************************)

\* Every step keeps the invariant about requests.
LEMMA RStep == DistinctCids /\ IInv /\ RInv /\ [Next]_vars => RInv'
BY PlaceStep, HistoryStep, EntryStep, OwnStep, InflightStep DEF RInv

\* Both invariants hold in every state of the queue.
THEOREM RequestInvariance ==
    ASSUME Threshold <= Depth, DistinctCids
    PROVE  Spec => [](IInv /\ RInv)
<1>1. Init => IInv /\ RInv
    BY InitInv, InitRInv
<1>2. (IInv /\ RInv) /\ [Next]_vars => (IInv /\ RInv)'
    BY StepInv, RStep
<1> QED
    BY <1>1, <1>2, PTL DEF Spec

\* CompleteCmd, which finds the request by the CID in the completion and takes no lock,
\* hands back the request the controller has executed, and never one twice.
THEOREM OwnCompletion ==
    ASSUME Threshold <= Depth, DistinctCids
    PROVE  Spec => []CompletesOwnRequest
<1>1. RInv => CompletesOwnRequest
    BY DEF RInv
<1> QED
    BY <1>1, RequestInvariance, PTL

\* InflightCmds, which SubmitCmd raises under SubLock and the DPC lowers without it, is
\* exact at every step, so the throttle neither leaks slots nor gives too many.
THEOREM CounterIsExact ==
    ASSUME Threshold <= Depth, DistinctCids
    PROVE  Spec => []InflightExact
<1>1. RInv => InflightExact
    BY DEF RInv
<1> QED
    BY <1>1, RequestInvariance, PTL

\* How many copies of a command there are, from where it is.
LEMMA CopiesOf ==
    ASSUME RInv, NEW r \in Reqs
    PROVE  Copies(r) = IF Sent(r) THEN 1 ELSE 0
<1> DEFINE a == Cardinality(SubAt(r))
           b == Cardinality({r} \cap exec)
           c == Cardinality(CplAt(r))
<1>1. Copies(r) = a + b + c
    BY DEF Copies, SubAt, CplAt
<1>2. Cardinality({}) = 0 /\ \A x : Cardinality({x}) = 1
    BY FS_EmptySet, FS_Singleton
<1>3. (r \in exec => {r} \cap exec = {r}) /\ (r \notin exec => {r} \cap exec = {})
    OBVIOUS
<1>4. CASE ~Sent(r)
    <2>1. a = 0 /\ b = 0 /\ c = 0
        BY <1>2, <1>3, <1>4 DEF RInv, PlaceInv, Nowhere
    <2> QED
        BY <1>1, <1>4, <2>1
<1>5. CASE Sent(r) /\ InSubQ(r)
    <2>1. a = 1 /\ b = 0 /\ c = 0
        BY <1>2, <1>3, <1>5 DEF InSubQ
    <2> QED
        BY <1>1, <1>5, <2>1
<1>6. CASE Sent(r) /\ InExec(r)
    <2>1. a = 0 /\ b = 1 /\ c = 0
        BY <1>2, <1>3, <1>6 DEF InExec
    <2> QED
        BY <1>1, <1>6, <2>1
<1>7. CASE Sent(r) /\ InCplQ(r)
    <2>1. a = 0 /\ b = 0 /\ c = 1
        BY <1>2, <1>3, <1>7 DEF InCplQ
    <2> QED
        BY <1>1, <1>7, <2>1
<1> QED
    BY <1>4, <1>5, <1>6, <1>7 DEF RInv, PlaceInv

\* No command is lost or doubled between the moves of SubTail, SqHead, CqTail and CplHead,
\* and the CID of one that is outstanding always leads back to its request.
THEOREM NothingIsLost ==
    ASSUME Threshold <= Depth, DistinctCids
    PROVE  Spec => []NothingLost
<1>1. RInv => NothingLost
    <2> SUFFICES ASSUME RInv, NEW r \in Reqs, Sent(r)
                 PROVE  /\ Copies(r) = 1
                        /\ History[CidOf[r]] = r \/ (dpc.pc = "complete" /\ dpc.srb = r)
        BY DEF NothingLost
    <2>1. Copies(r) = 1
        BY CopiesOf
    <2>2. srb[r] = "issued" /\ ~Entering(r, {"throttle", "push"})
        BY DEF Sent, Entering
    <2>3. InHistory(r) \/ Held(r)
        BY <2>2 DEF RInv, HistoryInv
    <2> QED
        BY <2>1, <2>3 DEF InHistory, Held
<1> QED
    BY <1>1, RequestInvariance, PTL

\* When Storport has a request back, the controller has nothing left of it that could write
\* to memory the next request reuses.
THEOREM FreeLeavesNothing ==
    ASSUME Threshold <= Depth, DistinctCids
    PROVE  Spec => []FreeIsQuiet
<1>1. RInv => FreeIsQuiet
    BY CopiesOf DEF FreeIsQuiet, Sent
<1> QED
    BY <1>1, RequestInvariance, PTL

(****************************************************************************)
(* The refinement of SrbContract, but for its fairness.                     *)
(****************************************************************************)

\* The state of a request in the contract, from where its completion is and who has it.
Accepted(r)  == srb[r] = "issued" /\ ~Entering(r, {"throttle", "push"})
PhaseOf(r)   == IF CplAt(r) # {} THEN "executed" ELSE IF Accepted(r) THEN "accepted" ELSE "idle"

ContractView ==
    /\ ContractState = [r \in Reqs |-> PhaseOf(r)]
    /\ \A r \in Reqs : CplAt(r) # {} => Accepted(r)

\* A completion that waits belongs to an accepted request, so PhaseOf is the refinement mapping.
LEMMA ViewHolds == IInv /\ RInv => ContractView
<1> SUFFICES ASSUME IInv, RInv PROVE ContractView
    OBVIOUS
<1>a. /\ TypeOK /\ CplHead \in Slots /\ CqTail \in Slots
      /\ srb \in [Reqs -> {"free", "issued"}]
    BY DEF IInv, TypeOK
<1>1. \A r \in Reqs : CplAt(r) # {} => Accepted(r)
    BY DEF RInv, PlaceInv, Nowhere, Sent, Entering, Accepted
<1>2. dpc.pc = "complete" => CplHead \in Unconsumed /\ CplQ[CplHead].req = dpc.srb
    <2>1. dpc.pc = "complete" => CplHead # CqTail
        BY DEF IInv, CplRingInv
    <2>2. CplHead # CqTail => CplHead \in Window(CplHead, CqTail)
        BY <1>a, WindowShrink
    <2> QED
        BY <2>1, <2>2 DEF Unconsumed, RInv, CompletesOwnRequest
<1>3. \A r \in Reqs : r \in ExecutedReqs <=> CplAt(r) # {}
    BY <1>2 DEF ExecutedReqs, CplAt
<1>4. \A r \in Reqs : srb[r] = "free" \/ Entering(r, {"throttle", "push"}) <=> ~Accepted(r)
    BY <1>a DEF Accepted
<1> DEFINE View(r) ==
        CASE srb[r] = "free" \/ Entering(r, {"throttle", "push"}) -> "idle"
          [] r \in ExecutedReqs -> "executed"
          [] OTHER -> "accepted"
<1>5. ASSUME NEW r \in Reqs PROVE View(r) = PhaseOf(r)
    <2>1. CASE ~Accepted(r)
        <3>1. CplAt(r) = {}
            BY <1>1, <2>1
        <3>2. srb[r] = "free" \/ Entering(r, {"throttle", "push"})
            BY <1>4, <2>1
        <3>3. r \notin ExecutedReqs
            BY <1>3, <3>1
        <3> QED
            BY <2>1, <3>1, <3>2, <3>3 DEF PhaseOf
    <2>2. CASE Accepted(r)
        <3>1. ~(srb[r] = "free" \/ Entering(r, {"throttle", "push"}))
            BY <1>4, <2>2
        <3> QED
            BY <1>3, <2>2, <3>1 DEF PhaseOf
    <2> QED
        BY <2>1, <2>2
<1>6. ContractState = [r \in Reqs |-> View(r)]
    BY DEF ContractState
<1> HIDE DEF View
<1> QED
    BY <1>1, <1>5, <1>6 DEF ContractView

\* A request becomes an accepted one with its Push, and ceases to be with CompleteSrb.
LEMMA AcceptedKept ==
    ASSUME DistinctCids, IInv, RInv, [Next]_vars, ~DpcComplete, \A p \in Cpus : ~Push(p)
    PROVE  \A r \in Reqs : Accepted(r)' <=> Accepted(r)
<1> DEFINE Way == {"throttle", "push"}
<1>a. TypeOK /\ LockInv /\ srb \in [Reqs -> {"free", "issued"}] /\ "idle" \notin Way
    BY DEF IInv, TypeOK
<1>b. /\ \A r \in Reqs : Accepted(r) <=> srb[r] = "issued" /\ ~Entering(r, Way)
      /\ \A r \in Reqs : Accepted(r)' <=> srb'[r] = "issued" /\ ~Entering(r, Way)'
    BY DEF Accepted
<1> HIDE DEF Way
<1>1. ASSUME NEW p \in Cpus, NEW x \in Reqs, Acquire(p, x)
      PROVE  \A r \in Reqs : Accepted(r)' <=> Accepted(r)
    <2>1. /\ \A q \in Cpus : cpu[q].pc = "idle"
          /\ cpu'[p].srb = x /\ cpu'[p].pc = "throttle"
          /\ \A q \in Cpus : q # p => cpu'[q].pc = "idle"
          /\ \A r \in Reqs : srb'[r] = IF r = x THEN "issued" ELSE srb[r]
          /\ srb[x] = "free"
        BY <1>a, <1>1, AcquireEntering
    <2>2. \A r \in Reqs : ~Entering(r, Way) /\ (Entering(r, Way)' <=> r = x)
        BY <1>a, <2>1, OneInside DEF Entering, Way
    <2> QED
        BY <1>b, <2>1, <2>2
<1>2. ASSUME NEW p \in Cpus, SubmitStep(p)
      PROVE  \A r \in Reqs : Accepted(r)' <=> Accepted(r)
    <2> DEFINE x == cpu[p].srb
    <2>1. \A r \in Reqs : /\ Entering(r, Way) <=> x = r /\ cpu[p].pc \in Way
                          /\ Entering(r, Way)' <=> cpu'[p].srb = r /\ cpu'[p].pc \in Way
        BY <1>2, <1>a, SubmitEntering
    <2>2. x \in Reqs /\ (cpu'[p].srb = x \/ cpu'[p].pc = "idle")
        BY <1>a, <1>2, SubmitMoves DEF IdleCpu
    <2>3. CASE Refuse(p) /\ cpu[p].pc \in Way /\ cpu'[p].pc = "idle"
        <3>1. \A r \in Reqs : srb'[r] = IF r = x THEN "free" ELSE srb[r]
            BY <1>a, <2>2, <2>3 DEF Refuse
        <3> QED
            BY <1>a, <1>b, <2>1, <2>3, <3>1
    <2>4. CASE UNCHANGED srb /\ (cpu[p].pc \in Way <=> cpu'[p].pc \in Way)
        BY <1>a, <1>b, <2>1, <2>2, <2>4
    <2>5. ~Push(p)
        OBVIOUS
    <2> QED
        BY <1>2, <2>3, <2>4, <2>5, NextSteps
           DEF Way, PassThrottle, WriteSlot, CountInflight, AdvanceTail, RingSubDbl
<1>3. CASE UNCHANGED <<srb, cpu>>
    BY <1>3 DEF Accepted, Entering
<1>4. CASE DpcPop
    BY <1>3, <1>4 DEF DpcPop
<1> QED
    BY <1>1, <1>2, <1>3, <1>4, StepKinds, PlainStep

\* The Push of a request is the step that accepts it.
LEMMA AcceptedByPush ==
    ASSUME DistinctCids, IInv, RInv, NEW p \in Cpus, Push(p)
    PROVE  /\ cpu[p].srb \in Reqs /\ ~Accepted(cpu[p].srb)
           /\ \A r \in Reqs : Accepted(r)' <=> Accepted(r) \/ r = cpu[p].srb
<1> DEFINE x == cpu[p].srb
<1>a. TypeOK /\ LockInv /\ EntryInv /\ SubmitStep(p)
    BY DEF IInv, RInv, SubmitStep
<1>1. x \in Reqs /\ UNCHANGED srb /\ cpu[p].pc = "push" /\ cpu'[p].pc = "write" /\ cpu'[p].srb = x
    BY <1>a, SubmitMoves, GotoStep DEF Push, SubmitGoto
<1>2. srb[x] = "issued"
    BY <1>a, <1>1 DEF EntryInv, EntrySteps
<1>3. \A r \in Reqs : /\ Entering(r, {"throttle", "push"}) <=> x = r
                      /\ ~Entering(r, {"throttle", "push"})'
    BY <1>1, <1>a, SubmitEntering
<1> QED
    BY <1>1, <1>2, <1>3 DEF Accepted

\* Every step of the queue is a step of the contract, or none.
LEMMA ContractStep ==
    ASSUME DistinctCids, IInv, RInv, ContractView, ContractView', [Next]_vars
    PROVE  [Contract!Next]_ContractState
<1>a. ContractState = [r \in Reqs |-> PhaseOf(r)] /\ ContractState' = [r \in Reqs |-> PhaseOf(r)']
    BY DEF ContractView
<1>b. \A r \in Reqs : (CplAt(r) # {} => Accepted(r)) /\ (CplAt(r)' # {} => Accepted(r)')
    BY DEF ContractView
<1>c. ASSUME NEW x \in Reqs, NEW from, NEW to, PhaseOf(x) = from, PhaseOf(x)' = to,
             \A r \in Reqs : r # x => PhaseOf(r)' = PhaseOf(r)
      PROVE  Contract!Move(x, from, to)
    BY <1>a, <1>c DEF Contract!Move
<1>d. ASSUME \A r \in Reqs : PhaseOf(r)' = PhaseOf(r) PROVE UNCHANGED ContractState
    BY <1>a, <1>d
<1>e. ASSUME UNCHANGED <<CplQ, Unconsumed>> PROVE \A r : CplAt(r)' = CplAt(r)
    BY <1>e DEF CplAt
<1>1. CASE DpcComplete
    <2>x. PICK x \in Reqs : x = dpc.srb
        BY <1>1, SentByComplete
    <2>1. /\ x \in Reqs /\ Sent(x) /\ CplQ[CplHead].req = x
          /\ srb'[x] = "free" /\ \A r \in Reqs : r # x => srb'[r] = srb[r]
        BY <1>1, <2>x, SentByComplete
    <2>2. UNCHANGED <<cpu, CplQ, CplHead, CqTail>> /\ dpc.pc = "complete" /\ dpc'.pc = "retire"
        BY <1>1 DEF DpcComplete, DpcGoto, ctrlVars, IInv, TypeOK
    <2>3. CplHead \in Unconsumed /\ Unconsumed' = Unconsumed \ {CplHead}
        <3>1. CplHead \in Slots /\ CqTail \in Slots /\ CplHead # CqTail
            BY <2>2 DEF IInv, TypeOK, CplRingInv
        <3>2. CplHead \in Window(CplHead, CqTail)
            BY <3>1, WindowShrink
        <3> QED
            BY <2>2, <3>2 DEF Unconsumed
    <2>4. \A r \in Reqs : CplAt(r)' = CplAt(r) \ {CplHead} /\ (CplHead \in CplAt(r) <=> r = x)
        BY <2>1, <2>2, <2>3 DEF CplAt
    <2>5. PhaseOf(x) = "executed"
        BY <2>1, <2>4 DEF PhaseOf
    <2>6. ~Accepted(x)'
        BY <2>1 DEF Accepted
    <2>7. PhaseOf(x)' = "idle"
        BY <1>b, <2>1, <2>6 DEF PhaseOf
    <2>8. ASSUME NEW r \in Reqs, r # x PROVE PhaseOf(r)' = PhaseOf(r)
        <3>1. CplAt(r)' = CplAt(r)
            BY <2>4, <2>8
        <3>2. Accepted(r)' <=> Accepted(r)
            BY <2>1, <2>2, <2>8 DEF Accepted, Entering
        <3> QED
            BY <3>1, <3>2 DEF PhaseOf
    <2> QED
        BY <1>c, <2>1, <2>5, <2>7, <2>8 DEF Contract!Next, Contract!Complete
<1>2. ASSUME NEW x \in Reqs, CtrlPost(x) PROVE \E r \in Reqs : Contract!Execute(r)
    <2>1. /\ x \in exec /\ CqTail' = Wrap(CqTail) /\ Wrap(CqTail) # CplDbl
          /\ CplQ' = [CplQ EXCEPT ![CqTail] = [req |-> x, phase |-> CqPhase]]
          /\ UNCHANGED <<srb, cpu, CplHead, dpc>>
        BY <1>2 DEF CtrlPost, dpcVars
    <2>a. /\ TypeOK /\ CplHead \in Slots /\ CqTail \in Slots
          /\ CplQ \in [Slots -> [req : Reqs \cup {NULL}, phase : Phases]]
        BY DEF IInv, TypeOK
    <2>2. Wrap(CqTail) # CplHead
        BY <2>1, RoomToPost DEF IInv
    <2>3. /\ Window(CplHead, CqTail') = Window(CplHead, CqTail) \cup {CqTail}
          /\ CqTail \notin Window(CplHead, CqTail)
        BY <2>a, <2>1, <2>2, WindowGrow
    <2>4. dpc.pc \in {"retire", "advance"} => CplHead # CqTail
        BY DEF IInv, CplRingInv
    <2>5. Unconsumed' = Unconsumed \cup {CqTail} /\ CqTail \notin Unconsumed
        BY <2>1, <2>3, <2>4 DEF Unconsumed
    <2>6. \A i \in Slots : CplQ'[i].req = IF i = CqTail THEN x ELSE CplQ[i].req
        BY <2>a, <2>1
    <2>7. Unconsumed \subseteq Slots
        BY <2>a, WindowEmpty DEF Unconsumed
    <2>8. \A r \in Reqs : CplAt(r)' = IF r = x THEN CplAt(r) \cup {CqTail} ELSE CplAt(r)
        BY <2>a, <2>5, <2>6, <2>7 DEF CplAt
    <2>9. \A r \in Reqs : Accepted(r)' <=> Accepted(r)
        BY <2>1 DEF Accepted, Entering
    <2>10. CplAt(x) = {} /\ Accepted(x)
        BY <2>1 DEF RInv, PlaceInv, InSubQ, InExec, InCplQ, Nowhere, Sent, Entering, Accepted
    <2>11. PhaseOf(x) = "accepted" /\ PhaseOf(x)' = "executed"
        BY <2>8, <2>10 DEF PhaseOf
    <2>12. \A r \in Reqs : r # x => PhaseOf(r)' = PhaseOf(r)
        BY <2>8, <2>9 DEF PhaseOf
    <2>13. Contract!Execute(x)
        BY <1>c, <2>11, <2>12 DEF Contract!Execute
    <2> QED
        BY <2>13
<1>3. ASSUME NEW p \in Cpus, Push(p) PROVE \E r \in Reqs : Contract!Accept(r)
    <2>x. PICK x \in Reqs : x = cpu[p].srb
        BY <1>3, AcceptedByPush
    <2>1. x \in Reqs /\ ~Accepted(x) /\ \A r \in Reqs : Accepted(r)' <=> Accepted(r) \/ r = x
        BY <1>3, <2>x, AcceptedByPush
    <2>2. \A r : CplAt(r)' = CplAt(r)
        <3>1. UNCHANGED <<dpcVars, ctrlVars>>
            BY <1>3 DEF Push, SubmitGoto
        <3> QED
            BY <1>e, <3>1 DEF dpcVars, ctrlVars, Unconsumed
    <2>3. PhaseOf(x) = "idle" /\ PhaseOf(x)' = "accepted"
        BY <1>b, <2>1, <2>2 DEF PhaseOf
    <2>4. \A r \in Reqs : r # x => PhaseOf(r)' = PhaseOf(r)
        BY <2>1, <2>2 DEF PhaseOf
    <2>5. Contract!Accept(x)
        BY <1>c, <2>1, <2>3, <2>4 DEF Contract!Accept
    <2> QED
        BY <2>1, <2>5
<1>4. CASE ~DpcComplete /\ (\A p \in Cpus : ~Push(p)) /\ (\A r \in Reqs : ~CtrlPost(r))
    <2>1. \A r \in Reqs : Accepted(r)' <=> Accepted(r)
        BY <1>4, AcceptedKept
    <2>2. \A r : CplAt(r)' = CplAt(r)
        BY <1>4, <1>e, CplAtKept
    <2> QED
        BY <1>d, <2>1, <2>2 DEF PhaseOf
<1> QED
    BY <1>1, <1>2, <1>3, <1>4 DEF Contract!Next

\* The queue refines what it promises Storport: a request is completed only after the
\* controller executed its command, and once.  Of KeepsContract this leaves the fairness.
THEOREM StepsKeepContract ==
    ASSUME Threshold <= Depth, DistinctCids
    PROVE  Spec => Contract!Init /\ [][Contract!Next]_ContractState
<1>1. Init => Contract!Init
    <2> SUFFICES ASSUME Init PROVE ContractState = [r \in Reqs |-> "idle"]
        BY DEF Contract!Init
    <2>1. \A r \in Reqs : ~Accepted(r)
        BY DEF Init, Accepted
    <2>2. ContractView
        BY InitInv, InitRInv, ViewHolds
    <2>3. \A r \in Reqs : PhaseOf(r) = "idle"
        BY <2>1, <2>2 DEF ContractView, PhaseOf
    <2> QED
        BY <2>2, <2>3 DEF ContractView
<1>2. (IInv /\ RInv) /\ (IInv /\ RInv)' /\ [Next]_vars => [Contract!Next]_ContractState
    <2>1. IInv /\ RInv => ContractView
        BY ViewHolds
    <2>2. (IInv /\ RInv)' => ContractView'
        BY <2>1, PTL
    <2> QED
        BY <2>1, <2>2, ContractStep
<1> QED
    BY <1>1, <1>2, RequestInvariance, PTL DEF Spec
=============================================================================
