--------------------------- MODULE NvmeDeviceProofs ---------------------------
(****************************************************************************)
(* Proofs about NvmeDevice, for every number of wanted and of available     *)
(* queues, namespaces, workers, sleeps, resets and faults.                  *)
(****************************************************************************)
EXTENDS NvmeDevice, TLAPS

(****************************************************************************)
(* The inductive invariant, in named parts.                                 *)
(****************************************************************************)

\* Where the PnP thread is: up to the first command, in the initialization, or with a device
\* that has started.  In scope are the steps before a removal or a failure.
BootSteps == {"find", "disable", "disableWait", "disableWrite", "disableDone", "disabled",
              "disableFailed", "register", "enable", "enableWait", "enableWrite", "enableOn",
              "enableDone"}
InitSteps == {"submit", "wait", "initialize", "passive", "stage2", "create", "allocate",
              "registered"}
RunSteps  == {"started", "restart"}
InScope   == th["pnp"].pc \in BootSteps \cup InitSteps \cup RunSteps /\ th["pnp"].job # "remove"

\* Each thread's job fits its step.
QueueJobs  == {"cq", "sq"}
StageJobs  == {"ident", "list", "ns", "number"}
PnpFits(m) ==
    /\ m.pc \in {"submit", "wait"} => m.job # "remove"
    /\ m.pc \in {"find", "register", "enable", "enableWait", "enableWrite", "enableOn",
                 "enableDone", "initialize", "passive"} => m.job = "find"
    /\ m.pc \in {"disable", "disableWait", "disableWrite", "disableDone", "disabled",
                 "disableFailed", "teardown"} => m.job \in {"find", "remove"}
    /\ m.pc \in {"stage2", "create", "allocate"} => m.job \in StageJobs
    /\ m.pc \in {"registered", "started", "restart"} => m.job \in QueueJobs
    /\ m.pc \in {"shutdown", "shutdownWait", "shutdownWrite", "shutdownDone", "removed"}
           => m.job = "remove"
    /\ m.pc \notin {"idle", "begin", "resume"}
WorkerFits(m) ==
    /\ m.pc \in {"idle", "begin", "submit", "wait", "stage2", "resume"}
    /\ m.job \in (StageJobs \ {"number"}) \cup {"find"}
    /\ m.pc \in {"submit", "wait"} => m.job \in StageJobs
JobInv == PnpFits(th["pnp"]) /\ \A w \in Workers : WorkerFits(th[w])

\* The counters of queues: none is registered before the PnP thread creates them, then one
\* for each index it is past.
Registers(m) == m.pc \in {"submit", "wait"} /\ m.job \in QueueJobs
Counted(m, registered, allocated) ==
    /\ m.pc \in BootSteps \cup (InitSteps \ {"registered"}) /\ m.job # "remove" /\ ~Registers(m)
           => registered = 0
    /\ Registers(m) => registered = m.i /\ registered < allocated
    /\ m.pc \notin {"removed", "failed"} => registered <= allocated
Registering == Registers(th["pnp"])
CountInv ==
    /\ Counted(th["pnp"], RegisteredIoQ, IoQ)
    /\ \A c \in sent : c.job \in QueueJobs => c.i \in QueueIds

\* EnableController looks at CSTS before it writes CC, and the controller keeps still.
QuietInv ==
    th["pnp"].pc \in {"enableWrite", "enableOn"} => ~ctl.en /\ (~ctl.rdy \/ ctl.cfs)

\* The controller is asked for the number of queues only if the registry leaves it open.
NumberInv ==
    /\ th["pnp"].pc # "find" /\ DesiredIoQ = 0 => 0 \in Registry
    /\ th["pnp"].job = "number" => 0 \in Registry

\* Types, and the facts they rest on.
TypeInv == TypeOK /\ JobInv /\ CountInv /\ NumberInv

\* What IoOnlyToRegistered leaves out by name.
Excused == ctl.gone \/ env.masked \/ env.refused \/ env.overlap

\* A controller that was enabled stays so until a removal or a sleep.
EnabledInv ==
    /\ th["pnp"].pc = "enable" /\ IsControllerReady => ctl.en
    /\ th["pnp"].pc \in InitSteps \cup {"enableDone"} => ctl.en

\* Requests and bus resets need a started device, and State is RUNNING but for a bus reset.
StateInv ==
    /\ io.pc # "idle" /\ ~ctl.gone => th["pnp"].pc = "started" /\ io.q < RegisteredIoQ
    /\ rb # "idle" /\ ~ctl.gone => th["pnp"].pc = "started"
    /\ InScope /\ th["pnp"].pc # "find" /\ ~ctl.gone =>
           /\ AdmQ
           /\ State = IF rb = "idle" THEN "RUNNING" ELSE "RESETBUS"

\* One restart at a time, and only with a started, paused device without requests.
RestartInv ==
    ~Excused /\ InScope =>
        /\ Restarting => th["pnp"].pc = "started" /\ paused /\ io.pc = "idle" /\ rb = "idle"
        /\ \A w, v \in Workers : ~At(w, "idle") /\ ~At(v, "idle") => w = v
        /\ "restart" \in dpcs => \A w \in Workers : At(w, "idle")

\* The command of a thread that waits is the only one, with the controller or on its way
\* back; otherwise there is none.
Pending(t) == At(t, "wait") /\ status[t] = "pending"
Own(t)     == [by |-> t, job |-> th[t].job, i |-> th[t].i]
AdminInv ==
    ~Excused /\ InScope =>
        /\ \A t \in Threads : Pending(t) =>
              /\ slot = t
              /\ \A c \in sent : c = Own(t)
              /\ \A c \in posted : c.cmd = Own(t)
        /\ (\A t \in Threads : ~Pending(t)) => slot = NULL /\ sent = {} /\ posted = {}
        /\ sent = {} \/ posted = {}
        /\ \A c, d \in posted : c = d

\* A success reported for a queue is one the controller had, and the SubQ comes second.
EffectInv ==
    ~Excused /\ InScope =>
        /\ \A c \in posted :
              /\ c.result # "masked"
              /\ c.result = "success" /\ c.cmd.job = "cq" => c.cmd.i \in ctl.cqs
              /\ c.result = "success" /\ c.cmd.job = "sq" => c.cmd.i \in ctl.sqs
        /\ Registering /\ th["pnp"].job = "sq" => th["pnp"].i \in ctl.cqs
        /\ At("pnp", "wait") /\ status["pnp"] = "success" =>
              /\ th["pnp"].job = "cq" => th["pnp"].i \in ctl.cqs
              /\ th["pnp"].job = "sq" => th["pnp"].i \in ctl.sqs

\* The queues the driver takes for registered are the controller's, or a sleep has lost them:
\* then the controller is off and the worker waits for it for ever.
Backed == \A q \in 0 .. RegisteredIoQ - 1 : q \in ctl.cqs \cap ctl.sqs
Lost ==
    /\ ~ctl.en /\ posted = {}
    /\ th["pnp"].pc = "restart" \/ (th["pnp"].pc = "started" /\ Restarting)
    /\ \A w \in Workers : /\ th[w].pc \in {"idle", "begin", "submit", "wait"}
                          /\ At(w, "wait") => status[w] = "pending"
BackedInv ==
    ~Excused /\ InScope =>
        (Backed /\ (th["pnp"].pc \in RunSteps => ctl.en)) \/ Lost

\* Without a fault the PnP thread does not fail, the controller is off when RegisterAdmQ
\* looks, every command that can succeed does, and no queue is ever freed.
HealthInv ==
    ~env.fault =>
        /\ ~ctl.gone /\ ~env.masked /\ ~env.refused /\ ~env.overlap /\ ~ctl.cfs /\ ~crashed
        /\ InScope \/ th["pnp"].job = "remove"
        /\ th["pnp"].job = "remove" =>
              /\ AdmQ
              /\ State = IF th["pnp"].pc = "shutdown" THEN "RUNNING" ELSE "SHUTDOWN"
        /\ th["pnp"].pc = "find" => dpcs = {} /\ ~connected
        /\ th["pnp"].pc \in {"find", "disable"} /\ th["pnp"].job = "find" /\ ctl.en => ctl.rdy
        /\ th["pnp"].pc = "disableDone" => ~ctl.en
        /\ th["pnp"].pc \in {"disabled", "register"} /\ th["pnp"].job = "find" => ~ctl.en /\ ~ctl.rdy
        /\ th["pnp"].pc \notin {"disableFailed", "restart"}
        /\ th["pnp"].pc = "allocate" => DesiredIoQ > 0
        /\ th["pnp"].pc \in {"registered", "started"} => RegisteredIoQ > 0
        /\ "io" \in dpcs => IoQ > 0
        /\ ~Restarting

\* No command fails but the registration of a queue that is not the first.
CommandInv ==
    ~env.fault /\ InScope =>
        /\ \A c \in posted : c.result = "error" => c.cmd.job = "cq" /\ c.cmd.i > 0
        /\ At("pnp", "wait") => \/ status["pnp"] \in {"pending", "success"}
                                \/ th["pnp"].job = "cq" /\ th["pnp"].i > 0

(****************************************************************************)
(* The moves of a thread.                                                   *)
(****************************************************************************)
ThType == [Threads -> [pc : Steps, job : Jobs, i : 0 .. MaxIoQ + Namespaces]]

\* Goto changes one thread's step.
LEMMA GotoFacts ==
    ASSUME th \in ThType, NEW t \in Threads, NEW s \in Steps, Goto(t, s)
    PROVE  /\ th' \in ThType
           /\ th'[t].pc = s /\ th'[t].job = th[t].job /\ th'[t].i = th[t].i
           /\ \A u \in Threads : u # t => th'[u] = th[u]
BY DEF ThType, Goto

\* Do gives one thread its next command.
LEMMA DoFacts ==
    ASSUME th \in ThType, NEW t \in Threads, NEW j \in Jobs,
           NEW i \in 0 .. MaxIoQ + Namespaces, Do(t, j, i)
    PROVE  /\ th' \in ThType
           /\ th'[t].pc = "submit" /\ th'[t].job = j /\ th'[t].i = i
           /\ \A u \in Threads : u # t => th'[u] = th[u]
BY DEF ThType, Do, Steps

\* The PnP thread and the workers are threads, and different.
LEMMA ThreadFacts ==
    /\ "pnp" \in Threads /\ Workers \subseteq Threads
    /\ \A w \in Workers : w # "pnp"
    /\ \A t \in Threads : t # "pnp" => t \in Workers
    /\ NULL \notin Threads
BY DeviceAssumption DEF Threads

\* Where a failed command leads.
LEMMA FailedFacts ==
    ASSUME th \in ThType, JobInv, NEW t \in Threads, th[t].pc \in {"submit", "wait"}, Failed(t)
    PROVE  /\ th' \in ThType /\ RegisteredIoQ' = RegisteredIoQ
           /\ th'[t].job = th[t].job /\ th'[t].i = th[t].i
           /\ \A u \in Threads : u # t => th'[u] = th[u]
           /\ t \in Workers => th'[t].pc = "resume"
           /\ t = "pnp" => th'[t].pc = CASE th[t].job = "find" -> "teardown"
                                         [] th[t].job \in QueueJobs -> "registered"
                                         [] th[t].job \in StageJobs -> "failed"
<1>1. CASE t = "pnp"
    <2>1. th[t].job \in QueueJobs \cup StageJobs \cup {"find"}
        BY <1>1 DEF JobInv, PnpFits, ThType, Jobs, QueueJobs, StageJobs
    <2>2. CASE th[t].job = "find"
        BY <2>2, <1>1, GotoFacts, ThreadFacts DEF Failed, Steps, QueueJobs, StageJobs
    <2>3. CASE th[t].job \in QueueJobs
        BY <2>3, <1>1, GotoFacts, ThreadFacts DEF Failed, Steps, QueueJobs, StageJobs
    <2>4. CASE th[t].job \in StageJobs
        BY <2>4, <1>1, GotoFacts, ThreadFacts DEF Failed, Steps, QueueJobs, StageJobs
    <2> QED
        BY <2>1, <2>2, <2>3, <2>4
<1>2. CASE t \in Workers
    <2>1. th[t].job \in StageJobs
        BY <1>2 DEF JobInv, WorkerFits
    <2> QED
        BY <2>1, <1>2, GotoFacts, ThreadFacts DEF Failed, Steps, QueueJobs, StageJobs
<1> QED
    BY <1>1, <1>2, ThreadFacts

\* Where a refused command leads, and what it leaves behind.
LEMMA RefusedFacts ==
    ASSUME TypeInv, NEW t \in Threads, Refused(t)
    PROVE  /\ th' \in ThType /\ RegisteredIoQ' = RegisteredIoQ
           /\ th'[t].job = th[t].job /\ th'[t].i = th[t].i
           /\ \A u \in Threads : u # t => th'[u] = th[u]
           /\ t = "pnp" => th'[t].pc = IF th[t].job = "find" THEN "teardown" ELSE "failed"
           /\ t \in Workers => th'[t].pc = "resume"
           /\ env'.fault /\ (t \in Workers => env'.refused)
           /\ env.refused => env'.refused
           /\ env' = [env EXCEPT !.fault = TRUE, !.refused = env'.refused]
           /\ env'.refused \in BOOLEAN
<1>a. /\ th \in ThType /\ JobInv
      /\ env \in [fault : BOOLEAN, masked : BOOLEAN, refused : BOOLEAN, overlap : BOOLEAN,
                  sleeps : 0 .. MaxSleeps, resets : 0 .. MaxResets]
    BY DEF TypeInv, TypeOK, ThType
<1>1. env' = [env EXCEPT !.fault = TRUE, !.refused = env.refused \/ t # "pnp"]
    BY DEF Refused
<1>2. env'.fault /\ env'.refused = (env.refused \/ t # "pnp") /\ env'.refused \in BOOLEAN
    BY <1>1, <1>a
<1>3. env' = [env EXCEPT !.fault = TRUE, !.refused = env'.refused]
    BY <1>1, <1>2
<1>4. \A s \in {"teardown", "failed", "resume"} : s \in Steps
    BY DEF Steps
<1>5. Goto(t, IF t # "pnp" THEN "resume"
             ELSE IF th[t].job = "find" THEN "teardown" ELSE "failed")
    BY DEF Refused
<1>6. CASE t # "pnp"
    BY <1>2, <1>3, <1>4, <1>5, <1>6, <1>a, GotoFacts, ThreadFacts DEF Refused
<1>7. CASE t = "pnp" /\ th[t].job = "find"
    BY <1>2, <1>3, <1>4, <1>5, <1>7, <1>a, GotoFacts, ThreadFacts DEF Refused
<1>8. CASE t = "pnp" /\ th[t].job # "find"
    BY <1>2, <1>3, <1>4, <1>5, <1>8, <1>a, GotoFacts, ThreadFacts DEF Refused
<1> QED
    BY <1>6, <1>7, <1>8

\* SubmitAdmCmd fails, is refused, or sends the command.
Sent(t) ==
    /\ sent' = sent \cup {Own(t)} /\ slot' = t
    /\ status' = [s \in Threads |-> CASE s = t -> "pending"
                                      [] s = slot /\ s # t -> "error"
                                      [] OTHER -> status[s]]
    /\ Goto(t, "wait")
    /\ UNCHANGED <<posted, RegisteredIoQ, env>>
LEMMA SubmitCases ==
    ASSUME NEW t \in Threads, Submit(t)
    PROVE  \/ /\ Failed(t) /\ UNCHANGED admin /\ UNCHANGED env
              /\ th[t].job \notin {"cq", "sq"} /\ ~(IsWorking /\ AdmQ)
           \/ Refused(t) /\ UNCHANGED admin
           \/ Sent(t)
BY DEF Submit, Sent, Own

\* The number of queues a completion leaves.
LEMMA NumberFacts ==
    ASSUME TypeInv, NEW t \in Threads, NEW n \in NumberAfter(t)
    PROVE  n \in 0 .. MaxIoQ
<1>1. DesiredIoQ \in 0 .. MaxIoQ
    BY DEF TypeInv, TypeOK
<1>2. th[t].job = "number" => t = "pnp"
    BY ThreadFacts DEF TypeInv, JobInv, WorkerFits, StageJobs
<1>3. th[t].job = "number" => CtrlQueues \in 0 .. MaxIoQ
    BY <1>2, DeviceAssumption DEF TypeInv, NumberInv
<1> QED
    BY <1>1, <1>3 DEF NumberAfter

\* Where a successful command leads: to the next command or to the next step.
LEMMA SucceededFacts ==
    ASSUME TypeInv, NEW t \in Threads, th[t].pc = "wait", Succeeded(t)
    PROVE  /\ th' \in ThType
           /\ \A u \in Threads : u # t => th'[u] = th[u]
           /\ th[t].job = "find"  => /\ th'[t].pc = "initialize" /\ th'[t].job = "find"
                                     /\ RegisteredIoQ' = RegisteredIoQ
           /\ th[t].job \in StageJobs =>
                 /\ th'[t].pc \in {"submit", "stage2", "allocate"} /\ th'[t].job \in StageJobs
                 /\ th[t].job # "number" => th'[t].pc # "allocate" /\ th'[t].job # "number"
                 /\ RegisteredIoQ' = RegisteredIoQ
           /\ th[t].job = "cq" =>
                 /\ th'[t].pc = "submit" /\ th'[t].job = "sq" /\ th'[t].i = th[t].i
                 /\ RegisteredIoQ' = RegisteredIoQ
           /\ th[t].job = "sq" =>
                 /\ RegisteredIoQ' = RegisteredIoQ + 1
                 /\ \/ /\ th'[t].pc = "submit" /\ th'[t].job = "cq"
                       /\ th'[t].i = th[t].i + 1 /\ th[t].i + 1 < IoQ
                    \/ th'[t].pc = "registered" /\ th'[t].job = "sq"
<1> USE DEF TypeInv
<1>a. /\ th \in ThType /\ IoQ \in 0 .. MaxIoQ /\ MaxIoQ \in Nat /\ Namespaces \in Nat
      /\ th[t].i \in 0 .. MaxIoQ + Namespaces
    BY DeviceAssumption DEF TypeOK, ThType
<1>b. /\ "find" \in Jobs /\ "ident" \in Jobs /\ "list" \in Jobs /\ "ns" \in Jobs
      /\ "cq" \in Jobs /\ "sq" \in Jobs /\ 0 \in 0 .. MaxIoQ + Namespaces
      /\ "allocate" \in Steps /\ "initialize" \in Steps /\ "stage2" \in Steps
      /\ "registered" \in Steps
    BY <1>a DEF Jobs, Steps
<1>c. NextJob(t) /\ RegisteredIf(th[t].job = "sq")
    BY DEF Succeeded
<1>d. ASSUME NEW i \in Nat, NextNs(t, i), i <= MaxIoQ + Namespaces + 1
      PROVE  /\ th' \in ThType
             /\ \A u \in Threads : u # t => th'[u] = th[u]
             /\ \/ th'[t].pc = "submit" /\ th'[t].job = "ns"
                \/ th'[t].pc = "stage2" /\ th'[t].job = th[t].job
    <2>1. CASE i < NsCount
        <3>1. NsCount \in Nat /\ NsCount <= 1 + Namespaces /\ MaxIoQ >= 1
            BY DeviceAssumption DEF NsCount
        <3>2. i \in 0 .. MaxIoQ + Namespaces
            BY <2>1, <3>1, <1>a
        <3> QED
            BY <2>1, <3>2, <1>a, <1>b, <1>d, DoFacts DEF NextNs
    <2>2. CASE ~(i < NsCount)
        BY <2>2, <1>a, <1>b, <1>d, GotoFacts DEF NextNs
    <2> QED
        BY <2>1, <2>2
<1>1. CASE th[t].job = "find"
    BY <1>1, <1>a, <1>b, <1>c, GotoFacts DEF NextJob, RegisteredIf, StageJobs
<1>2. CASE th[t].job = "ident"
    <2>1. CASE Nvme10
        <3>1. NextNs(t, 0)
            BY <1>2, <2>1, <1>c DEF NextJob
        <3> QED
            BY <3>1, <1>2, <1>a, <1>c, <1>d DEF RegisteredIf, StageJobs
    <2>2. CASE ~Nvme10
        BY <1>2, <2>2, <1>a, <1>b, <1>c, DoFacts DEF NextJob, RegisteredIf, StageJobs
    <2> QED
        BY <2>1, <2>2
<1>3. CASE th[t].job = "list"
    <2>1. NextNs(t, 0)
        BY <1>3, <1>c DEF NextJob
    <2> QED
        BY <2>1, <1>3, <1>a, <1>c, <1>d DEF RegisteredIf, StageJobs
<1>4. CASE th[t].job = "ns"
    <2>1. NextNs(t, th[t].i + 1)
        BY <1>4, <1>c DEF NextJob
    <2> QED
        BY <2>1, <1>4, <1>a, <1>c, <1>d DEF RegisteredIf, StageJobs
<1>5. CASE th[t].job = "cq"
    BY <1>5, <1>a, <1>b, <1>c, DoFacts DEF NextJob, RegisteredIf, StageJobs
<1>6. CASE th[t].job = "sq"
    <2>1. CASE th[t].i + 1 < IoQ
        <3>1. th[t].i + 1 \in 0 .. MaxIoQ + Namespaces
            BY <2>1, <1>a
        <3> QED
            BY <1>6, <2>1, <3>1, <1>a, <1>b, <1>c, DoFacts DEF NextJob, RegisteredIf, StageJobs
    <2>2. CASE ~(th[t].i + 1 < IoQ)
        BY <1>6, <2>2, <1>a, <1>b, <1>c, GotoFacts DEF NextJob, RegisteredIf, StageJobs
    <2> QED
        BY <2>1, <2>2
<1>7. CASE th[t].job = "number"
    BY <1>7, <1>a, <1>b, <1>c, GotoFacts DEF NextJob, RegisteredIf, StageJobs
<1>8. th[t].job \in {"find", "ident", "list", "ns", "number", "cq", "sq"}
    BY ThreadFacts, <1>a DEF JobInv, PnpFits, WorkerFits, ThType, Jobs, StageJobs
<1> QED
    BY <1>1, <1>2, <1>3, <1>4, <1>5, <1>6, <1>7, <1>8

(****************************************************************************)
(* Which actions change which variable.                                     *)
(****************************************************************************)
\* Which actions change which variable.
LEMMA Changes ==
    ASSUME Next
    PROVE  /\ UNCHANGED State \/ Setup \/ Shutdown \/ Teardown \/ ResetBus \/ ResetIo
           /\ UNCHANGED DesiredIoQ \/ Setup \/ \E t \in Threads : Wait(t)
           /\ UNCHANGED AdmQ \/ Setup \/ Teardown
           /\ UNCHANGED IoQ \/ Setup \/ CreateIoQ \/ Teardown
           /\ UNCHANGED RegisteredIoQ \/ Setup \/ Disabled \/ (\E t \in Threads : Wait(t)) \/
              (\E t \in Threads : Submit(t))
           /\ UNCHANGED paused \/ PassiveInitialize \/ Registered \/ RestartController \/
              (\E w \in Workers : WorkerResume(w))
           /\ UNCHANGED connected \/ Initialize
           /\ UNCHANGED <<slot, status, sent, posted>> \/ (\E t \in Threads : Submit(t)) \/
              (\E c \in posted : Poll(c)) \/ AdmDpc \/ PowerCycle \/ ResetAdm \/ CtrlReset \/
              (\E c \in sent : CtrlExecute(c))
           /\ UNCHANGED io \/ PickQueue \/ SubmitIo \/ ResetIo \/ IoDpc \/ CtrlExecuteIo
           /\ UNCHANGED rb \/ ResetBus \/ ResetAdm \/ ResetIo
           /\ UNCHANGED irq \/ (\E m \in {"adm", "io"} : Isr(m)) \/
              (\E c \in sent : CtrlExecute(c)) \/ CtrlExecuteIo
           /\ UNCHANGED dpcs \/ RestartController \/ RestartAdapterDpc \/ AdmDpc \/ IoDpc \/
              (\E m \in {"adm", "io"} : Isr(m))
           /\ UNCHANGED ctl \/ DisableWrite \/ RegisterAdmQ \/ EnableWrite \/ EnableOn \/
              ShutdownWrite \/ SurpriseRemoval \/ PowerCycle \/ CtrlReady \/ CtrlReset \/
              CtrlShutdown \/ (\E c \in sent : CtrlExecute(c)) \/ CtrlFatal
           /\ UNCHANGED crashed \/ RegisterAdmQ \/ ShutdownWait \/ PickQueue \/ SubmitIo \/
              ResetAdm \/ ResetIo \/ AdmDpc \/ IoDpc
           /\ UNCHANGED env \/ Setup \/ DisableWait \/ DisableDone \/ EnableWait \/ EnableDone \/
              Initialize \/ CreateIoQ \/ ShutdownWait \/ ShutdownDone \/ SurpriseRemoval \/
              PowerCycle \/ ResetBus \/ (\E c \in sent : CtrlExecute(c)) \/ CtrlFatal \/
              RegisterAdmQ \/ (\E t \in Threads : Submit(t))
<1> USE ThreadFacts DEF Next, PnpStep, WorkerStep, DpcStep, CtrlStep, queues, traffic, admin,
   FreeQueues, Failed, Refused, Consume, Setup, Disable, DisableWait, DisableWrite, DisableDone,
   Disabled, RegisterAdmQ, Enable, EnableWait, EnableWrite, EnableOn, EnableDone, Submit, Wait,
   Poll, Initialize, PassiveInitialize, Stage2, CreateIoQueues, CreateIoQ, Registered, Shutdown,
   ShutdownWait, ShutdownWrite, ShutdownDone, Teardown, RestartController, WorkerBegin,
   WorkerResume, AdmDpc, IoDpc, RestartAdapterDpc, Isr, PickQueue, SubmitIo, ResetBus, ResetAdm,
   ResetIo, RemoveDevice, SurpriseRemoval, PowerCycle, CtrlReady, CtrlReset, CtrlShutdown,
   CtrlExecute, CtrlExecuteIo, CtrlFatal
<1>1. UNCHANGED State \/ Setup \/ Shutdown \/ Teardown \/ ResetBus \/ ResetIo
    OBVIOUS
<1>2. UNCHANGED AdmQ \/ Setup \/ Teardown
    OBVIOUS
<1>3. UNCHANGED IoQ \/ Setup \/ CreateIoQ \/ Teardown
    OBVIOUS
<1>4. UNCHANGED RegisteredIoQ \/ Setup \/ Disabled \/ (\E t \in Threads : Wait(t)) \/
      (\E t \in Threads : Submit(t))
    OBVIOUS
<1>5. UNCHANGED paused \/ PassiveInitialize \/ Registered \/ RestartController \/
      (\E w \in Workers : WorkerResume(w))
    OBVIOUS
<1>6. UNCHANGED connected \/ Initialize
    OBVIOUS
<1>7. UNCHANGED <<slot, status, sent, posted>> \/ (\E t \in Threads : Submit(t)) \/
      (\E c \in posted : Poll(c)) \/ AdmDpc \/ PowerCycle \/ ResetAdm \/ CtrlReset \/
      (\E c \in sent : CtrlExecute(c))
    OBVIOUS
<1>8. UNCHANGED io \/ PickQueue \/ SubmitIo \/ ResetIo \/ IoDpc \/ CtrlExecuteIo
    OBVIOUS
<1>9. UNCHANGED rb \/ ResetBus \/ ResetAdm \/ ResetIo
    OBVIOUS
<1>10. UNCHANGED irq \/ (\E m \in {"adm", "io"} : Isr(m)) \/
      (\E c \in sent : CtrlExecute(c)) \/ CtrlExecuteIo
    OBVIOUS
<1>11. UNCHANGED dpcs \/ RestartController \/ RestartAdapterDpc \/ AdmDpc \/ IoDpc \/
      (\E m \in {"adm", "io"} : Isr(m))
    OBVIOUS
<1>12. UNCHANGED ctl \/ DisableWrite \/ RegisterAdmQ \/ EnableWrite \/ EnableOn \/
      ShutdownWrite \/ SurpriseRemoval \/ PowerCycle \/ CtrlReady \/ CtrlReset \/
      CtrlShutdown \/ (\E c \in sent : CtrlExecute(c)) \/ CtrlFatal
    OBVIOUS
<1>13. UNCHANGED crashed \/ RegisterAdmQ \/ ShutdownWait \/ PickQueue \/ SubmitIo \/
      ResetAdm \/ ResetIo \/ AdmDpc \/ IoDpc
    OBVIOUS
<1>14. UNCHANGED env \/ Setup \/ DisableWait \/ DisableDone \/ EnableWait \/ EnableDone \/
      Initialize \/ CreateIoQ \/ ShutdownWait \/ ShutdownDone \/ SurpriseRemoval \/
      PowerCycle \/ ResetBus \/ (\E c \in sent : CtrlExecute(c)) \/ CtrlFatal \/
      RegisterAdmQ \/ (\E t \in Threads : Submit(t))
    OBVIOUS
<1>15. UNCHANGED DesiredIoQ \/ Setup \/ \E t \in Threads : Wait(t)
    OBVIOUS
<1> QED
    BY <1>1, <1>2, <1>3, <1>4, <1>5, <1>6, <1>7, <1>8, <1>9, <1>10, <1>11, <1>12, <1>13, <1>14,
       <1>15

(****************************************************************************)
(* Types, jobs and counters.                                                *)
(****************************************************************************)
EnvType == [fault : BOOLEAN, masked : BOOLEAN, refused : BOOLEAN, overlap : BOOLEAN,
            sleeps : 0 .. MaxSleeps, resets : 0 .. MaxResets]
CtlType == [en : BOOLEAN, rdy : BOOLEAN, cfs : BOOLEAN, shn : BOOLEAN, shst : BOOLEAN,
            aqa : BOOLEAN, cqs : SUBSET QueueIds, sqs : SUBSET QueueIds, gone : BOOLEAN]
IoType == [pc : {"idle", "submit", "sent", "posted"}, q : QueueIds]
StatusType == [Threads -> {"none", "pending", "success", "error"}]
PostedType == [cmd : Commands, result : {"success", "error", "masked"}]

\* The device's own variables.
LEMMA TypeDevice ==
    ASSUME TypeInv, Next
    PROVE  /\ State' \in {"STOP", "RUNNING", "SHUTDOWN", "RESETBUS"}
           /\ DesiredIoQ' \in 0 .. MaxIoQ /\ AdmQ' \in BOOLEAN /\ IoQ' \in 0 .. MaxIoQ
           /\ paused' \in BOOLEAN /\ connected' \in BOOLEAN /\ crashed' \in BOOLEAN
           /\ rb' \in {"idle", "adm", "io"}
           /\ irq' \subseteq {"adm", "io"} /\ dpcs' \subseteq {"adm", "io", "restart"}
<1> USE DEF TypeInv, TypeOK
<1>1. State' \in {"STOP", "RUNNING", "SHUTDOWN", "RESETBUS"}
    BY Changes DEF Setup, Shutdown, Teardown, FreeQueues, ResetBus, ResetIo, queues
<1>2. AdmQ' \in BOOLEAN
    BY Changes DEF Setup, Teardown, FreeQueues, queues
<1>3. IoQ' \in 0 .. MaxIoQ
    <2>a. MaxIoQ \in Nat \ {0}
        BY DeviceAssumption
    <2>1. CASE Setup
        BY <2>a, <2>1 DEF Setup
    <2>2. CASE CreateIoQ
        BY <2>a, <2>2 DEF CreateIoQ
    <2>3. CASE Teardown
        BY <2>a, <2>3 DEF Teardown, FreeQueues, queues
    <2> QED
        BY <2>1, <2>2, <2>3, Changes
<1>4. paused' \in BOOLEAN
    BY Changes DEF PassiveInitialize, Registered, RestartController, WorkerResume
<1>5. connected' \in BOOLEAN
    BY Changes DEF Initialize
<1>6. crashed' \in BOOLEAN
    <2>1. CASE RegisterAdmQ \/ PickQueue
        BY <2>1 DEF RegisterAdmQ, PickQueue
    <2>2. CASE ShutdownWait
        BY <2>2, Zenon DEF ShutdownWait
    <2>3. CASE SubmitIo
        BY <2>3 DEF SubmitIo
    <2>4. CASE ResetAdm
        BY <2>4, Zenon DEF ResetAdm
    <2>5. CASE ResetIo
        BY <2>5 DEF ResetIo
    <2>6. CASE AdmDpc \/ IoDpc
        BY <2>6 DEF AdmDpc, IoDpc
    <2> QED
        BY <2>1, <2>2, <2>3, <2>4, <2>5, <2>6, Changes
<1>7. rb' \in {"idle", "adm", "io"}
    BY Changes DEF ResetBus, ResetAdm, ResetIo
<1>8. irq' \subseteq {"adm", "io"}
    <2>1. irq \subseteq {"adm", "io"}
        BY DEF TypeInv, TypeOK
    <2>2. (\E m \in {"adm", "io"} : Isr(m)) => irq' \subseteq irq
        BY DEF Isr
    <2>3. (\E c \in sent : CtrlExecute(c)) => irq' = irq \cup {"adm"}
        BY DEF CtrlExecute
    <2>4. CtrlExecuteIo => irq' = irq \cup {"io"}
        BY DEF CtrlExecuteIo
    <2> QED
        BY <2>1, <2>2, <2>3, <2>4, Changes
<1>9. dpcs' \subseteq {"adm", "io", "restart"}
    <2>1. CASE AdmDpc
        BY <2>1 DEF AdmDpc
    <2>2. CASE RestartController \/ RestartAdapterDpc \/ IoDpc \/ \E m \in {"adm", "io"} : Isr(m)
        BY <2>2 DEF RestartController, RestartAdapterDpc, IoDpc, Isr
    <2> QED
        BY <2>1, <2>2, Changes
<1>10. DesiredIoQ' \in 0 .. MaxIoQ
    <2>1. CASE Setup
        BY <2>1, DeviceAssumption DEF Setup
    <2>2. ASSUME NEW t \in Threads, Wait(t)
          PROVE  DesiredIoQ' \in 0 .. MaxIoQ
        BY <2>2, NumberFacts DEF Wait
    <2> QED
        BY <2>1, <2>2, Changes
<1> QED
    BY <1>1, <1>2, <1>3, <1>4, <1>5, <1>6, <1>7, <1>8, <1>9, <1>10

\* The controller, what happened to the adapter, and the request.
LEMMA TypeOutside ==
    ASSUME TypeInv, Next
    PROVE  ctl' \in CtlType /\ env' \in EnvType /\ io' \in IoType
<1>a. /\ ctl \in CtlType /\ env \in EnvType /\ io \in IoType
      /\ RegisteredIoQ \in 0 .. MaxIoQ /\ MaxIoQ \in Nat \ {0}
    BY DeviceAssumption DEF TypeInv, TypeOK, CtlType, EnvType, IoType
<1>1. ctl' \in CtlType
    <2>1. ASSUME NEW c \in sent, CtrlExecute(c)
          PROVE  ctl' \in CtlType
        <3>1. c.job \in QueueJobs => c.i \in QueueIds
            BY <2>1 DEF TypeInv, CountInv
        <3>2. /\ (IF c.job = "cq" THEN ctl.cqs \cup {c.i} ELSE ctl.cqs) \in SUBSET QueueIds
              /\ (IF c.job = "sq" THEN ctl.sqs \cup {c.i} ELSE ctl.sqs) \in SUBSET QueueIds
            BY <3>1, <1>a DEF CtlType, QueueJobs
        <3> QED
            BY <2>1, <3>2, <1>a DEF CtrlExecute, CtlType
    <2>2. CASE DisableWrite \/ RegisterAdmQ \/ EnableWrite \/ EnableOn \/ ShutdownWrite \/
               SurpriseRemoval
        BY <2>2, <1>a DEF DisableWrite, RegisterAdmQ, EnableWrite, EnableOn, ShutdownWrite,
           SurpriseRemoval, CtlType
    <2>3. CASE PowerCycle \/ CtrlReady \/ CtrlReset \/ CtrlShutdown \/ CtrlFatal
        BY <2>3, <1>a DEF PowerCycle, CtrlReady, CtrlReset, CtrlShutdown, CtrlFatal, CtlType
    <2> QED
        BY <2>1, <2>2, <2>3, <1>a, Changes
<1>2. env' \in EnvType
    <2>1. Faulty => env' \in EnvType
        BY <1>a DEF Faulty, EnvType
    <2>2. CASE PowerCycle \/ ResetBus
        <3>1. MaxSleeps \in Nat /\ MaxResets \in Nat
            BY DeviceAssumption
        <3>2. CASE PowerCycle
            <4>1. PICK o \in BOOLEAN :
                      env' = [env EXCEPT !.sleeps = @ + 1, !.fault = TRUE, !.overlap = o]
                <5> DEFINE o == env.overlap \/ Restarting
                <5>1. o \in BOOLEAN
                    OBVIOUS
                <5>2. env' = [env EXCEPT !.sleeps = @ + 1, !.fault = TRUE, !.overlap = o]
                    BY <3>2 DEF PowerCycle
                <5> QED
                    BY <5>1, <5>2
            <4>2. env.sleeps + 1 \in 0 .. MaxSleeps
                BY <3>1, <3>2, <1>a DEF PowerCycle, EnvType
            <4> QED
                BY <4>1, <4>2, <1>a DEF EnvType
        <3>3. CASE ResetBus
            BY <3>3, <3>1, <1>a DEF ResetBus, EnvType
        <3> QED
            BY <2>2, <3>2, <3>3
    <2>3. ASSUME NEW c \in sent, CtrlExecute(c)
          PROVE  env' \in EnvType
        BY <2>3, <1>a DEF CtrlExecute, EnvType
    <2>4. ASSUME NEW t \in Threads, Submit(t)
          PROVE  env' \in EnvType
        BY <2>4, <1>a, SubmitCases, RefusedFacts DEF Sent, EnvType
    <2> QED
        BY <2>1, <2>2, <2>3, <2>4, <1>a, Changes DEF Setup, DisableWait, DisableDone, EnableWait,
           EnableDone, Initialize, CreateIoQ, ShutdownWait, ShutdownDone, Await,
           SurpriseRemoval, CtrlFatal, RegisterAdmQ
<1>3. io' \in IoType
    <2>1. CASE PickQueue
        BY <2>1, <1>a DEF PickQueue, IoType, QueueIds
    <2>2. CASE SubmitIo \/ ResetIo \/ IoDpc \/ CtrlExecuteIo
        BY <2>2, <1>a DEF SubmitIo, ResetIo, IoDpc, CtrlExecuteIo, IoType
    <2> QED
        BY <2>1, <2>2, <1>a, Changes
<1> QED
    BY <1>1, <1>2, <1>3

\* The admin queue.
LEMMA TypeAdmin ==
    ASSUME TypeInv, Next, th' \in ThType
    PROVE  /\ slot' \in Threads \cup {NULL} /\ status' \in StatusType
           /\ sent' \subseteq Commands /\ posted' \subseteq PostedType
<1>a. /\ th \in ThType /\ slot \in Threads \cup {NULL} /\ status \in StatusType
      /\ sent \subseteq Commands /\ posted \subseteq PostedType
    BY DEF TypeInv, TypeOK, ThType, StatusType, PostedType
<1> DEFINE Typed == /\ slot' \in Threads \cup {NULL} /\ status' \in StatusType
                    /\ sent' \subseteq Commands /\ posted' \subseteq PostedType
<1>1. ASSUME NEW t \in Threads, Submit(t)
      PROVE  Typed
    <2>1. CASE UNCHANGED admin
        BY <2>1, <1>a DEF admin
    <2>2. CASE ~UNCHANGED admin
        <3>1. /\ sent' = sent \cup {Own(t)}
              /\ slot' = t /\ posted' = posted
              /\ status' = [s \in Threads |-> CASE s = t -> "pending"
                                                [] s = slot /\ s # t -> "error"
                                                [] OTHER -> status[s]]
            BY <1>1, <2>2, SubmitCases DEF Sent
        <3>2. Own(t) \in Commands
            BY <1>a DEF Commands, ThType, Own
        <3>3. status' \in StatusType
            BY <3>1, <1>a DEF StatusType
        <3> QED
            BY <3>1, <3>2, <3>3, <1>a
    <2> QED
        BY <2>1, <2>2
<1>2. ASSUME NEW c \in posted, Consume(c)
      PROVE  Typed
    <2>1. NvmeToSrbStatus(c.result) \in {"success", "error"}
        BY <1>a DEF NvmeToSrbStatus, PostedType
    <2>2. status' \in StatusType
        BY <2>1, <1>2, <1>a DEF Consume, StatusType
    <2> QED
        BY <2>2, <1>2, <1>a DEF Consume
<1>3. CASE ResetAdm
    BY <1>3, <1>a DEF ResetAdm, StatusType
<1>4. CASE CtrlReset \/ PowerCycle
    BY <1>4, <1>a DEF CtrlReset, PowerCycle
<1>5. ASSUME NEW c \in sent, CtrlExecute(c)
      PROVE  Typed
    <2>1. c \in Commands /\ Rejection(c) \in {"masked", "error"}
        BY <1>a DEF Rejection
    <2>2. sent' \subseteq sent /\ slot' = slot /\ status' = status
        BY <1>5 DEF CtrlExecute
    <2>3. \E result \in {"success", "error", "masked"} :
              posted' = posted \cup {[cmd |-> c, result |-> result]}
        BY <1>5, <2>1 DEF CtrlExecute
    <2> QED
        BY <2>1, <2>2, <2>3, <1>a DEF PostedType
<1> QED
    BY <1>1, <1>2, <1>3, <1>4, <1>5, <1>a, Changes DEF Poll, AdmDpc, admin

\* The steps of the PnP thread, and of a worker, that are not commands.
PnpWalk ==
    \/ Setup \/ Disable \/ DisableWait \/ DisableWrite \/ DisableDone \/ Disabled
    \/ RegisterAdmQ \/ Enable \/ EnableWait \/ EnableWrite \/ EnableOn \/ EnableDone
    \/ Initialize \/ PassiveInitialize \/ Stage2("pnp") \/ CreateIoQueues \/ CreateIoQ
    \/ Registered \/ Shutdown \/ ShutdownWait \/ ShutdownWrite \/ ShutdownDone \/ Teardown
    \/ RestartController \/ RemoveDevice \/ SurpriseRemoval \/ PowerCycle
WorkerWalk(w) == WorkerBegin(w) \/ Stage2(w) \/ WorkerResume(w)

\* Who moves.
LEMMA ThChanges ==
    ASSUME Next
    PROVE  \/ UNCHANGED <<th, queues>>
           \/ PnpWalk
           \/ \E w \in Workers : WorkerWalk(w)
           \/ RestartAdapterDpc
           \/ \E t \in Threads : Submit(t) \/ Wait(t)
BY ThreadFacts DEF queues, PnpWalk, WorkerWalk, Next, PnpStep, WorkerStep, DpcStep, CtrlStep,
   Poll, AdmDpc, IoDpc, Isr, PickQueue, SubmitIo, ResetBus, ResetAdm, ResetIo, CtrlReady,
   CtrlReset, CtrlShutdown, CtrlExecute, CtrlExecuteIo, CtrlFatal

\* The PnP thread takes a step that fits its job.
LEMMA PnpMoves ==
    ASSUME TypeInv, PnpWalk
    PROVE  /\ th' \in ThType /\ PnpFits(th'["pnp"])
           /\ \A w \in Workers : th'[w] = th[w]
<1>a. th \in ThType /\ PnpFits(th["pnp"]) /\ 0 \in 0 .. MaxIoQ + Namespaces
    BY DeviceAssumption DEF TypeInv, TypeOK, ThType, JobInv
<1> USE ThreadFacts
<1>1. CASE Setup
    BY <1>1, <1>a, GotoFacts DEF Setup, At, Steps, PnpFits
<1>2. CASE Disable \/ DisableWait \/ DisableWrite \/ DisableDone
    BY <1>2, <1>a, GotoFacts DEF Disable, DisableWait, DisableWrite, DisableDone, Await, At,
       Steps, PnpFits
<1>3. CASE Disabled
    BY <1>3, <1>a, GotoFacts DEF Disabled, At, Steps, PnpFits
<1>4. CASE RegisterAdmQ
    BY <1>4, <1>a, GotoFacts DEF RegisterAdmQ, At, Steps, PnpFits
<1>5. CASE Enable \/ EnableWait \/ EnableWrite \/ EnableOn \/ EnableDone
    BY <1>5, <1>a, GotoFacts DEF Enable, EnableWait, EnableWrite, EnableOn, EnableDone, Await,
       At, Steps, PnpFits
<1>6. CASE Initialize \/ PassiveInitialize \/ Stage2("pnp") 
    BY <1>6, <1>a, GotoFacts, DoFacts DEF Initialize, PassiveInitialize, Stage2, At, Steps, Jobs,
       StageJobs, PnpFits
<1>7. CASE CreateIoQueues \/ Registered
    BY <1>7, <1>a, GotoFacts, DoFacts DEF CreateIoQueues, Registered, At, Steps, Jobs, PnpFits,
       StageJobs
<1>11. CASE CreateIoQ
    BY <1>11, <1>a, GotoFacts, DoFacts DEF CreateIoQ, At, Steps, Jobs, PnpFits
<1>8. CASE Shutdown \/ ShutdownWait \/ ShutdownWrite \/ ShutdownDone \/ Teardown
    BY <1>8, <1>a, GotoFacts DEF Shutdown, ShutdownWait, ShutdownWrite, ShutdownDone, Teardown,
       Await, At, Steps, PnpFits
<1>9. CASE RestartController \/ PowerCycle
    BY <1>9, <1>a, GotoFacts DEF RestartController, PowerCycle, At, Steps, PnpFits
<1>10. CASE RemoveDevice \/ SurpriseRemoval
    BY <1>10, <1>a DEF RemoveDevice, SurpriseRemoval, At, Steps, Jobs, PnpFits, ThType
<1> QED
    BY <1>1, <1>2, <1>3, <1>4, <1>5, <1>6, <1>7, <1>8, <1>9, <1>10, <1>11 DEF PnpWalk

\* A command that is submitted leads to a wait, or has failed, or was refused.
LEMMA SubmitFacts ==
    ASSUME TypeInv, NEW t \in Threads, Submit(t)
    PROVE  /\ th[t].pc = "submit" /\ th' \in ThType
           /\ th'[t].job = th[t].job /\ th'[t].i = th[t].i
           /\ \A u \in Threads : u # t => th'[u] = th[u]
           /\ RegisteredIoQ' = RegisteredIoQ
           /\ \/ /\ Failed(t) /\ UNCHANGED admin /\ UNCHANGED env
                 /\ th[t].job \notin QueueJobs /\ ~(IsWorking /\ AdmQ)
              \/ Refused(t) /\ UNCHANGED admin
              \/ /\ th'[t].pc = "wait" /\ slot' = t /\ posted' = posted /\ UNCHANGED env
                 /\ sent' = sent \cup {Own(t)}
                 /\ status' = [s \in Threads |-> CASE s = t -> "pending"
                                                   [] s = slot /\ s # t -> "error"
                                                   [] OTHER -> status[s]]
<1>a. th \in ThType /\ th[t].pc = "submit" /\ JobInv
    BY DEF TypeInv, TypeOK, ThType, Submit, At
<1>1. CASE /\ Failed(t) /\ UNCHANGED admin /\ UNCHANGED env
           /\ th[t].job \notin {"cq", "sq"} /\ ~(IsWorking /\ AdmQ)
    BY <1>1, <1>a, FailedFacts DEF QueueJobs
<1>2. CASE Refused(t) /\ UNCHANGED admin
    BY <1>2, <1>a, RefusedFacts
<1>3. CASE Sent(t)
    BY <1>3, <1>a, GotoFacts DEF Sent, Steps
<1> QED
    BY <1>1, <1>2, <1>3, SubmitCases

\* However a command ends, its thread takes a step that fits its job.
LEMMA CommandMoves ==
    ASSUME TypeInv, NEW t \in Threads, Submit(t) \/ Wait(t)
    PROVE  /\ th' \in ThType /\ JobInv'
           /\ \A u \in Threads : u # t => th'[u] = th[u]
<1>a. /\ th \in ThType /\ PnpFits(th["pnp"]) /\ \A w \in Workers : WorkerFits(th[w])
      /\ th[t].pc \in {"submit", "wait"} /\ th[t].job \in Jobs /\ JobInv
    BY DEF TypeInv, TypeOK, ThType, JobInv, Submit, Wait, At
<1>1. /\ th' \in ThType /\ \A u \in Threads : u # t => th'[u] = th[u]
      /\ t = "pnp" => PnpFits(th'[t])
      /\ t \in Workers => WorkerFits(th'[t])
    <2>1. CASE Failed(t)
        BY <2>1, <1>a, FailedFacts, ThreadFacts DEF PnpFits, WorkerFits, QueueJobs, StageJobs,
           Jobs
    <2>2. CASE Succeeded(t) /\ Wait(t)
        BY <2>2, <1>a, SucceededFacts, ThreadFacts DEF PnpFits, WorkerFits, QueueJobs, StageJobs,
           Jobs, Wait, At
    <2>3. CASE Refused(t)
        BY <2>3, <1>a, RefusedFacts, ThreadFacts DEF PnpFits, WorkerFits, QueueJobs, StageJobs,
           Jobs
    <2>4. CASE Submit(t)
        BY <2>1, <2>3, <2>4, <1>a, SubmitFacts, ThreadFacts DEF PnpFits, WorkerFits, QueueJobs,
           StageJobs, Jobs
    <2> QED
        BY <2>1, <2>2, <2>4 DEF Wait
<1> QED
    BY <1>1, <1>a, ThreadFacts DEF JobInv

\* Every step of a thread fits its job.
LEMMA JobStep ==
    ASSUME TypeInv, Next
    PROVE  th' \in ThType /\ JobInv'
<1>a. /\ th \in ThType /\ PnpFits(th["pnp"]) /\ \A w \in Workers : WorkerFits(th[w])
      /\ 0 \in 0 .. MaxIoQ + Namespaces
    BY DeviceAssumption DEF TypeInv, TypeOK, ThType, JobInv
<1>b. ASSUME NEW w \in Workers, th' \in ThType, WorkerFits(th'[w]),
             \A u \in Threads : u # w => th'[u] = th[u]
      PROVE  th' \in ThType /\ JobInv'
    BY <1>a, <1>b, ThreadFacts DEF JobInv
<1>1. CASE UNCHANGED th
    BY <1>1, <1>a DEF JobInv
<1>2. CASE \E t \in Threads : Submit(t) \/ Wait(t)
    BY <1>2, CommandMoves
<1>3. CASE PnpWalk
    BY <1>3, <1>a, PnpMoves DEF JobInv
<1>4. ASSUME NEW w \in Workers, WorkerWalk(w)
      PROVE  th' \in ThType /\ JobInv'
    <2>1. CASE WorkerBegin(w)
        BY <2>1, <1>a, <1>b, GotoFacts, DoFacts, ThreadFacts DEF WorkerBegin, At, Steps, Jobs,
           StageJobs, WorkerFits
    <2>2. CASE Stage2(w) \/ WorkerResume(w)
        BY <2>2, <1>a, <1>b, GotoFacts, ThreadFacts DEF Stage2, WorkerResume, At, Steps,
           WorkerFits
    <2> QED
        BY <1>4, <2>1, <2>2 DEF WorkerWalk
<1>5. CASE RestartAdapterDpc
    <2>1. CASE UNCHANGED th
        BY <2>1, <1>1
    <2>2. ASSUME NEW w \in Workers, At(w, "idle"), Goto(w, "begin")
          PROVE  th' \in ThType /\ JobInv'
        BY <2>2, <1>a, <1>b, GotoFacts, ThreadFacts DEF At, Steps, WorkerFits
    <2> QED
        BY <1>5, <2>1, <2>2 DEF RestartAdapterDpc
<1> QED
    BY <1>1, <1>2, <1>3, <1>4, <1>5, ThChanges DEF queues

\* The counters go with the steps of the PnP thread.
LEMMA CountersStep ==
    ASSUME TypeInv, Next
    PROVE  Counted(th'["pnp"], RegisteredIoQ', IoQ') /\ RegisteredIoQ' \in 0 .. MaxIoQ
<1> DEFINE m == th["pnp"]
<1> USE DEF TypeInv
<1>a. /\ th \in ThType /\ PnpFits(m) /\ \A w \in Workers : WorkerFits(th[w])
      /\ MaxIoQ \in Nat \ {0} /\ 0 \in 0 .. MaxIoQ + Namespaces
      /\ IoQ \in 0 .. MaxIoQ /\ RegisteredIoQ \in 0 .. MaxIoQ /\ m.i \in Nat
      /\ TypeInv /\ "pnp" \in Threads
    BY DeviceAssumption, ThreadFacts DEF TypeOK, ThType, JobInv
<1>b. Counted(m, RegisteredIoQ, IoQ)
    BY <1>a DEF CountInv
<1>c. ASSUME UNCHANGED <<RegisteredIoQ, IoQ>>, th'["pnp"] = m
      PROVE  Counted(th'["pnp"], RegisteredIoQ', IoQ') /\ RegisteredIoQ' \in 0 .. MaxIoQ
    BY <1>a, <1>b, <1>c
<1>1. CASE PnpWalk
    <2>1. CASE Setup
        BY <2>1, <1>a, <1>b, GotoFacts DEF Setup, Steps, Counted, Registers, BootSteps, InitSteps
    <2>2. CASE Disable \/ DisableWait \/ DisableWrite \/ DisableDone
        BY <2>2, <1>a, <1>b, GotoFacts DEF Disable, DisableWait, DisableWrite, DisableDone,
           Await, At, Steps, queues, Counted, Registers, BootSteps, InitSteps
    <2>3. CASE Disabled
        BY <2>3, <1>a, <1>b, GotoFacts DEF Disabled, At, Steps, Counted, Registers, BootSteps,
           InitSteps
    <2>4. CASE RegisterAdmQ
        BY <2>4, <1>a, <1>b, GotoFacts DEF RegisterAdmQ, At, Steps, Counted, Registers,
           BootSteps, InitSteps, queues
    <2>5. CASE Enable \/ EnableWait \/ EnableWrite \/ EnableOn \/ EnableDone
        BY <2>5, <1>a, <1>b, GotoFacts DEF Enable, EnableWait, EnableWrite, EnableOn, EnableDone,
           Await, At, Steps, Counted, Registers, BootSteps, InitSteps, queues, PnpFits, QueueJobs
    <2>6. CASE Initialize \/ PassiveInitialize \/ Stage2("pnp")
        BY <2>6, <1>a, <1>b, GotoFacts, DoFacts DEF Initialize, PassiveInitialize, Stage2, At,
           Steps, Jobs, Counted, Registers, BootSteps, InitSteps, queues, PnpFits, QueueJobs,
           StageJobs
    <2>7. CASE CreateIoQueues \/ Registered
        BY <2>7, <1>a, <1>b, GotoFacts, DoFacts DEF CreateIoQueues, Registered, At, Steps, Jobs,
           Counted, Registers, BootSteps, InitSteps, queues, PnpFits, QueueJobs, StageJobs
    <2>11. CASE CreateIoQ
        <3>1. m.pc = "allocate" /\ RegisteredIoQ = 0 /\ RegisteredIoQ' = 0
            BY <2>11, <1>a, <1>b DEF CreateIoQ, At, Counted, Registers, BootSteps, InitSteps,
               PnpFits, StageJobs
        <3>2. CASE DesiredIoQ > 0 /\ IoQ' = DesiredIoQ /\ Do("pnp", "cq", 0)
            BY <3>1, <3>2, <1>a, DoFacts DEF Jobs, Counted, Registers, QueueJobs, TypeOK
        <3>3. CASE Goto("pnp", "failed")
            BY <3>1, <3>3, <1>a, GotoFacts DEF Steps, Counted, Registers, BootSteps, InitSteps
        <3> QED
            BY <2>11, <3>2, <3>3 DEF CreateIoQ
    <2>8. CASE Shutdown \/ ShutdownWait \/ ShutdownWrite \/ ShutdownDone \/ Teardown
        BY <2>8, <1>a, <1>b, GotoFacts DEF Shutdown, ShutdownWait, ShutdownWrite, ShutdownDone,
           Teardown, FreeQueues, Await, At, Steps, Counted, Registers, BootSteps, InitSteps,
           queues, PnpFits
    <2>9. CASE RestartController \/ PowerCycle
        BY <2>9, <1>a, <1>b, GotoFacts DEF RestartController, PowerCycle, At, Steps, Counted,
           Registers, BootSteps, InitSteps, queues
    <2>10. CASE RemoveDevice \/ SurpriseRemoval
        BY <2>10, <1>a, <1>b DEF RemoveDevice, SurpriseRemoval, At, Counted, Registers,
           BootSteps, InitSteps, queues, ThType
    <2> QED
        BY <1>1, <2>1, <2>2, <2>3, <2>4, <2>5, <2>6, <2>7, <2>8, <2>9, <2>10, <2>11 DEF PnpWalk
<1>2. CASE Submit("pnp")
    <2>1. IoQ' = IoQ
        BY <1>2 DEF Submit
    <2>3. CASE Refused("pnp")
        BY <2>1, <2>3, <1>2, <1>a, <1>b, SubmitFacts, RefusedFacts DEF Counted, Registers,
           BootSteps, InitSteps, QueueJobs, StageJobs, Jobs, ThType
    <2>2. CASE Failed("pnp")
        BY <2>1, <2>2, <1>2, <1>a, <1>b, SubmitFacts, FailedFacts DEF Counted, Registers,
           BootSteps, InitSteps, QueueJobs, StageJobs, Jobs, ThType
    <2> QED
        BY <2>1, <2>2, <2>3, <1>2, <1>a, <1>b, SubmitFacts DEF Counted, Registers, BootSteps,
           InitSteps
<1>3. CASE Wait("pnp")
    <2>1. IoQ' = IoQ /\ m.pc = "wait" /\ m.job \in Jobs
        BY <1>3, <1>a DEF Wait, At, ThType
    <2>2. CASE Failed("pnp")
        BY <2>1, <2>2, <1>a, <1>b, FailedFacts DEF Counted, Registers, BootSteps, InitSteps,
           QueueJobs, StageJobs
    <2>3. CASE Succeeded("pnp")
        BY <2>1, <2>3, <1>a, <1>b, SucceededFacts DEF Counted, Registers, BootSteps, InitSteps,
           QueueJobs, StageJobs, Jobs, PnpFits
    <2> QED
        BY <2>2, <2>3, <1>3 DEF Wait
<1>4. ASSUME NEW w \in Workers, Submit(w) \/ Wait(w)
      PROVE  Counted(th'["pnp"], RegisteredIoQ', IoQ') /\ RegisteredIoQ' \in 0 .. MaxIoQ
    <2>1. w \in Threads /\ w # "pnp" /\ th[w].pc \in {"submit", "wait"} /\ th[w].job \in StageJobs
        BY <1>4, <1>a, ThreadFacts DEF Submit, Wait, At, WorkerFits
    <2>2. th'["pnp"] = m /\ IoQ' = IoQ
        BY <1>4, <1>a, <2>1, CommandMoves DEF Submit, Wait
    <2>3. RegisteredIoQ' = RegisteredIoQ
        BY <1>4, <1>a, <2>1, SubmitFacts, SucceededFacts, FailedFacts DEF Wait, At
    <2> QED
        BY <2>2, <2>3, <1>c
<1>5. ASSUME NEW w \in Workers, WorkerWalk(w) \/ RestartAdapterDpc
      PROVE  Counted(th'["pnp"], RegisteredIoQ', IoQ') /\ RegisteredIoQ' \in 0 .. MaxIoQ
    <2>1. UNCHANGED <<RegisteredIoQ, IoQ>>
        BY <1>5 DEF WorkerWalk, WorkerBegin, Stage2, WorkerResume, RestartAdapterDpc, queues
    <2>2. th'["pnp"] = m
        BY <1>5, <1>a, ThreadFacts DEF WorkerWalk, WorkerBegin, Stage2, WorkerResume,
           RestartAdapterDpc, Goto, Do, ThType
    <2> QED
        BY <2>1, <2>2, <1>c
<1> QED
    <2>1. CASE UNCHANGED <<th, queues>>
        BY <2>1, <1>c DEF queues
    <2>2. ASSUME NEW t \in Threads, Submit(t) \/ Wait(t)
          PROVE  Counted(th'["pnp"], RegisteredIoQ', IoQ') /\ RegisteredIoQ' \in 0 .. MaxIoQ
        BY <2>2, <1>2, <1>3, <1>4, ThreadFacts
    <2>3. CASE RestartAdapterDpc
        <3>1. IF IsWorking THEN \E w \in Workers : Goto(w, "begin") ELSE UNCHANGED th
            BY <2>3 DEF RestartAdapterDpc
        <3> QED
            BY <3>1, <2>3, <1>5, <2>1 DEF RestartAdapterDpc, queues
    <2> QED
        BY <1>1, <1>5, <2>1, <2>2, <2>3, ThChanges

\* A command for a queue names one that the driver wants.
LEMMA CountStep ==
    ASSUME TypeInv, Next
    PROVE  CountInv' /\ RegisteredIoQ' \in 0 .. MaxIoQ
<1>a. /\ th \in ThType /\ \A w \in Workers : WorkerFits(th[w])
      /\ MaxIoQ \in Nat \ {0} /\ IoQ \in 0 .. MaxIoQ /\ RegisteredIoQ \in 0 .. MaxIoQ
      /\ TypeInv /\ Counted(th["pnp"], RegisteredIoQ, IoQ)
    BY DeviceAssumption DEF TypeInv, TypeOK, ThType, JobInv, CountInv
<1>1. \A c \in sent' : c.job \in QueueJobs => c.i \in QueueIds
    <2>1. sent' \subseteq sent => \A c \in sent' : c.job \in QueueJobs => c.i \in QueueIds
        BY DEF TypeInv, CountInv
    <2>2. ASSUME NEW t \in Threads, Submit(t), ~(sent' \subseteq sent)
          PROVE  \A c \in sent' : c.job \in QueueJobs => c.i \in QueueIds
        <3>1. sent' = sent \cup {Own(t)} /\ th[t].pc = "submit"
            BY <1>a, <2>2, SubmitFacts DEF admin
        <3>2. th[t].job \in QueueJobs => t = "pnp" /\ Registering
            BY <3>1, <1>a, ThreadFacts DEF WorkerFits, QueueJobs, StageJobs, Registering,
               Registers
        <3>3. th[t].job \in QueueJobs => th[t].i \in QueueIds
            BY <3>2, <1>a DEF QueueIds, Counted, Registering
        <3> QED
            BY <3>1, <3>3 DEF TypeInv, CountInv, Own
    <2>3. (\E t \in Threads : Submit(t)) \/ sent' \subseteq sent
        BY Changes DEF Poll, AdmDpc, Consume, admin, PowerCycle, ResetAdm, CtrlReset, CtrlExecute
    <2> QED
        BY <2>1, <2>2, <2>3
<1> QED
    BY <1>1, CountersStep DEF CountInv

\* Workers and the restart DPC leave the PnP thread alone.
LEMMA WorkerMoves ==
    ASSUME TypeInv, NEW w \in Workers, WorkerWalk(w) \/ Submit(w) \/ Wait(w) \/ RestartAdapterDpc
    PROVE  th'["pnp"] = th["pnp"]
<1>1. th \in ThType /\ w \in Threads /\ w # "pnp" /\ "pnp" \in Threads
    BY ThreadFacts DEF TypeInv, TypeOK, ThType
<1>2. CASE Submit(w) \/ Wait(w)
    BY <1>1, <1>2, CommandMoves
<1>3. CASE WorkerWalk(w) \/ RestartAdapterDpc
    BY <1>1, <1>3, ThreadFacts DEF WorkerWalk, WorkerBegin, Stage2, WorkerResume,
       RestartAdapterDpc, Goto, Do, ThType
<1> QED
    BY <1>2, <1>3

\* Who moves the PnP thread.
LEMMA PnpChanges ==
    ASSUME TypeInv, Next
    PROVE  th'["pnp"] = th["pnp"] \/ PnpWalk \/ Submit("pnp") \/ Wait("pnp")
<1>1. CASE RestartAdapterDpc
    <2>1. UNCHANGED th \/ \E w \in Workers : TRUE
        BY <1>1 DEF RestartAdapterDpc
    <2> QED
        BY <1>1, <2>1, WorkerMoves
<1> QED
    BY <1>1, ThChanges, WorkerMoves, ThreadFacts

\* The PnP thread asks for the number of queues only if it is open, and takes one it can use.
LEMMA NumberStep ==
    ASSUME TypeInv, Next
    PROVE  NumberInv'
<1>a. /\ th \in ThType /\ PnpFits(th["pnp"]) /\ NumberInv /\ "pnp" \in Threads
      /\ 0 \in 0 .. MaxIoQ + Namespaces
    BY ThreadFacts, DeviceAssumption DEF TypeInv, TypeOK, ThType, JobInv
<1>1. CASE Setup
    BY <1>1, <1>a, GotoFacts DEF Setup, At, Steps, NumberInv, PnpFits
<1>2. ASSUME UNCHANGED DesiredIoQ, th["pnp"].pc # "find" \/ th'["pnp"].pc = "find",
             th'["pnp"].job # "number" \/ th["pnp"].job = "number" \/ 0 \in Registry
      PROVE  NumberInv'
    BY <1>2, <1>a DEF NumberInv
<1>3. ASSUME NEW t \in Threads, Wait(t)
      PROVE  NumberInv'
    <2>1. th[t].pc = "wait" /\ DesiredIoQ' \in NumberAfter(t)
        BY <1>3 DEF Wait, At
    <2>2. CASE t = "pnp"
        <3>1. th'[t].job = "number" => th[t].job = "number"
            BY <1>3, <1>a, <2>1, <2>2, FailedFacts, SucceededFacts DEF Wait, TypeInv, StageJobs,
               PnpFits, Jobs, ThType
        <3>2. th[t].job # "number" => UNCHANGED DesiredIoQ
            BY <2>1 DEF NumberAfter
        <3> QED
            BY <2>1, <2>2, <3>1, <3>2, <1>a, <1>2 DEF NumberInv
    <2>3. CASE t # "pnp"
        <3>1. th[t].job # "number"
            BY <2>3, ThreadFacts DEF TypeInv, JobInv, WorkerFits, StageJobs
        <3>2. UNCHANGED DesiredIoQ
            BY <2>1, <3>1 DEF NumberAfter
        <3>3. th'["pnp"] = th["pnp"]
            BY <1>3, <1>a, <2>3, CommandMoves
        <3> QED
            BY <3>2, <3>3, <1>2
    <2> QED
        BY <2>2, <2>3
<1>4. CASE UNCHANGED DesiredIoQ
    <2>1. CASE th'["pnp"] = th["pnp"]
        BY <1>4, <2>1, <1>2
    <2>2. CASE Submit("pnp")
        BY <1>4, <2>2, <1>2, <1>a, SubmitFacts
    <2>3. CASE PnpWalk /\ ~Setup
        <3>1. th["pnp"].pc # "find"
            BY <2>3 DEF PnpWalk, Disable, DisableWait, DisableWrite, DisableDone, Disabled,
               RegisterAdmQ, Enable, EnableWait, EnableWrite, EnableOn, EnableDone, Initialize,
               PassiveInitialize, Stage2, CreateIoQueues, CreateIoQ, Registered, Shutdown,
               ShutdownWait, ShutdownWrite, ShutdownDone, Teardown, RestartController,
               RemoveDevice, SurpriseRemoval, PowerCycle, Await, At
        <3>2. CreateIoQueues => DesiredIoQ = 0 \/ th'["pnp"].job = th["pnp"].job
            BY <1>a, GotoFacts DEF CreateIoQueues, Steps
        <3>3. ~CreateIoQueues => th'["pnp"].job # "number" \/ th'["pnp"].job = th["pnp"].job
            BY <2>3, <1>a DEF PnpWalk, Disable, DisableWait, DisableWrite, DisableDone, Disabled,
               RegisterAdmQ, Enable, EnableWait, EnableWrite, EnableOn, EnableDone, Initialize,
               PassiveInitialize, Stage2, CreateIoQ, Registered, Shutdown,
               ShutdownWait, ShutdownWrite, ShutdownDone, Teardown, RestartController,
               RemoveDevice, SurpriseRemoval, PowerCycle, Await, Goto, Do, ThType
        <3> QED
            BY <1>4, <3>1, <3>2, <3>3, <1>2, <1>a DEF NumberInv
    <2> QED
        BY <1>1, <1>3, <2>1, <2>2, <2>3, PnpChanges, ThreadFacts
<1> QED
    BY <1>1, <1>3, <1>4, Changes

\* Types, jobs and counters are kept.
LEMMA TypeStep == TypeInv /\ [Next]_vars => TypeInv'
<1>1. ASSUME TypeInv, Next PROVE TypeInv'
    <2>1. th' \in ThType /\ JobInv' /\ CountInv' /\ NumberInv'
          /\ RegisteredIoQ' \in 0 .. MaxIoQ
        BY <1>1, JobStep, CountStep, NumberStep
    <2> QED
        BY <1>1, <2>1, TypeDevice, TypeOutside, TypeAdmin DEF TypeInv, TypeOK, ThType, CtlType,
           EnvType, IoType, StatusType, PostedType
<1>2. ASSUME TypeInv, UNCHANGED vars PROVE TypeInv'
    BY <1>2 DEF TypeInv, TypeOK, JobInv, CountInv, NumberInv, vars, queues, admin, traffic
<1> QED
    BY <1>1, <1>2

\* Where a command of the PnP thread leads.
LEMMA PnpCommands ==
    ASSUME TypeInv, Submit("pnp") \/ Wait("pnp")
    PROVE  /\ th["pnp"].pc \in {"submit", "wait"}
           /\ th'["pnp"].pc \in {"wait", "teardown", "registered", "failed", "submit", "initialize",
                                 "stage2", "allocate"}
           /\ th'["pnp"].pc = "teardown" => th["pnp"].job = "find"
           /\ th'["pnp"].job # "remove"
           /\ UNCHANGED <<State, AdmQ, IoQ, paused, connected, io, rb, irq, dpcs, ctl, crashed>>
           /\ UNCHANGED env \/ (th'["pnp"].pc \in {"teardown", "failed"} /\ env'.fault)
<1>a. /\ th \in ThType /\ PnpFits(th["pnp"]) /\ JobInv /\ "pnp" \in Threads
      /\ th["pnp"].pc \in {"submit", "wait"} /\ th["pnp"].job \in Jobs
      /\ UNCHANGED <<State, AdmQ, IoQ, paused, connected, io, rb, irq, dpcs, ctl, crashed>>
      /\ Wait("pnp") => UNCHANGED env
    BY ThreadFacts DEF TypeInv, TypeOK, ThType, JobInv, Submit, Wait, At, traffic
<1>1. CASE Failed("pnp") /\ UNCHANGED env
    BY <1>1, <1>a, FailedFacts DEF QueueJobs, StageJobs, Jobs, PnpFits
<1>2. CASE Wait("pnp") /\ Succeeded("pnp")
    BY <1>2, <1>a, SucceededFacts DEF StageJobs, Jobs, PnpFits, Wait, At
<1>3. CASE Submit("pnp")
    <2>1. CASE th'["pnp"].pc = "wait" /\ UNCHANGED env
        <3>1. th'["pnp"].job = th["pnp"].job
            BY <1>3, <1>a, SubmitFacts
        <3> QED
            BY <2>1, <3>1, <1>a DEF PnpFits
    <2>2. CASE Failed("pnp") /\ UNCHANGED env
        BY <1>1, <2>2
    <2>3. CASE Refused("pnp")
        BY <2>3, <1>a, RefusedFacts DEF PnpFits
    <2> QED
        BY <1>3, <1>a, <2>1, <2>2, <2>3, SubmitFacts
<1> QED
    BY <1>1, <1>2, <1>3, <1>a DEF Wait

(****************************************************************************)
(* Enabling.                                                                *)
(****************************************************************************)
LEMMA QuietStep == TypeInv /\ QuietInv /\ [Next]_vars => QuietInv'
<1>1. ASSUME TypeInv, QuietInv, Next PROVE QuietInv'
    <2>a. th \in ThType /\ "pnp" \in Threads /\ ctl \in CtlType
        BY <1>1, ThreadFacts DEF TypeInv, TypeOK, ThType, CtlType
    <2>1. CASE th'["pnp"] = th["pnp"]
        <3>1. CASE UNCHANGED ctl
            BY <2>1, <3>1, <1>1 DEF QuietInv
        <3>2. CASE CtrlReady \/ CtrlReset \/ CtrlShutdown \/ CtrlFatal
            BY <2>1, <3>2, <1>1, <2>a DEF QuietInv, CtrlReady, CtrlReset, CtrlShutdown,
               CtrlFatal, CtlType
        <3>3. ASSUME NEW c \in sent, CtrlExecute(c) PROVE QuietInv'
            BY <2>1, <3>3, <1>1, <2>a DEF QuietInv, CtrlExecute, CtrlAlive, CtlType
        <3>4. CASE \/ DisableWrite \/ RegisterAdmQ \/ EnableWrite \/ EnableOn
                   \/ ShutdownWrite \/ SurpriseRemoval \/ PowerCycle
            BY <2>1, <3>1, <3>4, <2>a, <1>1, GotoFacts DEF At, DisableWrite, RegisterAdmQ,
               EnableWrite, EnableOn, ShutdownWrite, SurpriseRemoval, PowerCycle, Steps, ThType
        <3> QED
            BY <1>1, <3>1, <3>2, <3>3, <3>4, Changes
    <2>2. CASE PnpWalk
        <3>1. CASE EnableWait
            BY <3>1, <2>a, GotoFacts DEF EnableWait, Await, Steps, QuietInv, IsControllerReady
        <3>2. CASE EnableWrite
            BY <3>2, <2>a, <1>1, GotoFacts DEF EnableWrite, At, Steps, QuietInv, CtlType
        <3>3. CASE \/ Setup \/ Disable \/ DisableWait \/ DisableWrite \/ DisableDone \/ Disabled
                   \/ RegisterAdmQ \/ Enable \/ EnableOn \/ EnableDone \/ Initialize
            BY <3>3, <2>a, <1>1, GotoFacts DEF Setup, Disable, DisableWait, DisableWrite,
               DisableDone, Disabled, RegisterAdmQ, Enable, EnableOn, EnableDone, Initialize,
               Await, At, Steps, QuietInv
        <3>4. CASE \/ PassiveInitialize \/ Stage2("pnp") \/ CreateIoQueues
                   \/ CreateIoQ \/ Registered \/ Shutdown
                   \/ ShutdownWait \/ ShutdownWrite \/ ShutdownDone \/ Teardown \/ RestartController
                   \/ RemoveDevice \/ SurpriseRemoval \/ PowerCycle
            BY <3>4, <2>a, <1>1, GotoFacts DEF PassiveInitialize, Stage2, CreateIoQueues, CreateIoQ,
               Registered, Shutdown, ShutdownWait, ShutdownWrite, ShutdownDone, Teardown,
               RestartController, RemoveDevice, SurpriseRemoval, PowerCycle, Await, At, Steps,
               QuietInv, Do, ThType
        <3> QED
            BY <2>2, <3>1, <3>2, <3>3, <3>4 DEF PnpWalk
    <2>3. CASE Submit("pnp") \/ Wait("pnp")
        BY <2>3, <1>1, PnpCommands DEF QuietInv
    <2> QED
        BY <1>1, <2>1, <2>2, <2>3, PnpChanges
<1>2. ASSUME QuietInv, UNCHANGED vars PROVE QuietInv'
    BY <1>2 DEF QuietInv, vars
<1> QED
    BY <1>1, <1>2

\* CC.EN stays set while the device starts and runs.
LEMMA EnabledStep == TypeInv /\ EnabledInv /\ [Next]_vars => EnabledInv'
<1>1. ASSUME TypeInv, EnabledInv, Next PROVE EnabledInv'
    <2>a. th \in ThType /\ "pnp" \in Threads /\ ctl \in CtlType
        BY <1>1, ThreadFacts DEF TypeInv, TypeOK, ThType, CtlType
    <2>1. CASE th'["pnp"] = th["pnp"]
        <3>1. CASE UNCHANGED ctl
            BY <2>1, <3>1, <1>1 DEF EnabledInv, IsControllerReady
        <3>2. CASE CtrlReady \/ CtrlReset \/ CtrlShutdown \/ CtrlFatal
            BY <2>1, <3>2, <1>1, <2>a DEF EnabledInv, CtrlReady, CtrlReset, CtrlShutdown,
               CtrlFatal, CtlType, IsControllerReady
        <3>3. ASSUME NEW c \in sent, CtrlExecute(c) PROVE EnabledInv'
            BY <2>1, <3>3, <1>1, <2>a DEF EnabledInv, CtrlExecute, CtrlAlive, CtlType
        <3>4. CASE \/ DisableWrite \/ RegisterAdmQ \/ EnableWrite \/ EnableOn
                   \/ ShutdownWrite \/ SurpriseRemoval \/ PowerCycle
            BY <2>1, <3>1, <3>4, <2>a, <1>1, GotoFacts DEF At, DisableWrite, RegisterAdmQ,
               EnableWrite, EnableOn, ShutdownWrite, SurpriseRemoval, PowerCycle, Steps, ThType
        <3> QED
            BY <1>1, <3>1, <3>2, <3>3, <3>4, Changes
    <2>2. CASE PnpWalk
        <3>1. CASE RegisterAdmQ \/ EnableOn \/ Enable \/ EnableDone
            BY <3>1, <1>1, <2>a, GotoFacts DEF RegisterAdmQ, EnableOn, Enable, EnableDone, Await,
               At, Steps, EnabledInv, InitSteps, IsControllerReady, CtlType
        <3>2. CASE \/ Setup \/ Disable \/ DisableWait \/ DisableWrite \/ DisableDone \/ Disabled
                   \/ EnableWait \/ EnableWrite
            BY <3>2, <2>a, <1>1, GotoFacts DEF Setup, Disable, DisableWait, DisableWrite,
               DisableDone, Disabled, EnableWait, EnableWrite, Await, At, Steps, EnabledInv,
               InitSteps
        <3>3. CASE Initialize \/ PassiveInitialize \/ Stage2("pnp") \/ CreateIoQueues \/ CreateIoQ
                   \/ Registered
            BY <3>3, <2>a, <1>1, GotoFacts DEF Initialize, PassiveInitialize, Stage2,
               CreateIoQueues, CreateIoQ, Registered, At, Steps, Do, ThType, EnabledInv, InitSteps
        <3>4. CASE \/ Shutdown \/ ShutdownWait \/ ShutdownWrite \/ ShutdownDone \/ Teardown
                   \/ RestartController \/ RemoveDevice \/ SurpriseRemoval \/ PowerCycle
            BY <3>4, <2>a, <1>1, GotoFacts DEF Shutdown, ShutdownWait, ShutdownWrite,
               ShutdownDone, Teardown, RestartController, RemoveDevice, SurpriseRemoval,
               PowerCycle, Await, At, Steps, EnabledInv, InitSteps, ThType
        <3> QED
            BY <2>2, <3>1, <3>2, <3>3, <3>4 DEF PnpWalk
    <2>3. CASE Submit("pnp") \/ Wait("pnp")
        BY <2>3, <1>1, PnpCommands DEF EnabledInv, InitSteps
    <2> QED
        BY <1>1, <2>1, <2>2, <2>3, PnpChanges
<1>2. ASSUME EnabledInv, UNCHANGED vars PROVE EnabledInv'
    BY <1>2 DEF EnabledInv, IsControllerReady, vars
<1> QED
    BY <1>1, <1>2

(****************************************************************************)
(* State, requests and bus resets.                                          *)
(****************************************************************************)

\* A removed adapter stays removed, and the three exclusions stay too; without a fault there
\* was none before; who is in scope was in scope.
LEMMA Sticky ==
    ASSUME TypeInv, Next
    PROVE  /\ ctl.gone => ctl'.gone
           /\ env.masked => env'.masked
           /\ env.refused => env'.refused
           /\ env.overlap => env'.overlap
           /\ env.fault => env'.fault
<1>a. ctl \in CtlType /\ env \in EnvType
    BY DEF TypeInv, TypeOK, CtlType, EnvType
<1> DEFINE Kept == /\ env.masked => env'.masked
                   /\ env.refused => env'.refused
                   /\ env.overlap => env'.overlap
                   /\ env.fault => env'.fault
<1>1. ctl.gone => ctl'.gone
    BY <1>a, Changes DEF CtlType, DisableWrite, RegisterAdmQ, EnableWrite, EnableOn,
       ShutdownWrite, SurpriseRemoval, PowerCycle, CtrlReady, CtrlReset, CtrlShutdown,
       CtrlExecute, CtrlFatal
<1>2. Faulty => Kept
    BY <1>a DEF Faulty, EnvType
<1>3. PowerCycle => Kept
    BY <1>a DEF PowerCycle, EnvType
<1>4. ResetBus => Kept
    BY <1>a DEF ResetBus, EnvType
<1>5. ASSUME NEW c \in sent, CtrlExecute(c)
      PROVE  Kept
    BY <1>a, <1>5 DEF CtrlExecute, EnvType
<1>6. ASSUME NEW t \in Threads, Submit(t)
      PROVE  Kept
    <2>1. CASE UNCHANGED env
        BY <2>1
    <2>2. CASE Refused(t)
        BY <2>2, <1>a, RefusedFacts DEF EnvType
    <2> QED
        BY <1>6, <2>1, <2>2, SubmitFacts
<1>7. Kept
    BY <1>2, <1>3, <1>4, <1>5, <1>6, Changes DEF Setup, DisableWait, DisableDone, EnableWait,
       EnableDone, Initialize, CreateIoQ, ShutdownWait, ShutdownDone, Await, SurpriseRemoval,
       CtrlFatal, RegisterAdmQ
<1> QED
    BY <1>1, <1>7

\* Who is in scope was in scope, and no step leads back to the first one.
LEMMA ScopeBack ==
    ASSUME TypeInv, Next
    PROVE  /\ InScope' => InScope
           /\ th'["pnp"].pc = "find" => th'["pnp"] = th["pnp"]
<1>a. th \in ThType /\ "pnp" \in Threads /\ PnpFits(th["pnp"])
    BY ThreadFacts DEF TypeInv, TypeOK, ThType, JobInv
<1> USE DEF InScope, BootSteps, InitSteps, RunSteps
<1>1. CASE th'["pnp"] = th["pnp"]
    BY <1>1
<1>2. CASE Submit("pnp") \/ Wait("pnp")
    BY <1>2, <1>a, PnpCommands DEF PnpFits
<1>3. CASE PnpWalk
    <2>1. CASE \/ Setup \/ Disable \/ DisableWait \/ DisableWrite \/ DisableDone \/ Disabled
               \/ RegisterAdmQ \/ Enable \/ EnableWait \/ EnableWrite \/ EnableOn \/ EnableDone
        BY <2>1, <1>a, GotoFacts DEF Setup, Disable, DisableWait, DisableWrite, DisableDone,
           Disabled, RegisterAdmQ, Enable, EnableWait, EnableWrite, EnableOn, EnableDone, Await,
           At, Steps
    <2>2. CASE Initialize \/ PassiveInitialize \/ Stage2("pnp") \/ CreateIoQueues \/ CreateIoQ
               \/ Registered
        BY <2>2, <1>a, GotoFacts DEF Initialize, PassiveInitialize, Stage2, CreateIoQueues,
           CreateIoQ,
           Registered, At, Steps, Do, ThType, PnpFits, StageJobs
    <2>3. CASE \/ Shutdown \/ ShutdownWait \/ ShutdownWrite \/ ShutdownDone \/ Teardown
               \/ RestartController \/ RemoveDevice \/ SurpriseRemoval \/ PowerCycle
        BY <2>3, <1>a, GotoFacts DEF Shutdown, ShutdownWait, ShutdownWrite, ShutdownDone,
           Teardown, RestartController, RemoveDevice, SurpriseRemoval, PowerCycle, Await, At,
           Steps, ThType, PnpFits
    <2> QED
        BY <1>3, <2>1, <2>2, <2>3 DEF PnpWalk
<1> QED
    BY <1>1, <1>2, <1>3, PnpChanges

\* A refused command of the PnP thread ends the scope; one of a worker is excused.
LEMMA RefusedLeaves ==
    ASSUME TypeInv, NEW t \in Threads, Submit(t), Refused(t)
    PROVE  (Excused \/ ~InScope)' /\ env'.fault
<1>1. CASE t = "pnp"
    BY <1>1, RefusedFacts DEF InScope, BootSteps, InitSteps, RunSteps
<1>2. CASE t \in Workers
    BY <1>2, RefusedFacts DEF Excused
<1> QED
    BY <1>1, <1>2, RefusedFacts, ThreadFacts

\* A started device stays so, with its queues, until a removal or a sleep.
LEMMA StartedKeeps ==
    ASSUME TypeInv, Next, th["pnp"].pc = "started", ~ctl'.gone
    PROVE  /\ UNCHANGED <<AdmQ, IoQ, RegisteredIoQ>>
           /\ th'["pnp"] = th["pnp"] \/ RemoveDevice \/ PowerCycle
           /\ UNCHANGED State \/ ResetBus \/ ResetIo
<1>a. th \in ThType /\ "pnp" \in Threads /\ JobInv /\ ctl \in CtlType
    BY ThreadFacts DEF TypeInv, TypeOK, ThType, CtlType
<1>1. ~SurpriseRemoval
    BY <1>a DEF SurpriseRemoval, CtlType
<1>2. PnpWalk => RemoveDevice \/ PowerCycle
    BY <1>1 DEF PnpWalk, Setup, Disable, DisableWait, DisableWrite, DisableDone, Disabled,
       RegisterAdmQ, Enable, EnableWait, EnableWrite, EnableOn, EnableDone, Initialize,
       PassiveInitialize, Stage2, CreateIoQueues, CreateIoQ, Registered, Shutdown, ShutdownWait,
       ShutdownWrite, ShutdownDone, Teardown, RestartController, Await, At
<1>3. ~Submit("pnp") /\ ~Wait("pnp") /\ ~Setup /\ ~Teardown /\ ~CreateIoQ /\ ~Disabled /\ ~Shutdown
    BY DEF Submit, Wait, Setup, Teardown, CreateIoQueues, CreateIoQ, Disabled, Shutdown, At
<1>4. ASSUME NEW w \in Workers, Submit(w) \/ Wait(w)
      PROVE  UNCHANGED RegisteredIoQ
    <2>1. w \in Threads /\ th[w].pc \in {"submit", "wait"} /\ th[w].job \in StageJobs
        BY <1>4, <1>a, ThreadFacts DEF JobInv, WorkerFits, Submit, Wait, At
    <2> QED
        BY <1>4, <1>a, <2>1, SubmitFacts, SucceededFacts, FailedFacts DEF Wait, At
<1> QED
    BY <1>2, <1>3, <1>4, Changes, PnpChanges, ThreadFacts

\* State, the requests and the bus reset stay with a started device.
LEMMA StateStep == TypeInv /\ StateInv /\ [Next]_vars => StateInv'
<1>1. ASSUME TypeInv, StateInv, Next PROVE StateInv'
    <2>a. th \in ThType /\ "pnp" \in Threads /\ io \in IoType /\ ctl \in CtlType
        BY <1>1, ThreadFacts DEF TypeInv, TypeOK, ThType, IoType, CtlType
    <2>1. CASE ctl'.gone
        BY <2>1 DEF StateInv
    <2>2. CASE ~ctl'.gone
        <3>a. ~ctl.gone
            BY <1>1, <2>2, Sticky
        <3>1. ASSUME io.pc # "idle" \/ rb # "idle"
              PROVE  /\ th'["pnp"].pc = "started" /\ RegisteredIoQ' = RegisteredIoQ
                     /\ io.pc # "idle" => io.q < RegisteredIoQ
            BY <1>1, <2>2, <3>a, <3>1, StartedKeeps DEF StateInv, RemoveDevice, PowerCycle
        <3>2. io'.pc # "idle" => th'["pnp"].pc = "started" /\ io'.q < RegisteredIoQ'
            <4>1. CASE UNCHANGED io
                BY <3>1, <4>1
            <4>2. CASE PickQueue
                BY <1>1, <4>2, <3>1, <2>a DEF PickQueue, At, queues, TypeInv, TypeOK
            <4>3. CASE SubmitIo \/ ResetIo \/ IoDpc \/ CtrlExecuteIo
                BY <4>3, <3>1, <2>a DEF SubmitIo, ResetIo, IoDpc, CtrlExecuteIo, IoType
            <4> QED
                BY <1>1, <4>1, <4>2, <4>3, Changes
        <3>3. rb' # "idle" => th'["pnp"].pc = "started"
            BY <1>1, <3>1, Changes DEF ResetBus, ResetAdm, ResetIo, At
        <3>4. ASSUME InScope', th'["pnp"].pc # "find"
              PROVE  AdmQ' /\ State' = IF rb' = "idle" THEN "RUNNING" ELSE "RESETBUS"
            <4>1. InScope /\ th["pnp"].pc \notin {"teardown", "shutdown"}
                BY <1>1, <3>4, ScopeBack DEF InScope, BootSteps, InitSteps, RunSteps
            <4>2. ~Teardown /\ ~Shutdown
                BY <4>1 DEF Teardown, Shutdown, At
            <4>3. CASE th["pnp"].pc = "find"
                <5>1. rb = "idle"
                    BY <1>1, <3>a, <4>3 DEF StateInv
                <5>2. ~Submit("pnp") /\ ~Wait("pnp") /\ th'["pnp"] # th["pnp"]
                    BY <3>4, <4>3 DEF Submit, Wait, At
                <5>3. Setup
                    BY <1>1, <4>3, <5>2, PnpChanges DEF PnpWalk, Disable, DisableWait,
                       DisableWrite, DisableDone, Disabled, RegisterAdmQ, Enable, EnableWait,
                       EnableWrite, EnableOn, EnableDone, Initialize, PassiveInitialize, Stage2,
                       CreateIoQueues, CreateIoQ, Registered, Shutdown, ShutdownWait, ShutdownWrite,
                       ShutdownDone, Teardown, RestartController, SurpriseRemoval, RemoveDevice,
                       PowerCycle, Await, At
                <5> QED
                    BY <3>4, <5>1, <5>3, <2>a, GotoFacts DEF Setup, InScope, BootSteps,
                       InitSteps, RunSteps, traffic, Steps
            <4>4. CASE th["pnp"].pc # "find"
                <5>1. AdmQ /\ State = IF rb = "idle" THEN "RUNNING" ELSE "RESETBUS"
                    BY <1>1, <3>a, <4>1, <4>4 DEF StateInv
                <5>2. ~Setup
                    BY <4>4 DEF Setup, At
                <5>3. AdmQ'
                    BY <1>1, <4>2, <5>1, <5>2, Changes
                <5> QED
                    BY <1>1, <4>2, <5>1, <5>2, <5>3, Changes DEF ResetBus, ResetAdm, ResetIo
            <4> QED
                BY <4>3, <4>4
        <3> QED
            BY <3>2, <3>3, <3>4 DEF StateInv
    <2> QED
        BY <2>1, <2>2
<1>2. ASSUME StateInv, UNCHANGED vars PROVE StateInv'
    BY <1>2 DEF StateInv, InScope, vars, queues, traffic
<1> QED
    BY <1>1, <1>2

(****************************************************************************)
(* Sleep and restart.                                                       *)
(****************************************************************************)

\* What a worker's step leaves alone.
LEMMA WorkerFacts ==
    ASSUME TypeInv, NEW w \in Workers, WorkerWalk(w) \/ Submit(w) \/ Wait(w)
    PROVE  /\ th[w].pc # "idle"
           /\ \A u \in Threads : u # w => th'[u] = th[u]
           /\ UNCHANGED <<State, AdmQ, IoQ, RegisteredIoQ, connected, traffic, ctl, crashed>>
           /\ UNCHANGED env \/ (env'.fault /\ env'.refused)
           /\ paused' = paused \/ (th'[w].pc = "idle" /\ paused' = FALSE)
<1>a. th \in ThType /\ w \in Threads /\ w # "pnp" /\ JobInv
    BY ThreadFacts DEF TypeInv, TypeOK, ThType
<1>1. CASE Submit(w)
    <2>1. UNCHANGED env \/ (env'.fault /\ env'.refused)
        BY <1>1, <1>a, SubmitFacts, RefusedFacts
    <2> QED
        BY <1>1, <2>1, <1>a, SubmitFacts DEF Submit
<1>2. CASE Wait(w)
    <2>1. th[w].pc = "wait" /\ th[w].job \in StageJobs
        BY <1>2, <1>a DEF Wait, At, JobInv, WorkerFits
    <2>2. RegisteredIoQ' = RegisteredIoQ
        BY <1>2, <2>1, <1>a, SucceededFacts, FailedFacts DEF Wait
    <2> QED
        BY <1>2, <2>1, <2>2, <1>a, CommandMoves DEF Wait
<1>3. CASE WorkerBegin(w) \/ Stage2(w) \/ WorkerResume(w)
    <2>1. th[w].pc # "idle" /\ \A u \in Threads : u # w => th'[u] = th[u]
        BY <1>3, <1>a DEF WorkerBegin, Stage2, WorkerResume, At, Goto, Do, ThType
    <2>2. WorkerResume(w) => th'[w].pc = "idle"
        BY <1>a, GotoFacts DEF WorkerResume, Steps
    <2> QED
        BY <1>3, <2>1, <2>2 DEF WorkerBegin, Stage2, WorkerResume, queues
<1> QED
    BY <1>1, <1>2, <1>3 DEF WorkerWalk

\* Who moves a worker.
LEMMA WorkerChanges ==
    ASSUME TypeInv, Next, NEW w \in Workers
    PROVE  th'[w] = th[w] \/ WorkerWalk(w) \/ Submit(w) \/ Wait(w) \/ RestartAdapterDpc
<1>1. ASSUME NEW t \in Threads, t # w, Submit(t) \/ Wait(t)
      PROVE  th'[w] = th[w]
    BY <1>1, CommandMoves, ThreadFacts
<1>2. ASSUME NEW v \in Workers, v # w, WorkerWalk(v)
      PROVE  th'[w] = th[w]
    BY <1>2, WorkerFacts, ThreadFacts
<1> QED
    BY <1>1, <1>2, ThChanges, PnpMoves

\* A restart stays alone with a paused device without requests.
LEMMA RestartStep == TypeInv /\ StateInv /\ RestartInv /\ [Next]_vars => RestartInv'
<1>1. ASSUME TypeInv, StateInv, RestartInv, Next PROVE RestartInv'
    <2> SUFFICES ASSUME ~Excused', InScope'
                 PROVE  /\ Restarting' => /\ th'["pnp"].pc = "started" /\ paused'
                                          /\ io'.pc = "idle" /\ rb' = "idle"
                        /\ \A w, v \in Workers : th'[w].pc # "idle" /\ th'[v].pc # "idle" => w = v
                        /\ "restart" \in dpcs' => \A w \in Workers : th'[w].pc = "idle"
        BY DEF RestartInv, At
    <2>a. /\ th \in ThType /\ "pnp" \in Threads /\ ctl \in CtlType /\ io \in IoType /\ env \in EnvType
          /\ ~ctl'.gone /\ ~ctl.gone /\ ~Excused /\ InScope
        BY <1>1, Sticky, ScopeBack, ThreadFacts DEF Excused, TypeInv, TypeOK, ThType, CtlType,
           IoType, EnvType
    <2>b. /\ Restarting => th["pnp"].pc = "started" /\ paused /\ io.pc = "idle" /\ rb = "idle"
          /\ \A w, v \in Workers : th[w].pc # "idle" /\ th[v].pc # "idle" => w = v
          /\ "restart" \in dpcs => \A w \in Workers : th[w].pc = "idle"
        BY <1>1, <2>a DEF RestartInv, At
    <2>1. CASE RestartController
        <3>1. th["pnp"].pc = "restart" /\ State = "RUNNING" /\ io.pc = "idle" /\ rb = "idle"
            BY <1>1, <2>1, <2>a DEF RestartController, At, StateInv
        <3>2. \A w \in Workers : th'[w] = th[w] /\ th[w].pc = "idle"
            BY <1>1, <2>1, <2>b, <3>1, PnpMoves DEF PnpWalk, Restarting, At
        <3>3. th'["pnp"].pc = "started" /\ paused' /\ io' = io /\ rb' = rb
            BY <2>1, <2>a, <3>1, GotoFacts DEF RestartController, IsWorking, Steps
        <3> QED
            BY <3>1, <3>2, <3>3
    <2>2. CASE RestartAdapterDpc
        <3>1. "restart" \notin dpcs' /\ UNCHANGED <<paused, io, rb>> /\ Restarting
            BY <2>2 DEF RestartAdapterDpc, Restarting
        <3>2. \A w \in Workers : th[w].pc = "idle"
            BY <2>2, <2>b DEF RestartAdapterDpc
        <3>3. CASE UNCHANGED th
            BY <3>1, <3>2, <3>3, <2>b
        <3>4. ASSUME NEW w \in Workers, Goto(w, "begin")
              PROVE  th'["pnp"] = th["pnp"] /\ \A v \in Workers : th'[v].pc # "idle" => v = w
            BY <3>2, <3>4, <2>a, ThreadFacts, GotoFacts DEF Steps
        <3> QED
            BY <2>2, <2>b, <3>1, <3>3, <3>4 DEF RestartAdapterDpc
    <2>3. ASSUME NEW w \in Workers, WorkerWalk(w) \/ Submit(w) \/ Wait(w)
          PROVE  /\ Restarting' => /\ th'["pnp"].pc = "started" /\ paused'
                                   /\ io'.pc = "idle" /\ rb' = "idle"
                 /\ \A u, v \in Workers : th'[u].pc # "idle" /\ th'[v].pc # "idle" => u = v
                 /\ "restart" \in dpcs' => \A u \in Workers : th'[u].pc = "idle"
        <3>1. /\ th[w].pc # "idle" /\ \A u \in Threads : u # w => th'[u] = th[u]
              /\ UNCHANGED <<io, rb, dpcs>>
              /\ paused' = paused \/ (th'[w].pc = "idle" /\ paused' = FALSE)
            BY <1>1, <2>3, WorkerFacts DEF traffic
        <3>2. Restarting /\ "restart" \notin dpcs /\ \A u \in Workers : u # w => th[u].pc = "idle"
            BY <3>1, <2>b DEF Restarting, At
        <3>3. \A u \in Workers : u # w => th'[u].pc = "idle"
            BY <3>1, <3>2, ThreadFacts
        <3>4. CASE th'[w].pc = "idle"
            <4>1. ~Restarting'
                BY <3>1, <3>2, <3>3, <3>4 DEF Restarting, At
            <4> QED
                BY <3>1, <3>2, <3>3, <4>1
        <3>5. CASE th'[w].pc # "idle"
            BY <3>1, <3>2, <3>3, <3>5, <2>b, ThreadFacts
        <3> QED
            BY <3>4, <3>5
    <2>4. CASE /\ ~RestartController /\ ~RestartAdapterDpc
               /\ \A w \in Workers : ~WorkerWalk(w) /\ ~Submit(w) /\ ~Wait(w)
        <3>1. \A w \in Workers : th'[w] = th[w]
            BY <1>1, <2>4, WorkerChanges
        <3>2. "restart" \in dpcs' <=> "restart" \in dpcs
            BY <1>1, <2>4, Changes DEF AdmDpc, IoDpc, Isr
        <3>3. Restarting' <=> Restarting
            BY <3>1, <3>2 DEF Restarting, At
        <3>4. ASSUME Restarting
              PROVE  th'["pnp"].pc = "started" /\ paused' /\ io'.pc = "idle" /\ rb' = "idle"
            <4>1. th["pnp"].pc = "started" /\ paused /\ io.pc = "idle" /\ rb = "idle"
                BY <2>b, <3>4
            <4>2. ~RemoveDevice
                BY <2>a DEF RemoveDevice, InScope, ThType
            <4>3. ~PowerCycle
                BY <2>a, <3>4 DEF PowerCycle, Excused, EnvType
            <4>4. th'["pnp"].pc = "started"
                BY <1>1, <2>a, <4>1, <4>2, <4>3, StartedKeeps
            <4>5. paused'
                BY <1>1, <2>4, <4>1, Changes DEF PassiveInitialize, Registered, WorkerWalk, At
            <4>6. io'.pc = "idle"
                BY <1>1, <2>a, <4>1, Changes DEF PickQueue, SubmitIo, ResetIo, IoDpc,
                   CtrlExecuteIo
            <4>7. rb' = "idle"
                BY <1>1, <4>1, Changes DEF ResetBus, ResetAdm, ResetIo
            <4> QED
                BY <4>4, <4>5, <4>6, <4>7
        <3> QED
            BY <2>b, <3>1, <3>2, <3>3, <3>4
    <2> QED
        BY <2>1, <2>2, <2>3, <2>4
<1>2. ASSUME RestartInv, UNCHANGED vars PROVE RestartInv'
    BY <1>2 DEF RestartInv, Excused, InScope, Restarting, At, vars, traffic
<1> QED
    BY <1>1, <1>2

(****************************************************************************)
(* The admin commands.                                                      *)
(****************************************************************************)

\* The steps that are not commands neither come from a wait nor lead to one.
LEMMA WalkFacts ==
    ASSUME TypeInv
    PROVE  /\ PnpWalk => /\ th["pnp"].pc \notin {"submit", "wait"} /\ th'["pnp"].pc # "wait"
                         /\ th'["pnp"].pc = "submit" => th'["pnp"].job # "sq"
           /\ \A w \in Workers : WorkerWalk(w) \/ RestartAdapterDpc =>
                 /\ th'[w] # th[w] => th[w].pc # "wait" /\ th'[w].pc # "wait"
<1>a. th \in ThType /\ "pnp" \in Threads /\ PnpFits(th["pnp"]) /\ 0 \in 0 .. MaxIoQ + Namespaces
    BY ThreadFacts, DeviceAssumption DEF TypeInv, TypeOK, ThType, JobInv
<1>1. ASSUME PnpWalk
      PROVE  /\ th["pnp"].pc \notin {"submit", "wait"} /\ th'["pnp"].pc # "wait"
             /\ th'["pnp"].pc = "submit" => th'["pnp"].job # "sq"
    <2>1. CASE \/ Setup \/ Disable \/ DisableWait \/ DisableWrite \/ DisableDone \/ Disabled
               \/ RegisterAdmQ \/ Enable \/ EnableWait \/ EnableWrite \/ EnableOn \/ EnableDone
        BY <2>1, <1>a, GotoFacts DEF Setup, Disable, DisableWait, DisableWrite, DisableDone,
           Disabled, RegisterAdmQ, Enable, EnableWait, EnableWrite, EnableOn, EnableDone, Await,
           At, Steps, PnpFits
    <2>2. CASE Initialize \/ PassiveInitialize \/ Stage2("pnp") \/ CreateIoQueues \/ CreateIoQ
               \/ Registered
        BY <2>2, <1>a, GotoFacts, DoFacts DEF Initialize, PassiveInitialize, Stage2,
           CreateIoQueues, CreateIoQ, Registered, At, Steps, Jobs
    <2>3. CASE \/ Shutdown \/ ShutdownWait \/ ShutdownWrite \/ ShutdownDone \/ Teardown
               \/ RestartController \/ RemoveDevice \/ SurpriseRemoval \/ PowerCycle
        BY <2>3, <1>a, GotoFacts DEF Shutdown, ShutdownWait, ShutdownWrite, ShutdownDone,
           Teardown, RestartController, RemoveDevice, SurpriseRemoval, PowerCycle, Await, At,
           Steps, ThType
    <2> QED
        BY <1>1, <2>1, <2>2, <2>3 DEF PnpWalk
<1>2. ASSUME NEW w \in Workers, WorkerWalk(w) \/ RestartAdapterDpc, th'[w] # th[w]
      PROVE  th[w].pc # "wait" /\ th'[w].pc # "wait"
    <2>a. w \in Threads
        BY ThreadFacts
    <2>1. CASE WorkerWalk(w)
        BY <2>1, <2>a, <1>a, GotoFacts DEF WorkerWalk, WorkerBegin, Stage2, WorkerResume, At, Do,
           ThType, Steps
    <2>2. CASE RestartAdapterDpc
        BY <2>2, <1>2, <2>a, <1>a, ThreadFacts, GotoFacts DEF RestartAdapterDpc, At, Steps
    <2> QED
        BY <1>2, <2>1, <2>2
<1> QED
    BY <1>1, <1>2

\* A thread at a command is the only one.
LEMMA Alone ==
    ASSUME TypeInv, RestartInv, ~Excused, InScope, NEW t \in Threads, th[t].pc \in {"submit", "wait"}
    PROVE  \A u \in Threads : u # t => th[u].pc \notin {"submit", "wait"}
<1>1. CASE t = "pnp"
    BY <1>1, ThreadFacts DEF RestartInv, Restarting, At
<1>2. CASE t \in Workers
    BY <1>2, ThreadFacts DEF RestartInv, Restarting, At
<1> QED
    BY <1>1, <1>2, ThreadFacts

\* Only a command ends a wait or begins one.
LEMMA WaitSame ==
    ASSUME TypeInv, Next, \A t \in Threads : ~Submit(t) /\ ~Wait(t)
    PROVE  \A t \in Threads : th[t].pc = "wait" \/ th'[t].pc = "wait" => th'[t] = th[t]
<1>1. th["pnp"].pc = "wait" \/ th'["pnp"].pc = "wait" => th'["pnp"] = th["pnp"]
    BY WalkFacts, PnpChanges, ThreadFacts
<1>2. ASSUME NEW w \in Workers, th[w].pc = "wait" \/ th'[w].pc = "wait"
      PROVE  th'[w] = th[w]
    BY <1>2, WalkFacts, WorkerChanges, ThreadFacts
<1> QED
    BY <1>1, <1>2, ThreadFacts

\* The admin queue stays with the one thread that waits.
LEMMA AdminStep == TypeInv /\ StateInv /\ RestartInv /\ AdminInv /\ [Next]_vars => AdminInv'
<1>1. ASSUME TypeInv, StateInv, RestartInv, AdminInv, Next PROVE AdminInv'
    <2> DEFINE Goal ==
            /\ \A t \in Threads : th'[t].pc = "wait" /\ status'[t] = "pending" =>
                  /\ slot' = t
                  /\ \A c \in sent' : c = [by |-> t, job |-> th'[t].job, i |-> th'[t].i]
                  /\ \A c \in posted' : c.cmd = [by |-> t, job |-> th'[t].job, i |-> th'[t].i]
            /\ (\A t \in Threads : ~(th'[t].pc = "wait" /\ status'[t] = "pending"))
                   => slot' = NULL /\ sent' = {} /\ posted' = {}
            /\ sent' = {} \/ posted' = {}
            /\ \A c, d \in posted' : c = d
    <2> SUFFICES ASSUME ~Excused', InScope' PROVE Goal
        BY DEF AdminInv, Pending, Own, At
    <2>a. /\ th \in ThType /\ status \in StatusType /\ "pnp" \in Threads
          /\ ~ctl'.gone /\ ~ctl.gone /\ ~Excused /\ InScope
        BY <1>1, Sticky, ScopeBack, ThreadFacts DEF Excused, TypeInv, TypeOK, ThType, StatusType
    <2>b. /\ \A t \in Threads : Pending(t) =>
                /\ slot = t
                /\ \A c \in sent : c = Own(t)
                /\ \A c \in posted : c.cmd = Own(t)
          /\ (\A t \in Threads : ~Pending(t)) => slot = NULL /\ sent = {} /\ posted = {}
          /\ sent = {} \/ posted = {}
          /\ \A c, d \in posted : c = d
        BY <1>1, <2>a DEF AdminInv
    \* Nothing new: the same threads wait for the same commands.
    <2>c. ASSUME \A t \in Threads : th[t].pc = "wait" \/ th'[t].pc = "wait" => th'[t] = th[t],
                 status' = status, slot' = slot, sent' \subseteq sent, posted' = posted
          PROVE  Goal
        BY <2>b, <2>c DEF Pending, Own, At
    <2>d. (\A t \in Threads : ~Submit(t) /\ ~Wait(t)) =>
              \A t \in Threads : th[t].pc = "wait" \/ th'[t].pc = "wait" => th'[t] = th[t]
        BY <1>1, WaitSame
    <2>1. ASSUME NEW t \in Threads, Submit(t) PROVE Goal
        <3>1. /\ th[t].pc = "submit" /\ th'[t].job = th[t].job /\ th'[t].i = th[t].i
              /\ \A u \in Threads : u # t => th'[u] = th[u]
            BY <1>1, <2>1, SubmitFacts
        <3>2. \A u \in Threads : ~Pending(u)
            BY <1>1, <2>a, <3>1, Alone DEF Pending, At
        <3>3. slot = NULL /\ sent = {} /\ posted = {}
            BY <2>b, <3>2
        <3>4. CASE Failed(t) /\ UNCHANGED admin
            <4>1. th'[t].pc # "wait"
                <5>1. CASE t = "pnp"
                    BY <1>1, <3>1, <3>4, <5>1, FailedFacts DEF TypeInv, TypeOK, JobInv, PnpFits,
                       ThType, QueueJobs, StageJobs, Jobs
                <5>2. CASE t \in Workers
                    BY <1>1, <3>1, <3>4, <5>2, FailedFacts DEF TypeInv, TypeOK, ThType
                <5> QED
                    BY <5>1, <5>2, ThreadFacts
            <4> QED
                BY <3>1, <3>2, <3>3, <3>4, <4>1 DEF Pending, At, admin
        <3>5. CASE /\ th'[t].pc = "wait" /\ slot' = t /\ posted' = posted
                   /\ sent' = sent \cup {Own(t)}
                   /\ status' = [s \in Threads |-> CASE s = t -> "pending"
                                                     [] s = slot /\ s # t -> "error"
                                                     [] OTHER -> status[s]]
            <4>1. \A u \in Threads : u # t => status'[u] = status[u]
                BY <3>3, <3>5, ThreadFacts
            <4>2. \A u \in Threads : u # t => ~(th'[u].pc = "wait" /\ status'[u] = "pending")
                BY <3>1, <3>2, <4>1 DEF Pending, At
            <4>3. sent' = {[by |-> t, job |-> th'[t].job, i |-> th'[t].i]} /\ posted' = {}
                BY <3>1, <3>3, <3>5 DEF Own
            <4>4. status'[t] = "pending"
                BY <3>5
            <4> QED
                BY <3>5, <4>2, <4>3, <4>4
        <3> QED
            BY <1>1, <2>1, <3>4, <3>5, SubmitFacts, RefusedLeaves
    <2>2. ASSUME NEW t \in Threads, Wait(t) PROVE Goal
        <3>1. /\ th[t].pc = "wait" /\ status[t] # "pending" /\ UNCHANGED admin
              /\ \A u \in Threads : u # t => th'[u] = th[u]
            BY <1>1, <2>2, CommandMoves DEF Wait, At
        <3>2. \A u \in Threads : ~Pending(u)
            BY <1>1, <2>a, <3>1, Alone DEF Pending, At
        <3> QED
            BY <2>b, <3>1, <3>2 DEF Pending, At, admin
    <2>3. ASSUME NEW c \in posted, Consume(c), th' = th PROVE Goal
        <3>1. PICK t \in Threads : Pending(t)
            BY <2>b, <2>3
        <3>2. slot = t /\ sent = {} /\ posted' = {} /\ slot' = NULL /\ sent' = {}
            BY <2>b, <2>3, <3>1 DEF Consume
        <3>3. status'[t] # "pending"
            <4>1. c.result \in {"success", "error", "masked"}
                BY <1>1, <2>3 DEF TypeInv, TypeOK
            <4> QED
                BY <2>3, <3>2, <4>1 DEF Consume, NvmeToSrbStatus
        <3>4. \A u \in Threads : u # t => status'[u] = status[u] /\ ~Pending(u)
            BY <2>b, <2>3, <3>2 DEF Consume
        <3> QED
            BY <2>3, <3>2, <3>3, <3>4 DEF Pending, At
    <2>4. CASE PowerCycle
        <3>1. \A t \in Threads : ~Submit(t) /\ ~Wait(t)
            <4>1. ~Restarting
                BY <1>1, <2>4, <2>a DEF PowerCycle, Excused, TypeInv, TypeOK
            <4> QED
                BY <4>1, <2>4, ThreadFacts DEF Restarting, PowerCycle, Submit, Wait, At
        <3> QED
            BY <2>4, <2>c, <2>d, <3>1 DEF PowerCycle
    <2>5. CASE ResetAdm
        <3>1. th["pnp"].pc = "started" /\ ~Restarting
            BY <1>1, <2>a, <2>5 DEF ResetAdm, StateInv, RestartInv
        <3>2. \A t \in Threads : ~Pending(t)
            BY <3>1, ThreadFacts DEF Pending, Restarting, At
        <3>3. slot = NULL /\ sent = {} /\ posted = {}
            BY <2>b, <3>2
        <3>4. \A t \in Threads : status'[t] = status[t]
            BY <2>5, <3>3, ThreadFacts DEF ResetAdm
        <3> QED
            BY <2>5, <3>2, <3>3, <3>4 DEF ResetAdm, Pending, At
    <2>6. CASE CtrlReset
        BY <2>6, <2>c DEF CtrlReset
    <2>7. ASSUME NEW c \in sent, CtrlExecute(c) PROVE Goal
        <3>1. PICK t \in Threads : Pending(t)
            BY <2>b, <2>7
        <3>2. slot = t /\ c = Own(t) /\ sent = {c} /\ posted = {}
            BY <2>b, <2>7, <3>1
        <3>3. /\ sent' = {} /\ UNCHANGED <<th, slot, status>>
              /\ \E r \in {"success", "error", "masked"} : posted' = {[cmd |-> c, result |-> r]}
            BY <2>7, <3>2 DEF CtrlExecute, Rejection
        <3> QED
            BY <2>b, <3>1, <3>2, <3>3 DEF Pending, Own, At
    <2>8. CASE UNCHANGED <<slot, status, sent, posted>> /\ \A t \in Threads : ~Submit(t) /\ ~Wait(t)
        BY <2>8, <2>c, <2>d
    <2>9. (\E c \in posted : Poll(c)) => \E c \in posted : Consume(c) /\ th' = th
        BY DEF Poll
    <2>10. AdmDpc => UNCHANGED <<slot, status, sent, posted>> \/ \E c \in posted : Consume(c) /\ th' = th
        BY DEF AdmDpc, admin
    <2> HIDE DEF Goal
    <2> QED
        BY <1>1, <2>1, <2>2, <2>3, <2>4, <2>5, <2>6, <2>7, <2>8, <2>9, <2>10, Changes
<1>2. ASSUME AdminInv, UNCHANGED vars PROVE AdminInv'
    BY <1>2 DEF AdminInv, Excused, InScope, Pending, Own, At, vars, admin
<1> QED
    BY <1>1, <1>2

\* The controller keeps its queues while the PnP thread initializes the device.
LEMMA QueuesKept ==
    ASSUME TypeInv, EnabledInv, Next, th["pnp"].pc \in InitSteps \/ ctl.en, ~PowerCycle
    PROVE  ctl.cqs \subseteq ctl'.cqs /\ ctl.sqs \subseteq ctl'.sqs
<1>a. ctl \in CtlType /\ ctl.en
    BY DEF TypeInv, TypeOK, CtlType, EnabledInv
<1>1. ~CtrlReset
    BY <1>a DEF CtrlReset
<1>2. ASSUME NEW c \in sent, CtrlExecute(c)
      PROVE  ctl.cqs \subseteq ctl'.cqs /\ ctl.sqs \subseteq ctl'.sqs
    <2>1. \/ ctl' = ctl
          \/ ctl' = [ctl EXCEPT !.cqs = IF c.job = "cq" THEN @ \cup {c.i} ELSE @,
                                !.sqs = IF c.job = "sq" THEN @ \cup {c.i} ELSE @]
        BY <1>2 DEF CtrlExecute
    <2>2. CASE ctl' = ctl
        BY <2>2
    <2>3. CASE ctl' = [ctl EXCEPT !.cqs = IF c.job = "cq" THEN @ \cup {c.i} ELSE @,
                                  !.sqs = IF c.job = "sq" THEN @ \cup {c.i} ELSE @]
        <3>1. /\ ctl'.cqs = IF c.job = "cq" THEN ctl.cqs \cup {c.i} ELSE ctl.cqs
              /\ ctl'.sqs = IF c.job = "sq" THEN ctl.sqs \cup {c.i} ELSE ctl.sqs
            BY <1>a, <2>3 DEF CtlType
        <3> QED
            BY <3>1
    <2> QED
        BY <2>1, <2>2, <2>3
<1>3. CASE \/ DisableWrite \/ RegisterAdmQ \/ EnableWrite \/ EnableOn \/ ShutdownWrite
           \/ SurpriseRemoval \/ CtrlReady \/ CtrlShutdown \/ CtrlFatal \/ UNCHANGED ctl
    BY <1>a, <1>3 DEF DisableWrite, RegisterAdmQ, EnableWrite, EnableOn, ShutdownWrite,
       SurpriseRemoval, CtrlReady, CtrlShutdown, CtrlFatal, CtlType
<1> QED
    BY <1>1, <1>2, <1>3, Changes

\* A command for a queue is the PnP thread's, which waits for it.
LEMMA QueueCommands ==
    ASSUME TypeInv, AdminInv, ~Excused, InScope
    PROVE  /\ \A c \in posted : c.cmd.job \in QueueJobs =>
                 th["pnp"].pc = "wait" /\ c.cmd.job = th["pnp"].job /\ c.cmd.i = th["pnp"].i
           /\ \A c \in sent : c.job \in QueueJobs =>
                 th["pnp"].pc = "wait" /\ c.job = th["pnp"].job /\ c.i = th["pnp"].i
<1>1. ASSUME NEW t \in Threads, Pending(t), th[t].job \in QueueJobs
      PROVE  t = "pnp" /\ th["pnp"].pc = "wait"
    BY <1>1, ThreadFacts DEF TypeInv, JobInv, WorkerFits, Pending, At, QueueJobs, StageJobs
<1>2. CASE \E t \in Threads : Pending(t)
    <2>1. PICK t \in Threads : Pending(t)
        BY <1>2
    <2>2. (\A c \in sent : c = Own(t)) /\ (\A c \in posted : c.cmd = Own(t))
        BY <2>1 DEF AdminInv
    <2> QED
        BY <1>1, <2>1, <2>2 DEF Own
<1>3. CASE \A t \in Threads : ~Pending(t)
    BY <1>3 DEF AdminInv
<1> QED
    BY <1>2, <1>3

\* A reported success stays what the controller has.
LEMMA EffectStep ==
    /\ TypeInv /\ EnabledInv /\ StateInv /\ RestartInv /\ AdminInv /\ EffectInv
    /\ [Next]_vars
    => EffectInv'
<1>1. ASSUME TypeInv, EnabledInv, StateInv, RestartInv, AdminInv, EffectInv, Next PROVE EffectInv'
    <2> DEFINE
        Reported == \A c \in posted' :
              /\ c.result # "masked"
              /\ c.result = "success" /\ c.cmd.job = "cq" => c.cmd.i \in ctl'.cqs
              /\ c.result = "success" /\ c.cmd.job = "sq" => c.cmd.i \in ctl'.sqs
        Second == Registers(th'["pnp"]) /\ th'["pnp"].job = "sq" => th'["pnp"].i \in ctl'.cqs
        Believed == th'["pnp"].pc = "wait" /\ status'["pnp"] = "success" =>
              /\ th'["pnp"].job = "cq" => th'["pnp"].i \in ctl'.cqs
              /\ th'["pnp"].job = "sq" => th'["pnp"].i \in ctl'.sqs
    <2> SUFFICES ASSUME ~Excused', InScope' PROVE Reported /\ Second /\ Believed
        BY DEF EffectInv, Registering, At
    <2>a. /\ th \in ThType /\ status \in StatusType /\ ctl \in CtlType /\ env \in EnvType /\ "pnp" \in Threads
          /\ ~ctl'.gone /\ ~ctl.gone /\ ~Excused /\ InScope
        BY <1>1, Sticky, ScopeBack, ThreadFacts DEF Excused, TypeInv, TypeOK, ThType, StatusType,
           CtlType, EnvType
    <2>b. /\ \A c \in posted :
                /\ c.result # "masked"
                /\ c.result = "success" /\ c.cmd.job = "cq" => c.cmd.i \in ctl.cqs
                /\ c.result = "success" /\ c.cmd.job = "sq" => c.cmd.i \in ctl.sqs
          /\ Registers(th["pnp"]) /\ th["pnp"].job = "sq" => th["pnp"].i \in ctl.cqs
          /\ th["pnp"].pc = "wait" /\ status["pnp"] = "success" =>
                /\ th["pnp"].job = "cq" => th["pnp"].i \in ctl.cqs
                /\ th["pnp"].job = "sq" => th["pnp"].i \in ctl.sqs
        BY <1>1, <2>a DEF EffectInv, Registering, At
    <2>c. th["pnp"].pc \in {"submit", "wait"} => ctl.cqs \subseteq ctl'.cqs /\ ctl.sqs \subseteq ctl'.sqs
        <3>1. th["pnp"].pc \in {"submit", "wait"} => ~PowerCycle
            BY DEF PowerCycle, At
        <3> QED
            BY <1>1, <3>1, QueuesKept DEF InitSteps
    <2>1. Reported
        <3>1. CASE posted' \subseteq posted
            <4>1. \A c \in posted : c.cmd.job \in {"cq", "sq"} => th["pnp"].pc = "wait"
                BY <1>1, <2>a, QueueCommands DEF QueueJobs
            <4> QED
                BY <2>b, <2>c, <3>1, <4>1
        <3>2. ASSUME NEW c \in sent, CtrlExecute(c) PROVE Reported
            <4>1. posted = {}
                BY <1>1, <2>a, <3>2 DEF AdminInv
            <4>2. CASE Executable(c) /\ posted' = posted \cup {[cmd |-> c, result |-> "success"]}
                <5>1. /\ c.job = "cq" => c.i \in ctl'.cqs
                      /\ c.job = "sq" => c.i \in ctl'.sqs
                    <6>1. ctl' = [ctl EXCEPT !.cqs = IF c.job = "cq" THEN @ \cup {c.i} ELSE @,
                                             !.sqs = IF c.job = "sq" THEN @ \cup {c.i} ELSE @]
                        <7>1. Rejection(c) # "success"
                            BY DEF Rejection
                        <7>2. ASSUME NEW r, posted' = posted \cup {[cmd |-> c, result |-> r]}
                             PROVE  r = "success"
                            <8>1. {[cmd |-> c, result |-> r]} = {[cmd |-> c, result |-> "success"]}
                                BY <4>1, <4>2, <7>2
                            <8>2. [cmd |-> c, result |-> r] = [cmd |-> c, result |-> "success"]
                                BY <8>1
                            <8>3. [cmd |-> c, result |-> r].result = [cmd |-> c, result |-> "success"].result
                                BY <8>2
                            <8> QED
                                BY <8>3
                        <7> QED
                            BY <3>2, <7>1, <7>2 DEF CtrlExecute
                    <6> QED
                        BY <6>1, <2>a DEF CtlType
                <5> QED
                    BY <4>1, <4>2, <5>1
            <4>3. CASE ~Executable(c) /\ posted' = posted \cup {[cmd |-> c, result |-> Rejection(c)]}
                <5>1. c.job # "sq"
                    <6>1. ASSUME c.job = "sq" PROVE FALSE
                        <7>1. th["pnp"].pc = "wait" /\ th["pnp"].job = "sq" /\ c.i = th["pnp"].i
                            BY <1>1, <2>a, <6>1, QueueCommands DEF QueueJobs
                        <7>2. c.i \in ctl.cqs
                            BY <2>b, <7>1 DEF Registers, QueueJobs
                        <7> QED
                            BY <4>3, <6>1, <7>2 DEF Executable
                    <6> QED
                        BY <6>1
                <5> QED
                    BY <4>1, <4>3, <5>1 DEF Rejection
            <4>4. ASSUME NEW result \in {"error", "masked"},
                         posted' = posted \cup {[cmd |-> c, result |-> result]},
                         env' = [env EXCEPT !.fault = TRUE, !.masked = @ \/ result = "masked"]
                  PROVE  Reported
                <5>1. result = "error"
                    BY <2>a, <4>4 DEF Excused, EnvType
                <5> QED
                    BY <4>1, <4>4, <5>1
            <4> QED
                BY <3>2, <4>2, <4>3, <4>4 DEF CtrlExecute
        <3>3. posted' \subseteq posted \/ \E c \in sent : CtrlExecute(c)
            <4>1. (\E t \in Threads : Submit(t)) => posted' = posted
                BY <1>1, SubmitFacts DEF admin
            <4> QED
                BY <1>1, <4>1, Changes DEF Poll, AdmDpc, Consume, admin, PowerCycle, ResetAdm,
                   CtrlReset
        <3> HIDE DEF Reported
        <3> QED
            BY <3>1, <3>2, <3>3
    <2>2. Second
        <3>1. CASE th'["pnp"] = th["pnp"]
            BY <2>b, <2>c, <3>1 DEF Registers
        <3>2. CASE PnpWalk
            BY <1>1, <3>2, WalkFacts DEF Registers
        <3>3. CASE Submit("pnp")
            <4>1. th'["pnp"].job = th["pnp"].job /\ th'["pnp"].i = th["pnp"].i /\ th["pnp"].pc = "submit"
                BY <1>1, <2>a, <3>3, SubmitFacts
            <4> QED
                BY <2>b, <2>c, <4>1 DEF Registers
        <3>4. CASE Wait("pnp")
            <4>1. CASE Succeeded("pnp") /\ status["pnp"] = "success"
                BY <1>1, <2>a, <2>b, <2>c, <3>4, <4>1, SucceededFacts DEF Wait, At, Registers,
                   JobInv, PnpFits, TypeInv, ThType, Jobs, StageJobs, QueueJobs
            <4>2. CASE Failed("pnp")
                BY <1>1, <2>a, <3>4, <4>2, FailedFacts DEF Wait, At, Registers, JobInv, PnpFits,
                   TypeInv, ThType, Jobs, StageJobs, QueueJobs
            <4> QED
                BY <3>4, <4>1, <4>2 DEF Wait
        <3> QED
            BY <1>1, <3>1, <3>2, <3>3, <3>4, PnpChanges
    <2>3. Believed
        <3>1. CASE \E t \in Threads : Submit(t)
            <4>1. PICK t \in Threads : Submit(t)
                BY <3>1
            <4>2. CASE t = "pnp"
                <5>1. ~Refused(t)
                    BY <1>1, <2>a, <4>1, RefusedLeaves
                <5> QED
                    BY <1>1, <2>a, <4>1, <4>2, <5>1, SubmitFacts, FailedFacts DEF JobInv, PnpFits,
                       TypeInv, ThType, Jobs, StageJobs, QueueJobs
            <4>3. CASE t # "pnp"
                <5>1. th'["pnp"] = th["pnp"] /\ status'["pnp"] \in {status["pnp"], "error"}
                    BY <1>1, <2>a, <4>1, <4>3, SubmitFacts DEF admin
                <5> QED
                    BY <2>b, <2>c, <5>1
            <4> QED
                BY <4>2, <4>3
        <3>2. CASE \E t \in Threads : Wait(t)
            <4>1. PICK t \in Threads : Wait(t)
                BY <3>2
            <4>2. CASE t = "pnp"
                BY <1>1, <2>a, <4>1, <4>2, SucceededFacts, FailedFacts DEF Wait, At, JobInv,
                   PnpFits, TypeInv, ThType, Jobs, StageJobs, QueueJobs
            <4>3. CASE t # "pnp"
                BY <1>1, <2>a, <2>b, <2>c, <4>1, <4>3, CommandMoves DEF Wait, admin
            <4> QED
                BY <4>2, <4>3
        <3>3. ASSUME NEW c \in posted, Consume(c), th' = th PROVE Believed
            <4>1. CASE slot = "pnp"
                <5>1. ASSUME th["pnp"].pc = "wait", status'["pnp"] = "success"
                      PROVE  /\ th["pnp"].job = "cq" => th["pnp"].i \in ctl.cqs
                             /\ th["pnp"].job = "sq" => th["pnp"].i \in ctl.sqs
                    <6>1. c.result = "success"
                        BY <2>a, <2>b, <3>3, <4>1, <5>1 DEF Consume, NvmeToSrbStatus
                    <6>2. c.cmd = Own("pnp")
                        <7>1. PICK t \in Threads : Pending(t)
                            BY <1>1, <2>a, <3>3 DEF AdminInv
                        <7> QED
                            BY <1>1, <2>a, <3>3, <4>1, <7>1 DEF AdminInv
                    <6> QED
                        BY <2>b, <6>1, <6>2 DEF Own
                <5> QED
                    BY <2>c, <3>3, <5>1
            <4>2. CASE slot # "pnp"
                BY <2>a, <2>b, <2>c, <3>3, <4>2 DEF Consume
            <4> QED
                BY <4>1, <4>2
        <3>4. CASE \A t \in Threads : ~Submit(t) /\ ~Wait(t)
            <4>1. th'["pnp"].pc = "wait" => th'["pnp"] = th["pnp"]
                BY <1>1, <2>a, <3>4, WaitSame
            <4>2. CASE status'["pnp"] \in {status["pnp"], "error"}
                BY <2>b, <2>c, <4>1, <4>2
            <4>3. status'["pnp"] \in {status["pnp"], "error"} \/ \E c \in posted : Consume(c) /\ th' = th
                BY <1>1, <2>a, <3>4, Changes DEF Poll, AdmDpc, admin, PowerCycle, ResetAdm,
                   CtrlReset, CtrlExecute
            <4> HIDE DEF Believed
            <4> QED
                BY <3>3, <4>2, <4>3
        <3> HIDE DEF Believed
        <3> QED
            BY <3>1, <3>2, <3>4
    <2> HIDE DEF Reported, Second, Believed
    <2> QED
        BY <2>1, <2>2, <2>3
<1>2. ASSUME EffectInv, UNCHANGED vars PROVE EffectInv'
    BY <1>2 DEF EffectInv, Excused, InScope, Registering, At, vars, admin
<1> QED
    BY <1>1, <1>2

(****************************************************************************)
(* The queues the driver takes for registered.                              *)
(****************************************************************************)

\* A restart that lost the queues: its worker waits for a controller that is off.
LEMMA LostStays ==
    ASSUME TypeInv, TypeInv', StateInv, RestartInv, RestartInv', AdminInv, Lost, Next,
           ~Excused', InScope'
    PROVE  Lost'
<1>a. /\ th \in ThType /\ status \in StatusType /\ ctl \in CtlType /\ env \in EnvType /\ "pnp" \in Threads
      /\ ~ctl'.gone /\ ~ctl.gone /\ ~Excused /\ InScope /\ th' \in ThType
    BY Sticky, ScopeBack, ThreadFacts DEF Excused, TypeInv, TypeOK, ThType, StatusType, CtlType,
       EnvType
<1>b. /\ ~ctl.en /\ posted = {} /\ th["pnp"].pc \in {"restart", "started"}
      /\ th["pnp"].pc = "started" => Restarting
      /\ \A w \in Workers : /\ th[w].pc \in {"idle", "begin", "submit", "wait"}
                            /\ th[w].pc = "wait" => status[w] = "pending"
    BY DEF Lost, At
<1>1. AdmQ /\ State = "RUNNING" /\ rb = "idle"
    <2>1. rb = "idle"
        BY <1>a, <1>b DEF RestartInv, StateInv
    <2> QED
        BY <1>a, <1>b, <2>1 DEF StateInv
<1>2. ~Submit("pnp") /\ ~Wait("pnp") /\ ~PowerCycle /\ ~ResetAdm
    BY <1>a, <1>b, <1>1 DEF Submit, Wait, PowerCycle, ResetAdm, At, Excused, EnvType
<1>3. ~ctl'.en
    <2>1. ASSUME NEW c \in sent, CtrlExecute(c) PROVE FALSE
        BY <1>b, <2>1 DEF CtrlExecute, CtrlAlive
    <2> QED
        BY <1>a, <1>b, <1>2, <2>1, Changes DEF DisableWrite, RegisterAdmQ, EnableWrite, EnableOn,
           ShutdownWrite, SurpriseRemoval, CtrlReady, CtrlReset, CtrlShutdown, CtrlFatal,
           CtlType, At
<1>4. posted' = {}
    <2>1. ASSUME NEW c \in sent, CtrlExecute(c) PROVE FALSE
        BY <1>b, <2>1 DEF CtrlExecute, CtrlAlive
    <2>2. (\E t \in Threads : Submit(t)) => posted' = posted
        BY SubmitFacts DEF admin
    <2> QED
        BY <1>b, <1>2, <2>1, <2>2, Changes DEF Poll, AdmDpc, admin, CtrlReset
<1>5. ASSUME NEW w \in Workers
      PROVE  /\ th'[w].pc \in {"idle", "begin", "submit", "wait"}
             /\ th'[w].pc = "wait" => status'[w] = "pending"
             /\ th[w].pc # "idle" => th'[w].pc # "idle"
    <2>a. w \in Threads
        BY ThreadFacts
    <2>1. CASE Submit(w)
        <3>1. ~Refused(w)
            BY <1>a, <2>1, <2>a, RefusedLeaves
        <3>2. th'[w].pc = "wait" /\ status'[w] = "pending"
            BY <1>1, <1>a, <2>1, <2>a, <3>1, SubmitFacts DEF IsWorking
        <3> QED
            BY <3>2
    <2>2. ~Wait(w)
        BY <1>b DEF Wait, At
    <2>3. CASE WorkerWalk(w)
        <3>1. WorkerBegin(w) /\ Do(w, "ident", 0)
            BY <1>1, <1>b, <2>3 DEF WorkerWalk, WorkerBegin, Stage2, WorkerResume, At, IsWorking
        <3>2. th'[w].pc = "submit"
            BY <1>a, <2>a, <3>1 DEF Do, ThType
        <3> QED
            BY <1>b, <3>2
    <2>4. CASE RestartAdapterDpc
        <3>1. PICK v \in Workers : th[v].pc = "idle" /\ Goto(v, "begin")
            BY <1>1, <2>4 DEF RestartAdapterDpc, IsWorking, At
        <3>2. v = w => th'[w].pc = "begin"
            BY <1>a, <2>a, <3>1, GotoFacts DEF Steps
        <3>3. v # w => th'[w] = th[w]
            BY <1>a, <2>a, <3>1, GotoFacts, ThreadFacts DEF Steps
        <3>4. UNCHANGED status
            BY <2>4 DEF RestartAdapterDpc, admin
        <3> QED
            BY <1>b, <3>1, <3>2, <3>3, <3>4
    <2>5. CASE th'[w] = th[w] /\ ~Submit(w)
        <3>1. ASSUME th[w].pc = "wait" PROVE status'[w] = "pending"
            <4>1. \A t \in Threads : t # w => ~Submit(t)
                BY <1>a, <2>a, <3>1, Alone DEF Submit, At
            <4> QED
                BY <1>b, <1>2, <2>5, <3>1, <4>1, Changes DEF Poll, AdmDpc, admin, CtrlReset,
                   CtrlExecute
        <3> QED
            BY <1>b, <2>5, <3>1
    <2> QED
        BY <2>1, <2>2, <2>3, <2>4, <2>5, WorkerChanges
<1>6. th'["pnp"].pc = "restart" \/ (th'["pnp"].pc = "started" /\ Restarting')
    <2>1. CASE th["pnp"].pc = "restart"
        <3>1. CASE th'["pnp"] = th["pnp"]
            BY <2>1, <3>1
        <3>2. CASE PnpWalk
            <4>1. RestartController
                BY <2>1, <3>2 DEF PnpWalk, Setup, Disable, DisableWait, DisableWrite,
                   DisableDone, Disabled, RegisterAdmQ, Enable, EnableWait, EnableWrite,
                   EnableOn, EnableDone, Initialize, PassiveInitialize, Stage2, CreateIoQueues,
                      CreateIoQ,
                   Registered, Shutdown, ShutdownWait, ShutdownWrite, ShutdownDone, Teardown,
                   SurpriseRemoval, RemoveDevice, PowerCycle, Await, At
            <4> QED
                BY <1>1, <1>a, <4>1, GotoFacts DEF RestartController, IsWorking, Restarting, Steps
        <3> QED
            BY <1>2, <3>1, <3>2, PnpChanges
    <2>2. CASE th["pnp"].pc = "started"
        <3>1. Restarting
            BY <1>b, <2>2
        <3>2. th'["pnp"].pc = "started"
            <4>1. ~RemoveDevice
                BY <1>a DEF RemoveDevice, InScope, ThType
            <4> QED
                BY <1>a, <1>2, <2>2, <4>1, StartedKeeps
        <3>3. CASE RestartAdapterDpc
            <4>1. PICK v \in Workers : Goto(v, "begin")
                BY <1>1, <3>3 DEF RestartAdapterDpc, IsWorking
            <4>2. th'[v].pc = "begin"
                BY <1>a, <4>1, ThreadFacts, GotoFacts DEF Steps
            <4> QED
                BY <3>2, <4>2 DEF Restarting, At
        <3>4. CASE ~RestartAdapterDpc
            <4>1. "restart" \in dpcs => "restart" \in dpcs'
                BY <3>4, Changes DEF RestartController, AdmDpc, IoDpc, Isr
            <4> QED
                BY <1>5, <3>1, <3>2, <4>1 DEF Restarting, At
        <3> QED
            BY <3>3, <3>4
    <2> QED
        BY <1>b, <2>1, <2>2
<1> QED
    BY <1>3, <1>4, <1>5, <1>6 DEF Lost, At

\* Registered queues stay the controller's, or their loss stops the restart.
LEMMA BackedStep ==
    /\ TypeInv /\ EnabledInv /\ StateInv /\ RestartInv /\ AdminInv /\ EffectInv /\ BackedInv
    /\ [Next]_vars
    => BackedInv'
<1>1. ASSUME TypeInv, EnabledInv, StateInv, RestartInv, AdminInv, EffectInv, BackedInv, Next
      PROVE  BackedInv'
    <2> SUFFICES ASSUME ~Excused', InScope'
                 PROVE  \/ /\ \A q \in 0 .. RegisteredIoQ' - 1 : q \in ctl'.cqs \cap ctl'.sqs
                           /\ th'["pnp"].pc \in RunSteps => ctl'.en
                        \/ Lost'
        BY DEF BackedInv, Backed
    <2>a. /\ TypeInv' /\ EnabledInv' /\ RestartInv'
          /\ th \in ThType /\ ctl \in CtlType /\ env \in EnvType /\ "pnp" \in Threads
          /\ ~ctl'.gone /\ ~ctl.gone /\ ~Excused /\ InScope
        BY <1>1, TypeStep, EnabledStep, RestartStep, Sticky, ScopeBack, ThreadFacts
        DEF Excused, TypeInv, TypeOK, ThType, CtlType, EnvType
    <2>b. RegisteredIoQ \in Nat /\ RegisteredIoQ' \in Nat
        BY <1>1, <2>a, DeviceAssumption DEF TypeInv, TypeOK
    <2>1. CASE Lost
        BY <1>1, <2>1, <2>a, LostStays
    <2>2. CASE th'["pnp"].pc \in BootSteps
        <3>1. RegisteredIoQ' = 0
            BY <2>2, <2>a DEF TypeInv, CountInv, Counted, InScope, Registers, BootSteps
        <3> QED
            BY <2>2, <3>1 DEF BootSteps, RunSteps
    <2>3. CASE th["pnp"].pc \in BootSteps /\ th'["pnp"].pc \notin BootSteps
        <3>1. th'["pnp"].pc \in {"submit", "teardown"} /\ th'["pnp"].job \in {"find", "remove"}
            <4>1. PnpWalk
                BY <1>1, <2>3, PnpChanges DEF BootSteps, Submit, Wait, At
            <4>2. \/ Setup \/ Disable \/ DisableWait \/ DisableWrite \/ DisableDone \/ Disabled
                  \/ RegisterAdmQ \/ Enable \/ EnableWait \/ EnableWrite \/ EnableOn \/ EnableDone
                BY <2>3, <4>1 DEF PnpWalk, BootSteps, Initialize, PassiveInitialize, Stage2,
                   CreateIoQueues, CreateIoQ, Registered, Shutdown, ShutdownWait, ShutdownWrite,
                   ShutdownDone, Teardown, RestartController, SurpriseRemoval, RemoveDevice,
                   PowerCycle, Await, At
            <4> QED
                BY <1>1, <2>3, <4>2, <2>a, GotoFacts DEF Setup, Disable, DisableWait,
                   DisableWrite, DisableDone, Disabled, RegisterAdmQ, Enable, EnableWait,
                   EnableWrite, EnableOn, EnableDone, Await, At, Steps, BootSteps, TypeInv,
                   JobInv, PnpFits
        <3>2. RegisteredIoQ' = 0
            <4>1. Counted(th'["pnp"], RegisteredIoQ', IoQ')
                BY <2>a DEF TypeInv, CountInv
            <4>2. th'["pnp"].pc = "submit" /\ th'["pnp"].job = "find"
                BY <3>1 DEF InScope, BootSteps, InitSteps, RunSteps
            <4> QED
                BY <4>1, <4>2 DEF Counted, Registers, InitSteps, QueueJobs
        <3> QED
            BY <3>1, <3>2 DEF RunSteps
    <2>4. CASE ~Lost /\ th["pnp"].pc \in InitSteps \cup RunSteps /\ th'["pnp"].pc \notin BootSteps
        <3>1. (\A q \in 0 .. RegisteredIoQ - 1 : q \in ctl.cqs \cap ctl.sqs) /\ ctl.en
            BY <1>1, <2>4, <2>a DEF BackedInv, Backed, EnabledInv
        <3>2. CASE PowerCycle
            <4>1. RegisteredIoQ' = RegisteredIoQ /\ th["pnp"].pc = "started"
                BY <3>2 DEF PowerCycle, queues, At
            <4>2. CASE ctl' = ctl
                BY <3>1, <4>1, <4>2
            <4>3. CASE ~ctl'.en
                <5>1. ~Restarting
                    BY <3>2, <2>a DEF PowerCycle, Excused, EnvType
                <5>2. \A w \in Workers : th'[w] = th[w] /\ th[w].pc = "idle"
                    BY <1>1, <3>2, <5>1, PnpMoves DEF PnpWalk, Restarting, At
                <5>3. posted = {}
                    BY <1>1, <2>a, <4>1, <5>2, ThreadFacts DEF AdminInv, Pending, At
                <5>4. th'["pnp"].pc = "restart" /\ posted' = posted
                    BY <3>2, <2>a, GotoFacts DEF PowerCycle, Steps
                <5> QED
                    BY <4>3, <5>2, <5>3, <5>4 DEF Lost, At
            <4> QED
                BY <3>2, <4>2, <4>3, <2>a DEF PowerCycle, CtlType
        <3>3. CASE ~PowerCycle
            <4>1. ctl.cqs \subseteq ctl'.cqs /\ ctl.sqs \subseteq ctl'.sqs
                BY <1>1, <3>1, <3>3, QueuesKept
            <4>2. ctl'.en
                <5>1. ASSUME NEW c \in sent, CtrlExecute(c) PROVE ctl'.en
                    <6>1. ctl' = ctl \/ \E cqs, sqs : ctl' = [ctl EXCEPT !.cqs = cqs, !.sqs = sqs]
                        BY <5>1 DEF CtrlExecute
                    <6> QED
                        BY <3>1, <6>1, <2>a DEF CtlType
                <5> QED
                    BY <1>1, <2>4, <2>a, <3>1, <3>3, <5>1, Changes DEF DisableWrite,
                       RegisterAdmQ, EnableWrite, EnableOn, ShutdownWrite, SurpriseRemoval,
                       CtrlReady, CtrlReset, CtrlShutdown, CtrlFatal, CtlType, At, InitSteps,
                       RunSteps
            <4>3. RegisteredIoQ' = RegisteredIoQ \/ (Wait("pnp") /\ Succeeded("pnp") /\ th["pnp"].job = "sq")
                <5>1. ~Setup /\ ~Disabled
                    BY <2>4 DEF Setup, Disabled, At, InitSteps, RunSteps
                <5>2. ASSUME NEW t \in Threads, Submit(t) PROVE RegisteredIoQ' = RegisteredIoQ
                    BY <1>1, <5>2, SubmitFacts
                <5>3. ASSUME NEW t \in Threads, Wait(t)
                      PROVE  RegisteredIoQ' = RegisteredIoQ \/ (t = "pnp" /\ Succeeded(t) /\ th[t].job = "sq")
                    <6>1. th[t].pc = "wait" /\ (t = "pnp" \/ th[t].job \in StageJobs)
                        BY <1>1, <5>3, ThreadFacts DEF Wait, At, TypeInv, JobInv, WorkerFits
                    <6>2. th[t].job \in {"find", "ident", "list", "ns", "number", "cq", "sq"}
                        BY <1>1, <2>a, <6>1, ThreadFacts DEF TypeInv, JobInv, PnpFits,
                           WorkerFits, ThType, Jobs, StageJobs
                    <6> QED
                        BY <1>1, <2>a, <5>3, <6>1, <6>2, SucceededFacts, FailedFacts DEF Wait,
                           StageJobs, TypeInv
                <5> QED
                    BY <1>1, <5>1, <5>2, <5>3, Changes
            <4>4. CASE RegisteredIoQ' = RegisteredIoQ
                BY <3>1, <4>1, <4>2, <4>4
            <4>5. CASE Wait("pnp") /\ Succeeded("pnp") /\ th["pnp"].job = "sq"
                <5>1. /\ th["pnp"].pc = "wait" /\ RegisteredIoQ' = RegisteredIoQ + 1
                      /\ th["pnp"].i = RegisteredIoQ
                    BY <1>1, <2>a, <4>5, SucceededFacts DEF Wait, At, TypeInv, CountInv, Counted,
                       Registers, QueueJobs
                <5>2. status["pnp"] = "success"
                    <6>1. ASSUME Failed("pnp") PROVE FALSE
                        BY <1>1, <2>a, <2>b, <4>5, <5>1, <6>1, FailedFacts DEF TypeInv
                    <6> QED
                        BY <4>5, <6>1 DEF Wait
                <5>3. RegisteredIoQ \in ctl.cqs \cap ctl.sqs
                    BY <1>1, <2>a, <4>5, <5>1, <5>2 DEF EffectInv, Registering, Registers,
                       QueueJobs, At
                <5>4. \A q \in 0 .. RegisteredIoQ' - 1 : q \in 0 .. RegisteredIoQ - 1 \/ q = RegisteredIoQ
                    BY <2>b, <5>1
                <5> QED
                    BY <3>1, <4>1, <4>2, <5>3, <5>4
            <4> QED
                BY <4>3, <4>4, <4>5
        <3> QED
            BY <3>2, <3>3
    <2> QED
        BY <2>1, <2>2, <2>3, <2>4, <2>a DEF InScope
<1>2. ASSUME BackedInv, UNCHANGED vars PROVE BackedInv'
    BY <1>2 DEF BackedInv, Backed, Lost, Excused, InScope, Restarting, At, vars, queues, admin,
       traffic
<1> QED
    BY <1>1, <1>2

(****************************************************************************)
(* A healthy adapter.                                                       *)
(****************************************************************************)

\* What a healthy adapter is like, and what does not happen to it.
LEMMA HealthFacts ==
    ASSUME TypeInv, StateInv, HealthInv, Next, ~env'.fault
    PROVE  /\ ~env.fault /\ ~env.masked /\ ~env.overlap /\ ~ctl.gone /\ ~ctl.cfs /\ ~Excused
           /\ ~Faulty /\ ~SurpriseRemoval /\ ~PowerCycle /\ ~CtrlFatal /\ ~RestartController
           /\ "restart" \notin dpcs /\ ~RestartAdapterDpc
           /\ \A w \in Workers : /\ th[w].pc = "idle" /\ th'[w] = th[w]
                                 /\ ~WorkerWalk(w) /\ ~Submit(w) /\ ~Wait(w)
           /\ InScope \/ th["pnp"].job = "remove"
           /\ th["pnp"].pc # "find" => AdmQ
           /\ th["pnp"].job # "remove" /\ th["pnp"].pc # "find" =>
                 State = IF rb = "idle" THEN "RUNNING" ELSE "RESETBUS"
           /\ io.pc # "idle" \/ rb # "idle" => th["pnp"].pc = "started"
<1>a. th \in ThType /\ env \in EnvType
    BY DEF TypeInv, TypeOK, ThType, EnvType
<1>1. ~env.fault
    BY Sticky
<1>2. ~Faulty
    BY <1>a DEF Faulty, EnvType
<1>3. ~PowerCycle
    BY <1>a DEF PowerCycle, EnvType
<1>4. ~SurpriseRemoval /\ ~CtrlFatal
    BY <1>2 DEF SurpriseRemoval, CtrlFatal
<1>5. "restart" \notin dpcs /\ (\A w \in Workers : th[w].pc = "idle") /\ th["pnp"].pc # "restart"
    BY <1>1 DEF HealthInv, Restarting, At
<1>6. ~RestartAdapterDpc /\ ~RestartController
    BY <1>5 DEF RestartAdapterDpc, RestartController, At
<1>7. \A w \in Workers : ~WorkerWalk(w) /\ ~Submit(w) /\ ~Wait(w)
    BY <1>5 DEF WorkerWalk, WorkerBegin, Stage2, WorkerResume, Submit, Wait, At
<1>8. \A w \in Workers : th'[w] = th[w]
    BY <1>6, <1>7, WorkerChanges
<1>9. ~ctl.gone /\ ~ctl.cfs /\ ~env.masked /\ ~env.overlap /\ ~Excused
    BY <1>1 DEF HealthInv, Excused
<1>10. InScope \/ th["pnp"].job = "remove"
    BY <1>1 DEF HealthInv
<1> QED
    BY <1>1, <1>2, <1>3, <1>4, <1>5, <1>6, <1>7, <1>8, <1>9, <1>10 DEF HealthInv, StateInv

\* No command fails but the registration of a later queue, so RegisteredIoQ > 0 follows.
LEMMA HealthyCommands ==
    ASSUME TypeInv, StateInv, HealthInv, CommandInv, Next, ~env'.fault, Submit("pnp") \/ Wait("pnp")
    PROVE  /\ InScope'
           /\ th'["pnp"].pc \in {"submit", "wait", "initialize", "stage2", "allocate", "registered"}
           /\ th'["pnp"].pc = "allocate" => DesiredIoQ' > 0
           /\ th'["pnp"].pc = "registered" => RegisteredIoQ' > 0
<1>a. /\ th \in ThType /\ "pnp" \in Threads /\ PnpFits(th["pnp"]) /\ JobInv
      /\ th["pnp"].pc \in {"submit", "wait"} /\ th["pnp"].job \in Jobs /\ th["pnp"].job # "remove"
      /\ RegisteredIoQ \in Nat /\ MaxIoQ \in Nat /\ th["pnp"].i \in Nat
    BY ThreadFacts, DeviceAssumption DEF TypeInv, TypeOK, ThType, JobInv, PnpFits, Submit, Wait,
       At
<1>b. State = "RUNNING" /\ AdmQ /\ ~env.fault /\ InScope
    <2>1. rb = "idle"
        BY <1>a, HealthFacts
    <2> QED
        BY <1>a, <2>1, HealthFacts
<1>1. CASE Submit("pnp")
    <2>1. ~Refused("pnp")
        BY <1>a, <1>1, RefusedLeaves
    <2>2. th'["pnp"].pc = "wait" /\ th'["pnp"].job = th["pnp"].job
        BY <1>a, <1>b, <1>1, <2>1, SubmitFacts DEF IsWorking
    <2> QED
        BY <2>2, <1>a DEF InScope, InitSteps
<1>2. CASE Wait("pnp") /\ status["pnp"] = "success"
    <2>1. Succeeded("pnp") /\ th["pnp"].pc = "wait"
        BY <1>2 DEF Wait, At
    <2>2. th["pnp"].job \in {"find", "cq", "sq"} \cup StageJobs
        BY <1>a DEF Jobs, StageJobs
    <2>3. /\ th'["pnp"].pc \in {"submit", "initialize", "stage2", "allocate", "registered"}
          /\ th'["pnp"].job # "remove"
          /\ th'["pnp"].pc = "registered" => RegisteredIoQ' = RegisteredIoQ + 1
          /\ th'["pnp"].pc = "allocate" => th["pnp"].job = "number"
        BY <1>a, <2>1, <2>2, SucceededFacts DEF StageJobs
    <2>4. th["pnp"].job = "number" => DesiredIoQ' = CtrlQueues /\ CtrlQueues \in Nat \ {0}
        BY <1>2, HealthFacts, DeviceAssumption DEF Wait, NumberAfter
    <2> QED
        BY <1>a, <2>3, <2>4 DEF InScope, InitSteps
<1>3. CASE Wait("pnp") /\ status["pnp"] # "success"
    <2>1. Failed("pnp") /\ th["pnp"].pc = "wait" /\ th["pnp"].job = "cq" /\ th["pnp"].i > 0
        BY <1>3, <1>b DEF Wait, At, CommandInv
    <2>2. th'["pnp"].pc = "registered" /\ th'["pnp"].job = "cq" /\ RegisteredIoQ' = RegisteredIoQ
        BY <1>a, <2>1, FailedFacts DEF QueueJobs, StageJobs
    <2>3. RegisteredIoQ = th["pnp"].i
        BY <2>1 DEF TypeInv, CountInv, Counted, Registers, QueueJobs
    <2> QED
        BY <1>a, <2>1, <2>2, <2>3 DEF InScope, InitSteps
<1> QED
    BY <1>1, <1>2, <1>3

\* Where the PnP thread of a healthy adapter goes.
LEMMA HealthyPlace ==
    ASSUME TypeInv, StateInv, HealthInv, CommandInv, Next, ~env'.fault
    PROVE  /\ InScope' \/ th'["pnp"].job = "remove"
           /\ th'["pnp"].pc \notin {"disableFailed", "restart"}
           /\ th'["pnp"].pc = "allocate" => DesiredIoQ' > 0
           /\ th'["pnp"].pc \in {"registered", "started"} => RegisteredIoQ' > 0
<1>a. /\ th \in ThType /\ "pnp" \in Threads /\ PnpFits(th["pnp"]) /\ 0 \in 0 .. MaxIoQ + Namespaces
      /\ ~Faulty /\ ~env.fault /\ (InScope \/ th["pnp"].job = "remove")
      /\ th["pnp"].pc \notin {"disableFailed", "restart"} /\ DesiredIoQ \in Nat
      /\ th["pnp"].pc = "allocate" => DesiredIoQ > 0
      /\ th["pnp"].pc \in {"registered", "started"} => RegisteredIoQ > 0
    BY HealthFacts, ThreadFacts, DeviceAssumption DEF TypeInv, TypeOK, ThType, JobInv, HealthInv
<1>b. th["pnp"].job # "remove" /\ th["pnp"].pc \notin {"find", "started"} => IsWorking
    BY HealthFacts DEF IsWorking
<1>1. CASE th'["pnp"] = th["pnp"]
    <2>1. th["pnp"].pc \in {"registered", "started"} => RegisteredIoQ' = RegisteredIoQ
        <3>1. th["pnp"].pc \in {"registered", "started"} =>
                  ~Setup /\ ~Disabled /\ \A t \in Threads : ~Wait(t) /\ ~Submit(t)
            BY HealthFacts, ThreadFacts DEF Setup, Disabled, Wait, Submit, At
        <3> QED
            BY <3>1, Changes
    <2>2. th["pnp"].pc = "allocate" => DesiredIoQ' = DesiredIoQ
        <3>1. th["pnp"].pc = "allocate" => ~Setup /\ \A t \in Threads : ~Wait(t)
            BY HealthFacts, ThreadFacts DEF Setup, Wait, At
        <3> QED
            BY <3>1, Changes
    <2> QED
        BY <1>1, <1>a, <2>1, <2>2 DEF InScope
<1>2. CASE Submit("pnp") \/ Wait("pnp")
    <2>1. th'["pnp"].pc # "started"
        BY <1>2, HealthyCommands
    <2> QED
        BY <1>2, <2>1, HealthyCommands
<1>3. CASE PnpWalk
    <2>1. CASE Setup \/ Disable \/ DisableWait \/ DisableWrite \/ DisableDone
        BY <2>1, <1>a, GotoFacts DEF Setup, Disable, DisableWait, DisableWrite, DisableDone,
           Await, At, Steps, PnpFits, InScope, BootSteps
    <2>2. CASE Disabled \/ RegisterAdmQ \/ Enable \/ EnableWait \/ EnableWrite \/ EnableOn \/ EnableDone
        BY <2>2, <1>a, GotoFacts DEF Disabled, RegisterAdmQ, Enable, EnableWait, EnableWrite,
           EnableOn, EnableDone, Await, At, Steps, PnpFits, InScope, BootSteps, InitSteps
    <2>3. CASE Initialize \/ PassiveInitialize \/ Stage2("pnp")
        BY <2>3, <1>a, <1>b, GotoFacts, DoFacts DEF Initialize, PassiveInitialize, Stage2,
           At, Steps, Jobs, PnpFits, StageJobs, InScope, InitSteps
    <2>7. CASE CreateIoQueues
        BY <2>7, <1>a, <1>b, GotoFacts, DoFacts DEF CreateIoQueues, queues, At, Steps, Jobs,
           PnpFits, StageJobs, InScope, InitSteps
    <2>8. CASE CreateIoQ
        BY <2>8, <1>a, <1>b, GotoFacts, DoFacts DEF CreateIoQ, At, Steps, Jobs, PnpFits, StageJobs,
           InScope, InitSteps
    <2>4. CASE Registered
        BY <2>4, <1>a, GotoFacts DEF Registered, At, Steps, PnpFits, QueueJobs, InScope,
           RunSteps, queues
    <2>5. CASE RemoveDevice
        BY <2>5, <1>a DEF RemoveDevice, At, ThType
    <2>6. CASE Shutdown \/ ShutdownWait \/ ShutdownWrite \/ ShutdownDone \/ Teardown
        <3>1. th["pnp"].job = "remove"
            BY <2>6, <1>a DEF Shutdown, ShutdownWait, ShutdownWrite, ShutdownDone, Teardown,
               Await, At, PnpFits, InScope, BootSteps, InitSteps, RunSteps
        <3> QED
            BY <2>6, <3>1, <1>a, GotoFacts DEF Shutdown, ShutdownWait, ShutdownWrite,
               ShutdownDone, Teardown, Await, At, Steps
    <2> QED
        BY <1>3, <2>1, <2>2, <2>3, <2>4, <2>5, <2>6, <2>7, <2>8, HealthFacts DEF PnpWalk
<1> QED
    BY <1>1, <1>2, <1>3, PnpChanges

\* A device that is being removed keeps its admin queue, and State tells so from
\* ShutdownController on.
LEMMA HealthyRemoval ==
    ASSUME TypeInv, StateInv, HealthInv, Next, ~env'.fault, th'["pnp"].job = "remove"
    PROVE  AdmQ' /\ State' = IF th'["pnp"].pc = "shutdown" THEN "RUNNING" ELSE "SHUTDOWN"
<1>a. /\ th \in ThType /\ "pnp" \in Threads /\ PnpFits(th["pnp"]) /\ ~env.fault /\ ~Faulty
      /\ ~SurpriseRemoval /\ ~PowerCycle
    BY HealthFacts, ThreadFacts DEF TypeInv, TypeOK, ThType, JobInv
<1>1. CASE RemoveDevice
    <2>1. th["pnp"].pc = "started" /\ rb = "idle" /\ th["pnp"].job \in QueueJobs
        BY <1>1, <1>a DEF RemoveDevice, At, PnpFits
    <2>2. State = "RUNNING" /\ AdmQ
        BY <2>1, HealthFacts DEF QueueJobs
    <2> QED
        BY <1>1, <1>a, <2>2 DEF RemoveDevice, queues, ThType
<1>2. CASE ~RemoveDevice
    <2>1. th["pnp"].job = "remove"
        <3>1. CASE Submit("pnp") \/ Wait("pnp")
            BY <3>1, <1>2, PnpCommands
        <3>2. CASE PnpWalk
            <4>1. CASE \/ Setup \/ Disable \/ DisableWait \/ DisableWrite \/ DisableDone \/ Disabled
                       \/ RegisterAdmQ \/ Enable \/ EnableWait \/ EnableWrite \/ EnableOn \/ EnableDone
                BY <4>1, <1>a, GotoFacts DEF Setup, Disable, DisableWait, DisableWrite,
                   DisableDone, Disabled, RegisterAdmQ, Enable, EnableWait, EnableWrite,
                   EnableOn, EnableDone, Await, At, Steps
            <4>2. CASE \/ Initialize \/ PassiveInitialize \/ Stage2("pnp") \/ CreateIoQueues
                       \/ CreateIoQ \/ Registered
                       \/ Shutdown \/ ShutdownWait \/ ShutdownWrite \/ ShutdownDone \/ Teardown
                       \/ RestartController
                BY <4>2, <1>a, GotoFacts DEF Initialize, PassiveInitialize, Stage2,
                   CreateIoQueues, CreateIoQ, Registered, Shutdown, ShutdownWait, ShutdownWrite,
                   ShutdownDone, Teardown, RestartController, Await, At, Steps, Do, ThType
            <4> QED
                BY <3>2, <4>1, <4>2, <1>2, <1>a DEF PnpWalk
        <3> QED
            BY <3>1, <3>2, PnpChanges
    <2>2. AdmQ /\ State = IF th["pnp"].pc = "shutdown" THEN "RUNNING" ELSE "SHUTDOWN"
        BY <1>a, <2>1 DEF HealthInv
    <2>3. ~Setup /\ ~ResetBus /\ ~ResetIo
        <3>1. th["pnp"].pc \notin {"find", "started"} /\ rb = "idle"
            BY <1>a, <2>1, HealthFacts DEF PnpFits, QueueJobs
        <3> QED
            BY <3>1 DEF Setup, ResetBus, ResetIo, At
    <2>4. CASE Shutdown
        BY <1>a, <2>2, <2>4, GotoFacts DEF Shutdown, At, Steps, queues
    <2>5. CASE Teardown
        BY <1>a, <2>1, <2>2, <2>5, GotoFacts DEF Teardown, FreeQueues, IsWorking, At, Steps,
           queues
    <2>6. CASE ~Shutdown /\ ~Teardown
        <3>1. State' = State /\ AdmQ' = AdmQ
            BY <2>3, <2>6, Changes
        <3>2. th["pnp"].pc = "shutdown" <=> th'["pnp"].pc = "shutdown"
            <4>1. CASE Submit("pnp") \/ Wait("pnp")
                BY <4>1, PnpCommands
            <4>2. CASE \/ Disable \/ DisableWait \/ DisableWrite \/ DisableDone \/ Disabled
                       \/ RegisterAdmQ \/ Enable \/ EnableWait \/ EnableWrite \/ EnableOn \/ EnableDone
                BY <4>2, <1>a, GotoFacts DEF Disable, DisableWait, DisableWrite, DisableDone,
                   Disabled, RegisterAdmQ, Enable, EnableWait, EnableWrite, EnableOn, EnableDone,
                   Await, At, Steps
            <4>3. CASE \/ Initialize \/ PassiveInitialize \/ Stage2("pnp") \/ CreateIoQueues
                       \/ CreateIoQ \/ Registered
                       \/ ShutdownWait \/ ShutdownWrite \/ ShutdownDone \/ RestartController
                BY <4>3, <1>a, GotoFacts DEF Initialize, PassiveInitialize, Stage2,
                   CreateIoQueues, CreateIoQ, Registered, ShutdownWait, ShutdownWrite, ShutdownDone,
                   RestartController, Await, At, Steps, Do, ThType
            <4> QED
                BY <4>1, <4>2, <4>3, <1>2, <1>a, <2>3, <2>6, PnpChanges DEF PnpWalk
        <3> QED
            BY <2>2, <3>1, <3>2
    <2> QED
        BY <2>4, <2>5, <2>6
<1> QED
    BY <1>1, <1>2

\* The controller's registers as DisableController, RegisterAdmQ and EnableController find them.
LEMMA HealthyBoot ==
    ASSUME TypeInv, StateInv, HealthInv, Next, ~env'.fault
    PROVE  /\ ~ctl'.gone /\ ~ctl'.cfs
           /\ th'["pnp"].pc \in {"find", "disable"} /\ th'["pnp"].job = "find" /\ ctl'.en => ctl'.rdy
           /\ th'["pnp"].pc = "disableDone" => ~ctl'.en
           /\ th'["pnp"].pc \in {"disabled", "register"} /\ th'["pnp"].job = "find"
                  => ~ctl'.en /\ ~ctl'.rdy
<1>a. /\ th \in ThType /\ ctl \in CtlType /\ "pnp" \in Threads /\ PnpFits(th["pnp"])
      /\ ~env.fault /\ ~Faulty /\ ~SurpriseRemoval /\ ~PowerCycle /\ ~CtrlFatal
    BY HealthFacts, ThreadFacts DEF TypeInv, TypeOK, ThType, CtlType, JobInv
<1>b. /\ ~ctl.gone /\ ~ctl.cfs
      /\ th["pnp"].pc \in {"find", "disable"} /\ th["pnp"].job = "find" /\ ctl.en => ctl.rdy
      /\ th["pnp"].pc = "disableDone" => ~ctl.en
      /\ th["pnp"].pc \in {"disabled", "register"} /\ th["pnp"].job = "find" => ~ctl.en /\ ~ctl.rdy
    BY <1>a DEF HealthInv
<1>c. ASSUME NEW c \in sent, CtrlExecute(c)
      PROVE  /\ ctl'.gone = ctl.gone /\ ctl'.cfs = ctl.cfs /\ ctl'.en = ctl.en /\ ctl'.rdy = ctl.rdy
             /\ UNCHANGED th
    <2>1. ctl' = ctl \/ \E cqs, sqs : ctl' = [ctl EXCEPT !.cqs = cqs, !.sqs = sqs]
        BY <1>c DEF CtrlExecute
    <2> QED
        BY <1>a, <1>c, <2>1 DEF CtlType, CtrlExecute
<1>1. CASE th'["pnp"] = th["pnp"]
    <2>1. \/ UNCHANGED ctl \/ CtrlReady \/ CtrlReset \/ CtrlShutdown
          \/ \E c \in sent : CtrlExecute(c)
        <3>1. CASE DisableWrite \/ RegisterAdmQ \/ EnableWrite \/ EnableOn \/ ShutdownWrite
            BY <1>1, <3>1, <1>a, GotoFacts DEF DisableWrite, RegisterAdmQ, EnableWrite, EnableOn,
               ShutdownWrite, At, Steps
        <3> QED
            BY <1>a, <3>1, Changes
    <2>2. CASE UNCHANGED ctl \/ CtrlReady \/ CtrlReset \/ CtrlShutdown
        BY <1>1, <2>2, <1>a, <1>b DEF CtrlReady, CtrlReset, CtrlShutdown, CtlType
    <2>3. CASE \E c \in sent : CtrlExecute(c)
        BY <1>1, <2>3, <1>b, <1>c
    <2> QED
        BY <2>1, <2>2, <2>3
<1>2. CASE Submit("pnp") \/ Wait("pnp")
    BY <1>2, <1>b, PnpCommands
<1>3. CASE PnpWalk
    <2>1. CASE Setup
        BY <2>1, <1>a, <1>b, GotoFacts DEF Setup, At, Steps
    <2>2. CASE Disable
        BY <2>2, <1>a, <1>b, GotoFacts DEF Disable, IsControllerReady, At, Steps, CtlType
    <2>3. CASE DisableWait \/ DisableWrite
        BY <2>3, <1>a, <1>b, GotoFacts DEF DisableWait, DisableWrite, Await, At, Steps, CtlType
    <2>4. CASE DisableDone
        BY <2>4, <1>a, <1>b, GotoFacts DEF DisableDone, Await, IsControllerReady, At, Steps,
           CtlType
    <2>5. CASE Disabled
        BY <2>5, <1>a, <1>b, GotoFacts DEF Disabled, At, Steps, PnpFits, HealthInv
    <2>6. CASE RegisterAdmQ \/ Enable \/ EnableWait \/ EnableWrite \/ EnableOn \/ EnableDone
        BY <2>6, <1>a, <1>b, GotoFacts DEF RegisterAdmQ, Enable, EnableWait, EnableWrite,
           EnableOn, EnableDone, Await, At, Steps, CtlType
    <2>7. CASE Initialize \/ PassiveInitialize \/ Stage2("pnp") \/ CreateIoQueues \/ CreateIoQ
               \/ Registered
        BY <2>7, <1>a, <1>b, GotoFacts DEF Initialize, PassiveInitialize, Stage2, CreateIoQueues,
           CreateIoQ,
           Registered, At, Steps, Do, ThType
    <2>8. CASE \/ Shutdown \/ ShutdownWait \/ ShutdownWrite \/ ShutdownDone \/ Teardown
               \/ RestartController \/ RemoveDevice
        <3>1. /\ ctl'.gone = ctl.gone /\ ctl'.cfs = ctl.cfs
              /\ th'["pnp"].pc \notin {"find", "disabled", "disableDone", "register"}
            BY <2>8, <1>a, GotoFacts DEF Shutdown, ShutdownWait, ShutdownWrite, ShutdownDone,
               Teardown, RestartController, RemoveDevice, Await, At, Steps, ThType, CtlType
        <3>2. th'["pnp"].pc = "disable" => th'["pnp"].job = "remove"
            BY <2>8, <1>a, GotoFacts DEF Shutdown, ShutdownWait, ShutdownWrite, ShutdownDone,
               Teardown, RestartController, RemoveDevice, Await, At, Steps, ThType, PnpFits
        <3> QED
            BY <1>b, <3>1, <3>2
    <2> QED
        BY <1>3, <1>a, <2>1, <2>2, <2>3, <2>4, <2>5, <2>6, <2>7, <2>8 DEF PnpWalk
<1> QED
    BY <1>1, <1>2, <1>3, PnpChanges

\* Nothing that can stop the system does.
LEMMA HealthyRuns ==
    ASSUME TypeInv, StateInv, HealthInv, Next, ~env'.fault
    PROVE  ~crashed'
<1>a. /\ IoQ \in Nat /\ RegisteredIoQ \in Nat /\ MaxIoQ \in Nat /\ io \in IoType /\ ctl \in CtlType
      /\ ~env.fault /\ ~Faulty /\ ~crashed /\ ~ctl.gone /\ PnpFits(th["pnp"])
    BY HealthFacts, DeviceAssumption DEF TypeInv, TypeOK, IoType, CtlType, JobInv, Next
<1>b. th["pnp"].pc = "started" => AdmQ /\ 0 < RegisteredIoQ /\ RegisteredIoQ <= IoQ
    BY <1>a, HealthFacts DEF TypeInv, CountInv, Counted, HealthInv
<1>c. io.pc # "idle" => io.q < RegisteredIoQ
    BY <1>a DEF StateInv
<1>1. CASE RegisterAdmQ
    <2>1. th["pnp"].pc = "register" /\ th["pnp"].job = "find"
        BY <1>1, <1>a DEF RegisterAdmQ, At, PnpFits
    <2>2. ~IsControllerReady /\ AdmQ
        BY <2>1, <1>a, HealthFacts DEF HealthInv, IsControllerReady
    <2> QED
        BY <1>1, <1>a, <2>2 DEF RegisterAdmQ
<1>2. CASE ShutdownWait
    BY <1>2, <1>a DEF ShutdownWait, Await
<1>3. CASE PickQueue
    BY <1>3, <1>a, <1>b DEF PickQueue, At
<1>4. CASE SubmitIo
    <2>1. io.pc = "submit" /\ crashed' = (io.q >= IoQ)
        BY <1>4 DEF SubmitIo
    <2>2. th["pnp"].pc = "started" /\ io.q \in Int
        BY <2>1, <1>a, HealthFacts DEF IoType, QueueIds
    <2>3. ~(io.q >= IoQ)
        BY <2>1, <2>2, <1>a, <1>b, <1>c
    <2> QED
        BY <2>1, <2>3
<1>5. CASE ResetAdm \/ ResetIo
    <2>1. rb # "idle" /\ (crashed' = ~AdmQ \/ crashed' = (IoQ < RegisteredIoQ))
        BY <1>5 DEF ResetAdm, ResetIo
    <2>2. AdmQ /\ ~(IoQ < RegisteredIoQ)
        BY <2>1, <1>a, <1>b, HealthFacts
    <2> QED
        BY <2>1, <2>2
<1>6. CASE AdmDpc
    <2>1. AdmQ
        BY <1>6, <1>a, HealthFacts DEF AdmDpc, HealthInv
    <2> QED
        BY <1>6, <2>1 DEF AdmDpc
<1>7. CASE IoDpc
    <2>1. crashed' = (IoQ = 0)
        BY <1>7 DEF IoDpc
    <2>2. ~(IoQ = 0)
        BY <1>7, <1>a DEF IoDpc, HealthInv
    <2> QED
        BY <2>1, <2>2
<1> QED
    BY <1>1, <1>2, <1>3, <1>4, <1>5, <1>6, <1>7, <1>a, Changes

\* The DPCs come after the queues, and there is no restart.
LEMMA HealthyDpcs ==
    ASSUME TypeInv, StateInv, HealthInv, Next, ~env'.fault
    PROVE  /\ th'["pnp"].pc = "find" => dpcs' = {} /\ ~connected'
           /\ "io" \in dpcs' => IoQ' > 0
           /\ ~Restarting'
<1>a. /\ IoQ \in Nat /\ MaxIoQ \in Nat \ {0} /\ ~env.fault /\ ~RestartController /\ ~Faulty
      /\ "restart" \notin dpcs
      /\ \A w \in Workers : th[w].pc = "idle" /\ th'[w] = th[w]
    BY HealthFacts, DeviceAssumption DEF TypeInv, TypeOK
<1>b. (th["pnp"].pc = "find" => dpcs = {} /\ ~connected) /\ ("io" \in dpcs => IoQ > 0)
    BY <1>a DEF HealthInv
<1>1. ~Restarting'
    BY <1>a, Changes DEF RestartAdapterDpc, AdmDpc, IoDpc, Isr, Restarting, At
<1>2. ASSUME th'["pnp"].pc = "find" PROVE dpcs' = {} /\ ~connected'
    <2>1. th["pnp"].pc = "find" /\ th'["pnp"] = th["pnp"]
        BY <1>2, ScopeBack
    <2>2. dpcs' = dpcs
        BY <1>a, <1>b, <2>1, Changes DEF RestartAdapterDpc, AdmDpc, IoDpc, Isr
    <2>3. connected' = connected
        BY <2>1, Changes DEF Initialize, At
    <2> QED
        BY <1>b, <2>1, <2>2, <2>3
<1>3. ASSUME "io" \in dpcs' PROVE IoQ' > 0
    <2>1. "io" \in dpcs \/ (IoQ > 0 /\ UNCHANGED queues)
        BY <1>3, <1>a, Changes DEF RestartAdapterDpc, AdmDpc, IoDpc, Isr
    <2>2. CASE "io" \in dpcs
        <3>1. ~Setup
            BY <1>b, <2>2 DEF Setup, At
        <3>2. ~(Teardown /\ IsWorking)
            <4>1. Teardown => th["pnp"].job = "remove"
                BY HealthFacts DEF Teardown, At, InScope, BootSteps, InitSteps, RunSteps
            <4> QED
                BY <1>a, <4>1 DEF Teardown, At, IsWorking, HealthInv
        <3> QED
            <4>1. CASE IoQ' = IoQ
                BY <1>b, <2>2, <4>1
            <4>2. CASE Teardown
                BY <1>b, <2>2, <3>2, <4>2 DEF Teardown, FreeQueues, queues
            <4>3. CASE CreateIoQ
                <5>1. DesiredIoQ > 0
                    BY <1>a, <4>3 DEF CreateIoQ, At, HealthInv
                <5> QED
                    BY <1>a, <4>3, <5>1 DEF CreateIoQ
            <4> QED
                BY <3>1, <4>1, <4>2, <4>3, Changes
    <2> QED
        BY <2>1, <2>2 DEF queues
<1> QED
    BY <1>1, <1>2, <1>3

\* A healthy adapter stays so until a fault.
LEMMA HealthStep == TypeInv /\ StateInv /\ HealthInv /\ CommandInv /\ [Next]_vars => HealthInv'
<1>1. ASSUME TypeInv, StateInv, HealthInv, CommandInv, Next, ~env'.fault PROVE HealthInv'
    <2>1. ~env.masked /\ ~env.overlap /\ ~env.refused /\ ~Faulty /\ ~PowerCycle /\ env \in EnvType
        BY <1>1, HealthFacts DEF TypeInv, TypeOK, EnvType, HealthInv
    <2>2. ~env'.masked /\ ~env'.overlap /\ ~env'.refused
        <3>1. ASSUME NEW c \in sent, CtrlExecute(c) PROVE env' = env
            <4>1. env' = env \/ \E m : env' = [env EXCEPT !.fault = TRUE, !.masked = m]
                BY <3>1 DEF CtrlExecute
            <4> QED
                BY <1>1, <2>1, <4>1 DEF EnvType
        <3>2. ASSUME NEW t \in Threads, Submit(t) PROVE env' = env
            BY <1>1, <3>2, SubmitFacts, RefusedLeaves
        <3> QED
            BY <1>1, <2>1, <3>1, <3>2, Changes DEF Setup, DisableWait, DisableDone, EnableWait,
               EnableDone, Initialize, CreateIoQ, RegisterAdmQ, ShutdownWait, ShutdownDone, Await,
               SurpriseRemoval, CtrlFatal, ResetBus, EnvType
    <2> QED
        BY <1>1, <2>2, HealthyPlace, HealthyRemoval, HealthyBoot, HealthyRuns, HealthyDpcs
        DEF HealthInv
<1>2. ASSUME HealthInv, UNCHANGED vars PROVE HealthInv'
    BY <1>2 DEF HealthInv, InScope, Restarting, At, vars, queues, traffic
<1> QED
    BY <1>1, <1>2 DEF HealthInv

\* In a healthy adapter only the registration of a later queue is refused.
LEMMA CommandStep ==
    TypeInv /\ StateInv /\ RestartInv /\ AdminInv /\ HealthInv /\ CommandInv /\ [Next]_vars => CommandInv'
<1>1. ASSUME TypeInv, StateInv, RestartInv, AdminInv, HealthInv, CommandInv, Next, ~env'.fault, InScope'
      PROVE  CommandInv'
    <2>a. /\ th \in ThType /\ status \in StatusType /\ "pnp" \in Threads
          /\ ~env.fault /\ ~Excused /\ InScope /\ ~PowerCycle
          /\ \A t \in Threads : t # "pnp" => ~Submit(t) /\ ~Wait(t)
        BY <1>1, HealthFacts, ScopeBack, ThreadFacts DEF TypeInv, TypeOK, ThType, StatusType
    <2>b. /\ \A c \in posted : c.result = "error" => c.cmd.job = "cq" /\ c.cmd.i > 0
          /\ th["pnp"].pc = "wait" => \/ status["pnp"] \in {"pending", "success"}
                                      \/ th["pnp"].job = "cq" /\ th["pnp"].i > 0
        BY <1>1, <2>a DEF CommandInv, At
    <2>1. ASSUME NEW c \in posted' PROVE c.result = "error" => c.cmd.job = "cq" /\ c.cmd.i > 0
        <3>1. CASE posted' \subseteq posted
            BY <2>b, <2>1, <3>1
        <3>2. ASSUME NEW d \in sent, CtrlExecute(d)
              PROVE  c.result = "error" => c.cmd.job = "cq" /\ c.cmd.i > 0
            <4>1. env'.fault \/ ~\E result \in {"error", "masked"} :
                      env' = [env EXCEPT !.fault = TRUE, !.masked = @ \/ result = "masked"]
                BY <1>1 DEF TypeInv, TypeOK
            <4>2. \/ posted' = posted \cup {[cmd |-> d, result |-> "success"]}
                  \/ ~Executable(d) /\ posted' = posted \cup {[cmd |-> d, result |-> Rejection(d)]}
                BY <1>1, <3>2, <4>1 DEF CtrlExecute
            <4>3. ~Executable(d) /\ Rejection(d) = "error" => d.job = "cq" /\ d.i > 0
                <5>1. d.i \in Nat /\ CtrlQueues \in Nat \ {0}
                    BY <1>1, DeviceAssumption DEF TypeInv, TypeOK, Commands
                <5> QED
                    BY <5>1 DEF Executable, Rejection
            <4> QED
                BY <2>b, <2>1, <4>2, <4>3
        <3>3. posted' \subseteq posted \/ \E d \in sent : CtrlExecute(d)
            <4>1. (\E t \in Threads : Submit(t)) => posted' = posted
                BY <1>1, SubmitFacts DEF admin
            <4> QED
                BY <1>1, <4>1, Changes DEF Poll, AdmDpc, Consume, admin, PowerCycle, ResetAdm,
                   CtrlReset
        <3> QED
            BY <3>1, <3>2, <3>3
    <2>2. ASSUME th'["pnp"].pc = "wait"
          PROVE  \/ status'["pnp"] \in {"pending", "success"}
                 \/ th'["pnp"].job = "cq" /\ th'["pnp"].i > 0
        <3>1. CASE Submit("pnp")
            <4>1. rb = "idle" /\ th["pnp"].pc = "submit"
                BY <1>1, <3>1, HealthFacts DEF Submit, At
            <4>2. IsWorking /\ AdmQ
                BY <1>1, <2>a, <4>1, HealthFacts DEF IsWorking, InScope
            <4>3. ~Refused("pnp")
                BY <1>1, <2>a, <3>1, RefusedLeaves
            <4>4. status'["pnp"] = "pending"
                BY <1>1, <2>a, <3>1, <4>2, <4>3, SubmitFacts
            <4> QED
                BY <4>4
        <3>2. CASE Wait("pnp")
            <4>1. th'["pnp"].pc # "wait"
                BY <1>1, <2>a, <3>2, SucceededFacts, FailedFacts DEF Wait, At, JobInv, PnpFits,
                   TypeInv, ThType, Jobs, StageJobs, QueueJobs
            <4> QED
                BY <2>2, <4>1
        <3>3. CASE ~Submit("pnp") /\ ~Wait("pnp")
            <4>1. th'["pnp"] = th["pnp"]
                BY <1>1, <2>2, <2>a, <3>3, WaitSame
            <4>2. CASE status' = status
                BY <2>b, <2>2, <4>1, <4>2
            <4>3. ASSUME NEW c \in posted, Consume(c)
                  PROVE  \/ status'["pnp"] \in {"pending", "success"}
                         \/ th["pnp"].job = "cq" /\ th["pnp"].i > 0
                <5>1. CASE slot = "pnp"
                    <6>1. PICK t \in Threads : Pending(t)
                        BY <1>1, <2>a, <4>3 DEF AdminInv
                    <6>2. t = "pnp" /\ c.cmd = Own("pnp")
                        BY <1>1, <2>a, <4>3, <5>1, <6>1 DEF AdminInv
                    <6>3. c.result \in {"success", "error", "masked"}
                        BY <1>1, <4>3 DEF TypeInv, TypeOK
                    <6>4. status'["pnp"] = NvmeToSrbStatus(c.result)
                        BY <4>3, <5>1, <2>a DEF Consume
                    <6> QED
                        BY <2>b, <4>3, <6>2, <6>3, <6>4 DEF Own, NvmeToSrbStatus
                <5>2. CASE slot # "pnp"
                    BY <2>a, <2>b, <2>2, <4>1, <4>3, <5>2 DEF Consume
                <5> QED
                    BY <5>1, <5>2
            <4>4. ~ResetAdm
                BY <1>1, <2>2, <4>1, HealthFacts DEF ResetAdm
            <4>5. status' = status \/ \E c \in posted : Consume(c)
                BY <1>1, <2>a, <3>3, <4>4, Changes DEF Poll, AdmDpc, admin, CtrlReset, CtrlExecute
            <4> QED
                BY <4>1, <4>2, <4>3, <4>5
        <3> QED
            BY <3>1, <3>2, <3>3
    <2> QED
        BY <2>1, <2>2 DEF CommandInv, At
<1>2. ASSUME CommandInv, UNCHANGED vars PROVE CommandInv'
    BY <1>2 DEF CommandInv, InScope, At, vars, admin
<1> QED
    BY <1>1, <1>2 DEF CommandInv

(****************************************************************************)
(* Theorems.                                                                *)
(****************************************************************************)

\* The safe part of the invariant: what holds whatever happens.
SafeInv == TypeInv /\ QuietInv /\ EnabledInv /\ StateInv

\* What holds as long as nothing is excused.
ScopedInv == RestartInv /\ AdminInv /\ EffectInv /\ BackedInv

\* All but the healthy part holds from the start.
LEMMA InitSafe == Init => SafeInv /\ ScopedInv
<1> SUFFICES ASSUME Init PROVE SafeInv /\ ScopedInv
    OBVIOUS
<1>a. /\ MaxIoQ \in Nat \ {0} /\ Namespaces \in Nat /\ {MaxSleeps, MaxResets} \subseteq Nat
      /\ BootStates \subseteq BOOLEAN \X BOOLEAN
      /\ "pnp" \in Threads /\ \A w \in Workers : w \in Threads /\ w # "pnp"
    BY DeviceAssumption, ThreadFacts
<1>b. /\ th["pnp"] = [pc |-> "find", job |-> "find", i |-> 0]
      /\ \A w \in Workers : th[w] = [pc |-> "idle", job |-> "find", i |-> 0]
      /\ \A t \in Threads : th[t].pc \in {"find", "idle"}
    BY <1>a DEF Init
<1>1. TypeOK
    <2>1. th \in [Threads -> [pc : Steps, job : Jobs, i : 0 .. MaxIoQ + Namespaces]]
        BY <1>a DEF Init, Steps, Jobs
    <2>2. ctl \in [en : BOOLEAN, rdy : BOOLEAN, cfs : BOOLEAN, shn : BOOLEAN, shst : BOOLEAN,
                aqa : BOOLEAN, cqs : SUBSET QueueIds, sqs : SUBSET QueueIds, gone : BOOLEAN]
        <3>1. PICK boot \in BootStates :
                ctl = [en |-> boot[1], rdy |-> boot[2], cfs |-> FALSE, shn |-> FALSE,
                       shst |-> FALSE, aqa |-> FALSE, cqs |-> {}, sqs |-> {}, gone |-> FALSE]
            BY DEF Init
        <3>2. boot[1] \in BOOLEAN /\ boot[2] \in BOOLEAN
            BY <1>a
        <3> QED
            BY <3>1, <3>2
    <2>3. io \in [pc : {"idle", "submit", "sent", "posted"}, q : QueueIds]
        BY <1>a DEF Init, QueueIds
    <2>4. env \in [fault : BOOLEAN, masked : BOOLEAN, refused : BOOLEAN, overlap : BOOLEAN,
                  sleeps : 0 .. MaxSleeps, resets : 0 .. MaxResets]
        BY <1>a DEF Init
    <2>5. /\ State = "STOP" /\ DesiredIoQ = 0 /\ AdmQ = FALSE /\ IoQ = 0 /\ RegisteredIoQ = 0
          /\ paused = FALSE /\ connected = FALSE /\ crashed = FALSE
          /\ slot = NULL /\ sent = {} /\ posted = {} /\ rb = "idle" /\ irq = {} /\ dpcs = {}
          /\ status = [t \in Threads |-> "none"]
        BY DEF Init
    <2>6. 0 \in 0 .. MaxIoQ
        BY <1>a
    <2> QED
        BY <2>1, <2>2, <2>3, <2>4, <2>5, <2>6 DEF TypeOK
<1>2. JobInv
    BY <1>b DEF JobInv, PnpFits, WorkerFits, StageJobs
<1>3. CountInv
    BY <1>b DEF Init, CountInv, Counted, Registers, BootSteps, QueueJobs
<1>4. QuietInv /\ EnabledInv
    BY <1>b DEF QuietInv, EnabledInv, InitSteps
<1>10. NumberInv
    BY <1>b DEF Init, NumberInv
<1>5. StateInv
    BY <1>b DEF Init, StateInv
<1>6. RestartInv
    <2>1. dpcs = {}
        BY DEF Init
    <2>2. \A w \in Workers : At(w, "idle")
        BY <1>b DEF At
    <2> QED
        BY <2>1, <2>2 DEF RestartInv, Restarting
<1>7. AdminInv
    BY <1>b DEF Init, AdminInv, Pending, At
<1>8. EffectInv
    BY <1>b DEF Init, EffectInv, Registering, Registers, At
<1>9. BackedInv
    BY <1>b DEF Init, BackedInv, Backed, RunSteps
<1> QED
    BY <1>1, <1>2, <1>3, <1>4, <1>5, <1>6, <1>7, <1>8, <1>9, <1>10 DEF SafeInv, ScopedInv, TypeInv

\* It holds in every behaviour.
LEMMA SafeInvariance == Spec => [](SafeInv /\ ScopedInv)
<1>1. SafeInv /\ [Next]_vars => SafeInv'
    BY TypeStep, QuietStep, EnabledStep, StateStep DEF SafeInv
<1>2. SafeInv /\ ScopedInv /\ [Next]_vars => ScopedInv'
    BY RestartStep, AdminStep, EffectStep, BackedStep DEF SafeInv, ScopedInv
<1> QED
    BY <1>1, <1>2, InitSafe, PTL DEF Spec

\* Every variable keeps its type: no number of queues passes the length of IoQueue, every
\* command names a queue or a namespace there is.
THEOREM TypeCorrect == Spec => []TypeOK
<1>1. SafeInv => TypeOK
    BY DEF SafeInv, TypeInv
<1> QED
    BY <1>1, SafeInvariance, PTL

\* EnableController sets CC.EN only after CSTS.RDY has fallen (or a fatal error hid it),
\* whatever the firmware left and however the adapter was started.
THEOREM EnablesWhenQuiet == Spec => EnableOnlyWhenQuiet
<1>1. SafeInv /\ [Next]_vars => [~ctl.en /\ ctl'.en => ~ctl.rdy \/ ctl.cfs]_ctl
    <2> SUFFICES ASSUME TypeInv, QuietInv, Next, ~ctl.en, ctl'.en PROVE ~ctl.rdy \/ ctl.cfs
        BY DEF SafeInv, vars
    <2>a. ctl \in CtlType
        BY DEF TypeInv, TypeOK, CtlType
    <2>1. ASSUME NEW c \in sent, CtrlExecute(c) PROVE FALSE
        <3>1. CtrlAlive
            BY <2>1 DEF CtrlExecute
        <3> QED
            BY <3>1 DEF CtrlAlive
    <2>2. EnableOn
        BY <2>a, <2>1, Changes DEF DisableWrite, RegisterAdmQ, EnableWrite, ShutdownWrite,
           SurpriseRemoval, PowerCycle, CtrlReady, CtrlReset, CtrlShutdown, CtrlFatal, CtlType
    <2> QED
        BY <2>2 DEF EnableOn, At, QuietInv
<1> QED
    BY <1>1, SafeInvariance, PTL DEF Spec, EnableOnlyWhenQuiet

\* A request that SubmitIoCmd sends has a queue with memory, and one whose two rings the
\* controller has: whatever fails, however many sleeps, restarts and bus resets come.
THEOREM IoToRegistered == Spec => []IoOnlyToRegistered
<1>1. SafeInv /\ ScopedInv => IoOnlyToRegistered
    <2> SUFFICES ASSUME SafeInv, ScopedInv, io.pc = "submit", ~Excused
                 PROVE  io.q < IoQ /\ io.q \in ctl.cqs \cap ctl.sqs
        BY DEF IoOnlyToRegistered, Excused
    <2>a. /\ TypeInv /\ io.q \in QueueIds /\ MaxIoQ \in Nat
          /\ RegisteredIoQ \in Nat /\ IoQ \in Nat
        BY DeviceAssumption DEF SafeInv, TypeInv, TypeOK
    <2>1. th["pnp"].pc = "started" /\ io.q < RegisteredIoQ
        BY DEF SafeInv, StateInv, Excused
    <2>2. InScope
        BY <2>1, <2>a DEF InScope, RunSteps, TypeInv, JobInv, PnpFits, QueueJobs
    <2>3. ~Lost
        BY <2>1, <2>2 DEF ScopedInv, RestartInv, Lost
    <2>4. Backed
        BY <2>2, <2>3 DEF ScopedInv, BackedInv
    <2>5. RegisteredIoQ <= IoQ
        BY <2>1, <2>a DEF TypeInv, CountInv, Counted
    <2> QED
        BY <2>a, <2>1, <2>4, <2>5 DEF Backed, QueueIds
<1> QED
    BY <1>1, SafeInvariance, PTL


\* A controller that the firmware leaves in the middle of coming up, CC.EN set and CSTS.RDY
\* not yet, is one that RegisterAdmQ may take for ready: the healthy start is without it.
SettledAtBoot == <<TRUE, FALSE>> \notin BootStates

\* The healthy part holds from a settled start.
LEMMA InitHealthy == SettledAtBoot /\ Init => HealthInv /\ CommandInv
<1> SUFFICES ASSUME SettledAtBoot, Init PROVE HealthInv /\ CommandInv
    OBVIOUS
<1>1. /\ th["pnp"] = [pc |-> "find", job |-> "find", i |-> 0]
      /\ \A w \in Workers : th[w].pc = "idle"
    BY ThreadFacts DEF Init
<1>2. /\ ~ctl.gone /\ ~ctl.cfs /\ (ctl.en => ctl.rdy)
    <2>1. PICK boot \in BootStates :
              ctl = [en |-> boot[1], rdy |-> boot[2], cfs |-> FALSE, shn |-> FALSE,
                     shst |-> FALSE, aqa |-> FALSE, cqs |-> {}, sqs |-> {}, gone |-> FALSE]
        BY DEF Init
    <2>2. boot \in BOOLEAN \X BOOLEAN /\ boot # <<TRUE, FALSE>>
        BY DeviceAssumption DEF SettledAtBoot
    <2>3. ASSUME boot[1], ~boot[2] PROVE FALSE
        <3>1. PICK a \in BOOLEAN, b \in BOOLEAN : boot = <<a, b>>
            BY <2>2
        <3>2. boot[1] = a /\ boot[2] = b
            BY <3>1
        <3>3. a = TRUE /\ b = FALSE
            BY <2>3, <3>1, <3>2
        <3> QED
            BY <2>2, <3>1, <3>3
    <2> QED
        BY <2>1, <2>3
<1>3. InScope
    BY <1>1 DEF InScope, BootSteps
<1>4. HealthInv
    BY <1>1, <1>2, <1>3 DEF Init, HealthInv, Restarting, At
<1>5. CommandInv
    BY <1>1 DEF Init, CommandInv, At
<1> QED
    BY <1>4, <1>5

\* No bugcheck and no wild access in an adapter to which nothing happens from outside, with
\* as many or as few queues as its controller may have, and however often its bus is reset.
THEOREM HealthyStays == ASSUME SettledAtBoot PROVE Spec => []HealthyNeverCrashes
<1>1. Init => HealthInv /\ CommandInv
    BY InitHealthy
<1>2. SafeInv /\ ScopedInv /\ HealthInv /\ CommandInv /\ [Next]_vars => HealthInv' /\ CommandInv'
    BY HealthStep, CommandStep DEF SafeInv, ScopedInv
<1>3. HealthInv => HealthyNeverCrashes
    BY DEF HealthInv, HealthyNeverCrashes
<1> QED
    BY <1>1, <1>2, <1>3, SafeInvariance, PTL DEF Spec

=============================================================================
