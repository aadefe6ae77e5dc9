------------------------------ MODULE NvmeDevice -----------------------------
(****************************************************************************)
(* The life of one adapter: class CNvmeDevice                               *)
(* (src/src/SpcNvme/NvmeDevice.cpp) as the miniport entry points drive it   *)
(* (MiniportFunctions.cpp, BuildIo_Handler.cpp, HandleAdapterControl.cpp).  *)
(* The threads that run its code are                                        *)
(*   - "pnp": HwFindAdapter, HwInitialize, HwPassiveInitialize, then the    *)
(*     remove, surprise-remove and power requests, one after the other;     *)
(*   - Workers: the work items that run RestartAdapterWorker, one for each  *)
(*     restart, so two at once if a restart comes before the last is over;  *)
(*   - a submitter of I/O in SubmitIoCmd, HwResetBus, the ISR and the DPCs. *)
(* A queue pair is reduced to what the device sees of it: it exists or not, *)
(* and a command it accepts is completed after the controller executed it.  *)
(* Every command of these threads is an internal one and has CID 0, so the  *)
(* admin queue's history is one slot.                                       *)
(****************************************************************************)
EXTENDS Integers, FiniteSets

CONSTANTS Registry,      \* I/O queues wanted: IO_QUEUE_COUNT, or what the registry says
          MaxIoQ,        \* MAX_IO_QUEUE_COUNT, the length of the array IoQueue
          CtrlQueues,    \* I/O queue pairs the controller can have
          Namespaces,    \* namespaces in use, at most SUPPORT_NAMESPACES
          Nvme10,        \* the controller's version is 1.0
          BootStates,    \* the controller as the firmware leaves it: {<<en, rdy>>}
          Fatal,         \* the controller may have a fatal error
          Surprise,      \* the adapter may be pulled out
          Workers,       \* bound: work items that run at once
          MaxSleeps,     \* bound: power cycles
          MaxResets,     \* bound: bus resets
          NULL

\* A controller has at least one I/O queue pair.  Neither the number from the
\* registry nor the one the controller is asked for exceeds the array, which the
\* driver does not check.
ASSUME DeviceAssumption ==
    /\ MaxIoQ \in Nat \ {0}
    /\ CtrlQueues \in Nat \ {0}
    /\ Registry # {} /\ Registry \subseteq 0 .. MaxIoQ
    /\ 0 \in Registry => CtrlQueues <= MaxIoQ
    /\ Namespaces \in Nat
    /\ BootStates \subseteq BOOLEAN \X BOOLEAN
    /\ {Nvme10, Fatal, Surprise} \subseteq BOOLEAN
    /\ {MaxSleeps, MaxResets} \subseteq Nat
    /\ "pnp" \notin Workers /\ NULL \notin Workers \cup {"pnp"}

Threads == {"pnp"} \cup Workers
QueueIds == 0 .. MaxIoQ - 1

VARIABLES
    State,          \* CNvmeDevice::State
    DesiredIoQ,     \* I/O queues the driver wants, 0: as many as the controller has
    AdmQ,           \* AdmQueue is not NULL
    IoQ,            \* AllocatedIoQ: IoQueue[0 .. IoQ - 1] are not NULL
    RegisteredIoQ,  \* I/O queues the driver takes for registered
    paused,         \* StorPortPause is in force
    connected,      \* the interrupts are connected
    th,             \* each thread: its step, the job it is at, the job's index
    slot,           \* admin history, CID 0: the thread whose command is outstanding
    status,         \* SrbStatus of each thread's own command
    sent,           \* admin commands the controller has not executed
    posted,         \* admin completions the driver has not consumed
    io,             \* one I/O request: its step and its queue
    rb,             \* HwResetBus: its step
    irq,            \* interrupt messages on their way
    dpcs,           \* DPCs queued
    ctl,            \* the controller's registers and queues
    crashed,        \* the system has stopped: bugcheck or a wild access
    env             \* what happened to the adapter: a fault, a masked error, a restart whose
                    \* command was refused, a sleep while a restart was on, how many sleeps
                    \* and resets

queues  == <<DesiredIoQ, AdmQ, IoQ, RegisteredIoQ>>
admin   == <<slot, status, sent, posted>>
traffic == <<io, rb, irq, dpcs>>
vars    == <<State, queues, paused, connected, th, admin, traffic, ctl, crashed, env>>

IsWorking == State = "RUNNING"

\* Mutant of IsControllerReady: CC.EN is taken for CSTS.RDY.
ReadyIfEnabled == ctl.en /\ ~ctl.cfs

IsControllerReady == ctl.rdy /\ ~ctl.cfs

Init ==
    /\ State = "STOP"
    /\ DesiredIoQ = 0 /\ AdmQ = FALSE /\ IoQ = 0 /\ RegisteredIoQ = 0
    /\ paused = FALSE /\ connected = FALSE /\ crashed = FALSE
    /\ th = [t \in Threads |->
                [pc |-> IF t = "pnp" THEN "find" ELSE "idle", job |-> "find", i |-> 0]]
    /\ slot = NULL
    /\ status = [t \in Threads |-> "none"]
    /\ sent = {} /\ posted = {}
    /\ io = [pc |-> "idle", q |-> 0]
    /\ rb = "idle"
    /\ irq = {} /\ dpcs = {}
    /\ \E boot \in BootStates :
          ctl = [en |-> boot[1], rdy |-> boot[2], cfs |-> FALSE, shn |-> FALSE,
                 shst |-> FALSE, aqa |-> FALSE, cqs |-> {}, sqs |-> {}, gone |-> FALSE]
    /\ env = [fault |-> FALSE, masked |-> FALSE, refused |-> FALSE, overlap |-> FALSE,
              sleeps |-> 0, resets |-> 0]

Faulty == env' = [env EXCEPT !.fault = TRUE]

At(t, pc)   == th[t].pc = pc
Goto(t, pc) == th' = [th EXCEPT ![t].pc = pc]
Do(t, job, i) == th' = [th EXCEPT ![t] = [pc |-> "submit", job |-> job, i |-> i]]

----------------------------------------------------------------------------
(* HwFindAdapter: Setup, then InitController.                               *)

\* Setup.  InitVars sets State back to STOP, where a failure leaves it; LoadRegistry
\* may change the number of queues.
Setup ==
    /\ At("pnp", "find")
    /\ RegisteredIoQ' = 0 /\ IoQ' = 0 /\ DesiredIoQ' \in Registry
    /\ \/ State' = "RUNNING" /\ AdmQ' = TRUE /\ Goto("pnp", "disable") /\ UNCHANGED env
       \* MapCtrlRegisters fails, or CreateAdmQ does and leaves the object behind.
       \/ State' = "STOP" /\ AdmQ' \in BOOLEAN /\ Goto("pnp", "teardown") /\ Faulty
    /\ UNCHANGED <<paused, connected, admin, traffic, ctl, crashed>>

\* A wait for the controller ends: in time, or with the time-out.
Await(pc, cond, next, failed) ==
    /\ At("pnp", pc)
    /\ \/ cond /\ Goto("pnp", next) /\ UNCHANGED env
       \/ ~cond /\ Goto("pnp", failed) /\ Faulty

\* DisableController, for InitController and for ShutdownController.
Disable ==
    /\ At("pnp", "disable")
    /\ Goto("pnp", IF IsControllerReady THEN "disableWait" ELSE "disabled")
    /\ UNCHANGED <<State, queues, paused, connected, admin, traffic, ctl, crashed, env>>

DisableWait ==
    /\ Await("disableWait", IsControllerReady /\ ctl.en, "disableWrite", "disableFailed")
    /\ UNCHANGED <<State, queues, paused, connected, admin, traffic, ctl, crashed>>

DisableWrite ==
    /\ At("pnp", "disableWrite")
    /\ ctl' = [ctl EXCEPT !.en = FALSE]
    /\ Goto("pnp", "disableDone")
    /\ UNCHANGED <<State, queues, paused, connected, admin, traffic, crashed, env>>

\* Mutant of DisableDone: no wait for CSTS.RDY to fall.
DisableNotDone ==
    /\ At("pnp", "disableDone")
    /\ Goto("pnp", "disabled")
    /\ UNCHANGED <<State, queues, paused, connected, admin, traffic, ctl, crashed, env>>

DisableDone ==
    /\ Await("disableDone", ~IsControllerReady, "disabled", "disableFailed")
    /\ UNCHANGED <<State, queues, paused, connected, admin, traffic, ctl, crashed>>

\* InitController forgets the I/O queues and goes on if the controller is
\* disabled; ShutdownController is over either way.
Disabled ==
    /\ At("pnp", "disabled") \/ At("pnp", "disableFailed")
    /\ IF th["pnp"].job = "remove"
       THEN Goto("pnp", "teardown") /\ UNCHANGED RegisteredIoQ
       ELSE /\ Goto("pnp", IF At("pnp", "disabled") THEN "register" ELSE "teardown")
            /\ RegisteredIoQ' = 0
    /\ UNCHANGED <<State, DesiredIoQ, AdmQ, IoQ, paused, connected, admin, traffic, ctl, crashed,
                   env>>

\* RegisterAdmQ: a ready controller or a missing queue is a bugcheck; a queue
\* without an address is an error.
RegisterAdmQ ==
    /\ At("pnp", "register")
    /\ IF IsControllerReady \/ ~AdmQ
       THEN crashed' = TRUE /\ UNCHANGED <<ctl, th, env>>
       ELSE /\ UNCHANGED crashed
            /\ \/ ctl' = [ctl EXCEPT !.aqa = TRUE] /\ Goto("pnp", "enable") /\ UNCHANGED env
               \/ Goto("pnp", "teardown") /\ Faulty /\ UNCHANGED ctl
    /\ UNCHANGED <<State, queues, paused, connected, admin, traffic>>

\* EnableController, then IdentifyController with poll = true.
Enable ==
    /\ At("pnp", "enable")
    /\ Goto("pnp", IF IsControllerReady THEN "submit" ELSE "enableWait")
    /\ UNCHANGED <<State, queues, paused, connected, admin, traffic, ctl, crashed, env>>

EnableWait ==
    /\ Await("enableWait", ~IsControllerReady /\ ~ctl.en, "enableWrite", "teardown")
    /\ UNCHANGED <<State, queues, paused, connected, admin, traffic, ctl, crashed>>

\* The two writes of CC: first the other fields with EN = 0, then EN = 1.
EnableWrite ==
    /\ At("pnp", "enableWrite")
    /\ ctl' = [ctl EXCEPT !.en = FALSE, !.shn = FALSE]
    /\ Goto("pnp", "enableOn")
    /\ UNCHANGED <<State, queues, paused, connected, admin, traffic, crashed, env>>

EnableOn ==
    /\ At("pnp", "enableOn")
    /\ ctl' = [ctl EXCEPT !.en = TRUE]
    /\ Goto("pnp", "enableDone")
    /\ UNCHANGED <<State, queues, paused, connected, admin, traffic, crashed, env>>

EnableDone ==
    /\ Await("enableDone", IsControllerReady, "submit", "teardown")
    /\ UNCHANGED <<State, queues, paused, connected, admin, traffic, ctl, crashed>>

----------------------------------------------------------------------------
(* The internal admin commands: IdentifyController, the namespace list and  *)
(* the namespaces (InitNvmeStage1), the number of I/O queues and their      *)
(* registration.                                                            *)

NsCount == IF Nvme10 THEN 1 ELSE Namespaces

\* What thread t does once a job has failed.  The status of a failed
\* registration is not an error status, so RegisterIoQueues still succeeds; the
\* worker only asserts that Stage1 succeeded.
Failed(t) ==
    /\ Goto(t, CASE th[t].job = "find" -> "teardown"
                 [] th[t].job \in {"cq", "sq"} -> "registered"
                 [] OTHER -> IF t = "pnp" THEN "failed" ELSE "resume")
    /\ UNCHANGED RegisteredIoQ

\* SubmitCmd does not take the command of thread t: the throttle of the admin queue
\* is closed, or the queue is not ready.  Here RegisterIoQueues does fail
\* (STATUS_REQUEST_ABORTED); the worker resumes the adapter as before.
Refused(t) ==
    /\ Goto(t, IF t # "pnp" THEN "resume"
               ELSE IF th[t].job = "find" THEN "teardown" ELSE "failed")
    /\ env' = [env EXCEPT !.fault = TRUE, !.refused = @ \/ t # "pnp"]
    /\ UNCHANGED RegisteredIoQ

NextNs(t, i) == IF i < NsCount THEN Do(t, "ns", i) ELSE Goto(t, "stage2")

\* What thread t does once a job has succeeded.
NextJob(t) ==
    LET i == th[t].i
    IN  CASE th[t].job = "find"  -> Goto(t, "initialize")
          [] th[t].job = "ident" -> IF Nvme10 THEN NextNs(t, 0) ELSE Do(t, "list", 0)
          [] th[t].job = "list"  -> NextNs(t, 0)
          [] th[t].job = "ns"    -> NextNs(t, i + 1)
          [] th[t].job = "number" -> Goto(t, "allocate")
          [] th[t].job = "cq"    -> Do(t, "sq", i)
          [] th[t].job = "sq"    -> IF i + 1 < IoQ THEN Do(t, "cq", i + 1)
                                                   ELSE Goto(t, "registered")

RegisteredIf(registered) ==
    RegisteredIoQ' = IF registered THEN RegisteredIoQ + 1 ELSE RegisteredIoQ

\* Mutants of Succeeded: a queue counts as registered once its CplQ is; and the CplQ
\* counts like the SubQ.
SucceededEarly(t) == NextJob(t) /\ RegisteredIf(th[t].job = "cq")
SucceededTwice(t) == NextJob(t) /\ RegisteredIf(th[t].job \in {"cq", "sq"})

\* RegisteredIoQ++ once the SubQ of the pair is registered.
Succeeded(t) == NextJob(t) /\ RegisteredIf(th[t].job = "sq")

\* The number of I/O queues after the command of thread t: SetNumberOfIoQueue takes
\* it from the completion, where a masked error may say anything.
NumberAfter(t) ==
    IF th[t].job # "number" \/ status[t] # "success" THEN {DesiredIoQ}
    ELSE IF env.masked THEN 0 .. MaxIoQ
    ELSE {CtrlQueues}

\* SubmitAdmCmd.  RegisterIoQueues calls SubmitCmd without looking at State.
\* An older command in the slot is completed with SRB_STATUS_BUSY.
Submit(t) ==
    /\ At(t, "submit")
    /\ IF th[t].job \notin {"cq", "sq"} /\ ~(IsWorking /\ AdmQ)
       THEN Failed(t) /\ UNCHANGED <<admin, env>>
       ELSE \/ Refused(t) /\ UNCHANGED admin
            \/ /\ sent' = sent \cup {[by |-> t, job |-> th[t].job, i |-> th[t].i]}
               /\ slot' = t
               /\ status' = [s \in Threads |-> CASE s = t -> "pending"
                                                 [] s = slot /\ s # t -> "error"
                                                 [] OTHER -> status[s]]
               /\ Goto(t, "wait")
               /\ UNCHANGED <<posted, RegisteredIoQ, env>>
    /\ UNCHANGED <<State, DesiredIoQ, AdmQ, IoQ, paused, connected, traffic, ctl, crashed>>

\* The loop on SrbStatus ends.
Wait(t) ==
    /\ At(t, "wait")
    /\ status[t] # "pending"
    /\ IF status[t] = "success" THEN Succeeded(t) ELSE Failed(t)
    /\ DesiredIoQ' \in NumberAfter(t)
    /\ UNCHANGED <<State, AdmQ, IoQ, paused, connected, admin, traffic, ctl, crashed, env>>

\* NvmeToSrbStatus takes an error whose status code type and status code have no
\* bit in common ("masked") for a success.
NvmeToSrbStatus(result) == IF result = "masked" THEN "success" ELSE result

\* CompleteCmd of the admin queue for one completion.
Consume(c) ==
    /\ posted' = posted \ {c}
    /\ slot' = NULL
    /\ status' = [t \in Threads |-> IF t = slot THEN NvmeToSrbStatus(c.result) ELSE status[t]]
    /\ UNCHANGED <<sent>>

\* Mutant of Poll: IdentifyController leaves the completion to the interrupt.
PollConnected(c) ==
    /\ At("pnp", "wait") /\ th["pnp"].job = "find"
    /\ connected
    /\ Consume(c)
    /\ UNCHANGED <<State, queues, paused, connected, th, traffic, ctl, crashed, env>>

\* IdentifyController with poll = true completes commands by itself.
Poll(c) ==
    /\ At("pnp", "wait") /\ th["pnp"].job = "find"
    /\ Consume(c)
    /\ UNCHANGED <<State, queues, paused, connected, th, traffic, ctl, crashed, env>>

----------------------------------------------------------------------------
(* HwInitialize and HwPassiveInitialize.                                    *)

\* SetPerfOpts, and Storport connects the interrupts.
Initialize ==
    /\ At("pnp", "initialize")
    /\ connected' = TRUE
    /\ \/ Goto("pnp", "passive") /\ UNCHANGED env
       \/ Goto("pnp", "failed") /\ Faulty
    /\ UNCHANGED <<State, queues, paused, admin, traffic, ctl, crashed>>

PassiveInitialize ==
    /\ At("pnp", "passive")
    /\ IF IsWorking
       THEN paused' = TRUE /\ Do("pnp", "ident", 0)
       ELSE Goto("pnp", "failed") /\ UNCHANGED paused
    /\ UNCHANGED <<State, queues, connected, admin, traffic, ctl, crashed, env>>

\* InitNvmeStage2 only looks at State.
Stage2(t) ==
    /\ At(t, "stage2")
    /\ Goto(t, IF t # "pnp" THEN "resume" ELSE IF IsWorking THEN "create" ELSE "failed")
    /\ UNCHANGED <<State, queues, paused, connected, admin, traffic, ctl, crashed, env>>

\* CreateIoQueues asks the controller how many queues it can have if none are wanted.
\* (The count it sends wraps to 65535, which a controller may reject.)
CreateIoQueues ==
    /\ At("pnp", "create")
    /\ IF DesiredIoQ = 0 /\ IsWorking THEN Do("pnp", "number", 0)
       ELSE Goto("pnp", IF DesiredIoQ = 0 THEN "failed" ELSE "allocate")
    /\ UNCHANGED <<State, queues, paused, connected, admin, traffic, ctl, crashed, env>>

\* CreateIoQ: all of them, or some before the memory is out; then RegisterIoQueues
\* looks at State once.
CreateIoQ ==
    /\ At("pnp", "allocate")
    /\ \/ /\ DesiredIoQ > 0 /\ IoQ' = DesiredIoQ
          /\ IF IsWorking THEN Do("pnp", "cq", 0) ELSE Goto("pnp", "failed")
          /\ UNCHANGED env
       \/ IoQ' \in 0 .. DesiredIoQ - 1 /\ Goto("pnp", "failed") /\ Faulty
       \/ DesiredIoQ = 0 /\ Goto("pnp", "failed") /\ UNCHANGED <<IoQ, env>>
    /\ UNCHANGED <<State, DesiredIoQ, AdmQ, RegisteredIoQ, paused, connected, admin, traffic, ctl,
                   crashed>>

\* RegisterIoQueues succeeded: StorPortResume.
Registered ==
    /\ At("pnp", "registered")
    /\ paused' = FALSE
    /\ Goto("pnp", "started")
    /\ UNCHANGED <<State, queues, connected, admin, traffic, ctl, crashed, env>>

----------------------------------------------------------------------------
(* Removal.  Storport has drained the requests when it asks for it.         *)

RemoveDevice ==
    /\ At("pnp", "started")
    /\ io.pc = "idle" /\ rb = "idle"
    /\ th' = [th EXCEPT !["pnp"] = [pc |-> "shutdown", job |-> "remove", i |-> 0]]
    /\ UNCHANGED <<State, queues, paused, connected, admin, traffic, ctl, crashed, env>>

\* ShutdownController.
Shutdown ==
    /\ At("pnp", "shutdown")
    /\ IF State \in {"STOP", "RUNNING"}
       THEN State' = "SHUTDOWN" /\ Goto("pnp", "shutdownWait")
       ELSE Goto("pnp", "teardown") /\ UNCHANGED State
    /\ UNCHANGED <<queues, paused, connected, admin, traffic, ctl, crashed, env>>

\* A controller that is not ready in time is a bugcheck.
ShutdownWait ==
    /\ Await("shutdownWait", IsControllerReady /\ ctl.en, "shutdownWrite", "shutdownWait")
    /\ crashed' = ~(IsControllerReady /\ ctl.en)
    /\ UNCHANGED <<State, queues, paused, connected, admin, traffic, ctl>>

ShutdownWrite ==
    /\ At("pnp", "shutdownWrite")
    /\ ctl' = [ctl EXCEPT !.shn = TRUE]
    /\ Goto("pnp", "shutdownDone")
    /\ UNCHANGED <<State, queues, paused, connected, admin, traffic, crashed, env>>

\* WaitForCtrlerShst, whose time-out is ignored.
ShutdownDone ==
    /\ Await("shutdownDone", ctl.shst, "disable", "disable")
    /\ UNCHANGED <<State, queues, paused, connected, admin, traffic, ctl, crashed>>

\* Teardown, which does nothing unless the device works.
FreeQueues ==
    IF IsWorking
    THEN State' = "STOP" /\ AdmQ' = FALSE /\ IoQ' = 0 /\ UNCHANGED <<DesiredIoQ, RegisteredIoQ>>
    ELSE UNCHANGED <<State, queues>>

Teardown ==
    /\ At("pnp", "teardown")
    /\ FreeQueues
    /\ Goto("pnp", IF th["pnp"].job = "remove" THEN "removed" ELSE "failed")
    /\ UNCHANGED <<paused, connected, admin, traffic, ctl, crashed, env>>

\* The adapter is pulled out, whatever the other threads do; then Teardown.
SurpriseRemoval ==
    /\ Surprise
    /\ At("pnp", "started")
    /\ ctl' = [ctl EXCEPT !.gone = TRUE]
    /\ th' = [th EXCEPT !["pnp"] = [pc |-> "teardown", job |-> "remove", i |-> 0]]
    /\ Faulty
    /\ UNCHANGED <<State, queues, paused, connected, admin, traffic, crashed>>

----------------------------------------------------------------------------
(* Sleep and restart.                                                       *)

\* A restart is on: its DPC is queued or its worker runs.
Restarting == "restart" \in dpcs \/ \E w \in Workers : ~At(w, "idle")

\* ScsiStopAdapter, a low-power state and back.  Storport drains the requests.
\* The controller may come back reset.
PowerCycle ==
    /\ At("pnp", "started")
    /\ env.sleeps < MaxSleeps
    /\ io.pc = "idle" /\ rb = "idle"
    /\ env' = [env EXCEPT !.sleeps = @ + 1, !.fault = TRUE, !.overlap = @ \/ Restarting]
    /\ \/ UNCHANGED <<ctl, sent>>
       \/ /\ ctl' = [ctl EXCEPT !.en = FALSE, !.rdy = FALSE, !.cfs = FALSE, !.shn = FALSE,
                                !.shst = FALSE, !.aqa = FALSE, !.cqs = {}, !.sqs = {}]
          /\ sent' = {}
    /\ Goto("pnp", "restart")
    /\ UNCHANGED <<State, queues, paused, connected, slot, status, posted, traffic, crashed>>

\* RestartController: pause, and a DPC that queues the work item.
RestartController ==
    /\ At("pnp", "restart")
    /\ IF IsWorking
       THEN paused' = TRUE /\ dpcs' = dpcs \cup {"restart"}
       ELSE UNCHANGED <<paused, dpcs>>
    /\ Goto("pnp", "started")
    /\ UNCHANGED <<State, queues, connected, admin, io, rb, irq, ctl, crashed, env>>

\* It does not look for a worker that is still at it.
RestartAdapterDpc ==
    /\ "restart" \in dpcs
    /\ dpcs' = dpcs \ {"restart"}
    /\ IF IsWorking THEN \E w \in Workers : At(w, "idle") /\ Goto(w, "begin") ELSE UNCHANGED th
    /\ UNCHANGED <<State, queues, paused, connected, admin, io, rb, irq, ctl, crashed, env>>

\* RestartAdapterWorker: Stage1 and Stage2, then StorPortResume.
WorkerBegin(w) ==
    /\ At(w, "begin")
    /\ IF IsWorking THEN Do(w, "ident", 0) ELSE Goto(w, "idle")
    /\ UNCHANGED <<State, queues, paused, connected, admin, traffic, ctl, crashed, env>>

WorkerResume(w) ==
    /\ At(w, "resume")
    /\ paused' = FALSE
    /\ Goto(w, "idle")
    /\ UNCHANGED <<State, queues, connected, admin, traffic, ctl, crashed, env>>

----------------------------------------------------------------------------
(* I/O requests and bus resets.                                             *)

\* A request reaches SubmitIoCmd, which picks the queue of the current
\* processor; with no registered queue the modulo divides by zero.
PickQueue ==
    /\ io.pc = "idle"
    /\ At("pnp", "started") /\ ~paused
    /\ IsWorking
    /\ IF RegisteredIoQ = 0
       THEN crashed' = TRUE /\ UNCHANGED io
       ELSE /\ \E q \in 0 .. RegisteredIoQ - 1 : io' = [pc |-> "submit", q |-> q]
            /\ UNCHANGED crashed
    /\ UNCHANGED <<State, queues, paused, connected, th, admin, rb, irq, dpcs, ctl, env>>

\* SubmitCmd on IoQueue[q], which may be gone by now.
SubmitIo ==
    /\ io.pc = "submit"
    /\ crashed' = (io.q >= IoQ)
    /\ io' = [io EXCEPT !.pc = "sent"]
    /\ UNCHANGED <<State, queues, paused, connected, th, admin, rb, irq, dpcs, ctl, env>>

\* HwResetBus, when a request takes too long: ResetOutstandingCmds.
ResetBus ==
    /\ rb = "idle"
    /\ At("pnp", "started") /\ io.pc \in {"sent", "posted"}
    /\ env.resets < MaxResets
    /\ env' = [env EXCEPT !.resets = @ + 1]
    /\ IF IsWorking /\ AdmQ
       THEN State' = "RESETBUS" /\ rb' = "adm"
       ELSE UNCHANGED <<State, rb>>
    /\ UNCHANGED <<queues, paused, connected, th, admin, io, irq, dpcs, ctl, crashed>>

ResetAdm ==
    /\ rb = "adm"
    /\ rb' = "io"
    /\ crashed' = ~AdmQ
    /\ slot' = NULL
    /\ status' = [t \in Threads |-> IF t = slot THEN "error" ELSE status[t]]
    /\ UNCHANGED <<State, queues, paused, connected, th, sent, posted, io, irq, dpcs, ctl, env>>

\* The I/O queues; State is RUNNING again whatever it was in between.
ResetIo ==
    /\ rb = "io"
    /\ rb' = "idle"
    /\ crashed' = (IoQ < RegisteredIoQ)
    /\ io' = IF io.pc = "submit" THEN io ELSE [io EXCEPT !.pc = "idle"]
    /\ State' = "RUNNING"
    /\ UNCHANGED <<queues, paused, connected, th, admin, irq, dpcs, ctl, env>>

----------------------------------------------------------------------------
(* Interrupts and the DPCs of the queues.                                   *)

\* NvmeMsixISR drops the interrupt of a device that does not work.
Isr(m) ==
    /\ m \in irq
    /\ connected
    /\ irq' = irq \ {m}
    /\ dpcs' = IF IsWorking /\ (m = "adm" => AdmQ) /\ (m = "io" => IoQ > 0)
               THEN dpcs \cup {m} ELSE dpcs
    /\ UNCHANGED <<State, queues, paused, connected, th, admin, io, rb, ctl, crashed, env>>

\* The DPC of the admin queue, which must still be there.
AdmDpc ==
    /\ "adm" \in dpcs
    /\ crashed' = ~AdmQ
    /\ IF posted = {}
       THEN dpcs' = dpcs \ {"adm"} /\ UNCHANGED admin
       ELSE (\E c \in posted : Consume(c)) /\ UNCHANGED dpcs
    /\ UNCHANGED <<State, queues, paused, connected, th, io, rb, irq, ctl, env>>

\* The DPC of an I/O queue completes the request if it is still outstanding.
IoDpc ==
    /\ "io" \in dpcs
    /\ crashed' = (IoQ = 0)
    /\ dpcs' = dpcs \ {"io"}
    /\ io' = IF io.pc = "posted" THEN [io EXCEPT !.pc = "idle"] ELSE io
    /\ UNCHANGED <<State, queues, paused, connected, th, admin, rb, irq, ctl, env>>

----------------------------------------------------------------------------
(* The controller (external).                                               *)

CtrlAlive == ctl.en /\ IsControllerReady /\ ~ctl.gone

CtrlReady ==
    /\ ctl.en /\ ~ctl.rdy /\ ~ctl.gone
    /\ ctl' = [ctl EXCEPT !.rdy = TRUE]
    /\ UNCHANGED <<State, queues, paused, connected, th, admin, traffic, crashed, env>>

\* A disabled controller forgets its queues and the commands in them.
CtrlReset ==
    /\ ~ctl.en /\ ctl.rdy /\ ~ctl.gone
    /\ ctl' = [ctl EXCEPT !.rdy = FALSE, !.cfs = FALSE, !.cqs = {}, !.sqs = {}]
    /\ sent' = {}
    /\ UNCHANGED <<State, queues, paused, connected, th, slot, status, posted, traffic, crashed, env>>

CtrlFatal ==
    /\ Fatal
    /\ CtrlAlive
    /\ ctl' = [ctl EXCEPT !.cfs = TRUE]
    /\ Faulty
    /\ UNCHANGED <<State, queues, paused, connected, th, admin, traffic, crashed>>

CtrlShutdown ==
    /\ CtrlAlive /\ ctl.shn /\ ~ctl.shst
    /\ ctl' = [ctl EXCEPT !.shst = TRUE]
    /\ UNCHANGED <<State, queues, paused, connected, th, admin, traffic, crashed, env>>

\* A command a sound controller executes with success.
Executable(c) ==
    /\ c.job = "cq" => c.i < CtrlQueues
    /\ c.job = "sq" => c.i \in ctl.cqs

\* How it rejects one: Invalid Queue Identifier has SCT 1 and SC 1, Completion Queue
\* Invalid has SCT 1 and SC 0.
Rejection(c) == IF c.job = "sq" THEN "masked" ELSE "error"

CtrlExecute(c) ==
    /\ CtrlAlive /\ ctl.aqa
    /\ sent' = sent \ {c}
    /\ irq' = irq \cup {"adm"}
    /\ \/ /\ Executable(c)
          /\ posted' = posted \cup {[cmd |-> c, result |-> "success"]}
          /\ ctl' = [ctl EXCEPT !.cqs = IF c.job = "cq" THEN @ \cup {c.i} ELSE @,
                                !.sqs = IF c.job = "sq" THEN @ \cup {c.i} ELSE @]
          /\ UNCHANGED env
       \/ /\ ~Executable(c)
          /\ posted' = posted \cup {[cmd |-> c, result |-> Rejection(c)]}
          /\ UNCHANGED <<ctl, env>>
       \/ \E result \in {"error", "masked"} :
             /\ posted' = posted \cup {[cmd |-> c, result |-> result]}
             /\ env' = [env EXCEPT !.fault = TRUE, !.masked = @ \/ result = "masked"]
             /\ UNCHANGED ctl
    /\ UNCHANGED <<State, queues, paused, connected, th, slot, status, io, rb, dpcs, crashed>>

CtrlExecuteIo ==
    /\ CtrlAlive
    /\ io.pc = "sent" /\ io.q \in ctl.cqs \cap ctl.sqs
    /\ io' = [io EXCEPT !.pc = "posted"]
    /\ irq' = irq \cup {"io"}
    /\ UNCHANGED <<State, queues, paused, connected, th, admin, rb, dpcs, ctl, crashed, env>>

----------------------------------------------------------------------------
PnpStep ==
    \/ Setup \/ Disable \/ DisableWait \/ DisableWrite \/ DisableDone \/ Disabled
    \/ RegisterAdmQ \/ Enable \/ EnableWait \/ EnableWrite \/ EnableOn \/ EnableDone
    \/ Submit("pnp") \/ Wait("pnp") \/ (\E c \in posted : Poll(c))
    \/ Initialize \/ PassiveInitialize \/ Stage2("pnp") \/ CreateIoQueues \/ CreateIoQ
    \/ Registered
    \/ Shutdown \/ ShutdownWait \/ ShutdownWrite \/ ShutdownDone \/ Teardown
    \/ RestartController
WorkerStep(w) == WorkerBegin(w) \/ Submit(w) \/ Wait(w) \/ Stage2(w) \/ WorkerResume(w)
DpcStep    == AdmDpc \/ IoDpc \/ RestartAdapterDpc
CtrlStep   == CtrlReady \/ CtrlReset \/ CtrlShutdown \/ (\E c \in sent : CtrlExecute(c)) \/ CtrlExecuteIo

Next ==
    /\ ~crashed
    /\ \/ PnpStep \/ (\E w \in Workers : WorkerStep(w)) \/ DpcStep
       \/ \E m \in {"adm", "io"} : Isr(m)
       \/ PickQueue \/ SubmitIo \/ ResetBus \/ ResetAdm \/ ResetIo
       \/ RemoveDevice \/ SurpriseRemoval \/ PowerCycle
       \/ CtrlStep \/ CtrlFatal

Spec == Init /\ [][Next]_vars

\* The PnP thread, the interrupt, the DPCs and a sound controller go on.
\* Requests, resets, removal, sleep and fatal errors may never come.
Fairness ==
    /\ WF_vars(~crashed /\ PnpStep)
    /\ \A w \in Workers : WF_vars(~crashed /\ WorkerStep(w))
    /\ WF_vars(~crashed /\ DpcStep)
    /\ WF_vars(~crashed /\ Isr("adm"))
    /\ WF_vars(~crashed /\ CtrlStep)

FairSpec == Spec /\ Fairness

----------------------------------------------------------------------------
(* Properties.                                                              *)

Steps == {"find", "disable", "disableWait", "disableWrite", "disableDone", "disabled",
          "disableFailed", "register", "enable", "enableWait", "enableWrite", "enableOn",
          "enableDone", "submit", "wait", "initialize", "passive", "stage2", "create", "allocate",
          "registered", "started", "shutdown", "shutdownWait", "shutdownWrite",
          "shutdownDone", "teardown", "failed", "removed", "restart", "idle", "begin", "resume"}
Jobs == {"find", "ident", "list", "ns", "number", "cq", "sq", "remove"}
Commands == [by : Threads, job : Jobs, i : 0 .. MaxIoQ + Namespaces]

\* Every variable keeps its type.
TypeOK ==
    /\ State \in {"STOP", "RUNNING", "SHUTDOWN", "RESETBUS"}
    /\ DesiredIoQ \in 0 .. MaxIoQ
    /\ AdmQ \in BOOLEAN
    /\ IoQ \in 0 .. MaxIoQ
    /\ RegisteredIoQ \in 0 .. MaxIoQ
    /\ {paused, connected, crashed} \subseteq BOOLEAN
    /\ th \in [Threads -> [pc : Steps, job : Jobs, i : 0 .. MaxIoQ + Namespaces]]
    /\ slot \in Threads \cup {NULL}
    /\ status \in [Threads -> {"none", "pending", "success", "error"}]
    /\ sent \subseteq Commands
    /\ posted \subseteq [cmd : Commands, result : {"success", "error", "masked"}]
    /\ io \in [pc : {"idle", "submit", "sent", "posted"}, q : QueueIds]
    /\ rb \in {"idle", "adm", "io"}
    /\ irq \subseteq {"adm", "io"}
    /\ dpcs \subseteq {"adm", "io", "restart"}
    /\ ctl \in [en : BOOLEAN, rdy : BOOLEAN, cfs : BOOLEAN, shn : BOOLEAN, shst : BOOLEAN,
                aqa : BOOLEAN, cqs : SUBSET QueueIds, sqs : SUBSET QueueIds, gone : BOOLEAN]
    /\ env \in [fault : BOOLEAN, masked : BOOLEAN, refused : BOOLEAN, overlap : BOOLEAN,
                sleeps : 0 .. MaxSleeps, resets : 0 .. MaxResets]

\* EnableController sets CC.EN only when the last disable is over, CSTS.RDY = 0,
\* which is undefined behaviour otherwise.  (A fatal error between the last look
\* at CSTS and the write of CC makes the driver take the controller for reset.)
EnableOnlyWhenQuiet ==
    [][~ctl.en /\ ctl'.en => ~ctl.rdy \/ ctl.cfs]_ctl

\* A queue that SubmitIoCmd picks has its memory and is one the controller has
\* both rings of: the two counters, the pauses and State keep requests away while
\* queues come and go, as long as the adapter is not pulled out, NvmeToSrbStatus
\* has not made a success of a failed registration, no command of a restart was
\* refused, and no sleep came while a restart was on.
IoOnlyToRegistered ==
    io.pc = "submit" =>
        \/ ctl.gone \/ env.masked \/ env.refused \/ env.overlap
        \/ io.q < IoQ /\ io.q \in ctl.cqs \cap ctl.sqs

\* No bugcheck and no wild access unless something went wrong outside the driver:
\* a fatal, failed or refused command, a time-out, a failed allocation, a power cycle, a
\* surprise removal.  A controller with fewer queues than wanted is not such a case.
HealthyNeverCrashes == crashed => env.fault

\* An adapter that nothing happens to starts: every wait on an admin command is
\* woken, all the queues the controller can have are registered, requests flow.
\* A controller can end the registration early by having fewer queues, or is asked.
StartsWhenHealthy ==
    <>(\/ env.fault
       \/ /\ At("pnp", "started")
          /\ ~paused
          /\ RegisteredIoQ = IF DesiredIoQ < CtrlQueues THEN DesiredIoQ ELSE CtrlQueues)

\* "regular RemoveDevice should shutdown controller first, then delete all queue memory."
RemoveDeletesQueues ==
    th["pnp"].pc = "removed" => ~AdmQ /\ IoQ = 0

\* The restart worker talks to a controller that was initialised again ("So I move
\* InitController() here...").
RestartInitsController ==
    \A w \in Workers : th[w].pc = "wait" => ctl.en /\ ctl.aqa
=============================================================================
