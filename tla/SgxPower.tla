------------------------------ MODULE SgxPower ------------------------------
(***************************************************************************)
(* Power management of the GPU: power.c, sgxpower.c, the scheduling of     *)
(* commands in sgxutils.c, the lock-up timer, the MISR and the recovery of *)
(* sgxinit.c, and the suspend and resume entry points of module.c.         *)
(*                                                                         *)
(* The microkernel on the GPU asks to be powered down when it has nothing  *)
(* to do, the host powers it up whenever it has a command for it, and the  *)
(* two share a command ring (the kernel CCB) and a few words of memory     *)
(* (struct SGXMKIF_HOST_CTL).  A delayed work item looks for lock-ups      *)
(* while the GPU is powered.                                               *)
(*                                                                         *)
(* There are two threads: "lock" is whoever holds pvr_lock (an ioctl, the  *)
(* MISR, the lock-up timer, debugfs), and "pm" is the caller of            *)
(* pvr_suspend and pvr_resume, which take no lock.  todo[t] holds the      *)
(* calls thread t still has to make, one action each.  Completions of      *)
(* flips, and with them the flush at the end of a recovery, are left to    *)
(* CommandQueue: a flip here only makes the jobs that wait for it ready.   *)
(***************************************************************************)
EXTENDS Integers, Sequences, FiniteSets

CONSTANTS
  MaxJobs,        (* bound: kicks in a behaviour                           *)
  MaxEvents,      (* bound: suspends, resets by hand and lock-ups          *)
  CCBSize,        (* slots of the kernel CCB: 256 in the code              *)
  Fails,          (* what may fail: "clocks", "init", "deinit", "recover"  *)
  Hangs,          (* may the GPU lock up?                                  *)
  CancelQueued,   (* does cancel_delayed_work take back a work item whose  *)
                  (* timer has expired?  (Not before Linux 3.7.)           *)
  PMRaces         (* may suspend and resume start while pvr_lock is held?  *)

ASSUME PowerAssumption ==
  /\ MaxJobs \in Nat
  /\ MaxEvents \in Nat
  /\ CCBSize \in Nat
  /\ Fails \subseteq {"clocks", "init", "deinit", "recover"}
  /\ Hangs \in BOOLEAN /\ CancelQueued \in BOOLEAN /\ PMRaces \in BOOLEAN

Jobs == 1..MaxJobs
Threads == {"lock", "pm"}

\* Commands in the kernel CCB: the kick of a job, or one of these two.
Process == 0
PowerOff == MaxJobs + 1
Commands == 0..(MaxJobs + 1)

VARIABLES
  todo,               (* [Threads -> Seq(calls)]                           *)
  dev,                (* holder of pvr_dev_lock, or "none"                 *)
  sysPower,           (* eCurrentPowerState of the system                  *)
  eCurrentPowerState, (* ... and of the GPU                                *)
  sSGXClocksEnabled,
  armed,              (* of struct timer_work_data                         *)
  work,               (* its work item: "none", "timer", "queued"          *)
  worker,             (* its worker: "none", "waiting", "running"          *)
  lockups,            (* ui32LockupCounter                                 *)
  pvr_disabled,
  misr,               (* is sMISRWork queued?                              *)
  ccb,                (* commands the microkernel has not read             *)
  ui32PowerStatus,    (* set of flags                                      *)
  act, actClear,      (* ACTIVE_POWER in ui32Interrupt[Clear]Flags         *)
  hwr,                (* HWR in ui32InterruptFlags                         *)
  gpu,                (* "off", "on", "halted" or "hung"                   *)
  look,               (* will the microkernel look at its jobs?            *)
  seen,               (* has the timer seen the present task counters?     *)
  job,                (* [Jobs -> "none", "ccb", "held", "done", "lost"]   *)
  met,                (* [Jobs -> BOOLEAN]: the flip it waits for is over  *)
  events

timerVars == <<armed, work, worker, lockups>>
hostVars == <<sysPower, eCurrentPowerState, sSGXClocksEnabled, timerVars, pvr_disabled>>
flagVars == <<ui32PowerStatus, act, actClear, hwr>>
jobVars == <<job, met>>
gpuVars == <<gpu, look, seen>>
vars == <<todo, dev, hostVars, misr, ccb, flagVars, gpuVars, jobVars, events>>

-----------------------------------------------------------------------------
(***************************************************************************)
(* Threads.                                                                *)
(***************************************************************************)

Calling(t, call) == todo[t] # <<>> /\ Head(todo[t]) = call

\* The call is over, but it has made the calls cs necessary.
Return(t, cs) == todo' = [todo EXCEPT ![t] = cs \o Tail(@)]

\* The call fails, and with it everything up to the release of the lock.
Abort(t) == todo' = [todo EXCEPT ![t] = IF dev = t THEN <<"pvr_dev_unlock">> ELSE <<>>]

\* Faulty variant: the failure is not noticed.
PowerUpFailsUnnoticed(t) == Return(t, <<>>)

\* The power-up fails.  SGX_MISRHandler stops at its BUG_ON and keeps the locks;
\* SGXScheduleProcessQueues does not post its command and its caller goes on.
PowerUpFails(t) ==
  CASE Head(todo[t]) = "D0" -> Abort(t)
    [] Head(todo[t]) = "MISR_D0" -> todo' = [todo EXCEPT ![t] = <<"BUG">>]
    [] Head(todo[t]) = "queues_D0" -> todo' = [todo EXCEPT ![t] = Tail(Tail(@))]

\* The "lock" thread may start: pvr_lock is free and, unless races are considered, nobody
\* is in the middle of a suspend or a resume.
Idle == todo["lock"] = <<>> /\ (PMRaces \/ todo["pm"] = <<>>)

\* An ioctl, the MISR or debugfs enters the driver and makes the calls cs.
Enter(cs) ==
  /\ Idle
  /\ ~pvr_disabled
  /\ todo' = [todo EXCEPT !["lock"] = cs]

Locked(cs) == <<"pvr_dev_lock">> \o cs \o <<"pvr_dev_unlock">>

pvr_dev_lock(t) ==
  /\ Calling(t, "pvr_dev_lock")
  /\ dev = "none"
  /\ dev' = t
  /\ Return(t, <<>>)
  /\ UNCHANGED <<hostVars, misr, ccb, flagVars, gpuVars, jobVars, events>>

pvr_dev_unlock(t) ==
  /\ Calling(t, "pvr_dev_unlock")
  /\ dev' = "none"
  /\ Return(t, <<>>)
  /\ UNCHANGED <<hostVars, misr, ccb, flagVars, gpuVars, jobVars, events>>

-----------------------------------------------------------------------------
(***************************************************************************)
(* The lock-up timer's work item.                                          *)
(***************************************************************************)

\* queue_delayed_work does nothing when the item is queued already, and then
\* the timer is not armed.
SGXOSTimerEnable ==
  /\ work' = IF work = "none" THEN "timer" ELSE work
  /\ armed' = (armed \/ work = "none")

SGXOSTimerCancel ==
  /\ armed' = FALSE
  /\ work' = IF work = "timer" \/ CancelQueued THEN "none" ELSE work

TimerExpires ==
  /\ work = "timer"
  /\ work' = "queued"
  /\ UNCHANGED <<todo, dev, sysPower, eCurrentPowerState, sSGXClocksEnabled, armed, worker,
                 lockups, pvr_disabled, misr, ccb, flagVars, gpuVars, jobVars, events>>

\* The worker takes the item off the work queue and waits for pvr_lock.
WorkerStarts ==
  /\ work = "queued"
  /\ worker = "none"
  /\ work' = "none"
  /\ worker' = "waiting"
  /\ UNCHANGED <<todo, dev, sysPower, eCurrentPowerState, sSGXClocksEnabled, armed, lockups,
                 pvr_disabled, misr, ccb, flagVars, gpuVars, jobVars, events>>

\* The worker has pvr_lock.
SGXOSTimer ==
  /\ worker = "waiting"
  /\ Idle
  /\ \/ /\ armed /\ ~pvr_disabled
        /\ worker' = "running"
        /\ todo' = [todo EXCEPT !["lock"] = <<"tick", "requeue">>]
     \/ /\ ~armed \/ pvr_disabled
        /\ worker' = "none"
        /\ UNCHANGED todo
  /\ UNCHANGED <<dev, sysPower, eCurrentPowerState, sSGXClocksEnabled, armed, work, lockups,
                 pvr_disabled, misr, ccb, flagVars, gpuVars, jobVars, events>>

\* Faulty variant: one time too many.
TickLate ==
  LET stuck == eCurrentPowerState = "D0" /\ gpu # "on" /\ seen
      lockup == stuck /\ lockups = 3
  IN  /\ Calling("lock", "tick")
      /\ eCurrentPowerState = "D0" => dev = "none"
      /\ lockups' = IF stuck /\ ~lockup THEN lockups + 1 ELSE 0
      /\ seen' = (eCurrentPowerState = "D0" \/ seen)
      /\ Return("lock", IF lockup THEN Locked(<<"HWRecoveryResetSGX">>) ELSE <<>>)
      /\ UNCHANGED <<dev, sysPower, eCurrentPowerState, sSGXClocksEnabled, armed, work, worker,
                     pvr_disabled, misr, ccb, flagVars, gpu, look, jobVars, events>>

\* If the GPU is powered the timer compares the task counters of the
\* microkernel, which change all the time unless the GPU has locked up.  It
\* calls for a recovery when it has seen no change three times.
Tick ==
  LET stuck == eCurrentPowerState = "D0" /\ gpu # "on" /\ seen
      lockup == stuck /\ lockups = 2
  IN  /\ Calling("lock", "tick")
      /\ eCurrentPowerState = "D0" => dev = "none"
      /\ lockups' = IF stuck /\ ~lockup THEN lockups + 1 ELSE 0
      /\ seen' = (eCurrentPowerState = "D0" \/ seen)
      /\ Return("lock", IF lockup THEN Locked(<<"HWRecoveryResetSGX">>) ELSE <<>>)
      /\ UNCHANGED <<dev, sysPower, eCurrentPowerState, sSGXClocksEnabled, armed, work, worker,
                     pvr_disabled, misr, ccb, flagVars, gpu, look, jobVars, events>>

\* Faulty variant: the timer runs once only.
RequeueForgotten ==
  /\ Calling("lock", "requeue")
  /\ worker' = "none"
  /\ Return("lock", <<>>)
  /\ UNCHANGED <<dev, sysPower, eCurrentPowerState, sSGXClocksEnabled, armed, work, lockups,
                 pvr_disabled, misr, ccb, flagVars, gpuVars, jobVars, events>>

Requeue ==
  /\ Calling("lock", "requeue")
  /\ worker' = "none"
  /\ work' = IF work = "none" THEN "timer" ELSE work
  /\ Return("lock", <<>>)
  /\ UNCHANGED <<dev, sysPower, eCurrentPowerState, sSGXClocksEnabled, armed, lockups,
                 pvr_disabled, misr, ccb, flagVars, gpuVars, jobVars, events>>

-----------------------------------------------------------------------------
(***************************************************************************)
(* Power transitions of the GPU.                                           *)
(***************************************************************************)

\* SGXInitialise: the microkernel starts, takes note of the interrupts that the
\* host has cleared and reads what is left in the ring.
SGXInitialise ==
  /\ gpu' = "on"
  /\ look' = FALSE
  /\ seen' = FALSE
  /\ act' = (act /\ ~actClear)
  /\ actClear' = FALSE
  /\ hwr' = FALSE
  /\ ccb' = <<>>
  /\ job' = [j \in Jobs |-> IF job[j] = "ccb" THEN "held" ELSE job[j]]

EnableSGXClocks == sSGXClocksEnabled' = TRUE

DisableSGXClocks == sSGXClocksEnabled' = FALSE /\ gpu' = "off"

SGXPostPowerState ==
  /\ ui32PowerStatus' = {}
  /\ SGXInitialise
  /\ SGXOSTimerEnable

\* PVRSRVSetDevicePowerStateKM(PVRSRV_POWER_STATE_D0).  The clocks may fail, or
\* the start of the GPU, which leaves the clocks on.
SetD0(t) ==
  /\ \E call \in {"D0", "MISR_D0", "queues_D0"} : Calling(t, call)
  /\ \/ /\ eCurrentPowerState = "D0"
        /\ Return(t, <<>>)
        /\ UNCHANGED <<hostVars, ccb, flagVars, gpuVars, jobVars>>
     \/ /\ eCurrentPowerState = "D3"
        /\ \/ /\ "clocks" \in Fails
              /\ ~sSGXClocksEnabled
              /\ UNCHANGED <<sSGXClocksEnabled, ui32PowerStatus>>
           \/ /\ "init" \in Fails
              /\ EnableSGXClocks
              /\ ui32PowerStatus' = {}
        /\ PowerUpFails(t)
        /\ job' = [j \in Jobs |-> IF job[j] = "kick" THEN "lost" ELSE job[j]]
        /\ UNCHANGED <<sysPower, eCurrentPowerState, timerVars, pvr_disabled, ccb,
                       act, actClear, hwr, gpuVars, met>>
     \/ /\ eCurrentPowerState = "D3"
        /\ EnableSGXClocks
        /\ SGXPostPowerState
        /\ eCurrentPowerState' = "D0"
        /\ Return(t, <<>>)
        /\ UNCHANGED <<sysPower, worker, lockups, pvr_disabled, met>>
  /\ UNCHANGED <<dev, misr, events>>

\* The power-down: PVRSRVDevicePrePowerStateKM and its three effects, then
\* PVRSRVDevicePostPowerStateKM.
PowerDown == <<"SGXPrePowerState", "poll", "SysDevicePrePowerState", "PostD3">>

RingFull == Len(ccb) + 1 >= CCBSize

\* SGXScheduleCCBCommand.
Post(c) ==
  /\ ~RingFull
  /\ ccb' = Append(ccb, c)

\* SGXAcquireKernelCCBSlot waits for a slot; the wait times out when the GPU
\* does not read.
PostFails == RingFull /\ gpu # "on"

\* The first half of SGXPrePowerState.  If there is no room for the power
\* command the transition fails, with the timer cancelled already.
SGXPrePowerState(t) ==
  /\ Calling(t, "SGXPrePowerState")
  /\ \/ /\ eCurrentPowerState = "D3"
        /\ todo' = [todo EXCEPT ![t] = SubSeq(@, 4, Len(@))]
        /\ UNCHANGED <<armed, work, ccb>>
     \/ /\ eCurrentPowerState = "D0"
        /\ SGXOSTimerCancel
        /\ Post(PowerOff)
        /\ Return(t, <<>>)
     \/ /\ eCurrentPowerState = "D0"
        /\ PostFails
        /\ SGXOSTimerCancel
        /\ Abort(t)
        /\ UNCHANGED ccb
  /\ UNCHANGED <<dev, sysPower, eCurrentPowerState, sSGXClocksEnabled, worker, lockups,
                 pvr_disabled, misr, flagVars, gpuVars, jobVars, events>>

\* The host polls ui32PowerStatus; a GPU that has locked up lets the poll time
\* out, which is only logged.  Then SGXDeinitialise.
PollPowerOff(t) ==
  /\ Calling(t, "poll")
  /\ "POWEROFF_COMPLETE" \in ui32PowerStatus \/ gpu # "on"
  /\ \/ Return(t, <<>>)
     \/ "deinit" \in Fails /\ Abort(t)
  /\ UNCHANGED <<dev, hostVars, misr, ccb, flagVars, gpuVars, jobVars, events>>

SysDevicePrePowerState(t) ==
  /\ Calling(t, "SysDevicePrePowerState")
  /\ DisableSGXClocks
  /\ Return(t, <<>>)
  /\ UNCHANGED <<dev, sysPower, eCurrentPowerState, timerVars, pvr_disabled, misr, ccb,
                 flagVars, look, seen, jobVars, events>>

\* PVRSRVDevicePostPowerStateKM.
PostD3(t) ==
  /\ Calling(t, "PostD3")
  /\ eCurrentPowerState' = "D3"
  /\ Return(t, <<>>)
  /\ UNCHANGED <<dev, sysPower, sSGXClocksEnabled, timerVars, pvr_disabled, misr, ccb,
                 flagVars, gpuVars, jobVars, events>>
-----------------------------------------------------------------------------
(***************************************************************************)
(* Commands for the GPU.                                                   *)
(***************************************************************************)

\* SGXScheduleCCBCommandKM: the ioctl of a kick, whose job may have to wait for
\* a flip.
SGXScheduleCCBCommandKM(j, waits) ==
  /\ job[j] = "none"
  /\ \A i \in 1..(j - 1) : job[i] # "none"
  /\ Enter(Locked(<<"D0", "kick", "SGXTestActivePowerEvent">>))
  /\ job' = [job EXCEPT ![j] = "kick"]
  /\ met' = [met EXCEPT ![j] = ~waits]
  /\ UNCHANGED <<dev, hostVars, misr, ccb, flagVars, gpuVars, events>>

Kick(j) ==
  /\ Calling("lock", "kick")
  /\ job[j] = "kick"
  /\ \/ /\ Post(j)
        /\ job' = [job EXCEPT ![j] = "ccb"]
     \/ /\ PostFails
        /\ job' = [job EXCEPT ![j] = "lost"]
        /\ UNCHANGED ccb
  /\ Return("lock", <<>>)
  /\ UNCHANGED <<dev, hostVars, misr, flagVars, gpuVars, met, events>>

\* The flip that job j waits for is over: PVRSRVCommandCompleteKM calls
\* SGXScheduleProcessQueuesKM and schedules the MISR.
FlipCompletes(j) ==
  /\ job[j] # "none"
  /\ ~met[j]
  /\ Enter(Locked(<<"SGXScheduleProcessQueues">>))
  /\ met' = [met EXCEPT ![j] = TRUE]
  /\ misr' = TRUE
  /\ UNCHANGED <<dev, hostVars, ccb, flagVars, gpuVars, job, events>>

\* Faulty variant: the GPU is not powered up first.
SGXScheduleProcessQueuesUnpowered(t) ==
  /\ Calling(t, "SGXScheduleProcessQueues")
  /\ Return(t, IF "NO_WORK" \in ui32PowerStatus THEN <<>> ELSE <<"process">>)
  /\ UNCHANGED <<dev, hostVars, misr, ccb, flagVars, gpuVars, jobVars, events>>

SGXScheduleProcessQueues(t) ==
  /\ Calling(t, "SGXScheduleProcessQueues")
  /\ Return(t, IF "NO_WORK" \in ui32PowerStatus THEN <<>> ELSE <<"queues_D0", "process">>)
  /\ UNCHANGED <<dev, hostVars, misr, ccb, flagVars, gpuVars, jobVars, events>>

PostProcess(t) ==
  /\ Calling(t, "process")
  /\ \/ Post(Process)
     \/ PostFails /\ UNCHANGED ccb
  /\ Return(t, <<>>)
  /\ UNCHANGED <<dev, hostVars, misr, flagVars, gpuVars, jobVars, events>>

\* The microkernel has asked to be powered down.
SGXTestActivePowerEvent ==
  /\ Calling("lock", "SGXTestActivePowerEvent")
  /\ actClear' = (actClear \/ act)
  /\ Return("lock", IF act /\ ~actClear
                    THEN PowerDown \o <<"SGXPostActivePowerEvent">> ELSE <<>>)
  /\ UNCHANGED <<dev, hostVars, misr, ccb, ui32PowerStatus, act, hwr, gpuVars, jobVars, events>>

\* Faulty variant: the wish of the microkernel to be restarted is not looked at.
SGXPostActivePowerEventStaysOff ==
  /\ Calling("lock", "SGXPostActivePowerEvent")
  /\ Return("lock", <<>>)
  /\ UNCHANGED <<dev, hostVars, misr, ccb, flagVars, gpuVars, jobVars, events>>

SGXPostActivePowerEvent ==
  /\ Calling("lock", "SGXPostActivePowerEvent")
  /\ Return("lock", IF "RESTART_IMMEDIATE" \in ui32PowerStatus
                    THEN <<"SGXScheduleProcessQueues">> ELSE <<>>)
  /\ UNCHANGED <<dev, hostVars, misr, ccb, flagVars, gpuVars, jobVars, events>>

SGX_MISRHandler ==
  /\ misr
  /\ misr' = FALSE
  /\ \/ Enter(Locked(<<"MISR_D0", "HWR", "SGXTestActivePowerEvent">>))
     \/ Idle /\ pvr_disabled /\ UNCHANGED todo
  /\ UNCHANGED <<dev, hostVars, ccb, flagVars, gpuVars, jobVars, events>>

\* The microkernel has found a lock-up by itself.
TestHWR ==
  /\ Calling("lock", "HWR")
  /\ Return("lock", IF hwr THEN <<"HWRecoveryResetSGX">> ELSE <<>>)
  /\ UNCHANGED <<dev, hostVars, misr, ccb, flagVars, gpuVars, jobVars, events>>

pvr_debugfs_reset ==
  /\ events < MaxEvents
  /\ events' = events + 1
  /\ Enter(<<"D0", "HWRecoveryResetSGX", "SGXTestActivePowerEvent">>)
  /\ UNCHANGED <<dev, hostVars, misr, ccb, flagVars, gpuVars, jobVars>>

\* The GPU is restarted without a change of its power state; if it does not come
\* up the driver is disabled.
HWRecoveryResetSGX ==
  /\ Calling("lock", "HWRecoveryResetSGX")
  /\ \/ /\ SGXInitialise
        /\ Return("lock", <<"SGXScheduleProcessQueues">>)
        /\ UNCHANGED pvr_disabled
     \/ /\ "recover" \in Fails
        /\ pvr_disabled' = TRUE
        /\ gpu' = "hung"
        /\ Return("lock", <<>>)
        /\ UNCHANGED <<ccb, act, actClear, hwr, look, seen, job>>
  /\ UNCHANGED <<dev, sysPower, eCurrentPowerState, sSGXClocksEnabled, timerVars, misr,
                 ui32PowerStatus, met, events>>

-----------------------------------------------------------------------------
(***************************************************************************)
(* Suspend and resume: PVRSRVSetPowerStateKM, without a lock.              *)
(***************************************************************************)

PMStart == todo["pm"] = <<>> /\ (PMRaces \/ todo["lock"] = <<>>)

pvr_suspend ==
  /\ PMStart
  /\ events < MaxEvents
  /\ events' = events + 1
  /\ sysPower = "D0"
  /\ todo' = [todo EXCEPT !["pm"] = PowerDown \o <<"SystemD3">>]
  /\ UNCHANGED <<dev, hostVars, misr, ccb, flagVars, gpuVars, jobVars>>

\* The default power state of the GPU is D3: a GPU that is on goes through a
\* power-down.
pvr_resume ==
  /\ PMStart
  /\ sysPower = "D3"
  /\ todo' = [todo EXCEPT !["pm"] = PowerDown \o <<"SystemD0">>]
  /\ UNCHANGED <<dev, hostVars, misr, ccb, flagVars, gpuVars, jobVars, events>>

\* The end of PVRSRVSystemPostPowerStateKM; a resume calls
\* PVRSRVCommandCompleteCallbacks.
SystemPostPowerState ==
  /\ \/ /\ Calling("pm", "SystemD3")
        /\ sysPower' = "D3"
        /\ Return("pm", <<>>)
     \/ /\ Calling("pm", "SystemD0")
        /\ sysPower' = "D0"
        /\ Return("pm", Locked(<<"SGXScheduleProcessQueues">>))
  /\ UNCHANGED <<dev, eCurrentPowerState, sSGXClocksEnabled, timerVars, pvr_disabled, misr, ccb,
                 flagVars, gpuVars, jobVars, events>>

-----------------------------------------------------------------------------
(***************************************************************************)
(* The microkernel.                                                        *)
(***************************************************************************)

Runnable(j) == job[j] = "held" /\ met[j]

\* It reads a command.  Told to power off, it says whether it has nothing to
\* do, or something it could do at once.
GPURead ==
  LET c == Head(ccb)
      Held == {j \in Jobs : job[j] = "held"}
  IN  /\ gpu = "on"
      /\ ccb # <<>>
      /\ ccb' = Tail(ccb)
      /\ \/ /\ c = PowerOff
            /\ gpu' = "halted"
            /\ ui32PowerStatus' = ui32PowerStatus \cup {"POWEROFF_COMPLETE"}
                 \cup (IF Held = {} THEN {"NO_WORK"} ELSE {})
                 \cup (IF \E j \in Held : met[j] THEN {"RESTART_IMMEDIATE"} ELSE {})
            /\ UNCHANGED <<look, job>>
         \/ /\ c # PowerOff
            /\ look' = TRUE
            /\ job' = [j \in Jobs |-> IF j = c THEN "held" ELSE job[j]]
            /\ UNCHANGED <<gpu, ui32PowerStatus>>
      /\ UNCHANGED <<todo, dev, hostVars, misr, act, actClear, hwr, seen, met, events>>

GPURun(j) ==
  /\ gpu = "on" /\ look
  /\ Runnable(j)
  /\ job' = [job EXCEPT ![j] = "done"]
  /\ misr' = TRUE
  /\ UNCHANGED <<todo, dev, hostVars, ccb, flagVars, gpuVars, met, events>>

\* It finds nothing to do and, if no command has arrived either, asks to be
\* powered down.
GPURest ==
  /\ gpu = "on"
  /\ \A j \in Jobs : ~Runnable(j) \/ ~look
  /\ \/ /\ look
        /\ look' = FALSE
        /\ UNCHANGED <<act, misr>>
     \/ /\ ~look
        /\ ccb = <<>>
        /\ ~act
        /\ act' = TRUE
        /\ misr' = TRUE
        /\ UNCHANGED look
  /\ UNCHANGED <<todo, dev, hostVars, ccb, ui32PowerStatus, actClear, hwr, gpu, seen, jobVars,
                 events>>

\* Job j locks the GPU up; the microkernel may still notice it.
GPUHang(j) ==
  /\ Hangs
  /\ events < MaxEvents
  /\ events' = events + 1
  /\ gpu = "on" /\ look
  /\ Runnable(j)
  /\ gpu' = "hung"
  /\ seen' = FALSE
  /\ job' = [job EXCEPT ![j] = "lost"]
  /\ \/ hwr' = TRUE /\ misr' = TRUE
     \/ UNCHANGED <<hwr, misr>>
  /\ UNCHANGED <<todo, dev, hostVars, ccb, ui32PowerStatus, act, actClear, look, met>>

-----------------------------------------------------------------------------
Init ==
  /\ todo = [t \in Threads |-> <<>>]
  /\ dev = "none"
  /\ sysPower = "D0"
  /\ eCurrentPowerState = "D3"
  /\ sSGXClocksEnabled = FALSE
  /\ armed = FALSE
  /\ work = "none"
  /\ worker = "none"
  /\ lockups = 0
  /\ pvr_disabled = FALSE
  /\ misr = FALSE
  /\ ccb = <<>>
  /\ ui32PowerStatus = {"NO_WORK"}
  /\ act = FALSE
  /\ actClear = FALSE
  /\ hwr = FALSE
  /\ gpu = "off"
  /\ look = FALSE
  /\ seen = FALSE
  /\ job = [j \in Jobs |-> "none"]
  /\ met = [j \in Jobs |-> FALSE]
  /\ events = 0

\* A thread inside the driver makes its next call.
Step(t) ==
  \/ pvr_dev_lock(t) \/ pvr_dev_unlock(t)
  \/ SetD0(t)
  \/ SGXPrePowerState(t) \/ PollPowerOff(t) \/ SysDevicePrePowerState(t) \/ PostD3(t)
  \/ SGXScheduleProcessQueues(t) \/ PostProcess(t)

LockStep ==
  \/ Step("lock")
  \/ Tick \/ Requeue
  \/ \E j \in Jobs : Kick(j)
  \/ SGXTestActivePowerEvent \/ SGXPostActivePowerEvent
  \/ TestHWR \/ HWRecoveryResetSGX

PMStep == Step("pm") \/ SystemPostPowerState

Timer == TimerExpires \/ WorkerStarts

GPU ==
  \/ GPURead
  \/ GPURest
  \/ \E j \in Jobs : GPURun(j)

Next ==
  \/ \E j \in Jobs, waits \in BOOLEAN : SGXScheduleCCBCommandKM(j, waits)
  \/ \E j \in Jobs : FlipCompletes(j) \/ GPUHang(j)
  \/ SGX_MISRHandler
  \/ pvr_debugfs_reset
  \/ pvr_suspend \/ pvr_resume
  \/ LockStep \/ PMStep
  \/ Timer \/ SGXOSTimer
  \/ GPU

Spec == Init /\ [][Next]_vars

\* Threads run, delays end, and whoever waits for the mutex pvr_lock gets it
\* in the end, because its waiters queue up.  The microkernel reads its ring and
\* does not for ever put off a job it could run.
Fairness ==
  /\ WF_vars(LockStep)
  /\ WF_vars(PMStep)
  /\ WF_vars(Timer)
  /\ SF_vars(SGXOSTimer)
  /\ SF_vars(SGX_MISRHandler)
  /\ SF_vars(pvr_resume)
  /\ WF_vars(GPU)
  /\ \A j \in Jobs : SF_vars(GPURun(j))

FairSpec == Spec /\ Fairness

-----------------------------------------------------------------------------
(***************************************************************************)
(* Properties.                                                             *)
(***************************************************************************)

Calls == {"pvr_dev_lock", "pvr_dev_unlock", "D0", "MISR_D0", "queues_D0", "SGXPrePowerState",
          "poll", "SysDevicePrePowerState", "PostD3", "SGXScheduleProcessQueues", "process",
          "kick", "SGXTestActivePowerEvent", "SGXPostActivePowerEvent", "HWR",
          "HWRecoveryResetSGX", "tick", "requeue", "SystemD3", "SystemD0", "BUG"}

\* The variables keep their types.
TypeOK ==
  /\ todo \in [Threads -> Seq(Calls)]
  /\ dev \in {"none", "lock", "pm"}
  /\ sysPower \in {"D0", "D3"}
  /\ eCurrentPowerState \in {"D0", "D3"}
  /\ sSGXClocksEnabled \in BOOLEAN
  /\ armed \in BOOLEAN
  /\ work \in {"none", "timer", "queued"}
  /\ worker \in {"none", "waiting", "running"}
  /\ lockups \in 0..2
  /\ pvr_disabled \in BOOLEAN
  /\ misr \in BOOLEAN
  /\ ccb \in Seq(Commands)
  /\ ui32PowerStatus \in SUBSET {"NO_WORK", "POWEROFF_COMPLETE", "RESTART_IMMEDIATE"}
  /\ act \in BOOLEAN
  /\ actClear \in BOOLEAN
  /\ hwr \in BOOLEAN
  /\ gpu \in {"off", "on", "halted", "hung"}
  /\ look \in BOOLEAN
  /\ seen \in BOOLEAN
  /\ job \in [Jobs -> {"none", "kick", "ccb", "held", "done", "lost"}]
  /\ met \in [Jobs -> BOOLEAN]
  /\ events \in 0..MaxEvents

\* The timer is armed only while the GPU is powered and its clocks run, so
\* that BUG_ON(data->armed) of SGXGetTimingInfo is never met and a late work
\* item of the timer never touches a GPU that is off.
ArmedMeansPowered == armed => eCurrentPowerState = "D0" /\ sSGXClocksEnabled

\* The calls that access registers of the GPU are made only while its clocks
\* run: an access without them hangs the bus.
ClocksOnAtAccess ==
  \A t \in Threads :
    \/ sSGXClocksEnabled
    \/ todo[t] = <<>>
    \/ Head(todo[t]) \notin {"SGXPrePowerState", "tick", "poll", "process", "kick", "HWRecoveryResetSGX"}
    \/ Head(todo[t]) \in {"SGXPrePowerState", "tick"} /\ eCurrentPowerState = "D3"

\* Whatever fails on the way up or down, neither the timer nor a call that is
\* about to touch the GPU finds it without clocks.
ClocksFollowPower == ArmedMeansPowered /\ ClocksOnAtAccess

\* A job locked the GPU up or was given up by its ioctl.
SomethingLost == \E j \in Jobs : job[j] = "lost"

\* Nothing is left in the kernel CCB when the GPU is off, as the PVR_ASSERT at
\* the end of SGXInitialise says: unless the GPU had locked up, whatever was
\* posted before the power command has been read, and nothing is posted after
\* it.
RingDrained == gpu = "off" => ccb = <<>> \/ SomethingLost

\* While the driver is at rest and the GPU is powered, the lock-up timer is armed
\* and its work item is on its way.
TimerRuns ==
  todo["lock"] = <<>> /\ todo["pm"] = <<>> /\ eCurrentPowerState = "D0"
    => armed /\ (work # "none" \/ worker # "none")

\* The GPU is off only when it has nothing to do and on only when it is watched.
RestIsSafe == RingDrained /\ TimerRuns

\* A job whose flip is over is run, however often the GPU is powered down
\* around it, unless it locks up: no wake-up is lost between the power status
\* the microkernel leaves behind, SGXScheduleProcessQueues and the power-down.
JobsComplete ==
  \A j \in Jobs : job[j] \in {"ccb", "held"} /\ met[j] ~> job[j] = "done" \/ SomethingLost

\* A lock-up of the GPU ends: the timer, or the microkernel's own interrupt,
\* starts a recovery, or the GPU is powered down.
LockupsEnd == gpu = "hung" ~> gpu # "hung"
=============================================================================
