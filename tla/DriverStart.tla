----------------------------- MODULE DriverStart -----------------------------
(***************************************************************************)
(* How the driver starts, is completed by the init server, and stops.      *)
(*                                                                         *)
(* pvr_init registers the platform driver; the probe runs SysInitialise,   *)
(* which takes the parts of the system one after the other and remembers   *)
(* some of them as flags; a privileged process (the init server) gives the *)
(* GPU its memory and lets SysFinalise install the interrupt; pvr_cleanup  *)
(* runs SysDeinitialise, which gives back what the flags tell it to.  Any  *)
(* one step can fail.  Two kinds of deferred work run beside it: the work  *)
(* that follows the load of the GPU (sgx_lock_perf), which queues itself   *)
(* again with a timer, and the MISR, which the interrupt queues.           *)
(*                                                                         *)
(* Every part is a name in sys.held; a step that would use freed memory, a *)
(* NULL queue or code that is no longer loaded ends in pc = "crash", with  *)
(* the reason in why.                                                      *)
(***************************************************************************)
EXTENDS Naturals, FiniteSets

CONSTANT Loads   \* the ways a load of the module can go

VARIABLES
    load,   \* the load this behaviour is about
    pc,     \* the next step of the thread that starts or stops the driver
    why,    \* who runs SysDeinitialise: "start", "finalise", "remove"; or
            \* the reason of a crash
    sys,    \* held: what has been taken and not given back; flags: the
            \* ui32SysSpecificData; dangling: freed, the pointer still set
    clk,    \* on: sSGXClocksEnabled; wanted: sgx_clock_enabled
    perf,   \* sPerfWork: pending ("no", "queued", "timer") and run
    misr,   \* sMISRWork: "idle" or "queued"
    srv,    \* the init server: open (its file), gbInitServerRunning,
            \* gbInitServerRan, gbInitSuccessful
    lock    \* who keeps pvr_lock across steps: "free", "init", "perf"

driver == <<load, pc, why, sys, clk, perf, misr, srv, lock>>

Common == {"resman", "perproc", "handles", "eventobj", "eventlist"}
Module == {"proc", "mm", "bridge", "driver"}
SGXParts == {"devinfo", "kernelctx", "heaps", "bifpd"}
SrvParts == {"initmem", "ccbinfo", "regs", "powerdev"}

(* The steps that can fail.                                                *)
Faults ==
    {"none", "device", "env", "timerreg", "locate", "ocp", "devnode", "heaptable", "clocks",
     "sysclocks", "perfwq", "clk1", "resctx", "synctable", "misc", "ccbinfo", "regs", "powerdev",
     "clk2", "misrwq", "irq", "compat", "clk3", "d3"}
    \union Module \union Common \union SGXParts

(* A load says which one step fails ("none": no step does) and what the    *)
(* clients of the driver do, see Services.                                 *)
ASSUME LoadsAssumption == \A l \in Loads : DOMAIN l = {"fault", "client"} /\ l.fault \in Faults

InitDriver ==
    /\ load \in Loads
    /\ pc = "load"
    /\ why = "start"
    /\ sys = [held |-> {}, flags |-> {}, dangling |-> {}]
    /\ clk = [on |-> FALSE, wanted |-> FALSE]
    /\ perf = [pending |-> "no", run |-> "no"]
    /\ misr = "idle"
    /\ srv = [open |-> FALSE, running |-> FALSE, ran |-> FALSE, ok |-> FALSE]
    /\ lock = "free"

Fails(step) == load.fault = step

Crash(reason) ==
    /\ pc' = "crash"
    /\ why' = reason
    /\ UNCHANGED <<load, sys, clk, perf, misr, srv, lock>>

Goto(next) ==
    /\ pc' = next
    /\ UNCHANGED why

(* A failed step of SysInitialise calls SysDeinitialise.                   *)
Deinitialise == pc' = "s_lisr"

Get(got, flag) ==
    sys' = [sys EXCEPT !.held = @ \union got, !.flags = @ \union flag]

Stage(step, got, flag, next) ==
    /\ pc = step
    /\ IF Fails(step)
       THEN Deinitialise /\ UNCHANGED <<why, sys>>
       ELSE Goto(next) /\ Get(got, flag)
    /\ UNCHANGED <<load, clk, perf, misr, srv, lock>>

-----------------------------------------------------------------------------
(* The clocks of the GPU and the work that follows its load.               *)

(* The work is queued at once, whatever it was waiting for.                *)
sgx_need_perf(ena) ==
    /\ clk' = [on |-> ena, wanted |-> ena]
    /\ perf' = [perf EXCEPT !.pending = "queued"]

EnableSGXClocks == IF clk.on THEN UNCHANGED <<clk, perf>> ELSE sgx_need_perf(TRUE)

DisableSGXClocks == IF clk.on THEN sgx_need_perf(FALSE) ELSE UNCHANGED <<clk, perf>>

(* Under pvr_lock the work looks for the SGX in the list of devices; with  *)
(* the clocks on it goes on to read the counter of its device info.  Only  *)
(* a driver that is in use has had kicks to count.                         *)
PerfStart ==
    /\ perf.pending = "queued" /\ perf.run = "no" /\ lock = "free"
    /\ pc \notin {"crash", "down"}
    /\ IF "DATA" \in sys.flags /\ clk.on /\ "devnode" \in sys.held
       THEN perf' = [pending |-> "no", run |-> "read"] /\ lock' = "perf"
       ELSE perf' = [pending |-> "no", run |-> "zero"] /\ UNCHANGED lock
    /\ UNCHANGED <<load, pc, why, sys, clk, misr, srv>>

sgx_current_load ==
    /\ perf.run = "read" /\ pc \notin {"crash", "down"}
    /\ IF "devinfo" \in sys.dangling
       THEN Crash("load")
       ELSE /\ \E l \in IF srv.ok THEN {"zero", "busy"} ELSE {"zero"} :
                   perf' = [perf EXCEPT !.run = l]
            /\ lock' = "free"
            /\ UNCHANGED <<load, pc, why, sys, clk, misr, srv>>

(* After pvr_unlock the work sets its timer, unless it is pending again.   *)
PerfEnd ==
    /\ perf.run \in {"zero", "busy"} /\ pc \notin {"crash", "down"}
    /\ perf' = [pending |-> IF perf.pending = "no" /\ (clk.wanted \/ perf.run = "busy")
                            THEN "timer" ELSE perf.pending,
                run |-> "no"]
    /\ UNCHANGED <<load, pc, why, sys, clk, misr, srv, lock>>

(* external: the kernel's timer puts the work on its queue.                *)
PerfTimer ==
    /\ perf.pending = "timer" /\ pc \notin {"crash", "down"}
    /\ IF {"env", "perfwq"} \subseteq sys.held
       THEN /\ perf' = [perf EXCEPT !.pending = "queued"]
            /\ UNCHANGED <<load, pc, why, sys, clk, misr, srv, lock>>
       ELSE Crash("timer")

(* external: deferred work of a module that is no longer loaded.           *)
WorkAfterUnload ==
    /\ pc = "down"
    /\ perf # [pending |-> "no", run |-> "no"]
    /\ Crash("unload")

-----------------------------------------------------------------------------
(* pvr_init up to the probe: whatever fails is unwound.                    *)
pvr_init ==
    /\ pc = "load"
    /\ IF load.fault \in Module \union {"device"}
       THEN Goto("down") /\ UNCHANGED sys
       ELSE Goto("env") /\ Get(Module, {})
    /\ UNCHANGED <<load, clk, perf, misr, srv, lock>>

(* gpsSysData is set whether or not the step that follows fails.           *)
OSInitEnvData ==
    /\ pc = "env"
    /\ IF Fails("env")
       THEN Deinitialise /\ UNCHANGED why /\ Get({}, {"DATA"})
       ELSE Goto("resman") /\ Get({"env"}, {"DATA", "ENVDATA"})
    /\ UNCHANGED <<load, clk, perf, misr, srv, lock>>

(* What PVRSRVDeInit frees.  ResManDeInit and the event object leave their *)
(* pointers as they are.                                                   *)
FreeCommon(s) ==
    [s EXCEPT !.held = @ \ Common,
              !.dangling = @ \union (s.held \intersect {"resman", "eventobj"})]

(* The steps of PVRSRVInit.  A failure frees what the steps before took;   *)
(* eError is still PVRSRV_OK when the event object cannot be made.         *)
PVRSRVInitStep(step, next) ==
    /\ pc = step
    /\ IF Fails(step)
       THEN /\ sys' = FreeCommon(sys)
            /\ IF step \in {"eventobj", "eventlist"} THEN Goto("timerreg")
               ELSE Deinitialise /\ UNCHANGED why
       ELSE Goto(next) /\ Get({step}, {})
    /\ UNCHANGED <<load, clk, perf, misr, srv, lock>>

PVRSRVInit ==
    \/ PVRSRVInitStep("resman", "perproc")
    \/ PVRSRVInitStep("perproc", "handles")
    \/ PVRSRVInitStep("handles", "eventobj")
    \/ PVRSRVInitStep("eventobj", "eventlist")
    \/ PVRSRVInitStep("eventlist", "timerreg")

ReserveTimerRegister == Stage("timerreg", {"timerreg"}, {}, "locate")
SysLocateDevices     == Stage("locate", {}, {"LOCATEDEV"}, "ocp")
sgx_ocp_init         == Stage("ocp", {"ocp"}, {}, "devnode")

(* The device node is linked into the list only when SGXRegisterDevice has *)
(* its table of heaps; without one it is freed.                            *)
SGXRegisterDevice == Stage("heaptable", {"devnode", "heaptable"}, {"REGDEV", "PDUMPINIT"}, "clocks")

PVRSRVRegisterDevice == Stage("devnode", {}, {}, "heaptable") \/ SGXRegisterDevice

InitSystemClocks   == Stage("clocks", {"clocks"}, {}, "sysclocks")
EnableSystemClocks == Stage("sysclocks", {}, {"SYSCLOCKS"}, "perfwq")

(* Nobody looks at what create_singlethread_workqueue returns.             *)
OSInitPerf ==
    /\ pc = "perfwq"
    /\ Goto("clk1")
    /\ Get(IF Fails("perfwq") THEN {} ELSE {"perfwq"}, {"PERF"})
    /\ UNCHANGED <<load, clk, perf, misr, srv, lock>>

StartClocks ==
    /\ pc = "clk1"
    /\ \/ /\ Fails("clk1")
          /\ Deinitialise
          /\ UNCHANGED <<load, why, sys, clk, perf, misr, srv, lock>>
       \/ /\ ~Fails("clk1") /\ "perfwq" \notin sys.held
          /\ Crash("perfwq")
       \/ /\ ~Fails("clk1") /\ "perfwq" \in sys.held
          /\ EnableSGXClocks
          /\ Goto("resctx")
          /\ UNCHANGED <<load, sys, misr, srv, lock>>

(* The device's own context of the resource manager, linked into its list. *)
ConnectDevice ==
    \/ pc = "resctx" /\ "resman" \in sys.dangling /\ Crash("resman")
    \/ "resman" \notin sys.dangling /\ Stage("resctx", {"resctx"}, {}, "devinfo")

(* DevInitSGXPart1 frees what it took before the step that failed, but     *)
(* leaves pvDevice.                                                        *)
DevInitSGXPart1Step(step, next) ==
    /\ pc = step
    /\ IF Fails(step)
       THEN /\ Deinitialise
            /\ UNCHANGED why
            /\ sys' = [sys EXCEPT !.held = @ \ SGXParts,
                                  !.dangling = @ \union (sys.held \intersect {"devinfo"})]
       ELSE Goto(next) /\ Get({step}, {})
    /\ UNCHANGED <<load, clk, perf, misr, srv, lock>>

DevInitSGXPart1 ==
    \/ DevInitSGXPart1Step("devinfo", "kernelctx")
    \/ DevInitSGXPart1Step("kernelctx", "heaps")
    \/ DevInitSGXPart1Step("heaps", "bifpd")
    \/ DevInitSGXPart1Step("bifpd", "synctable")

SyncTable == Stage("synctable", {"synctable"}, {"INITDEV"}, "clocksoff")

StartClocksOff ==
    /\ pc = "clocksoff"
    /\ DisableSGXClocks
    /\ Goto("misc")
    /\ UNCHANGED <<load, sys, misr, srv, lock>>

(* Without its misc device the probe has failed, but the system stays as   *)
(* it is: nothing will ever call pvr_remove.                               *)
MiscRegister ==
    /\ pc = "misc"
    /\ IF Fails("misc") THEN Goto("failed") /\ UNCHANGED sys
       ELSE Goto("events") /\ Get({"misc"}, {})
    /\ UNCHANGED <<load, clk, perf, misr, srv, lock>>

(* The lists of pending events are made after the device can be opened.    *)
pvr_init_events == Stage("events", {"events"}, {}, "up")

-----------------------------------------------------------------------------
(* The init server, a process that has the device open.                    *)

InitSrvConnect ==
    /\ "misc" \in sys.held /\ lock = "free" /\ pc \in {"events", "up"}
    /\ ~srv.running /\ ~srv.ran
    /\ srv' = [srv EXCEPT !.open = TRUE, !.running = TRUE]
    /\ UNCHANGED <<load, pc, why, sys, clk, perf, misr, lock>>

(* The memory the server has allocated becomes the device's; then the ring *)
(* of commands, the registers, the power device and the recovery timer.    *)
(* The server needs longer for this than pvr_init for its last step.       *)
Part2Taken ==
    CASE Fails("ccbinfo")  -> {"initmem"}
      [] Fails("regs")     -> {"initmem", "ccbinfo"}
      [] Fails("powerdev") -> {"initmem", "ccbinfo", "regs"}
      [] OTHER             -> SrvParts \union {"hwtimer"}

DevInitSGXPart2 ==
    /\ srv.open /\ srv.running /\ lock = "free" /\ pc = "up"
    /\ "initmem" \notin sys.held
    /\ Get(Part2Taken, {})
    /\ UNCHANGED <<load, pc, why, clk, perf, misr, srv, lock>>

(* The server reports success only when part 2 succeeded.                  *)
InitSrvDisconnect(success) ==
    /\ srv.open /\ srv.running /\ lock = "free" /\ pc = "up"
    /\ success => SrvParts \subseteq sys.held
    /\ srv' = [srv EXCEPT !.running = FALSE, !.ran = TRUE]
    /\ IF success THEN pc' = "f_clk" /\ lock' = "init"
       ELSE UNCHANGED <<pc, lock>>
    /\ UNCHANGED <<load, why, sys, clk, perf, misr>>

(* pvr_release of the server's file.  Whatever the server was doing, the   *)
(* state it has set stays.                                                 *)
InitSrvExit ==
    /\ srv.open /\ lock = "free" /\ pc \in {"events", "up"}
    /\ IF "events" \notin sys.held THEN Crash("events")
       ELSE /\ srv' = [srv EXCEPT !.open = FALSE]
            /\ UNCHANGED <<load, pc, why, sys, clk, perf, misr, lock>>

-----------------------------------------------------------------------------
(* SysFinalise and the rest of PVRSRVFinaliseSystem, under pvr_lock.       *)

FinaliseFails == pc' = "s_lisr" /\ why' = "finalise"

FinaliseClocks ==
    /\ pc = "f_clk"
    /\ IF Fails("clk2") THEN FinaliseFails /\ UNCHANGED <<clk, perf>>
       ELSE EnableSGXClocks /\ Goto("f_misr")
    /\ UNCHANGED <<load, sys, misr, srv, lock>>

OSInstallMISR ==
    /\ pc = "f_misr"
    /\ Goto("f_irq")
    /\ Get(IF Fails("misrwq") THEN {} ELSE {"misrwq"}, {"MISR"})
    /\ UNCHANGED <<load, clk, perf, misr, srv, lock>>

OSInstallDeviceLISR ==
    /\ pc = "f_irq"
    /\ IF Fails("irq") THEN FinaliseFails /\ UNCHANGED sys
       ELSE Goto("f_end") /\ Get({"lisr"}, {"LISR"})
    /\ UNCHANGED <<load, clk, perf, misr, srv, lock>>

(* The first power state is set, its failure ignored; the check of the     *)
(* micro-kernel's version decides.                                         *)
FinaliseEnd ==
    /\ pc = "f_end"
    /\ DisableSGXClocks
    /\ Goto("up")
    /\ lock' = "free"
    /\ srv' = [srv EXCEPT !.ok = ~Fails("compat")]
    /\ UNCHANGED <<load, sys, misr>>

-----------------------------------------------------------------------------
(* The interrupt and its work, at any time it is installed.                *)

DeviceISRWrapper ==
    /\ "lisr" \in sys.held /\ pc # "crash"
    /\ IF {"env", "misrwq", "devnode"} \subseteq sys.held
       THEN misr' = "queued" /\ UNCHANGED <<load, pc, why, sys, clk, perf, srv, lock>>
       ELSE Crash("misrwq")

MISRGuard ==
    /\ misr = "queued" /\ lock = "free" /\ pc # "crash"
    /\ misr' = "idle"
    /\ UNCHANGED <<load, pc, why, sys, clk, perf, srv, lock>>

-----------------------------------------------------------------------------
(* pvr_cleanup, when no file is open, and SysDeinitialise.                 *)

(* Mutant: the stop is serialised with the calls.                          *)
pvr_cleanupLocked ==
    /\ pc = "up" /\ ~srv.open /\ lock = "free"
    /\ pc' = "s_lisr" /\ why' = "remove"
    /\ sys' = [sys EXCEPT !.held = @ \ {"misc"}]
    /\ lock' = "init"
    /\ UNCHANGED <<load, clk, perf, misr, srv>>

(* A probe that failed left no driver to remove.                           *)
pvr_cleanup ==
    /\ pc \in {"up", "failed"} /\ ~srv.open
    /\ \/ /\ pc = "up"
          /\ pc' = "s_lisr" /\ why' = "remove"
          /\ sys' = [sys EXCEPT !.held = @ \ {"misc"}]
       \/ pc = "failed" /\ Goto("unload") /\ UNCHANGED sys
    /\ UNCHANGED <<load, clk, perf, misr, srv, lock>>

(* A step of SysDeinitialise: given its flag, it gives something back.     *)
Undo(step, flag, gone, next) ==
    /\ pc = step
    /\ Goto(next)
    /\ sys' = IF flag \subseteq sys.flags THEN [sys EXCEPT !.held = @ \ gone] ELSE sys
    /\ UNCHANGED <<load, clk, perf, misr, srv, lock>>

OSUninstallDeviceLISR == Undo("s_lisr", {"LISR"}, {"lisr"}, "s_misr")

(* flush_workqueue waits for the MISR.                                     *)
OSUninstallMISR ==
    \/ /\ misr = "idle" /\ ("MISR" \in sys.flags => "misrwq" \in sys.held)
       /\ Undo("s_misr", {"MISR"}, {"misrwq"}, "s_dev")
    \/ /\ pc = "s_misr" /\ "MISR" \in sys.flags /\ "misrwq" \notin sys.held
       /\ Crash("misrwq")

(* Where an early return of SysDeinitialise leads.  "abandoned" is where   *)
(* SysFinalise would return its error; its stop waits for work that needs  *)
(* pvr_lock, so that is never reached.                                     *)
Abandon == IF why = "remove" THEN "unload" ELSE "abandoned"

DeinitDeviceClocks ==
    /\ pc = "s_dev"
    /\ IF "INITDEV" \notin sys.flags THEN Goto("s_clk") /\ UNCHANGED <<clk, perf>>
       ELSE IF Fails("clk3") THEN Goto(Abandon) /\ UNCHANGED <<clk, perf>>
       ELSE EnableSGXClocks /\ Goto("s_dinit")
    /\ UNCHANGED <<load, sys, misr, srv, lock>>

(* DevDeInitSGX gives back the parts of both halves of the start.          *)
DevDeInitSGX == SGXParts \union SrvParts \union {"hwtimer", "heaptable"}

(* Power off; then the device's memory, DevDeInitSGX, its context of the   *)
(* resource manager and its node.  pvr_lock is not taken.                  *)
PVRSRVDeinitialiseDevice ==
    /\ pc = "s_dinit"
    /\ IF Fails("d3") THEN Goto("s_abort") /\ UNCHANGED sys
       ELSE /\ Goto("s_dclk")
            /\ sys' = [sys EXCEPT
                 !.held = @ \ (DevDeInitSGX \union {"synctable", "resctx", "devnode"}),
                 !.dangling = @ \union {"devinfo"}]
    /\ UNCHANGED <<load, clk, perf, misr, srv, lock>>

DeinitDeviceClocksOff ==
    /\ pc \in {"s_dclk", "s_abort"}
    /\ DisableSGXClocks
    /\ Goto(IF pc = "s_abort" THEN Abandon ELSE "s_clk")
    /\ UNCHANGED <<load, sys, misr, srv, lock>>

CleanupSystemClocks == Undo("s_clk", {}, {"clocks"}, "s_perf")

CleanupPerf ==
    /\ pc = "s_perf"
    /\ clk' = IF "PERF" \in sys.flags THEN [clk EXCEPT !.wanted = FALSE] ELSE clk
    /\ Goto("s_flush")
    /\ UNCHANGED <<load, sys, perf, misr, srv, lock>>

(* Mutant: the queue is destroyed without waiting for what is on it.       *)
FlushPerfNoWait == Undo("s_flush", {"PERF"}, {"perfwq"}, "s_ocp")

(* flush_workqueue waits for work that is queued, not for a timer.         *)
FlushPerf ==
    /\ "PERF" \in sys.flags => perf.pending # "queued" /\ perf.run = "no"
    /\ Undo("s_flush", {"PERF"}, {"perfwq"}, "s_ocp")

sgx_ocp_cleanup == Undo("s_ocp", {}, {"ocp"}, "s_env")
OSDeInitEnvData == Undo("s_env", {"ENVDATA"}, {"env"}, "s_treg")
UnreserveTimerRegister == Undo("s_treg", {}, {"timerreg"}, "s_common")

(* PVRSRVDeInit, a second time when PVRSRVInit failed.                     *)
PVRSRVDeInit ==
    /\ pc = "s_common"
    /\ IF {"resman", "eventobj"} \intersect sys.dangling # {} THEN Crash("resman")
       ELSE /\ sys' = FreeCommon(sys)
            /\ Goto("s_end")
            /\ UNCHANGED <<load, clk, perf, misr, srv, lock>>

DeinitialiseEnd ==
    /\ pc = "s_end"
    /\ sys' = [sys EXCEPT !.flags = {}]
    /\ pc' = CASE why = "start" -> "failed" [] why = "remove" -> "unload" [] OTHER -> "abandoned"
    /\ UNCHANGED <<load, why, clk, perf, misr, srv, lock>>

Unload ==
    /\ pc = "unload"
    /\ Goto("down")
    /\ sys' = [sys EXCEPT !.held = @ \ (Module \union {"events"})]
    /\ UNCHANGED <<load, clk, perf, misr, srv, lock>>

-----------------------------------------------------------------------------
SysInitialise ==
    \/ OSInitEnvData \/ PVRSRVInit \/ ReserveTimerRegister \/ SysLocateDevices
    \/ sgx_ocp_init \/ PVRSRVRegisterDevice \/ InitSystemClocks
    \/ EnableSystemClocks \/ OSInitPerf \/ StartClocks \/ ConnectDevice
    \/ DevInitSGXPart1 \/ SyncTable \/ StartClocksOff

SysFinalise == FinaliseClocks \/ OSInstallMISR \/ OSInstallDeviceLISR \/ FinaliseEnd

SysDeinitialise ==
    \/ OSUninstallDeviceLISR \/ OSUninstallMISR \/ DeinitDeviceClocks
    \/ PVRSRVDeinitialiseDevice \/ DeinitDeviceClocksOff \/ CleanupSystemClocks
    \/ CleanupPerf \/ FlushPerf \/ sgx_ocp_cleanup \/ OSDeInitEnvData
    \/ UnreserveTimerRegister \/ PVRSRVDeInit \/ DeinitialiseEnd

(* The thread that starts or stops the driver.                             *)
DriverThread ==
    \/ pvr_init \/ SysInitialise \/ MiscRegister \/ pvr_init_events
    \/ SysFinalise \/ SysDeinitialise \/ Unload

InitServer ==
    \/ InitSrvConnect \/ DevInitSGXPart2 \/ InitSrvExit
    \/ \E success \in BOOLEAN : InitSrvDisconnect(success)

PerfWork == PerfStart \/ sgx_current_load \/ PerfEnd

=============================================================================
