------------------------------- MODULE Services -------------------------------
(***************************************************************************)
(* What the driver serves its processes once it is started: connections    *)
(* (a process per open file), the parameter buffer all processes share,    *)
(* the completion events of a file, and the global event object processes  *)
(* sleep on.  DriverStart decides when the device can be opened and when   *)
(* the calls are let through.                                              *)
(*                                                                         *)
(* Every call runs under pvr_lock and is one step, except the wait for the *)
(* event object, which gives the lock up while it sleeps.                  *)
(***************************************************************************)
EXTENDS DriverStart, Sequences, FiniteSetsExt

CONSTANTS
    Procs,      \* client processes, the init server apart
    Files,      \* files they open
    Syncs,      \* sync infos
    None,       \* no process, no sync info
    EventMax,   \* events a file has room for: event_space / sizeof(event)
    RefMax,     \* bound: references a process takes of the shared buffer
    OutMax      \* bound: operations outstanding on a sync info

ASSUME ServicesAssumption ==
    /\ EventMax \in Nat \ {0} /\ RefMax \in Nat \ {0} /\ OutMax \in Nat
    /\ None \notin Procs \union Syncs
    /\ IsFiniteSet(Procs) /\ IsFiniteSet(Files)

VARIABLES
    file,    \* file private data: process, event_space, event_list
    per,     \* per-process data, see NoProcess
    stub,    \* ui32RefCount of the shared buffer's descriptor, 0: none
    owner,   \* psPerProcCreateSharedPB
    sync,    \* sync infos: the process that has them and how many of their
             \* write operations are outstanding
    waits,   \* sync_wait_list: file, sync info and the completions missing
    evo      \* a process's event object: open, new (signalled since it was
             \* last seen), wait ("no", "asleep", "woken")

clients == <<file, per, stub, owner, sync, waits, evo>>
vars == <<load, pc, why, sys, clk, perf, misr, srv, lock,
          file, per, stub, owner, sync, waits, evo>>

Closed    == [proc |-> None, space |-> 0, list |-> <<>>]
NoProcess == [ref |-> 0,     \* ui32RefCount
              mem |-> FALSE, \* it has memory for a parameter buffer
              items |-> 0,   \* references of the shared buffer it holds
              hnd |-> 0]     \* and the handles it has been given for them
NoSync    == [proc |-> None, out |-> 0]
NoEvent   == [open |-> FALSE, new |-> FALSE, wait |-> "no"]

Init ==
    /\ InitDriver
    /\ file = [f \in Files |-> Closed]
    /\ per = [p \in Procs |-> NoProcess]
    /\ stub = 0
    /\ owner = None
    /\ sync = [s \in Syncs |-> NoSync]
    /\ waits = <<>>
    /\ evo = [p \in Procs |-> NoEvent]

-----------------------------------------------------------------------------
(* Opening and closing the device.                                         *)

CanOpen == "misc" \in sys.held /\ pc \in {"events", "up"} /\ lock = "free"

(* The connection is made before the file's data; when the data cannot be  *)
(* had, nobody undoes the connection.                                      *)
pvr_open(f, p, privOk) ==
    /\ CanOpen
    /\ file[f] = Closed /\ (~privOk => per[p].ref = 0)
    /\ per' = [per EXCEPT ![p].ref = @ + 1]
    /\ file' = IF privOk
               THEN [file EXCEPT ![f] = [proc |-> p, space |-> EventMax, list |-> <<>>]]
               ELSE file
    /\ UNCHANGED <<stub, owner, sync, waits, evo>>
    /\ UNCHANGED driver

(* The members of a list at the places I, in their order.                  *)
Entries(ws, I) ==
    [n \in 1..Cardinality(I) |-> ws[CHOOSE i \in I : Cardinality({j \in I : j <= i}) = n]]

NotOf(f) == Entries(waits, {i \in DOMAIN waits : waits[i].file # f})

(* An event whose sync info is gone keeps a stale pointer to it.           *)
Stale(ws, gone) ==
    [i \in DOMAIN ws |-> IF ws[i].sync \in gone THEN [ws[i] EXCEPT !.sync = None, !.rem = 0]
                         ELSE ws[i]]

(* Mutant: a dead process keeps the lock to create the shared buffer.      *)
DisconnectKeepsOwner(p, ws) ==
    /\ per' = [per EXCEPT ![p] = NoProcess]
    /\ stub' = stub - per[p].items
    /\ sync' = [s \in Syncs |-> IF sync[s].proc = p THEN NoSync ELSE sync[s]]
    /\ waits' = Stale(ws, {s \in Syncs : sync[s].proc = p})
    /\ evo' = [evo EXCEPT ![p] = NoEvent]
    /\ UNCHANGED owner

(* PVRSRVResManDisconnect of a process's last connection: its references   *)
(* of the shared buffer, the lock to create one, its memory, sync infos    *)
(* and event object.                                                       *)
Disconnect(p, ws) ==
    /\ per' = [per EXCEPT ![p] = NoProcess]
    /\ stub' = stub - per[p].items
    /\ owner' = IF owner = p THEN None ELSE owner
    /\ sync' = [s \in Syncs |-> IF sync[s].proc = p THEN NoSync ELSE sync[s]]
    /\ waits' = Stale(ws, {s \in Syncs : sync[s].proc = p})
    /\ evo' = [evo EXCEPT ![p] = NoEvent]

(* No thread of the process is inside a call on the file that goes last.   *)
pvr_release(f) ==
    LET p == file[f].proc IN
    /\ p # None /\ CanOpen
    /\ per[p].ref > 1 \/ evo[p].wait = "no"
    /\ IF "events" \notin sys.held THEN Crash("events") /\ UNCHANGED clients
       ELSE /\ file' = [file EXCEPT ![f] = Closed]
            /\ IF per[p].ref = 1 THEN Disconnect(p, NotOf(f))
               ELSE /\ per' = [per EXCEPT ![p].ref = @ - 1]
                    /\ waits' = NotOf(f)
                    /\ UNCHANGED <<stub, owner, sync, evo>>
            /\ UNCHANGED driver

(* Mutant: that the server ran is enough, whatever it came to.             *)
bridged_check_cmdAnyResult == ~srv.ran

(* Whether the bridge refuses a call of a process that is not the server.  *)
bridged_check_cmd ==
    IF srv.ran THEN ~srv.ok ELSE TRUE

Called(p) ==
    /\ \E f \in Files : file[f].proc = p
    /\ CanOpen
    /\ ~bridged_check_cmd
    /\ UNCHANGED driver

-----------------------------------------------------------------------------
(* The shared parameter buffer.  Its four kinds of memory go the same way  *)
(* in every call, so they are one.                                         *)

PVRSRVAllocPBMemory(p) ==
    /\ Called(p)
    /\ ~per[p].mem
    /\ per' = [per EXCEPT ![p].mem = TRUE]
    /\ UNCHANGED <<file, stub, owner, sync, waits, evo>>

TakeRef(p, handle) ==
    /\ per' = [per EXCEPT ![p].items = @ + 1, ![p].hnd = IF handle THEN @ + 1 ELSE @]
    /\ stub' = stub + 1

SGXFindSharedPBDescKM(p, bLockOnFailure, handle) ==
    \/ stub > 0 /\ TakeRef(p, handle) /\ UNCHANGED owner
    \/ /\ stub = 0 /\ bLockOnFailure /\ owner = None
       /\ owner' = p
       /\ UNCHANGED <<per, stub>>

(* handle: the batch of handles is committed; if it is not, the reference  *)
(* stays until the process ends.                                           *)
SGXFindSharedPBDescBW(p, bLockOnFailure, handle) ==
    /\ Called(p)
    /\ per[p].items < RefMax
    /\ SGXFindSharedPBDescKM(p, bLockOnFailure, handle)
    /\ UNCHANGED <<file, sync, waits, evo>>

(* The item's callback drops the reference; the last one frees the buffer. *)
SGXUnrefSharedPBDesc(p) ==
    /\ Called(p)
    /\ per[p].hnd > 0
    /\ per' = [per EXCEPT ![p].items = @ - 1, ![p].hnd = @ - 1]
    /\ stub' = stub - 1
    /\ UNCHANGED <<file, owner, sync, waits, evo>>

(* Only the owner of the lock adds, and gives the lock up first.  A buffer *)
(* that exists by then gets one more reference.                            *)
SGXAddSharedPBDescKM(p, ok, handle) ==
    /\ owner' = IF owner = p THEN None ELSE owner
    /\ IF owner = p /\ ok
       THEN /\ per' = [per EXCEPT ![p].mem = FALSE, ![p].items = @ + 1,
                                  ![p].hnd = IF handle THEN @ + 1 ELSE @]
            /\ stub' = stub + 1
       ELSE per' = [per EXCEPT ![p].mem = FALSE] /\ UNCHANGED stub

(* Whatever happens the memory leaves the process: it becomes the shared   *)
(* buffer's, or it is freed.                                               *)
SGXAddSharedPBDescBW(p, ok, handle) ==
    /\ Called(p)
    /\ per[p].mem
    /\ SGXAddSharedPBDescKM(p, ok, handle)
    /\ UNCHANGED <<file, sync, waits, evo>>

-----------------------------------------------------------------------------
(* Sync infos and the events that tell of their completion.                *)

AllocSyncInfo(p, s) ==
    /\ Called(p)
    /\ sync[s] = NoSync
    /\ sync' = [sync EXCEPT ![s].proc = p]
    /\ UNCHANGED <<file, per, stub, owner, waits, evo>>

FreeSyncInfo(p, s) ==
    /\ Called(p)
    /\ sync[s].proc = p
    /\ sync' = [sync EXCEPT ![s] = NoSync]
    /\ waits' = Stale(waits, {s})
    /\ UNCHANGED <<file, per, stub, owner, evo>>

(* ui32WriteOpsPending goes up, by PVRSRVModifySyncOps or a kick.          *)
WriteOpPending(p, s) ==
    /\ Called(p)
    /\ sync[s].proc = p /\ sync[s].out < OutMax
    /\ sync' = [sync EXCEPT ![s].out = @ + 1]
    /\ UNCHANGED <<file, per, stub, owner, waits, evo>>

(* ui32WriteOpsComplete goes up: the GPU does it, or PVRSRVModifySyncOps.  *)
(* Neither tells the driver: the next MISR looks.                          *)
WriteOpComplete(s) ==
    /\ sync[s].out > 0 /\ pc # "crash"
    /\ sync' = [sync EXCEPT ![s].out = @ - 1]
    /\ waits' = [i \in DOMAIN waits |->
                   IF waits[i].sync = s /\ waits[i].rem > 0
                   THEN [waits[i] EXCEPT !.rem = @ - 1] ELSE waits[i]]
    /\ UNCHANGED <<file, per, stub, owner, evo>>
    /\ UNCHANGED driver

(* Mutant: an operation too early.                                         *)
is_render_completeEarly(e) == e.rem <= 1

is_render_complete(e) == e.rem = 0

(* An event takes its room in the file when it is requested; one that is   *)
(* complete already is signalled at once.                                  *)
pvr_sync_event_req(f, s) ==
    LET e == [file |-> f, sync |-> s, rem |-> sync[s].out] IN
    /\ file[f].space >= 1
    /\ IF is_render_complete(e)
       THEN /\ file' = [file EXCEPT ![f].space = @ - 1, ![f].list = Append(@, e.rem)]
            /\ UNCHANGED waits
       ELSE /\ file' = [file EXCEPT ![f].space = @ - 1]
            /\ waits' = Append(waits, e)

(* The call that asks for an event; asked for an answer it changes nothing.*)
SGX2DQueryBlitsComplete(f, s) ==
    /\ file[f].proc # None
    /\ Called(file[f].proc)
    /\ sync[s].proc = file[f].proc
    /\ pvr_sync_event_req(f, s)
    /\ UNCHANGED <<per, stub, owner, sync, evo>>

(* The MISR: wake the sleepers, then move the completed events to their    *)
(* files.  What a stale pointer reads decides for the events it belongs to.*)
pvr_handle_sync_events ==
    \E stale \in SUBSET {i \in DOMAIN waits : waits[i].sync = None} :
        LET Done(i) == IF waits[i].sync = None THEN i \in stale ELSE is_render_complete(waits[i])
            left == {i \in DOMAIN waits : ~Done(i)}
            Of(f) == Entries(waits, {i \in DOMAIN waits \ left : waits[i].file = f})
        IN  /\ waits' = Entries(waits, left)
            /\ file' = [f \in Files |-> [file[f] EXCEPT !.list =
                          @ \o [n \in DOMAIN Of(f) |-> Of(f)[n].rem]]]

LinuxEventObjectSignal ==
    evo' = [p \in Procs |->
              IF evo[p].open
              THEN [evo[p] EXCEPT !.new = TRUE,
                                  !.wait = IF @ = "asleep" THEN "woken" ELSE @]
              ELSE evo[p]]

PVRSRVMISR ==
    /\ MISRGuard
    /\ LinuxEventObjectSignal
    /\ pvr_handle_sync_events
    /\ UNCHANGED <<per, stub, owner, sync>>

(* Reading takes no lock but the list's: n events that fit the buffer; an  *)
(* event that cannot be copied is lost.                                    *)
pvr_read(f, n) ==
    /\ file[f].proc # None /\ pc # "crash"
    /\ n \in 1..Len(file[f].list)
    /\ file' = [file EXCEPT ![f].list = SubSeq(@, n + 1, Len(@)), ![f].space = @ + n]
    /\ UNCHANGED <<per, stub, owner, sync, waits, evo>>
    /\ UNCHANGED driver

-----------------------------------------------------------------------------
(* The global event object.                                                *)

OSEventObjectOpen(p) ==
    /\ Called(p)
    /\ evo[p] = NoEvent
    /\ evo' = [evo EXCEPT ![p].open = TRUE]
    /\ UNCHANGED <<file, per, stub, owner, sync, waits>>

(* Another thread may close what a thread sleeps on.                       *)
OSEventObjectClose(p) ==
    /\ Called(p)
    /\ evo[p].open
    /\ evo' = [evo EXCEPT ![p] = [open |-> FALSE, new |-> FALSE, wait |-> @.wait]]
    /\ UNCHANGED <<file, per, stub, owner, sync, waits>>

(* A signal since the last wait is enough; otherwise the thread sleeps     *)
(* without pvr_lock.                                                       *)
OSEventObjectWait(p) ==
    /\ Called(p)
    /\ evo[p].open /\ evo[p].wait = "no"
    /\ evo' = [evo EXCEPT ![p] = IF @.new THEN [@ EXCEPT !.new = FALSE]
                                 ELSE [@ EXCEPT !.wait = "asleep"]]
    /\ UNCHANGED <<file, per, stub, owner, sync, waits>>

(* The thread has pvr_lock again.  Woken in time it sees the signal; after *)
(* a time-out it does not look, and the next wait will.  Its object may be *)
(* gone.                                                                   *)
WaitEnds(p, timeout) ==
    /\ evo[p].wait \in (IF timeout THEN {"asleep", "woken"} ELSE {"woken"})
    /\ lock = "free" /\ pc # "crash"
    /\ IF ~evo[p].open THEN Crash("evo") /\ UNCHANGED clients
       ELSE /\ evo' = [evo EXCEPT ![p].wait = "no",
                                  ![p].new = IF timeout THEN @ ELSE FALSE]
            /\ UNCHANGED <<file, per, stub, owner, sync, waits>>
            /\ UNCHANGED driver

-----------------------------------------------------------------------------
PBCalls(p) ==
    \/ PVRSRVAllocPBMemory(p)
    \/ \E b1, b2 \in BOOLEAN : SGXFindSharedPBDescBW(p, b1, b2)
    \/ SGXUnrefSharedPBDesc(p)
    \/ \E b1, b2 \in BOOLEAN : SGXAddSharedPBDescBW(p, b1, b2)

SyncCalls(p) ==
    \E s \in Syncs :
        \/ AllocSyncInfo(p, s) \/ FreeSyncInfo(p, s) \/ WriteOpPending(p, s)
        \/ WriteOpComplete(s)
        \/ \E f \in Files : file[f].proc = p /\ SGX2DQueryBlitsComplete(f, s)

EventCalls(p) ==
    \/ SyncCalls(p)
    \/ \E f \in Files, n \in 1..EventMax : file[f].proc = p /\ pvr_read(f, n)

SleepCalls(p) ==
    \/ OSEventObjectOpen(p) \/ OSEventObjectClose(p) \/ OSEventObjectWait(p)
    \/ \E timeout \in BOOLEAN : WaitEnds(p, timeout)

Client ==
    /\ load.client # "none"
    /\ \E p \in Procs :
         \/ \E f \in Files, b \in BOOLEAN : pvr_open(f, p, b)
         \/ \E f \in Files : file[f].proc = p /\ pvr_release(f)
         \/ load.client = "pb" /\ PBCalls(p)
         \/ load.client = "events" /\ EventCalls(p)
         \/ load.client = "sleep" /\ SleepCalls(p)

(* The module cannot be unloaded while a file is open.                     *)
UnloadModule == pvr_cleanup /\ \A f \in Files : file[f] = Closed

Next ==
    \/ /\ \/ DriverThread \/ InitServer \/ PerfWork \/ PerfTimer
          \/ WorkAfterUnload \/ DeviceISRWrapper \/ UnloadModule
       /\ UNCHANGED clients
    \/ PVRSRVMISR
    \/ Client

(* The thread that starts or stops the driver runs on, and so does work    *)
(* that is queued or whose timer expires.  Nobody has to open the device,  *)
(* call it, or unload the module.                                          *)
Fairness ==
    /\ WF_vars(DriverThread /\ UNCHANGED clients)
    /\ WF_vars(PerfWork /\ UNCHANGED clients)
    /\ WF_vars(PerfTimer /\ UNCHANGED clients)
    /\ WF_vars(PVRSRVMISR)

Spec == Init /\ [][Next]_vars /\ Fairness

-----------------------------------------------------------------------------
(* The faults whose failure the start or stop does not survive, and what   *)
(* it then runs into.                                                      *)
LateFaults == {"none", "misc", "ccbinfo", "regs", "powerdev", "clk2", "misrwq",
               "irq", "compat", "clk3", "d3"}
DeviceFaults == {"resctx", "synctable"} \union SGXParts

CrashesOf(f) ==
    (IF f \in LateFaults \ {"misc"} THEN {"events"} ELSE {})
    \union (IF f \in LateFaults \ {"misc", "clk3", "d3"} THEN {"load"} ELSE {})
    \union (IF load.client = "sleep" THEN {"evo"} ELSE {})
    \union (IF f \in Common \ {"resman"} THEN {"resman"} ELSE {})
    \union (IF f \in {"perfwq", "misrwq"} THEN {f} ELSE {})
    \union (IF f \in DeviceFaults THEN {"timer", "unload"} ELSE {})
    \union (IF f \in {"kernelctx", "heaps", "bifpd"} THEN {"load"} ELSE {})
    \union (IF f \in {"misc", "clk3", "d3"} THEN {"unload"} ELSE {})

LeaksOf(f) ==
    LET node == {"devnode", "heaptable"} IN
    CASE f \in {"clocks", "sysclocks", "clk1", "resctx"} -> node
      [] f \in SGXParts                                  -> node \union {"resctx"}
      [] f = "synctable"                                 -> node \union {"resctx"} \union SGXParts
      [] f \in {"misc", "clk3", "d3"}                    ->
            node \union {"resctx", "synctable", "hwtimer", "env", "timerreg", "ocp", "clocks",
                         "perfwq"} \union Common \union SGXParts \union SrvParts
      [] OTHER                                           -> {}

(* A step of the start or the stop that fails is contained: the driver     *)
(* uses nothing it has freed and leaves nothing behind, but for the faults *)
(* named in CrashesOf and LeaksOf, each of which does just what is said    *)
(* there.  Without a fault the only dangers are a file closed before       *)
(* pvr_init_events ("events"), the load read while the device is freed     *)
(* ("load") and an event object closed under a waiter ("evo").             *)
FaultsContained ==
    /\ pc = "crash" => why \in CrashesOf(load.fault)
    /\ pc \in {"failed", "down"} =>
          /\ sys.held \ (Module \union {"events"}) \subseteq LeaksOf(load.fault)
          /\ clk.on => load.fault \in DeviceFaults

(* A stop of the driver, by pvr_remove or by a probe that failed, ends:    *)
(* flush_workqueue waits for work that needs pvr_lock, which the caller of *)
(* SysDeinitialise does not hold there.  (When SysFinalise fails it is     *)
(* held, and the stop never ends.)                                         *)
StopsEnd ==
    (pc = "s_lisr" /\ why # "finalise") ~> (pc \in {"failed", "down", "crash"})

(* Until the init server has completed the start, with success, a process  *)
(* gets nothing from the driver but its connection: the bridge lets no     *)
(* call through to a GPU without its memory, ring, registers, power device *)
(* and interrupt.  The work queue of the interrupt may be missing: nobody  *)
(* looks whether OSInstallMISR has got one.                                *)
ServedOnlyWhenReady ==
    [][ (\E p \in Procs :
            \/ per'[p].mem /\ ~per[p].mem
            \/ per'[p].items > per[p].items
            \/ owner' = p /\ owner # p
            \/ evo'[p].open /\ ~evo[p].open
            \/ \E s \in Syncs : sync'[s].proc = p /\ sync[s].proc # p)
        => SrvParts \union {"lisr", "events"} \union ({"misrwq"} \ {load.fault})
             \subseteq sys.held ]_vars

(* The shared parameter buffer lives exactly as long as some process has a *)
(* reference of it, however references are taken, given back or lost with  *)
(* their process; handles never outnumber references; and the lock to      *)
(* create one is held by a process that is still connected and only while  *)
(* there is none, so no process waits for a lock nobody will give back.    *)
PBExact ==
    /\ stub = MapThenSumSet(LAMBDA p : per[p].items, Procs)
    /\ \A p \in Procs : per[p].hnd <= per[p].items /\ per[p].items >= 0
    /\ owner # None => per[owner].ref > 0 /\ stub = 0

WaitsOf(f) == {i \in DOMAIN waits : waits[i].file = f}

(* A file's room for events is exact: what is free, waiting and unread     *)
(* adds up, so events are neither lost nor beyond the limit; no event      *)
(* waits for a file that is closed; no event is delivered before its       *)
(* render is complete; and a process never sleeps on a signal it has not   *)
(* seen.                                                                   *)
EventsExact ==
    /\ \A f \in Files :
          IF file[f] = Closed THEN WaitsOf(f) = {}
          ELSE file[f].space + Len(file[f].list) + Cardinality(WaitsOf(f)) = EventMax
    /\ \A f \in Files : \A i \in DOMAIN file[f].list : file[f].list[i] = 0
    /\ \A p \in Procs : evo[p].open /\ evo[p].wait = "asleep" => ~evo[p].new

=============================================================================
