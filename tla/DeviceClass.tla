----------------------------- MODULE DeviceClass -----------------------------
(***************************************************************************)
(* The life of a display class device: deviceclass.c with its one provider *)
(* omaplfb, a module of its own that may be loaded and unloaded at any     *)
(* time, and with the resource manager, which gives back what a process    *)
(* holds when it dies.                                                     *)
(*                                                                         *)
(* Four parties count references: omaplfb is held by the kernel's module   *)
(* count, the device by ui32RefCount, a process by its open files, and the *)
(* display itself by psDevInfo->psSwapChain, which allows one swap chain.  *)
(* Every ioctl runs under pvr_lock and is one step, except that opening    *)
(* the device is split after the search of psDeviceNodeList and the        *)
(* release of a dead process at every resource.  Loading and unloading     *)
(* omaplfb take no lock.                                                   *)
(***************************************************************************)
EXTENDS Integers, FiniteSets

CONSTANTS
  Procs,        (* client processes                                        *)
  NBuffers,     (* buffers of a swap chain (ui32BufferCount)               *)
  MaxFiles,     (* bound: files one process has open                       *)
  MaxRefs,      (* bound: connections open at a time                       *)
  MaxChains,    (* bound: swap chains created in a behaviour               *)
  MaxLoads,     (* bound: times omaplfb is loaded                          *)
  Environments, (* what the driver may meet: see the assumption            *)
  None

\* faults: which of these may fail; orderly: clients destroy their swap chains
\* before they close the device; races: a client may open the device while
\* omaplfb unloads.
AllEnvironments ==
  [faults : SUBSET {"alloc", "resman", "notifier", "load"}, orderly : BOOLEAN, races : BOOLEAN]

ASSUME ConstantsAssumption ==
  /\ NBuffers \in Nat /\ NBuffers >= 2
  /\ MaxFiles \in Nat /\ MaxRefs \in Nat /\ MaxChains \in Nat /\ MaxLoads \in Nat
  /\ Environments \subseteq AllEnvironments
  /\ None \notin Procs

ConnIds == 1..MaxRefs

ChainIds == 1..MaxChains

VARIABLES
  env,         (* the environment of this behaviour                        *)
  mod,         (* the module omaplfb                                       *)
  modRefs,     (* its use count                                            *)
  loads,
  unload,      (* where OMAPLFBDeinit is                                   *)
  node,        (* the device node and its psDCInfo                         *)
  ui32RefCount,
  hExtDevice,  (* is psDCInfo->hExtDevice set?                             *)
  files,       (* [Procs -> Nat]: ui32RefCount of the per-process data     *)
  conn,        (* [ConnIds -> state of the connection]: psDCPerContextInfo *)
  opener,      (* [ConnIds -> the process that opened it]                  *)
  holder,      (* the process whose call holds pvr_lock between two steps  *)
  call,        (* ... and that call                                        *)
  chain,       (* [ChainIds -> state of the swap chain]                    *)
  owner,       (* [ChainIds -> the process that created it]                *)
  waiting,     (* chains whose queue holds a flip that waits for a render  *)
  psSwapChain, (* psDevInfo->psSwapChain; 0: NULL                          *)
  syncs,       (* sync infos allocated for display buffers                 *)
  oops         (* the driver used memory it does not own and has stopped   *)

deviceVars == <<node, ui32RefCount, hExtDevice>>
moduleVars == <<mod, loads, unload>>
procVars == <<files, conn, opener, holder, call>>
chainVars == <<chain, owner, waiting, psSwapChain>>
vars == <<moduleVars, modRefs, deviceVars, procVars, chainVars, syncs, oops, env>>

Fails(f) == f \in env.faults

\* The caller gets pvr_lock.
Enter(p) == holder = None /\ ~oops /\ files[p] > 0

\* The access goes through freed memory or into unloaded code.
Oops ==
  /\ oops' = TRUE
  /\ UNCHANGED <<env, moduleVars, modRefs, deviceVars, procVars, chainVars, syncs>>

Healthy == UNCHANGED <<oops, env>>

-----------------------------------------------------------------------------
(***************************************************************************)
(* omaplfb is loaded and unloaded.                                         *)
(***************************************************************************)

\* OMAPLFBInit up to pfnPVRSRVRegisterDCDevice.  A failure before that leaves
\* nothing registered with the driver.
OMAPLFBInit ==
  /\ ~oops
  /\ mod = "out" /\ unload = "idle" /\ loads < MaxLoads
  /\ node = "none"
  /\ mod' = "coming"
  /\ loads' = loads + 1
  /\ modRefs' = 0
  /\ node' = "listed" /\ ui32RefCount' = 0 /\ hExtDevice' = FALSE
  /\ psSwapChain' = 0
  /\ Healthy
  /\ UNCHANGED <<unload, procVars, chain, owner, waiting, syncs>>

\* PVRSRVRegisterCmdProcListKM fails: OMAPLFB_Init returns -ENODEV and undoes
\* nothing, so that the node stays on psDeviceNodeList.
OMAPLFBInitFails ==
  /\ ~oops /\ Fails("load")
  /\ mod = "coming"
  /\ mod' = "out"
  /\ Healthy
  /\ UNCHANGED <<loads, unload, modRefs, deviceVars, procVars, chainVars, syncs>>

OMAPLFBInitDone ==
  /\ ~oops
  /\ mod = "coming"
  /\ mod' = "live"
  /\ Healthy
  /\ UNCHANGED <<loads, unload, modRefs, deviceVars, procVars, chainVars, syncs>>

\* rmmod: the kernel refuses while the module is in use, and from now on
\* try_module_get fails.
delete_module ==
  /\ ~oops
  /\ mod = "live" /\ modRefs = 0
  /\ env.races \/ call # "open"
  /\ mod' = "going"
  /\ unload' = "remove"
  /\ Healthy
  /\ UNCHANGED <<loads, modRefs, deviceVars, procVars, chainVars, syncs>>

\* OMAPLFBDeinit cannot keep the module in memory: if the device is refused,
\* the node stays and the code goes.
PVRSRVRemoveDCDeviceKM ==
  /\ ~oops
  /\ unload = "remove"
  /\ \/ /\ ui32RefCount = 0
        /\ node' = "unlinked"
        /\ unload' = "assert"
        /\ UNCHANGED mod
     \/ /\ ui32RefCount # 0
        /\ unload' = "idle"
        /\ mod' = "out"
        /\ UNCHANGED node
  /\ Healthy
  /\ UNCHANGED <<loads, modRefs, ui32RefCount, hExtDevice, procVars, chainVars, syncs>>

\* ... the assertion, the three OSFreeMem and the end of OMAPLFBDeinit.
RemoveDCDeviceFrees ==
  /\ ~oops
  /\ unload = "assert"
  /\ unload' = "idle"
  /\ node' = "none"
  /\ mod' = "out"
  /\ Healthy
  /\ UNCHANGED <<loads, modRefs, ui32RefCount, hExtDevice, procVars, chainVars, syncs>>

-----------------------------------------------------------------------------
(***************************************************************************)
(* A client opens and closes the device.                                   *)
(***************************************************************************)

FreshConn == {i \in ConnIds : conn[i] = "free" /\ \A j \in 1..(i - 1) : conn[j] # "free"}

\* ResManRegisterRes hands the new resource to the process' context; when it
\* has no memory it returns NULL, which no caller looks at.
ResManRegisterConnection(p) ==
  \E i \in FreshConn :
    /\ opener' = [opener EXCEPT ![i] = p]
    /\ \/ conn' = [conn EXCEPT ![i] = "open"]
       \/ Fails("resman") /\ conn' = [conn EXCEPT ![i] = "unregistered"]

\* PVRSRVOpenDCDeviceKM up to the label FoundDevice.
OpenFindsDevice(p) ==
  /\ Enter(p)
  /\ node = "listed"
  /\ env.races \/ mod # "going"
  /\ FreshConn # {}
  /\ holder' = p
  /\ call' = "open"
  /\ Healthy
  /\ UNCHANGED <<moduleVars, modRefs, deviceVars, files, conn, opener, chainVars, syncs>>

Opening(p) == holder = p /\ call = "open" /\ ~oops

CallReturns == holder' = None /\ call' = "none"

\* Faulty variant: a connection to an open device is not counted.
OpenAgainUncounted(p) ==
  /\ Opening(p) /\ node # "none"
  /\ ui32RefCount > 0
  /\ ResManRegisterConnection(p)
  /\ CallReturns /\ Healthy
  /\ UNCHANGED <<moduleVars, modRefs, deviceVars, files, chainVars, syncs>>

\* Not the first connection, or one that follows a leaked one.
OpenAgain(p) ==
  /\ Opening(p) /\ node # "none"
  /\ ui32RefCount > 0
  /\ ui32RefCount' = ui32RefCount + 1
  /\ ResManRegisterConnection(p)
  /\ CallReturns /\ Healthy
  /\ UNCHANGED <<moduleVars, modRefs, node, hExtDevice, files, chainVars, syncs>>

\* The first connection takes a reference on the module, a sync info for the
\* system buffer and opens omaplfb's device.
OpenFirst(p) ==
  /\ Opening(p) /\ node # "none"
  /\ ui32RefCount = 0
  /\ mod \in {"coming", "live"}
  /\ ui32RefCount' = ui32RefCount + 1
  /\ modRefs' = modRefs + 1
  /\ syncs' = syncs + 1
  /\ hExtDevice' = TRUE
  /\ ResManRegisterConnection(p)
  /\ CallReturns /\ Healthy
  /\ UNCHANGED <<moduleVars, node, files, chainVars>>

\* Faulty variants: every failure goes through err2, also the one before the
\* increment of ui32RefCount; or err2 does not put the module.
OpenFailsUncounts(p) ==
  /\ Opening(p) /\ node # "none" /\ Fails("alloc")
  /\ ui32RefCount' = ui32RefCount - 1
  /\ CallReturns /\ Healthy
  /\ UNCHANGED <<moduleVars, modRefs, node, hExtDevice, files, conn, opener, chainVars, syncs>>

OpenFailsKeepsModule(p) ==
  /\ Opening(p) /\ node # "none" /\ Fails("alloc")
  /\ modRefs' = IF ui32RefCount = 0 /\ mod \in {"coming", "live"} THEN modRefs + 1 ELSE modRefs
  /\ CallReturns /\ Healthy
  /\ UNCHANGED <<moduleVars, deviceVars, files, conn, opener, chainVars, syncs>>

\* No memory for the connection; or the first connection fails after
\* try_module_get: err3 and err2 give back what it took.
OpenFails(p) ==
  /\ Opening(p) /\ node # "none" /\ Fails("alloc")
  /\ CallReturns /\ Healthy
  /\ UNCHANGED <<moduleVars, modRefs, deviceVars, files, conn, opener, chainVars, syncs>>

\* try_module_get fails: err1 frees the connection and leaves ui32RefCount
\* as it is, incremented.
OpenModuleGoing(p) ==
  /\ Opening(p) /\ node # "none"
  /\ ui32RefCount = 0
  /\ mod = "going"
  /\ ui32RefCount' = ui32RefCount + 1
  /\ CallReturns /\ Healthy
  /\ UNCHANGED <<moduleVars, modRefs, node, hExtDevice, files, conn, opener, chainVars, syncs>>

\* psDCInfo was freed after the search, or its owner is not there any more.
OpenStale(p) ==
  /\ Opening(p)
  /\ node = "none" \/ (ui32RefCount = 0 /\ mod = "out")
  /\ Oops

PVRSRVOpenDCDeviceKM(p) ==
  \/ OpenFindsDevice(p)
  \/ OpenAgain(p)
  \/ OpenFirst(p)
  \/ OpenFails(p)
  \/ OpenModuleGoing(p)
  \/ OpenStale(p)

\* Faulty variant: every close puts the module.
CloseDCDeviceCallBackPuts ==
  /\ ui32RefCount' = ui32RefCount - 1
  /\ modRefs' = IF modRefs > 0 THEN modRefs - 1 ELSE 0
  /\ IF ui32RefCount = 1
     THEN hExtDevice' = FALSE /\ syncs' = syncs - 1
     ELSE UNCHANGED <<hExtDevice, syncs>>

\* The last connection closes omaplfb's device, frees the sync info of the
\* system buffer and drops the module.
CloseDCDeviceCallBack ==
  /\ ui32RefCount' = ui32RefCount - 1
  /\ IF ui32RefCount = 1
     THEN /\ hExtDevice' = FALSE
          /\ syncs' = syncs - 1
          /\ modRefs' = modRefs - 1
     ELSE UNCHANGED <<hExtDevice, syncs, modRefs>>

\* The connection is freed, unless psDCInfo or the module is gone.
CloseConnection(i) ==
  /\ node # "none" /\ (ui32RefCount = 1 => hExtDevice /\ mod # "out")
  /\ CloseDCDeviceCallBack
  /\ conn' = [conn EXCEPT ![i] = "free"]
  /\ opener' = [opener EXCEPT ![i] = None]
  /\ Healthy
  /\ UNCHANGED <<moduleVars, node, files, holder, call, chainVars>>

CloseConnectionStale ==
  /\ node = "none" \/ (ui32RefCount = 1 /\ (~hExtDevice \/ mod = "out"))
  /\ Oops

ConnsOf(p) == {i \in ConnIds : conn[i] = "open" /\ opener[i] = p}

ChainsOf(p) == {c \in ChainIds : chain[c] = "live" /\ owner[c] = p}

PVRSRVCloseDCDeviceKM(p) ==
  /\ Enter(p)
  /\ env.orderly => ChainsOf(p) = {}
  /\ \/ \E i \in ConnsOf(p) : CloseConnection(i) \/ CloseConnectionStale
     \/ \E i \in ConnIds : conn[i] = "unregistered" /\ opener[i] = p /\ Oops   \* BUG_ON

-----------------------------------------------------------------------------
(***************************************************************************)
(* Swap chains.                                                            *)
(***************************************************************************)

FreshChain == {c \in ChainIds : chain[c] = "none" /\ \A d \in 1..(c - 1) : chain[d] # "none"}

HasDevice(p) == \E i \in ConnIds : conn[i] \in {"open", "unregistered"} /\ opener[i] = p

\* omaplfb sets psSwapChain and registers for framebuffer events; the chain
\* gets a queue, NBuffers sync infos and an item of the resource manager.
CreateChain(p, c) ==
  /\ mod # "out" /\ hExtDevice /\ psSwapChain = 0
  /\ psSwapChain' = c
  /\ syncs' = syncs + NBuffers
  /\ owner' = [owner EXCEPT ![c] = p]
  /\ \/ chain' = [chain EXCEPT ![c] = "live"]
     \/ Fails("resman") /\ chain' = [chain EXCEPT ![c] = "unregistered"]
  /\ Healthy
  /\ UNCHANGED waiting

\* The display has its swap chain already, or something has no memory: all
\* that was taken is given back.
CreateChainFails ==
  /\ mod # "out"
  /\ ~hExtDevice \/ psSwapChain # 0 \/ Fails("alloc")
  /\ Healthy
  /\ UNCHANGED <<chainVars, syncs>>

\* fb_register_client fails: omaplfb frees the chain it has just made current.
CreateChainNotifierFails(c) ==
  /\ Fails("notifier")
  /\ mod # "out" /\ hExtDevice /\ psSwapChain = 0
  /\ psSwapChain' = c
  /\ chain' = [chain EXCEPT ![c] = "freed"]
  /\ Healthy
  /\ UNCHANGED <<owner, waiting, syncs>>

\* The first OSAllocMem fails and the clean-up loop reads through the NULL
\* pointer; or the function table leads into unloaded code.
CreateChainStale ==
  /\ mod = "out" \/ Fails("alloc")
  /\ Oops

PVRSRVCreateDCSwapChainKM(p) ==
  /\ Enter(p)
  /\ HasDevice(p)
  /\ \E c \in FreshChain :
       \/ /\ CreateChain(p, c) \/ CreateChainFails \/ CreateChainNotifierFails(c)
          /\ UNCHANGED <<moduleVars, modRefs, deviceVars, procVars>>
       \/ CreateChainStale

\* The queue is destroyed, unless a flip waits in it: this call holds
\* pvr_lock, so nobody can process the queue, the wait for it to become empty
\* times out and the queue stays on psQueueList.  Then omaplfb destroys its
\* chain; if it refuses, the chain and its sync infos are never freed.
DestroyDCSwapChainCallBack(c) ==
  \/ /\ node # "none" /\ mod # "out"
     /\ hExtDevice /\ psSwapChain = c
     /\ psSwapChain' = 0
     /\ chain' = [chain EXCEPT ![c] = "freed"]
     /\ syncs' = syncs - NBuffers
     /\ Healthy
     /\ UNCHANGED <<moduleVars, modRefs, deviceVars, procVars, owner, waiting>>
  \/ /\ node # "none" /\ mod # "out"
     /\ ~hExtDevice \/ psSwapChain # c
     /\ chain' = [chain EXCEPT ![c] = "lost"]
     /\ Healthy
     /\ UNCHANGED <<moduleVars, modRefs, deviceVars, procVars, owner, waiting, psSwapChain, syncs>>
  \/ /\ node = "none" \/ mod = "out"
     /\ Oops

\* The handle of a swap chain goes with the connection it was created through;
\* any connection of the process stands for that one here.
PVRSRVDestroyDCSwapChainKM(p) ==
  /\ Enter(p)
  /\ HasDevice(p)
  /\ \E c \in ChainIds :
       /\ owner[c] = p
       /\ \/ chain[c] = "live" /\ DestroyDCSwapChainCallBack(c)
          \/ chain[c] = "unregistered" /\ Oops      \* BUG_ON(!psResItem)

\* PVRSRVSwapToDCBufferKM and PVRSRVSwapToDCSystemKM: the flip is carried out
\* at once, or waits in the queue for a render of its buffer.
PVRSRVSwapToDCBufferKM(p) ==
  /\ Enter(p)
  /\ HasDevice(p)
  /\ \E c \in ChainIds :
       /\ owner[c] = p /\ chain[c] \in {"live", "unregistered"}
       /\ waiting' = waiting \cup {c}
  /\ Healthy
  /\ UNCHANGED <<moduleVars, modRefs, deviceVars, procVars, chain, owner, psSwapChain, syncs>>

\* The render is over and the next walk of psQueueList, by the MISR or by
\* another process, finds the flip ready.
PVRSRVProcessQueues ==
  /\ holder = None /\ ~oops
  /\ \E c \in waiting :
       \/ /\ chain[c] # "freed" /\ mod # "out"
          /\ waiting' = waiting \ {c}
          /\ Healthy
          /\ UNCHANGED <<moduleVars, modRefs, deviceVars, procVars, chain, owner, psSwapChain, syncs>>
       \/ /\ chain[c] = "freed" \/ mod = "out"
          /\ Oops

\* PVRSRVGetDCInfoKM and the other calls that only go through the function
\* table.
CallFunctionTable(p) ==
  /\ Enter(p)
  /\ HasDevice(p)
  /\ mod = "out"
  /\ Oops

-----------------------------------------------------------------------------
(***************************************************************************)
(* Processes come and go.                                                  *)
(***************************************************************************)

pvr_open(p) ==
  /\ holder = None /\ ~oops
  /\ files[p] < MaxFiles
  /\ files' = [files EXCEPT ![p] = @ + 1]
  /\ Healthy
  /\ UNCHANGED <<moduleVars, modRefs, deviceVars, conn, opener, holder, call, chainVars, syncs>>

\* The last file of a process that ended, in whatever way, starts the
\* clean-up of its resource manager context.  A connection that is not in the
\* context is lost.
pvr_release(p) ==
  /\ Enter(p)
  /\ files' = [files EXCEPT ![p] = @ - 1]
  /\ IF files[p] = 1
     THEN /\ holder' = p /\ call' = "release"
          /\ conn' = [i \in ConnIds |-> IF conn[i] = "unregistered" /\ opener[i] = p
                                        THEN "lost" ELSE conn[i]]
     ELSE UNCHANGED <<holder, call, conn>>
  /\ Healthy
  /\ UNCHANGED <<moduleVars, modRefs, deviceVars, opener, chainVars, syncs>>

LastChain(p) == {c \in ChainsOf(p) : \A d \in ChainsOf(p) : d <= c}

Releasing(p) == holder = p /\ call = "release" /\ ~oops

\* Faulty variant: the devices go before the swap chains.
PVRSRVResManDisconnectDevicesFirst(p) ==
  /\ Releasing(p)
  /\ \/ \E i \in ConnsOf(p) : CloseConnection(i) \/ CloseConnectionStale
     \/ ConnsOf(p) = {} /\ \E c \in LastChain(p) : DestroyDCSwapChainCallBack(c)
     \/ /\ ConnsOf(p) = {} /\ ChainsOf(p) = {}
        /\ CallReturns /\ Healthy
        /\ UNCHANGED <<moduleVars, modRefs, deviceVars, files, conn, opener, chainVars, syncs>>

\* Type by type: first the swap chains, the one registered last first, then
\* the devices.
PVRSRVResManDisconnect(p) ==
  /\ Releasing(p)
  /\ \/ \E c \in LastChain(p) : DestroyDCSwapChainCallBack(c)
     \/ /\ ChainsOf(p) = {}
        /\ \E i \in ConnsOf(p) : CloseConnection(i) \/ CloseConnectionStale
     \/ /\ ChainsOf(p) = {} /\ ConnsOf(p) = {}
        /\ CallReturns /\ Healthy
        /\ UNCHANGED <<moduleVars, modRefs, deviceVars, files, conn, opener, chainVars, syncs>>

-----------------------------------------------------------------------------

Init ==
  /\ env \in Environments
  /\ mod = "out" /\ modRefs = 0 /\ loads = 0 /\ unload = "idle"
  /\ node = "none" /\ ui32RefCount = 0 /\ hExtDevice = FALSE
  /\ files = [p \in Procs |-> 0]
  /\ conn = [i \in ConnIds |-> "free"]
  /\ opener = [i \in ConnIds |-> None]
  /\ holder = None /\ call = "none"
  /\ chain = [c \in ChainIds |-> "none"]
  /\ owner = [c \in ChainIds |-> None]
  /\ waiting = {}
  /\ psSwapChain = 0
  /\ syncs = 0
  /\ oops = FALSE

\* Nothing happens after an oops.
Stopped == oops /\ UNCHANGED vars

ModuleNext ==
  \/ OMAPLFBInit
  \/ OMAPLFBInitFails
  \/ OMAPLFBInitDone
  \/ delete_module
  \/ PVRSRVRemoveDCDeviceKM
  \/ RemoveDCDeviceFrees

ProcNext(p) ==
  \/ pvr_open(p)
  \/ pvr_release(p)
  \/ PVRSRVResManDisconnect(p)
  \/ PVRSRVOpenDCDeviceKM(p)
  \/ PVRSRVCloseDCDeviceKM(p)
  \/ PVRSRVCreateDCSwapChainKM(p)
  \/ PVRSRVDestroyDCSwapChainKM(p)
  \/ PVRSRVSwapToDCBufferKM(p)
  \/ CallFunctionTable(p)

Next ==
  \/ ModuleNext
  \/ \E p \in Procs : ProcNext(p)
  \/ PVRSRVProcessQueues
  \/ Stopped

Spec == Init /\ [][Next]_vars

-----------------------------------------------------------------------------
(***************************************************************************)
(* Properties.                                                             *)
(***************************************************************************)

TypeOK ==
  /\ env \in AllEnvironments
  /\ mod \in {"out", "coming", "live", "going"}
  /\ modRefs \in Nat /\ loads \in Nat
  /\ unload \in {"idle", "remove", "assert"}
  /\ node \in {"none", "listed", "unlinked"}
  /\ ui32RefCount \in Nat /\ hExtDevice \in BOOLEAN
  /\ files \in [Procs -> Nat]
  /\ conn \in [ConnIds -> {"free", "open", "unregistered", "lost"}]
  /\ opener \in [ConnIds -> Procs \cup {None}]
  /\ holder \in Procs \cup {None} /\ call \in {"none", "open", "release"}
  /\ chain \in [ChainIds -> {"none", "live", "unregistered", "lost", "freed"}]
  /\ owner \in [ChainIds -> Procs \cup {None}]
  /\ waiting \subseteq ChainIds
  /\ psSwapChain \in ChainIds \cup {0}
  /\ syncs \in Nat
  /\ oops \in BOOLEAN

Connections == {i \in ConnIds : conn[i] # "free"}

LiveChains == {c \in ChainIds : chain[c] \in {"live", "unregistered"}}

\* Clients close in order and do not open the display while it goes, and
\* neither omaplfb's load nor the resource manager fails: what the reference
\* counts rely on.
Calm == ~env.races /\ env.orderly /\ ~Fails("load") /\ ~Fails("resman")

\* The reference count of a device is the number of connections its clients
\* have, whatever opens failed and whichever processes died.
RefCountExact == Calm => ui32RefCount = Cardinality(Connections)

\* While the driver has omaplfb's device open or a swap chain on it, omaplfb
\* can be neither unloaded nor on its way out: CloseDCDeviceCallBack puts the
\* module only after the last use.
ModuleHeld == Calm /\ (hExtDevice \/ LiveChains # {}) => mod \in {"coming", "live"}

\* A swap chain never outlives its device: PVRSRVResManDisconnect destroys the
\* chains of a dead process before it closes its devices, so that omaplfb
\* accepts the destruction, and its psSwapChain is that chain.
ChainsOnOpenDevice == Calm => \A c \in LiveChains : hExtDevice /\ psSwapChain = c

\* Unloading omaplfb takes its device off psDeviceNodeList: nothing is left
\* that points into it.
UnloadedMeansRemoved == Calm /\ mod = "out" => node = "none"

\* omaplfb is in memory as long as the driver uses it, and nothing of it is left
\* on the driver's list when it goes.
ProviderHeld == ModuleHeld /\ UnloadedMeansRemoved

\* The module is held exactly once while hExtDevice is set, on every error
\* path of open and after every close.
ModuleRefBalanced == modRefs = IF hExtDevice THEN 1 ELSE 0

\* No sync info is freed twice, and only a chain that omaplfb refused to
\* destroy keeps its own: the error paths of open and create free what they
\* took.
SyncBalance ==
  syncs = (IF hExtDevice THEN 1 ELSE 0)
          + NBuffers * Cardinality({c \in ChainIds : chain[c] \in {"live", "unregistered", "lost"}})

\* What the driver core takes for a device and its chains, the module and the
\* sync infos, it gives back once, on every error path.
ReferencesBalanced == ModuleRefBalanced /\ SyncBalance

\* The assertion in PVRSRVRemoveDCDeviceKM: no client has counted itself in
\* between the test of ui32RefCount and the release of psDCInfo.
RemovalAssertion == unload = "assert" => ui32RefCount = 0

=============================================================================
