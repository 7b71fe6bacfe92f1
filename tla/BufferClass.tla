----------------------------- MODULE BufferClass -----------------------------
(***************************************************************************)
(* The life of a buffer class device: the other half of deviceclass.c with *)
(* its provider bc_cat, which has DEVICE_COUNT devices for textures that   *)
(* some process fills and the GPU reads.                                   *)
(*                                                                         *)
(* Nothing holds the provider: the driver takes no reference on its module *)
(* and bc_cat_fops has no owner, so that the module can always be          *)
(* unloaded; and bc_cat's own ioctls take no lock, so that they run        *)
(* between any two steps of PVRSRVOpenBCDeviceKM, which copies the number  *)
(* of buffers first and their addresses one by one afterwards.  Calls of   *)
(* the driver hold pvr_lock from their first step to their last.           *)
(***************************************************************************)
EXTENDS Integers, Sequences, FiniteSets

CONSTANTS
  Clients,        (* processes that open devices through the driver        *)
  DEVICE_COUNT,   (* devices of bc_cat                                     *)
  MaxBuffers,     (* bound: buffers asked for at a time                    *)
  MaxRequests,    (* bound: requests for buffers in a behaviour            *)
  MaxConnections, (* bound: connections at a time                          *)
  MaxMaps,        (* bound: buffers mapped at a time                       *)
  MaxInserts,     (* bound: times bc_cat is loaded                         *)
  BCEnvironments, (* what the driver may meet: see the assumption          *)
  NoClient

\* faults: which of these may fail (memory, dma memory, the resource manager,
\* the device file, the registration with the driver); orderly: bc_cat is
\* used only when it is loaded, and unloaded, or its buffers replaced, only while
\* nobody uses them; used: the devices that processes open (a bound).
Ids == 0..(DEVICE_COUNT - 1)

AllBCEnvironments ==
  [faults : SUBSET {"alloc", "dma", "resman", "create", "register"}, orderly : BOOLEAN,
   used : SUBSET Ids]

ASSUME BCConstantsAssumption ==
  /\ DEVICE_COUNT \in Nat \ {0} /\ MaxBuffers \in Nat /\ MaxRequests \in Nat
  /\ MaxConnections \in Nat /\ MaxMaps \in Nat /\ MaxInserts \in Nat
  /\ BCEnvironments \subseteq AllBCEnvironments
  /\ NoClient \notin Clients

BCConnIds == 1..MaxConnections

Arrays == 1..MaxRequests

Buffers == Arrays \X (1..MaxBuffers)

VARIABLES
  bcEnv,     (* the environment of this behaviour                          *)
  bcModule,  (* [at, id]: where bc_cat_init or bc_cat_cleanup is           *)
  inserts,
  device,    (* [Ids -> psDevInfo]: the anchors, NULL or what they lead to *)
  bcFiles,   (* [Ids -> files open on the device of bc_cat]                *)
  requests,
  arrays,    (* arrays psSystemBuffer that are allocated                   *)
  frames,    (* buffers that have dma memory                               *)
  foreign,   (* buffers whose address a process has set                    *)
  psBCInfo,  (* [Ids -> the driver's record of the device]                 *)
  bcSyncs,   (* [Ids -> sync infos allocated for its buffers]              *)
  bcConn,    (* [BCConnIds -> connection]: psBCPerContextInfo              *)
  bcCall,    (* the call that holds pvr_lock between two of its steps      *)
  bcMaps,    (* <<client, buffer>>: dma memory that the GPU has mapped     *)
  bcOops     (* the driver used what it does not own and has stopped       *)

memoryVars == <<requests, arrays, frames, foreign>>
providerVars == <<bcModule, inserts, device, memoryVars>>
serviceVars == <<psBCInfo, bcSyncs, bcConn>>
bcVars == <<providerVars, bcFiles, serviceVars, bcCall, bcMaps, bcOops, bcEnv>>

BCFails(f) == f \in bcEnv.faults

NoInfo == [on |-> FALSE]

\* A devinfo: registered is its ui32RefCount, array its psSystemBuffer (0: NULL),
\* num its ui32NumBuffers, which sBufferInfo.ui32BufferCount repeats.
NewInfo == [on |-> TRUE, registered |-> 0, ref |-> 0, array |-> 0, num |-> 0, type |-> "MMAP"]

\* psBCInfo: count is ui32BufferCount and ext[k] the array in which the
\* hExtBuffer of buffer k lies.  Without a reference both are stale in the code and
\* not read before the next open sets them; they are empty here.
NoNode == [listed |-> FALSE, refs |-> 0, count |-> 0, ext |-> <<>>]

NewNode == [NoNode EXCEPT !.listed = TRUE]

NoConn == [state |-> "free", client |-> NoClient, dev |-> 0]

NoCall == [op |-> "none", client |-> NoClient, dev |-> 0]

\* The access goes through freed memory or into unloaded code.
BCOops ==
  /\ bcOops' = TRUE
  /\ UNCHANGED <<providerVars, bcFiles, serviceVars, bcCall, bcMaps, bcEnv>>

BCHealthy == UNCHANGED <<bcOops, bcEnv>>

CodeThere == bcModule.at # "out"

InUse(d) ==
  \/ psBCInfo[d].refs > 0
  \/ bcCall.op \in {"found", "buffers"} /\ bcCall.dev = d
  \/ device[d].on /\ \E m \in bcMaps : m[2][1] = device[d].array

-----------------------------------------------------------------------------
(***************************************************************************)
(* The buffers of the provider.                                            *)
(***************************************************************************)

\* The buffers whose dma memory BC_DestroyBuffers gives back.
OwnBuffers(v) == IF v.type = "MMAP" THEN {v.array} \X (1..v.num) ELSE {}

\* dma_free_coherent gets an address that a process has set.
FreesForeign(v) == OwnBuffers(v) \cap foreign # {}

\* What is left of arrays and dma memory; nothing happens to a devinfo that
\* has no buffers, whether or not it has an array.
BC_DestroyBuffers(v) ==
  IF v.num = 0 THEN <<arrays, frames>>
  ELSE <<arrays \ {v.array}, frames \ OwnBuffers(v)>>

ForgetFreed == foreign' = {b \in foreign : b[1] \in arrays'}

Emptied(v) == [v EXCEPT !.num = 0, !.array = IF v.num = 0 THEN @ ELSE 0]

\* The old buffers go, whoever still uses them, then the array and the dma
\* memory of the new ones are allocated.  At the first failure the buffers
\* made so far are kept; if there are none, the array stays behind.
BC_CreateBuffers(d) ==
  /\ bcFiles[d] > 0 /\ CodeThere /\ device[d].on /\ ~bcOops
  /\ requests < MaxRequests
  /\ bcEnv.orderly => ~InUse(d) /\ bcModule.at = "live"
  /\ requests' = requests + 1
  /\ \E left \in {BC_DestroyBuffers(device[d])}, type \in {"MMAP", "USERPTR"} :
       \/ \E n \in 1..MaxBuffers, made \in 0..MaxBuffers :
            /\ made = n \/ (made < n /\ type = "MMAP" /\ BCFails("dma"))
            /\ arrays' = left[1] \cup {requests'}
            /\ frames' = left[2] \cup (IF type = "MMAP" THEN {requests'} \X (1..made) ELSE {})
            /\ device' = [device EXCEPT ![d].array = requests', ![d].num = made, ![d].type = type]
       \/ /\ BCFails("alloc")
          /\ arrays' = left[1] /\ frames' = left[2]
          /\ device' = [device EXCEPT ![d].array = 0, ![d].num = 0, ![d].type = type]
  /\ bcOops' = FreesForeign(device[d])
  /\ ForgetFreed
  /\ UNCHANGED <<bcModule, inserts, bcFiles, serviceVars, bcCall, bcMaps, bcEnv>>

\* BCIOSET_BUFFERPHYADDR does not look at buf_type.
BCSetBufferPhyAddr(d) ==
  /\ bcFiles[d] > 0 /\ CodeThere /\ device[d].on /\ ~bcOops
  /\ bcEnv.orderly => device[d].type = "USERPTR" /\ ~InUse(d) /\ bcModule.at = "live"
  /\ \E k \in 1..device[d].num : foreign' = foreign \cup {<<device[d].array, k>>}
  /\ BCHealthy
  /\ UNCHANGED <<bcModule, inserts, device, bcFiles, requests, arrays, frames,
                 serviceVars, bcCall, bcMaps>>

\* ref admits one user of the device at a time; two that open it together may
\* both read 0, and then one increment may be lost.
bc_open(d) ==
  /\ CodeThere /\ device[d].on /\ device[d].ref = 0 /\ ~bcOops
  /\ d \in bcEnv.used /\ (bcEnv.orderly => bcModule.at = "live")
  /\ \/ /\ bcFiles[d] < 2
        /\ bcFiles' = [bcFiles EXCEPT ![d] = @ + 1]
        /\ device' = [device EXCEPT ![d].ref = 1]
     \/ /\ ~bcEnv.orderly /\ bcFiles[d] = 0
        /\ bcFiles' = [bcFiles EXCEPT ![d] = 2]
        /\ \E r \in {1, 2} : device' = [device EXCEPT ![d].ref = r]
  /\ BCHealthy
  /\ UNCHANGED <<bcModule, inserts, memoryVars, serviceVars, bcCall, bcMaps>>

bc_release(d) ==
  /\ bcFiles[d] > 0 /\ CodeThere /\ ~bcOops
  /\ bcFiles' = [bcFiles EXCEPT ![d] = @ - 1]
  /\ device' = IF device[d].on /\ device[d].ref > 0
               THEN [device EXCEPT ![d].ref = @ - 1] ELSE device
  /\ BCHealthy
  /\ UNCHANGED <<bcModule, inserts, memoryVars, serviceVars, bcCall, bcMaps>>

\* Every operation of a file leads into bc_cat.
StaleFile(d) ==
  /\ bcFiles[d] > 0 /\ ~CodeThere /\ ~bcOops
  /\ BCOops

-----------------------------------------------------------------------------
(***************************************************************************)
(* bc_cat is loaded and unloaded.                                          *)
(***************************************************************************)

\* The anchors are static data of the module.  Bound: not while a node of an
\* earlier load is left on psDeviceNodeList.
bc_cat_init ==
  /\ bcModule.at = "out" /\ inserts < MaxInserts /\ ~bcOops
  /\ \A d \in Ids : ~psBCInfo[d].listed /\ bcFiles[d] = 0
  /\ inserts' = inserts + 1
  /\ bcModule' = [at |-> "init", id |-> 0]
  /\ device' = [d \in Ids |-> NoInfo]
  /\ BCHealthy
  /\ UNCHANGED <<bcFiles, memoryVars, serviceVars, bcCall, bcMaps>>

NextDevice(stage, last) ==
  bcModule' = IF bcModule.id = last THEN [at |-> IF stage = "init" THEN "live" ELSE "out", id |-> 0]
              ELSE [at |-> stage,
                    id |-> IF stage = "undo" THEN bcModule.id - 1 ELSE bcModule.id + 1]

\* BC_Register with PVRSRVRegisterBCDeviceKM: the node is on the list, and can
\* be opened, before bc_cat_init is over.
BC_Register ==
  /\ bcModule.at = "init" /\ ~bcOops
  /\ device' = [device EXCEPT ![bcModule.id] = [NewInfo EXCEPT !.registered = 1]]
  /\ psBCInfo' = [psBCInfo EXCEPT ![bcModule.id] = NewNode]
  /\ NextDevice("init", DEVICE_COUNT - 1)
  /\ BCHealthy
  /\ UNCHANGED <<inserts, bcFiles, memoryVars, bcSyncs, bcConn, bcCall, bcMaps>>

\* No memory for the devinfo, or the driver refuses: the anchor stays set.  The
\* devices made before are enough, except that without the first there are none.
BC_RegisterFails ==
  /\ bcModule.at = "init" /\ BCFails("register") /\ ~bcOops
  /\ \E v \in {NoInfo, NewInfo} : device' = [device EXCEPT ![bcModule.id] = v]
  /\ bcModule' = IF bcModule.id > 0 THEN [at |-> "live", id |-> 0] ELSE [at |-> "undo", id |-> 0]
  /\ BCHealthy
  /\ UNCHANGED <<inserts, bcFiles, memoryVars, serviceVars, bcCall, bcMaps>>

\* device_create fails: everything is taken back, this device too, which has
\* no anchor yet.
DeviceCreateFails ==
  /\ bcModule.at = "init" /\ BCFails("create") /\ ~bcOops
  /\ bcModule' = [bcModule EXCEPT !.at = "undo"]
  /\ BCHealthy
  /\ UNCHANGED <<inserts, device, bcFiles, memoryVars, serviceVars, bcCall, bcMaps>>

Registered(d) == device[d].on /\ device[d].registered = 1

\* Refused while the device has connections.
PVRSRVRemoveBCDeviceKM(d) ==
  /\ psBCInfo[d].refs = 0
  /\ psBCInfo' = [psBCInfo EXCEPT ![d] = NoNode]

\* The count of a devinfo whose registration failed is 0 and wraps round to a
\* number that is not 0: that devinfo is kept for ever, like one whose removal the
\* driver refuses.
BC_Unregister(d) ==
  \/ /\ Registered(d)
     /\ PVRSRVRemoveBCDeviceKM(d)
     /\ device' = [device EXCEPT ![d] = NoInfo]
  \/ /\ ~(Registered(d) /\ psBCInfo[d].refs = 0)
     /\ UNCHANGED <<psBCInfo, device>>

\* The end of a bc_cat_init that has failed.
InitUndoes ==
  /\ bcModule.at = "undo" /\ ~bcOops
  /\ BC_Unregister(bcModule.id)
  /\ NextDevice("undo", 0)
  /\ BCHealthy
  /\ UNCHANGED <<inserts, bcFiles, memoryVars, bcSyncs, bcConn, bcCall, bcMaps>>

\* rmmod: nothing counts the users of the module.
delete_bc_cat ==
  /\ bcModule.at = "live" /\ ~bcOops
  /\ bcEnv.orderly => \A d \in Ids : ~InUse(d) /\ bcFiles[d] = 0
  /\ bcModule' = [at |-> "destroy", id |-> 0]
  /\ BCHealthy
  /\ UNCHANGED <<inserts, device, bcFiles, memoryVars, serviceVars, bcCall, bcMaps>>

\* Faulty variant: bc_cat_cleanup unregisters without destroying the buffers.
CleanupSkipsBuffers ==
  /\ bcModule.at = "destroy" /\ ~bcOops
  /\ bcModule' = [bcModule EXCEPT !.at = "unregister"]
  /\ BCHealthy
  /\ UNCHANGED <<inserts, device, bcFiles, memoryVars, serviceVars, bcCall, bcMaps>>

\* bc_cat_cleanup, device by device: first its buffers ...
CleanupDestroysBuffers ==
  /\ bcModule.at = "destroy" /\ ~bcOops
  /\ bcModule' = [bcModule EXCEPT !.at = "unregister"]
  /\ IF device[bcModule.id].on
     THEN \E left \in {BC_DestroyBuffers(device[bcModule.id])} :
            /\ arrays' = left[1] /\ frames' = left[2]
            /\ device' = [device EXCEPT ![bcModule.id] = Emptied(@)]
            /\ bcOops' = FreesForeign(device[bcModule.id])
            /\ ForgetFreed
     ELSE UNCHANGED <<arrays, frames, foreign, device, bcOops>>
  /\ UNCHANGED <<inserts, bcFiles, requests, serviceVars, bcCall, bcMaps, bcEnv>>

\* ... then its registration; the module goes in any case.
CleanupUnregisters ==
  /\ bcModule.at = "unregister" /\ ~bcOops
  /\ BC_Unregister(bcModule.id)
  /\ NextDevice("destroy", DEVICE_COUNT - 1)
  /\ BCHealthy
  /\ UNCHANGED <<inserts, bcFiles, memoryVars, bcSyncs, bcConn, bcCall, bcMaps>>

-----------------------------------------------------------------------------
(***************************************************************************)
(* A client opens a device through the driver, maps its buffers, closes.   *)
(***************************************************************************)

BCFresh == {i \in BCConnIds : /\ bcConn[i].state = "free"
                              /\ \A j \in 1..(i - 1) : bcConn[j].state # "free"}

\* PVRSRVOpenBCDeviceKM up to the label FoundDevice.
OpenBCFindsDevice(c, d) ==
  /\ bcCall = NoCall /\ ~bcOops
  /\ psBCInfo[d].listed
  /\ BCFresh # {} /\ d \in bcEnv.used
  /\ bcEnv.orderly => bcModule.at = "live"
  /\ bcCall' = [op |-> "found", client |-> c, dev |-> d]
  /\ BCHealthy
  /\ UNCHANGED <<providerVars, bcFiles, serviceVars, bcMaps>>

Found(c, d) == bcCall = [op |-> "found", client |-> c, dev |-> d] /\ ~bcOops

Collecting(c, d) == bcCall = [op |-> "buffers", client |-> c, dev |-> d] /\ ~bcOops

\* The connection goes to the resource manager; when that has no memory
\* nobody notices.
BCConnected(c, d) ==
  /\ \E i \in BCFresh, s \in {"open", "unregistered"} :
       /\ s = "unregistered" => BCFails("resman")
       /\ bcConn' = [bcConn EXCEPT ![i] = [state |-> s, client |-> c, dev |-> d]]
  /\ bcCall' = NoCall

OpenBCAgain(c, d) ==
  /\ Found(c, d) /\ psBCInfo[d].refs > 0
  /\ psBCInfo' = [psBCInfo EXCEPT ![d].refs = @ + 1]
  /\ BCConnected(c, d)
  /\ BCHealthy
  /\ UNCHANGED <<providerVars, bcFiles, bcSyncs, bcMaps>>

\* pfnOpenBCDevice and pfnGetBCInfo, and psBuffer has memory.
OpenBCFirst(c, d) ==
  /\ Found(c, d) /\ psBCInfo[d].listed /\ psBCInfo[d].refs = 0 /\ CodeThere
  /\ psBCInfo' = [psBCInfo EXCEPT ![d].refs = 1, ![d].count = device[d].num, ![d].ext = <<>>]
  /\ bcCall' = [bcCall EXCEPT !.op = "buffers"]
  /\ BCHealthy
  /\ UNCHANGED <<providerVars, bcFiles, bcSyncs, bcConn, bcMaps>>

\* No memory for psBCPerContextInfo, or for psBuffer: err2 and err1.
OpenBCFails(c, d) ==
  /\ Found(c, d) /\ psBCInfo[d].listed /\ BCFails("alloc")
  /\ bcCall' = NoCall
  /\ BCHealthy
  /\ UNCHANGED <<providerVars, bcFiles, serviceVars, bcMaps>>

\* The record was freed after the search, or its functions are gone.
OpenBCStale(c, d) ==
  /\ \/ Found(c, d) /\ (~psBCInfo[d].listed \/ (psBCInfo[d].refs = 0 /\ ~CodeThere))
     \/ Collecting(c, d) /\ ~CodeThere /\ Len(psBCInfo[d].ext) < psBCInfo[d].count
  /\ BCOops

\* pfnGetBCBuffer has a buffer of that number.
GetBCBuffer(d, k) == k <= device[d].num

\* One round of the loop: a sync info, then pfnGetBCBuffer gives the address of
\* the buffer in the array of this moment.
OpenBCBuffer(c, d) ==
  /\ Collecting(c, d) /\ CodeThere
  /\ Len(psBCInfo[d].ext) < psBCInfo[d].count
  /\ GetBCBuffer(d, Len(psBCInfo[d].ext) + 1)
  /\ psBCInfo' = [psBCInfo EXCEPT ![d].ext = Append(@, device[d].array)]
  /\ bcSyncs' = [bcSyncs EXCEPT ![d] = @ + 1]
  /\ BCHealthy
  /\ UNCHANGED <<providerVars, bcFiles, bcConn, bcCall, bcMaps>>

\* Faulty variant: the sync info of this round is not freed.
OpenBCBufferLeaks(c, d) ==
  /\ Collecting(c, d) /\ CodeThere
  /\ Len(psBCInfo[d].ext) < psBCInfo[d].count
  /\ BCFails("alloc") \/ ~GetBCBuffer(d, Len(psBCInfo[d].ext) + 1)
  /\ psBCInfo' = [psBCInfo EXCEPT ![d].refs = 0, ![d].count = 0, ![d].ext = <<>>]
  /\ bcSyncs' = [bcSyncs EXCEPT ![d] = 1]
  /\ bcCall' = NoCall
  /\ BCHealthy
  /\ UNCHANGED <<providerVars, bcFiles, bcConn, bcMaps>>

\* No memory for the sync info, or bc_cat has fewer buffers by now: err3 frees
\* every sync info there is, err1 gives the reference back.
OpenBCBufferFails(c, d) ==
  /\ Collecting(c, d) /\ CodeThere
  /\ Len(psBCInfo[d].ext) < psBCInfo[d].count
  /\ BCFails("alloc") \/ ~GetBCBuffer(d, Len(psBCInfo[d].ext) + 1)
  /\ psBCInfo' = [psBCInfo EXCEPT ![d].refs = 0, ![d].count = 0, ![d].ext = <<>>]
  /\ bcSyncs' = [bcSyncs EXCEPT ![d] = 0]
  /\ bcCall' = NoCall
  /\ BCHealthy
  /\ UNCHANGED <<providerVars, bcFiles, bcConn, bcMaps>>

OpenBCDone(c, d) ==
  /\ Collecting(c, d)
  /\ Len(psBCInfo[d].ext) = psBCInfo[d].count
  /\ BCConnected(c, d)
  /\ BCHealthy
  /\ UNCHANGED <<providerVars, bcFiles, psBCInfo, bcSyncs, bcMaps>>

PVRSRVOpenBCDeviceKM(c, d) ==
  \/ OpenBCFindsDevice(c, d)
  \/ OpenBCAgain(c, d)
  \/ OpenBCFirst(c, d)
  \/ OpenBCFails(c, d)
  \/ OpenBCStale(c, d)
  \/ OpenBCBuffer(c, d)
  \/ OpenBCBufferFails(c, d)
  \/ OpenBCDone(c, d)

\* The last connection calls pfnCloseBCDevice and frees the sync infos.
CloseBCDeviceCallBack(i) ==
  LET d == bcConn[i].dev IN
  \/ /\ psBCInfo[d].refs > 1 \/ CodeThere
     /\ bcConn' = [bcConn EXCEPT ![i] = NoConn]
     /\ IF psBCInfo[d].refs = 1
        THEN /\ psBCInfo' = [psBCInfo EXCEPT ![d].refs = 0, ![d].count = 0, ![d].ext = <<>>]
             /\ bcSyncs' = [bcSyncs EXCEPT ![d] = @ - psBCInfo[d].count]
        ELSE /\ psBCInfo' = [psBCInfo EXCEPT ![d].refs = @ - 1]
             /\ UNCHANGED bcSyncs
     /\ BCHealthy
     /\ UNCHANGED <<providerVars, bcFiles, bcCall, bcMaps>>
  \/ /\ psBCInfo[d].refs = 1 /\ ~CodeThere
     /\ BCOops

OpenOf(c) == {i \in BCConnIds : bcConn[i].client = c /\ bcConn[i].state = "open"}

PVRSRVCloseBCDeviceKM(c) ==
  /\ bcCall = NoCall /\ ~bcOops
  /\ \/ \E i \in OpenOf(c) : CloseBCDeviceCallBack(i)
     \/ /\ \E i \in BCConnIds : bcConn[i].client = c /\ bcConn[i].state = "unregistered"
        /\ BCOops    \* BUG_ON(!psResItem)

Collected(d) == {<<psBCInfo[d].ext[k], k>> : k \in DOMAIN psBCInfo[d].ext}

\* pfnGetBufferAddr reads the provider's buffer through hExtBuffer: can it?
GetBCBufferAddr(b) == CodeThere /\ b[1] \in arrays

\* A buffer that PVRSRVGetBCBufferKM has given out is mapped.  Memory that a process has set is not
\* the provider's to keep and is not recorded here; nor is a mapping that fails.
PVRSRVMapDeviceClassMemoryKM(c) ==
  /\ bcCall = NoCall /\ ~bcOops
  /\ \E i \in BCConnIds :
       /\ bcConn[i].client = c
       /\ \E b \in Collected(bcConn[i].dev) :
            \/ /\ GetBCBufferAddr(b)
               /\ b \in frames \ foreign /\ Cardinality(bcMaps) < MaxMaps
               /\ bcMaps' = bcMaps \cup {<<c, b>>}
               /\ BCHealthy
               /\ UNCHANGED <<providerVars, bcFiles, serviceVars, bcCall>>
            \/ /\ ~GetBCBufferAddr(b)
               /\ BCOops

PVRSRVUnmapDeviceClassMemoryKM(c) ==
  /\ bcCall = NoCall /\ ~bcOops
  /\ \E m \in bcMaps : m[1] = c /\ bcMaps' = bcMaps \ {m}
  /\ BCHealthy
  /\ UNCHANGED <<providerVars, bcFiles, serviceVars, bcCall>>

\* PVRSRVGetBCInfoKM goes through the function table.
PVRSRVGetBCInfoKM(c) ==
  /\ bcCall = NoCall /\ ~bcOops /\ ~CodeThere
  /\ \E i \in BCConnIds : bcConn[i].client = c
  /\ BCOops

\* A process ends.  A connection that is not in its context is lost.
ClientEnds(c) ==
  /\ bcCall = NoCall /\ ~bcOops
  /\ (\E i \in BCConnIds : bcConn[i].client = c) \/ (\E m \in bcMaps : m[1] = c)
  /\ bcCall' = [op |-> "release", client |-> c, dev |-> 0]
  /\ bcConn' = [i \in BCConnIds |->
                  IF bcConn[i].client = c /\ bcConn[i].state = "unregistered"
                  THEN [bcConn[i] EXCEPT !.state = "lost", !.client = NoClient] ELSE bcConn[i]]
  /\ BCHealthy
  /\ UNCHANGED <<providerVars, bcFiles, psBCInfo, bcSyncs, bcMaps>>

\* PVRSRVResManDisconnect: the buffer devices, then the mappings of their
\* buffers.
ReleaseBCDevices(c) ==
  /\ bcCall.op = "release" /\ bcCall.client = c /\ ~bcOops
  /\ \/ \E i \in OpenOf(c) : CloseBCDeviceCallBack(i)
     \/ /\ OpenOf(c) = {}
        /\ bcMaps' = {m \in bcMaps : m[1] # c}
        /\ bcCall' = NoCall
        /\ BCHealthy
        /\ UNCHANGED <<providerVars, bcFiles, serviceVars>>

-----------------------------------------------------------------------------

BCInit ==
  /\ bcEnv \in BCEnvironments
  /\ bcModule = [at |-> "out", id |-> 0]
  /\ inserts = 0 /\ requests = 0
  /\ device = [d \in Ids |-> NoInfo]
  /\ bcFiles = [d \in Ids |-> 0]
  /\ arrays = {} /\ frames = {} /\ foreign = {}
  /\ psBCInfo = [d \in Ids |-> NoNode]
  /\ bcSyncs = [d \in Ids |-> 0]
  /\ bcConn = [i \in BCConnIds |-> NoConn]
  /\ bcCall = NoCall
  /\ bcMaps = {}
  /\ bcOops = FALSE

\* Nothing happens after an oops, or when the bound on loads is reached.
BCStopped ==
  /\ bcOops \/ (bcModule.at = "out" /\ inserts = MaxInserts)
  /\ UNCHANGED bcVars

BCModuleNext ==
  \/ bc_cat_init
  \/ BC_Register
  \/ BC_RegisterFails
  \/ DeviceCreateFails
  \/ InitUndoes
  \/ delete_bc_cat
  \/ CleanupDestroysBuffers
  \/ CleanupUnregisters

BCFileNext(d) ==
  \/ bc_open(d)
  \/ bc_release(d)
  \/ BC_CreateBuffers(d)
  \/ BCSetBufferPhyAddr(d)
  \/ StaleFile(d)

BCClientNext(c) ==
  \/ \E d \in Ids : PVRSRVOpenBCDeviceKM(c, d)
  \/ PVRSRVCloseBCDeviceKM(c)
  \/ PVRSRVMapDeviceClassMemoryKM(c)
  \/ PVRSRVUnmapDeviceClassMemoryKM(c)
  \/ PVRSRVGetBCInfoKM(c)
  \/ ClientEnds(c)
  \/ ReleaseBCDevices(c)

BCNext ==
  \/ BCModuleNext
  \/ \E d \in Ids : BCFileNext(d)
  \/ \E c \in Clients : BCClientNext(c)
  \/ BCStopped

BCSpec == BCInit /\ [][BCNext]_bcVars

-----------------------------------------------------------------------------
(***************************************************************************)
(* Properties.                                                             *)
(***************************************************************************)

Infos ==
  {NoInfo} \cup [on : {TRUE}, registered : {0, 1}, ref : 0..2, array : 0..MaxRequests,
                 num : 0..MaxBuffers, type : {"MMAP", "USERPTR"}]

Nodes ==
  [listed : BOOLEAN, refs : 0..(MaxConnections + 1), count : 0..MaxBuffers, ext : Seq(Arrays)]

BCTypeOK ==
  /\ bcEnv \in AllBCEnvironments
  /\ bcModule \in [at : {"out", "init", "undo", "live", "destroy", "unregister"}, id : Ids]
  /\ inserts \in 0..MaxInserts /\ requests \in 0..MaxRequests
  /\ device \in [Ids -> Infos]
  /\ bcFiles \in [Ids -> 0..2]
  /\ arrays \subseteq Arrays /\ frames \subseteq Buffers /\ foreign \subseteq Buffers
  /\ psBCInfo \in [Ids -> Nodes]
  /\ bcSyncs \in [Ids -> Nat]
  /\ bcConn \in [BCConnIds -> [state : {"free", "open", "unregistered", "lost"},
                               client : Clients \cup {NoClient}, dev : Ids]]
  /\ bcCall \in [op : {"none", "found", "buffers", "release"},
                 client : Clients \cup {NoClient}, dev : Ids]
  /\ bcMaps \subseteq Clients \X Buffers
  /\ bcOops \in BOOLEAN

\* A call is between the increment of ui32RefCount and its end.
Counted(d) == IF bcCall.op = "buffers" /\ bcCall.dev = d THEN 1 ELSE 0

ConnectionsTo(d) == {i \in BCConnIds : bcConn[i].state # "free" /\ bcConn[i].dev = d}

\* Whatever fails, races or is unloaded, the driver's own account of a buffer
\* device is exact: ui32RefCount counts its connections and the open under way,
\* there is one sync info for every buffer collected so far and, as soon as the
\* open is over, for each of the ui32BufferCount that the close will free, none
\* without a reference; and no device with references loses its record.
BCAccountExact ==
  \A d \in Ids :
    /\ psBCInfo[d].refs = Cardinality(ConnectionsTo(d)) + Counted(d)
    /\ bcSyncs[d] = Len(psBCInfo[d].ext)
    /\ psBCInfo[d].refs > 0 /\ Counted(d) = 0 => Len(psBCInfo[d].ext) = psBCInfo[d].count
    /\ psBCInfo[d].refs = 0 => bcSyncs[d] = 0
    /\ psBCInfo[d].refs > 0 => psBCInfo[d].listed

\* Users of bc_cat wait for each other, and neither dma memory nor the resource
\* manager nor a registration fails.
BCCalm == bcEnv.orderly /\ bcEnv.faults \cap {"dma", "resman", "register"} = {}

BuffersOf(d) == IF device[d].on THEN OwnBuffers(device[d]) ELSE {}

\* If the users of bc_cat wait for each other, the driver never follows a stale
\* pointer: the buffers it has collected lie in the provider's current array,
\* what the GPU has mapped is allocated, arrays and dma memory are those of the
\* devices, and after the unload, or a load that failed, nothing is left.
BCProviderSafe ==
  BCCalm =>
    /\ ~bcOops
    /\ \A d \in Ids : \A k \in DOMAIN psBCInfo[d].ext : psBCInfo[d].ext[k] = device[d].array
    /\ \A m \in bcMaps : m[2] \in frames
    /\ frames = UNION {BuffersOf(d) : d \in Ids}
    /\ arrays = {device[d].array : d \in {e \in Ids : device[e].on /\ device[e].num > 0}}
    /\ \A d \in Ids : psBCInfo[d].listed => CodeThere /\ device[d].on
    /\ bcModule.at = "out" => \A d \in Ids : ~device[d].on
=============================================================================
