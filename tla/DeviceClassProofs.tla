--------------------------- MODULE DeviceClassProofs ---------------------------
(***************************************************************************)
(* The two halves of deviceclass.c, for every number of clients, devices,  *)
(* buffers, connections and swap chains.                                   *)
(*   - DeviceClass: what the references hold when clients are orderly,     *)
(*     none of them opens the display while omaplfb unloads, and omaplfb's *)
(*     load and the resource manager do not fail (DInv); and what they     *)
(*     hold in every environment (WInv).                                   *)
(*   - BufferClass: in every environment the driver's account of a buffer  *)
(*     device is exact (BInv), and if the users of bc_cat wait for each    *)
(*     other the driver never follows a stale pointer into it (SInv).      *)
(*   - ClassDevices: the two together.                                     *)
(***************************************************************************)
EXTENDS ClassDevices, FiniteSetTheorems, TLAPS

-----------------------------------------------------------------------------
(***************************************************************************)
(* The display class: the inductive invariant.                             *)
(***************************************************************************)

\* omaplfb's device is open as long as somebody is connected to it.
OpenWhileCounted == hExtDevice <=> ui32RefCount # 0

\* The node follows the module: it is on the list from the load to the unload,
\* and nobody is connected, or about to be, while omaplfb unloads.
Stages ==
  /\ mod = "out" => node = "none" /\ unload = "idle" /\ ui32RefCount = 0
  /\ mod \in {"coming", "live"} => node = "listed" /\ unload = "idle"
  /\ mod = "going" => /\ ui32RefCount = 0
                      /\ \/ unload = "remove" /\ node = "listed"
                         \/ unload = "assert" /\ node = "unlinked"
  /\ call = "open" => mod \in {"coming", "live"}

\* The resource manager knows of every connection.
ManagerKnows == \A i \in ConnIds : conn[i] \in {"free", "open"}

\* A live swap chain is the one omaplfb shows, and the process that created it
\* is still connected.
Served ==
  \A c \in ChainIds :
    /\ chain[c] # "unregistered"
    /\ chain[c] = "live" =>
         /\ psSwapChain = c
         /\ \E i \in ConnIds : conn[i] = "open" /\ opener[i] = owner[c]

DInv ==
  /\ Calm
  /\ TypeOK
  /\ RefCountExact
  /\ ModuleRefBalanced
  /\ SyncBalance
  /\ OpenWhileCounted
  /\ Stages
  /\ ManagerKnows
  /\ Served

-----------------------------------------------------------------------------
(***************************************************************************)
(* Counting connections and the swap chains that hold sync infos.          *)
(***************************************************************************)

Holding == {c \in ChainIds : chain[c] \in {"live", "unregistered", "lost"}}

\* There are finitely many connections and chains.
LEMMA Finite ==
  /\ IsFiniteSet(Connections) /\ Cardinality(Connections) \in Nat
  /\ Cardinality(Connections) = 0 <=> Connections = {}
  /\ IsFiniteSet(Holding) /\ Cardinality(Holding) \in Nat
  /\ Cardinality(Holding) = 0 <=> Holding = {}
<1>1. IsFiniteSet(ConnIds) /\ IsFiniteSet(ChainIds)
  BY FS_Interval, ConstantsAssumption DEF ConnIds, ChainIds
<1>2. Connections \subseteq ConnIds /\ Holding \subseteq ChainIds
  BY DEF Connections, Holding
<1>3. IsFiniteSet(Connections) /\ IsFiniteSet(Holding)
  BY <1>1, <1>2, FS_Subset
<1> QED BY <1>3, FS_CardinalityType, FS_EmptySet

\* A new connection counts one more.
LEMMA ConnectionAdded ==
  ASSUME TypeOK, NEW i \in ConnIds, conn[i] = "free", NEW s, s # "free",
         conn' = [conn EXCEPT ![i] = s]
  PROVE  Cardinality(Connections)' = Cardinality(Connections) + 1
<1>1. Connections' = Connections \cup {i} /\ i \notin Connections
  BY DEF Connections, TypeOK
<1> QED BY <1>1, Finite, FS_AddElement

\* A closed one counts one less.
LEMMA ConnectionRemoved ==
  ASSUME TypeOK, NEW i \in ConnIds, conn[i] # "free",
         conn' = [conn EXCEPT ![i] = "free"]
  PROVE  /\ Cardinality(Connections)' = Cardinality(Connections) - 1
         /\ Cardinality(Connections) > 0
<1>1. Connections' = Connections \ {i} /\ i \in Connections
  BY DEF Connections, TypeOK
<1>2. Cardinality(Connections) > 0
  BY <1>1, Finite
<1> QED BY <1>1, <1>2, Finite, FS_RemoveElement

\* A new swap chain holds its sync infos.
LEMMA ChainAdded ==
  ASSUME TypeOK, NEW c \in ChainIds, chain[c] = "none", NEW s \in {"live", "unregistered"},
         chain' = [chain EXCEPT ![c] = s]
  PROVE  Cardinality(Holding)' = Cardinality(Holding) + 1
<1>1. Holding' = Holding \cup {c} /\ c \notin Holding
  BY DEF Holding, TypeOK
<1> QED BY <1>1, Finite, FS_AddElement

\* A destroyed one does not any more.
LEMMA ChainRemoved ==
  ASSUME TypeOK, NEW c \in ChainIds, chain[c] = "live",
         chain' = [chain EXCEPT ![c] = "freed"]
  PROVE  /\ Cardinality(Holding)' = Cardinality(Holding) - 1
         /\ Cardinality(Holding) > 0
<1>1. Holding' = Holding \ {c} /\ c \in Holding
  BY DEF Holding, TypeOK
<1>2. Cardinality(Holding) > 0
  BY <1>1, Finite
<1> QED BY <1>1, <1>2, Finite, FS_RemoveElement

\* NBuffers sync infos per chain.
LEMMA Distributes ==
  ASSUME NEW n \in Nat
  PROVE  /\ NBuffers * n \in Nat
         /\ NBuffers * (n + 1) = NBuffers * n + NBuffers
         /\ n > 0 => NBuffers * (n - 1) = NBuffers * n - NBuffers
                     /\ NBuffers * n >= NBuffers
<1>1. NBuffers \in Nat
  BY ConstantsAssumption
<1>2. NBuffers * n \in Nat /\ NBuffers * (n + 1) = NBuffers * n + NBuffers
  BY <1>1
<1>3. ASSUME n > 0
      PROVE  NBuffers * (n - 1) = NBuffers * n - NBuffers /\ NBuffers * n >= NBuffers
  <2>1. PICK m \in Nat : n = m + 1
    BY <1>3
  <2>2. NBuffers * m \in Nat /\ NBuffers * (m + 1) = NBuffers * m + NBuffers
    BY <1>1
  <2> QED BY <1>1, <2>1, <2>2
<1> QED BY <1>2, <1>3

-----------------------------------------------------------------------------
(***************************************************************************)
(* Each operation preserves the invariant.                                 *)
(***************************************************************************)

\* Nothing the invariant speaks of has changed.
Frame == UNCHANGED <<env, mod, modRefs, unload, node, ui32RefCount, hExtDevice, conn, opener,
                     chain, owner, psSwapChain, syncs>>

\* Such a step preserves the invariant.
LEMMA FramePreserves ==
  ASSUME DInv, Frame, TypeOK', call' = "open" => mod \in {"coming", "live"}
  PROVE  DInv'
BY DEF DInv, Frame, Calm, Fails, RefCountExact, Connections, ModuleRefBalanced, SyncBalance,
       OpenWhileCounted, Stages, ManagerKnows, Served

\* An oops changes nothing else.
LEMMA OopsPreserves == ASSUME DInv, Oops PROVE DInv'
<1>1. Frame /\ TypeOK' /\ call' = call
  BY DEF Oops, Frame, DInv, TypeOK, moduleVars, deviceVars, procVars, chainVars
<1> QED BY <1>1, FramePreserves DEF DInv, Stages

\* Loading and unloading omaplfb.
LEMMA ModulePreserves == ASSUME DInv, ModuleNext PROVE DInv'
<1> USE DEF deviceVars, procVars, chainVars, Healthy
<1>1. CASE OMAPLFBInit
  <2>1. ui32RefCount = 0 /\ ~hExtDevice /\ Connections = {}
    BY <1>1, Finite DEF OMAPLFBInit, DInv, Stages, OpenWhileCounted, RefCountExact
  <2>2. \A c \in ChainIds : chain[c] # "live"
    BY <2>1 DEF DInv, Served, Connections
  <2>3. TypeOK'
    <3>1. TypeOK
      BY DEF DInv
    <3>2. hExtDevice' \in BOOLEAN /\ oops' \in BOOLEAN
      BY <1>1, <3>1, Zenon DEF OMAPLFBInit, TypeOK
    <3>3. /\ mod' = "coming" /\ node' = "listed" /\ unload' = unload
          /\ loads' \in Nat /\ modRefs' = 0 /\ ui32RefCount' = 0 /\ psSwapChain' = 0
          /\ UNCHANGED <<env, files, conn, opener, holder, call, chain, owner, waiting, syncs>>
      BY <1>1, <3>1 DEF OMAPLFBInit, TypeOK
    <3> QED BY <3>1, <3>2, <3>3 DEF TypeOK
  <2>4. call # "open"
    BY <1>1 DEF OMAPLFBInit, DInv, Stages
  <2> QED BY <1>1, <2>1, <2>2, <2>3, <2>4
          DEF OMAPLFBInit, DInv, Calm, Fails, RefCountExact, Connections, ModuleRefBalanced,
              SyncBalance, OpenWhileCounted, Stages, ManagerKnows, Served
<1>2. CASE OMAPLFBInitFails
  BY <1>2 DEF OMAPLFBInitFails, DInv, Calm, Fails
<1>3. CASE OMAPLFBInitDone
  <2>1. TypeOK'
    BY <1>3 DEF OMAPLFBInitDone, DInv, TypeOK
  <2> QED BY <1>3, <2>1
          DEF OMAPLFBInitDone, DInv, Calm, Fails, RefCountExact, Connections, ModuleRefBalanced,
              SyncBalance, OpenWhileCounted, Stages, ManagerKnows, Served
<1>4. CASE delete_module
  <2>1. TypeOK'
    BY <1>4 DEF delete_module, DInv, TypeOK
  <2>2. ui32RefCount = 0 /\ call # "open"
    BY <1>4 DEF delete_module, DInv, Calm, Fails, ModuleRefBalanced, OpenWhileCounted, TypeOK
  <2> QED BY <1>4, <2>1, <2>2
          DEF delete_module, DInv, Calm, Fails, RefCountExact, Connections, ModuleRefBalanced,
              SyncBalance, OpenWhileCounted, Stages, ManagerKnows, Served
<1>5. CASE PVRSRVRemoveDCDeviceKM
  <2>1. TypeOK'
    BY <1>5 DEF PVRSRVRemoveDCDeviceKM, DInv, TypeOK
  <2>2. mod = "going" /\ ui32RefCount = 0
    BY <1>5 DEF PVRSRVRemoveDCDeviceKM, DInv, Stages, TypeOK
  <2> QED BY <1>5, <2>1, <2>2
          DEF PVRSRVRemoveDCDeviceKM, DInv, Calm, Fails, RefCountExact, Connections,
              ModuleRefBalanced, SyncBalance, OpenWhileCounted, Stages, ManagerKnows, Served
<1>6. CASE RemoveDCDeviceFrees
  <2>1. TypeOK'
    BY <1>6 DEF RemoveDCDeviceFrees, DInv, TypeOK
  <2>2. mod = "going" /\ ui32RefCount = 0
    BY <1>6 DEF RemoveDCDeviceFrees, DInv, Stages, TypeOK
  <2> QED BY <1>6, <2>1, <2>2
          DEF RemoveDCDeviceFrees, DInv, Calm, Fails, RefCountExact, Connections,
              ModuleRefBalanced, SyncBalance, OpenWhileCounted, Stages, ManagerKnows, Served
<1> QED BY <1>1, <1>2, <1>3, <1>4, <1>5, <1>6 DEF ModuleNext

\* Opening the device, by the first process or by another one.
LEMMA OpenPreserves ==
  ASSUME DInv, NEW p \in Procs, PVRSRVOpenDCDeviceKM(p) PROVE DInv'
<1> USE DEF moduleVars, deviceVars, procVars, chainVars, Healthy
<1>1. CASE OpenFindsDevice(p)
  <2>1. TypeOK' /\ Frame
    BY <1>1 DEF OpenFindsDevice, DInv, TypeOK, Frame
  <2>2. mod \in {"coming", "live"}
    BY <1>1 DEF OpenFindsDevice, DInv, Stages, TypeOK, Calm, Fails
  <2> QED BY <2>1, <2>2, FramePreserves
<1>2. CASE OpenAgain(p) \/ OpenFirst(p)
  <2>1. PICK i \in FreshConn : /\ opener' = [opener EXCEPT ![i] = p]
                               /\ conn' = [conn EXCEPT ![i] = "open"]
    BY <1>2 DEF OpenAgain, OpenFirst, ResManRegisterConnection, DInv, Calm, Fails
  <2>2. i \in ConnIds /\ conn[i] = "free"
    BY DEF FreshConn
  <2>3. Cardinality(Connections)' = Cardinality(Connections) + 1
    BY <2>1, <2>2, ConnectionAdded DEF DInv
  <2>4. /\ ui32RefCount' = ui32RefCount + 1 /\ hExtDevice' = TRUE
        /\ modRefs' = 1 /\ syncs' = IF hExtDevice THEN syncs ELSE syncs + 1
    BY <1>2 DEF OpenAgain, OpenFirst, DInv, ModuleRefBalanced, OpenWhileCounted, TypeOK
  <2>5. /\ mod' = mod /\ unload' = unload /\ node' = node /\ loads' = loads
        /\ files' = files /\ chain' = chain /\ owner' = owner /\ waiting' = waiting
        /\ psSwapChain' = psSwapChain /\ oops' = oops /\ env' = env
        /\ holder' = None /\ call' = "none" /\ call = "open"
    BY <1>2 DEF OpenAgain, OpenFirst, CallReturns, Opening
  <2>6. mod \in {"coming", "live"}
    BY <2>5 DEF DInv, Stages
  <2>7. TypeOK'
    BY <2>1, <2>2, <2>4, <2>5 DEF DInv, TypeOK
  <2>8. RefCountExact' /\ ModuleRefBalanced' /\ OpenWhileCounted' /\ Calm'
    BY <2>3, <2>4, <2>5 DEF DInv, RefCountExact, ModuleRefBalanced, OpenWhileCounted, TypeOK, Calm, Fails
  <2>9. SyncBalance'
    <3>1. Cardinality(Holding) \in Nat /\ Cardinality(Holding)' = Cardinality(Holding)
      BY <2>5, Finite DEF Holding
    <3>2. NBuffers * Cardinality(Holding) \in Nat
      BY <3>1, Distributes
    <3> QED BY <2>4, <3>1, <3>2 DEF DInv, SyncBalance, Holding
  <2>10. Stages'
    BY <2>5, <2>6 DEF DInv, Stages
  <2>11. ManagerKnows'
    BY <2>1, <2>2 DEF DInv, ManagerKnows, TypeOK
  <2>12. Served'
    BY <2>1, <2>2, <2>5 DEF DInv, Served, TypeOK
  <2> QED BY <2>7, <2>8, <2>9, <2>10, <2>11, <2>12 DEF DInv
<1>3. CASE OpenFails(p)
  <2>1. TypeOK' /\ Frame /\ call' = "none"
    BY <1>3 DEF OpenFails, CallReturns, DInv, TypeOK, Frame
  <2> QED BY <2>1, FramePreserves
<1>4. CASE OpenModuleGoing(p)
  BY <1>4 DEF OpenModuleGoing, Opening, DInv, Stages
<1>5. CASE OpenStale(p)
  BY <1>5, OopsPreserves DEF OpenStale
<1> QED BY <1>1, <1>2, <1>3, <1>4, <1>5 DEF PVRSRVOpenDCDeviceKM

\* Closing a connection, when its process has no swap chain left.
LEMMA ClosePreserves ==
  ASSUME DInv, NEW p \in Procs, ChainsOf(p) = {}, NEW i \in ConnsOf(p), CloseConnection(i)
  PROVE  DInv'
<1> USE DEF moduleVars, chainVars, Healthy
<1>1. i \in ConnIds /\ conn[i] = "open" /\ opener[i] = p
  BY DEF ConnsOf
<1>2. /\ conn' = [conn EXCEPT ![i] = "free"] /\ opener' = [opener EXCEPT ![i] = None]
      /\ ui32RefCount' = ui32RefCount - 1
      /\ hExtDevice' = (IF ui32RefCount = 1 THEN FALSE ELSE hExtDevice)
      /\ syncs' = (IF ui32RefCount = 1 THEN syncs - 1 ELSE syncs)
      /\ modRefs' = (IF ui32RefCount = 1 THEN modRefs - 1 ELSE modRefs)
  BY DEF CloseConnection, CloseDCDeviceCallBack
<1>3. /\ mod' = mod /\ loads' = loads /\ unload' = unload /\ node' = node /\ files' = files
      /\ holder' = holder /\ call' = call /\ chain' = chain /\ owner' = owner
      /\ waiting' = waiting /\ psSwapChain' = psSwapChain /\ oops' = oops /\ env' = env
  BY DEF CloseConnection
<1>4. /\ Cardinality(Connections)' = Cardinality(Connections) - 1
      /\ Cardinality(Connections) > 0 /\ Cardinality(Connections) \in Nat
  BY <1>1, <1>2, ConnectionRemoved, Finite DEF DInv
<1>5. ui32RefCount \in Nat /\ ui32RefCount > 0 /\ hExtDevice = TRUE /\ modRefs = 1
  BY <1>4 DEF DInv, RefCountExact, OpenWhileCounted, ModuleRefBalanced, TypeOK
<1>6. Cardinality(Holding) \in Nat /\ Cardinality(Holding)' = Cardinality(Holding)
  BY <1>3, Finite DEF Holding
<1>7. NBuffers * Cardinality(Holding) \in Nat /\ syncs = 1 + NBuffers * Cardinality(Holding)
  BY <1>5, <1>6, Distributes DEF DInv, SyncBalance, Holding
<1>8. TypeOK'
  <2>1. TypeOK
    BY DEF DInv
  <2>2. ui32RefCount' \in Nat /\ modRefs' \in Nat /\ syncs' \in Nat /\ hExtDevice' \in BOOLEAN
    BY <1>2, <1>5, <1>7
  <2>3. /\ conn' \in [ConnIds -> {"free", "open", "unregistered", "lost"}]
        /\ opener' \in [ConnIds -> Procs \cup {None}]
    BY <1>1, <1>2, <2>1 DEF TypeOK
  <2> QED BY <1>3, <2>1, <2>2, <2>3 DEF TypeOK
<1>9. RefCountExact' /\ ModuleRefBalanced' /\ OpenWhileCounted' /\ Calm'
  BY <1>2, <1>3, <1>4, <1>5 DEF DInv, RefCountExact, ModuleRefBalanced, OpenWhileCounted, Calm, Fails
<1>10. SyncBalance'
  BY <1>2, <1>5, <1>6, <1>7 DEF SyncBalance, Holding
<1>11. Stages'
  <2>1. mod \in {"coming", "live"}
    BY <1>5 DEF DInv, Stages, TypeOK
  <2> QED BY <1>3, <2>1 DEF DInv, Stages
<1>12. ManagerKnows'
  BY <1>1, <1>2 DEF DInv, ManagerKnows, TypeOK
<1>13. Served'
  <2> SUFFICES ASSUME NEW c \in ChainIds, chain[c] = "live"
               PROVE  /\ psSwapChain = c
                      /\ \E j \in ConnIds : conn'[j] = "open" /\ opener'[j] = owner[c]
    BY <1>3 DEF DInv, Served
  <2>1. psSwapChain = c /\ owner[c] # p
    BY DEF DInv, Served, ChainsOf
  <2>2. PICK j \in ConnIds : conn[j] = "open" /\ opener[j] = owner[c]
    BY DEF DInv, Served
  <2>3. j # i
    BY <1>1, <2>1, <2>2
  <2>4. conn'[j] = "open" /\ opener'[j] = owner[c]
    BY <1>2, <2>2, <2>3 DEF DInv, TypeOK
  <2> QED BY <2>1, <2>4
<1> QED BY <1>8, <1>9, <1>10, <1>11, <1>12, <1>13 DEF DInv

\* A new swap chain: the display has none, so there is no other live one.
LEMMA CreatePreserves ==
  ASSUME DInv, NEW p \in Procs, PVRSRVCreateDCSwapChainKM(p) PROVE DInv'
<1> USE DEF moduleVars, deviceVars, procVars, chainVars, Healthy
<1>1. ASSUME NEW c \in FreshChain, CreateChain(p, c),
             UNCHANGED <<moduleVars, modRefs, deviceVars, procVars>>
      PROVE  DInv'
  <2>1. /\ c \in ChainIds /\ chain[c] = "none" /\ psSwapChain = 0 /\ hExtDevice
        /\ chain' = [chain EXCEPT ![c] = "live"] /\ owner' = [owner EXCEPT ![c] = p]
        /\ psSwapChain' = c /\ syncs' = syncs + NBuffers
        /\ waiting' = waiting /\ oops' = oops /\ env' = env
    BY <1>1 DEF CreateChain, FreshChain, DInv, Calm, Fails
  <2>2. /\ mod' = mod /\ loads' = loads /\ unload' = unload /\ modRefs' = modRefs
        /\ node' = node /\ ui32RefCount' = ui32RefCount /\ hExtDevice' = hExtDevice
        /\ files' = files /\ conn' = conn /\ opener' = opener
        /\ holder' = holder /\ call' = call
    BY <1>1
  <2>3. NBuffers \in Nat
    BY ConstantsAssumption
  <2>4. TypeOK'
    <3>1. TypeOK
      BY DEF DInv
    <3>2. /\ chain' \in [ChainIds -> {"none", "live", "unregistered", "lost", "freed"}]
          /\ owner' \in [ChainIds -> Procs \cup {None}]
      BY <2>1, <3>1 DEF TypeOK
    <3> QED BY <2>1, <2>2, <2>3, <3>1, <3>2 DEF TypeOK
  <2>5. /\ RefCountExact' /\ ModuleRefBalanced' /\ OpenWhileCounted' /\ Calm'
        /\ Stages' /\ ManagerKnows'
    BY <2>1, <2>2
       DEF DInv, RefCountExact, Connections, ModuleRefBalanced, OpenWhileCounted, Calm, Fails,
                Stages, ManagerKnows
  <2>6. SyncBalance'
    <3>1. /\ Cardinality(Holding) \in Nat
          /\ Cardinality(Holding)' = Cardinality(Holding) + 1
      BY <2>1, ChainAdded, Finite DEF DInv
    <3>2. /\ NBuffers * Cardinality(Holding) \in Nat
          /\ NBuffers * (Cardinality(Holding) + 1) = NBuffers * Cardinality(Holding) + NBuffers
      BY <3>1, Distributes
    <3>3. syncs = (IF hExtDevice THEN 1 ELSE 0) + NBuffers * Cardinality(Holding)
      BY DEF DInv, SyncBalance, Holding
    <3>4. syncs' = (IF hExtDevice' THEN 1 ELSE 0) + NBuffers * Cardinality(Holding)'
      BY <2>1, <2>2, <2>3, <3>1, <3>2, <3>3
    <3> QED BY <3>4 DEF SyncBalance, Holding
  <2>7. Served'
    <3>1. \A d \in ChainIds : chain[d] \notin {"live", "unregistered"}
      BY <2>1, ConstantsAssumption DEF DInv, Served, ChainIds
    <3>2. \A d \in ChainIds : d # c => chain'[d] = chain[d]
      BY <2>1 DEF DInv, TypeOK
    <3>3. chain'[c] = "live" /\ owner'[c] = p
      BY <2>1 DEF DInv, TypeOK
    <3>4. \E i \in ConnIds : conn'[i] = "open" /\ opener'[i] = p
      BY <2>2 DEF PVRSRVCreateDCSwapChainKM, HasDevice, DInv, ManagerKnows
    <3> QED BY <2>1, <3>1, <3>2, <3>3, <3>4 DEF Served
  <2> QED BY <2>4, <2>5, <2>6, <2>7 DEF DInv
<1>2. ASSUME CreateChainFails, UNCHANGED <<moduleVars, modRefs, deviceVars, procVars>>
      PROVE  DInv'
  <2>1. Frame /\ TypeOK' /\ call' = call
    BY <1>2 DEF CreateChainFails, Frame, DInv, TypeOK
  <2> QED BY <2>1, FramePreserves DEF DInv, Stages
<1>3. ASSUME NEW c \in FreshChain, CreateChainNotifierFails(c),
             UNCHANGED <<moduleVars, modRefs, deviceVars, procVars>>
      PROVE  DInv'
  <2>1. /\ c \in ChainIds /\ chain[c] = "none" /\ psSwapChain = 0
        /\ chain' = [chain EXCEPT ![c] = "freed"] /\ owner' = owner
        /\ psSwapChain' = c /\ syncs' = syncs
        /\ waiting' = waiting /\ oops' = oops /\ env' = env
    BY <1>3 DEF CreateChainNotifierFails, FreshChain
  <2>2. /\ mod' = mod /\ loads' = loads /\ unload' = unload /\ modRefs' = modRefs
        /\ node' = node /\ ui32RefCount' = ui32RefCount /\ hExtDevice' = hExtDevice
        /\ files' = files /\ conn' = conn /\ opener' = opener
        /\ holder' = holder /\ call' = call
    BY <1>3
  <2>3. TypeOK'
    <3>1. TypeOK
      BY DEF DInv
    <3>2. chain' \in [ChainIds -> {"none", "live", "unregistered", "lost", "freed"}]
      BY <2>1, <3>1 DEF TypeOK
    <3> QED BY <2>1, <2>2, <3>1, <3>2 DEF TypeOK
  <2>4. Holding' = Holding
    BY <2>1 DEF Holding, DInv, TypeOK
  <2>5. /\ RefCountExact' /\ ModuleRefBalanced' /\ OpenWhileCounted' /\ Calm'
        /\ Stages' /\ ManagerKnows' /\ SyncBalance'
    BY <2>1, <2>2, <2>4
       DEF DInv, RefCountExact, Connections, ModuleRefBalanced, OpenWhileCounted, Calm, Fails,
           Stages, ManagerKnows, SyncBalance, Holding
  <2>6. Served'
    <3>1. \A d \in ChainIds : chain[d] \notin {"live", "unregistered"}
      BY <2>1, ConstantsAssumption DEF DInv, Served, ChainIds
    <3>2. \A d \in ChainIds : chain'[d] \notin {"live", "unregistered"}
      BY <2>1, <3>1 DEF DInv, TypeOK
    <3> QED BY <3>2 DEF Served
  <2> QED BY <2>3, <2>5, <2>6 DEF DInv
<1>4. CASE CreateChainStale
  BY <1>4, OopsPreserves DEF CreateChainStale
<1> QED BY <1>1, <1>2, <1>3, <1>4 DEF PVRSRVCreateDCSwapChainKM

\* The end of a live swap chain.
LEMMA DestroyPreserves ==
  ASSUME DInv, NEW c \in ChainIds, chain[c] = "live", DestroyDCSwapChainCallBack(c)
  PROVE  DInv'
<1> USE DEF moduleVars, deviceVars, procVars, chainVars, Healthy
<1>1. psSwapChain = c /\ hExtDevice
  <2>1. Connections # {}
    BY DEF DInv, Served, Connections
  <2>2. ui32RefCount # 0
    BY <2>1, Finite DEF DInv, RefCountExact
  <2> QED BY <2>2 DEF DInv, Served, OpenWhileCounted
<1>2. CASE Oops
  BY <1>2, OopsPreserves
<1>3. CASE ~Oops
  <2>1. /\ psSwapChain' = 0 /\ chain' = [chain EXCEPT ![c] = "freed"]
        /\ syncs' = syncs - NBuffers /\ oops' = oops /\ env' = env
        /\ owner' = owner /\ waiting' = waiting
        /\ mod' = mod /\ loads' = loads /\ unload' = unload /\ modRefs' = modRefs
        /\ node' = node /\ ui32RefCount' = ui32RefCount /\ hExtDevice' = hExtDevice
        /\ files' = files /\ conn' = conn /\ opener' = opener
        /\ holder' = holder /\ call' = call
    BY <1>1, <1>3 DEF DestroyDCSwapChainCallBack
  <2>2. /\ Cardinality(Holding) \in Nat /\ Cardinality(Holding) > 0
        /\ Cardinality(Holding)' = Cardinality(Holding) - 1
    BY <2>1, ChainRemoved, Finite DEF DInv
  <2>3. /\ NBuffers \in Nat /\ NBuffers * Cardinality(Holding) \in Nat
        /\ NBuffers * (Cardinality(Holding) - 1) = NBuffers * Cardinality(Holding) - NBuffers
        /\ NBuffers * Cardinality(Holding) >= NBuffers
    BY <2>2, Distributes, ConstantsAssumption
  <2>4. syncs = (IF hExtDevice THEN 1 ELSE 0) + NBuffers * Cardinality(Holding)
    BY DEF DInv, SyncBalance, Holding
  <2>5. /\ syncs' = (IF hExtDevice' THEN 1 ELSE 0) + NBuffers * Cardinality(Holding)'
        /\ syncs' \in Nat
    BY <2>1, <2>2, <2>3, <2>4
  <2>6. SyncBalance'
    BY <2>5 DEF SyncBalance, Holding
  <2>7. TypeOK'
    <3>1. TypeOK
      BY DEF DInv
    <3>2. chain' \in [ChainIds -> {"none", "live", "unregistered", "lost", "freed"}]
      BY <2>1, <3>1 DEF TypeOK
    <3> QED BY <2>1, <2>5, <3>1, <3>2 DEF TypeOK
  <2>8. /\ RefCountExact' /\ ModuleRefBalanced' /\ OpenWhileCounted' /\ Calm'
        /\ Stages' /\ ManagerKnows'
    BY <2>1 DEF DInv, RefCountExact, Connections, ModuleRefBalanced, OpenWhileCounted, Calm, Fails,
                Stages, ManagerKnows
  <2>9. Served'
    <3>1. \A d \in ChainIds : chain'[d] \notin {"live", "unregistered"}
      BY <1>1, <2>1 DEF DInv, Served, TypeOK
    <3> QED BY <3>1 DEF Served
  <2> QED BY <2>6, <2>7, <2>8, <2>9 DEF DInv
<1> QED BY <1>2, <1>3

\* Everything else a process does.
LEMMA ProcPreserves == ASSUME DInv, NEW p \in Procs, ProcNext(p) PROVE DInv'
<1> USE DEF moduleVars, deviceVars, procVars, chainVars, Healthy
<1>1. CASE pvr_open(p)
  <2>1. Frame /\ TypeOK' /\ call' = call
    BY <1>1 DEF pvr_open, Frame, DInv, TypeOK
  <2> QED BY <2>1, FramePreserves DEF DInv, Stages
<1>2. CASE pvr_release(p)
  <2>1. conn' = conn
    BY <1>2 DEF pvr_release, DInv, ManagerKnows, TypeOK
  <2>2. Frame /\ call' \in {call, "release"}
    BY <1>2, <2>1 DEF pvr_release, Frame
  <2>3. TypeOK'
    <3>1. TypeOK /\ files[p] > 0
      BY <1>2 DEF DInv, pvr_release, Enter
    <3>2. files' \in [Procs -> Nat]
      BY <1>2, <3>1 DEF pvr_release, TypeOK
    <3>3. holder' \in Procs \cup {None} /\ call' \in {"none", "open", "release"}
      BY <1>2, <3>1 DEF pvr_release, TypeOK
    <3> QED BY <1>2, <2>1, <3>1, <3>2, <3>3 DEF pvr_release, TypeOK
  <2> QED BY <2>2, <2>3, FramePreserves DEF DInv, Stages
<1>3. CASE PVRSRVResManDisconnect(p)
  <2>1. ASSUME NEW c \in LastChain(p), DestroyDCSwapChainCallBack(c) PROVE DInv'
    BY <2>1, DestroyPreserves DEF LastChain, ChainsOf
  <2>2. ASSUME ChainsOf(p) = {}, NEW i \in ConnsOf(p), CloseConnection(i) PROVE DInv'
    BY <2>2, ClosePreserves
  <2>3. CASE CloseConnectionStale
    BY <2>3, OopsPreserves DEF CloseConnectionStale
  <2>4. ASSUME CallReturns, Healthy,
               UNCHANGED <<moduleVars, modRefs, deviceVars, files, conn, opener, chainVars, syncs>>
        PROVE  DInv'
    <3>1. Frame /\ TypeOK' /\ call' = "none"
      BY <2>4 DEF CallReturns, Frame, DInv, TypeOK
    <3> QED BY <3>1, FramePreserves
  <2> QED BY <1>3, <2>1, <2>2, <2>3, <2>4 DEF PVRSRVResManDisconnect
<1>4. CASE PVRSRVOpenDCDeviceKM(p)
  BY <1>4, OpenPreserves
<1>5. CASE PVRSRVCloseDCDeviceKM(p)
  <2>1. ChainsOf(p) = {} /\ ~(\E i \in ConnIds : conn[i] = "unregistered")
    BY <1>5 DEF PVRSRVCloseDCDeviceKM, DInv, Calm, Fails, ManagerKnows
  <2>2. CASE CloseConnectionStale
    BY <2>2, OopsPreserves DEF CloseConnectionStale
  <2> QED BY <1>5, <2>1, <2>2, ClosePreserves DEF PVRSRVCloseDCDeviceKM
<1>6. CASE PVRSRVCreateDCSwapChainKM(p)
  BY <1>6, CreatePreserves
<1>7. CASE PVRSRVDestroyDCSwapChainKM(p)
  BY <1>7, DestroyPreserves, OopsPreserves DEF PVRSRVDestroyDCSwapChainKM
<1>8. CASE PVRSRVSwapToDCBufferKM(p)
  <2>1. Frame /\ TypeOK' /\ call' = call
    BY <1>8 DEF PVRSRVSwapToDCBufferKM, Frame, DInv, TypeOK
  <2> QED BY <2>1, FramePreserves DEF DInv, Stages
<1>9. CASE CallFunctionTable(p)
  BY <1>9, OopsPreserves DEF CallFunctionTable
<1> QED BY <1>1, <1>2, <1>3, <1>4, <1>5, <1>6, <1>7, <1>8, <1>9 DEF ProcNext

-----------------------------------------------------------------------------
(***************************************************************************)
(* The theorems.                                                           *)
(***************************************************************************)

\* Nothing is connected and nothing is held before omaplfb is loaded.
LEMMA InitEstablishes == ASSUME Calm, Init PROVE DInv
<1>1. Connections = {} /\ Holding = {}
  BY DEF Init, Connections, Holding
<1>2. Cardinality(Connections) = 0 /\ Cardinality(Holding) = 0
  BY <1>1, FS_EmptySet
<1>3. NBuffers * 0 = 0
  BY ConstantsAssumption
<1>4. RefCountExact /\ SyncBalance
  BY <1>2, <1>3 DEF Init, RefCountExact, SyncBalance, Holding
<1>5. TypeOK
  BY ConstantsAssumption DEF Init, TypeOK
<1>6. ModuleRefBalanced /\ OpenWhileCounted /\ Stages /\ ManagerKnows /\ Served
  BY DEF Init, ModuleRefBalanced, OpenWhileCounted, Stages, ManagerKnows, Served
<1> QED BY <1>4, <1>5, <1>6 DEF DInv

\* Every step preserves the invariant.
LEMMA NextPreserves == ASSUME DInv, [Next]_vars PROVE DInv'
<1> USE DEF moduleVars, deviceVars, procVars, chainVars
<1>1. CASE ModuleNext
  BY <1>1, ModulePreserves
<1>2. CASE \E p \in Procs : ProcNext(p)
  BY <1>2, ProcPreserves
<1>3. CASE PVRSRVProcessQueues
  <2>1. CASE Oops
    BY <2>1, OopsPreserves
  <2>2. CASE ~Oops
    <3>1. Frame /\ call' = call
      BY <1>3, <2>2 DEF PVRSRVProcessQueues, Frame, Healthy
    <3>2. TypeOK'
      BY <1>3, <2>2 DEF PVRSRVProcessQueues, DInv, TypeOK, Healthy
    <3> QED BY <3>1, <3>2, FramePreserves DEF DInv, Stages
  <2> QED BY <2>1, <2>2
<1>4. CASE UNCHANGED vars
  <2>1. Frame /\ TypeOK' /\ call' = call
    BY <1>4 DEF vars, Frame, DInv, TypeOK
  <2> QED BY <2>1, FramePreserves DEF DInv, Stages
<1> QED BY <1>1, <1>2, <1>3, <1>4 DEF Next, Stopped

\* The invariant gives the properties the runs check: a connection or a swap
\* chain means an open device, and an open device a loaded module.
LEMMA Consequences ==
  ASSUME DInv
  PROVE  ModuleHeld /\ ChainsOnOpenDevice /\ UnloadedMeansRemoved /\ RemovalAssertion
<1>1. ASSUME NEW c \in LiveChains PROVE psSwapChain = c /\ hExtDevice
  <2>1. c \in ChainIds /\ chain[c] = "live"
    BY <1>1 DEF LiveChains, DInv, Served
  <2>2. Connections # {} /\ psSwapChain = c
    BY <2>1 DEF DInv, Served, Connections
  <2>3. ui32RefCount # 0
    BY <2>2, Finite DEF DInv, RefCountExact
  <2> QED BY <2>2, <2>3 DEF DInv, OpenWhileCounted
<1>2. hExtDevice => mod \in {"coming", "live"}
  BY DEF DInv, OpenWhileCounted, Stages, TypeOK
<1>3. UnloadedMeansRemoved /\ RemovalAssertion
  BY DEF DInv, Stages, TypeOK, UnloadedMeansRemoved, RemovalAssertion
<1> QED BY <1>1, <1>2, <1>3 DEF ModuleHeld, ChainsOnOpenDevice

\* A behaviour keeps its environment.
LEMMA EnvFixed == ASSUME [Next]_vars PROVE env' = env
<1>1. CASE ModuleNext
  BY <1>1 DEF ModuleNext, OMAPLFBInit, OMAPLFBInitFails, OMAPLFBInitDone, delete_module,
              PVRSRVRemoveDCDeviceKM, RemoveDCDeviceFrees, Healthy
<1>2. ASSUME NEW p \in Procs, ProcNext(p) PROVE env' = env
  <2> USE DEF Healthy, Oops
  <2>1. CASE pvr_open(p) \/ pvr_release(p) \/ PVRSRVSwapToDCBufferKM(p) \/ CallFunctionTable(p)
    BY <2>1 DEF pvr_open, pvr_release, PVRSRVSwapToDCBufferKM, CallFunctionTable
  <2>2. CASE PVRSRVResManDisconnect(p)
    BY <2>2 DEF PVRSRVResManDisconnect, DestroyDCSwapChainCallBack, CloseConnection,
                CloseConnectionStale
  <2>3. CASE PVRSRVOpenDCDeviceKM(p)
    BY <2>3 DEF PVRSRVOpenDCDeviceKM, OpenFindsDevice, OpenAgain, OpenFirst, OpenFails,
                OpenModuleGoing, OpenStale
  <2>4. CASE PVRSRVCloseDCDeviceKM(p)
    BY <2>4 DEF PVRSRVCloseDCDeviceKM, CloseConnection, CloseConnectionStale
  <2>5. CASE PVRSRVCreateDCSwapChainKM(p)
    BY <2>5 DEF PVRSRVCreateDCSwapChainKM, CreateChain, CreateChainFails,
                CreateChainNotifierFails, CreateChainStale
  <2>6. CASE PVRSRVDestroyDCSwapChainKM(p)
    BY <2>6 DEF PVRSRVDestroyDCSwapChainKM, DestroyDCSwapChainCallBack
  <2> QED BY <1>2, <2>1, <2>2, <2>3, <2>4, <2>5, <2>6 DEF ProcNext
<1>3. CASE PVRSRVProcessQueues
  BY <1>3 DEF PVRSRVProcessQueues, Healthy, Oops
<1>4. CASE UNCHANGED vars
  BY <1>4 DEF vars
<1> QED BY <1>1, <1>2, <1>3, <1>4 DEF Next, Stopped

\* In a calm environment DInv holds in every state.
THEOREM Invariance == Spec => [](Calm => DInv)
<1>1. Init => (Calm => DInv)
  BY InitEstablishes
<1>2. (Calm => DInv) /\ [Next]_vars => (Calm => DInv)'
  <2> SUFFICES ASSUME Calm => DInv, [Next]_vars, Calm' PROVE DInv'
    OBVIOUS
  <2>1. Calm
    BY EnvFixed DEF Calm, Fails
  <2> QED BY <2>1, NextPreserves
<1> QED BY <1>1, <1>2, PTL DEF Spec

\* PVRSRVOpenDCDeviceKM and CloseDCDeviceCallBack keep ui32RefCount equal to
\* the number of connections, however many processes open and close the
\* device and die in between.
THEOREM CountsConnections == Spec => []RefCountExact
<1>1. (Calm => DInv) => RefCountExact
  BY DEF DInv, RefCountExact
<1> QED BY <1>1, Invariance, PTL

\* The order of PVRSRVResManDisconnect destroys every swap chain while its
\* device is still open.
THEOREM ChainsBeforeDevice == Spec => []ChainsOnOpenDevice
<1>1. (Calm => DInv) => ChainsOnOpenDevice
  BY Consequences DEF ChainsOnOpenDevice
<1> QED BY <1>1, Invariance, PTL

\* omaplfb stays loaded while its device is open or a swap chain exists; and when
\* no client opens the device during the unload, the assertion of
\* PVRSRVRemoveDCDeviceKM holds and the unload leaves no node behind.
THEOREM HoldsProvider == Spec => [](ProviderHeld /\ (Calm => RemovalAssertion))
<1>1. (Calm => DInv) => ProviderHeld /\ (Calm => RemovalAssertion)
  <2>1. (Calm => DInv) => ModuleHeld
    BY Consequences DEF ModuleHeld
  <2>2. (Calm => DInv) => UnloadedMeansRemoved /\ (Calm => RemovalAssertion)
    BY Consequences DEF UnloadedMeansRemoved
  <2> QED BY <2>1, <2>2 DEF ProviderHeld
<1> QED BY <1>1, Invariance, PTL

-----------------------------------------------------------------------------
(***************************************************************************)
(* In every environment: clients that leave their swap chains behind, that *)
(* open the display while omaplfb unloads, and a load or a resource        *)
(* manager that fails.  ui32RefCount may then be too large, but never too  *)
(* small.                                                                  *)
(***************************************************************************)

\* Every connection is counted, and omaplfb's device is closed before the count
\* is zero.
CountCovers ==
  /\ Cardinality(Connections) <= ui32RefCount
  /\ hExtDevice => ui32RefCount # 0

\* Nobody is connected to a node that is not on the list, and an open that
\* found it before the unload finds its count still zero.
Detached ==
  /\ node # "listed" => ~hExtDevice /\ Connections = {}
  /\ node = "unlinked" => mod = "going" /\ unload = "assert" /\ (call = "open" => ui32RefCount = 0)

\* How far omaplfb's unload can be.
Unloading ==
  /\ mod \in {"coming", "live"} => node = "listed" /\ unload = "idle"
  /\ unload = "assert" => node = "unlinked"
  /\ unload = "remove" => node = "listed" /\ mod = "going"

WInv ==
  /\ TypeOK
  /\ ModuleRefBalanced
  /\ SyncBalance
  /\ CountCovers
  /\ Detached
  /\ Unloading

\* A step that touches neither the count nor the records it counts.
LEMMA WildFrame ==
  ASSUME WInv, TypeOK', UNCHANGED <<mod, unload, node, modRefs, ui32RefCount, hExtDevice, syncs>>,
         Connections' = Connections, Holding' = Holding,
         call' = "open" => call = "open" \/ node = "listed"
  PROVE  WInv'
<1>1. ModuleRefBalanced' /\ Unloading'
  BY DEF WInv, ModuleRefBalanced, Unloading
<1>2. SyncBalance'
  BY DEF WInv, SyncBalance, Holding
<1>3. CountCovers'
  BY DEF WInv, CountCovers
<1>4. Detached'
  BY DEF WInv, Detached
<1> QED BY <1>1, <1>2, <1>3, <1>4 DEF WInv

\* An oops changes nothing else.
LEMMA WildOops == ASSUME WInv, Oops PROVE WInv'
<1> USE DEF moduleVars, deviceVars, procVars, chainVars
<1>1. TypeOK' /\ Connections' = Connections /\ Holding' = Holding /\ call' = call
  BY DEF Oops, WInv, TypeOK, Connections, Holding
<1> QED BY <1>1, WildFrame DEF Oops

\* Loading and unloading omaplfb.
LEMMA WildModule == ASSUME WInv, ModuleNext PROVE WInv'
<1> USE DEF deviceVars, procVars, chainVars, Healthy
<1>0. /\ TypeOK
      /\ ModuleNext => Connections' = Connections /\ Holding' = Holding
  BY DEF WInv, ModuleNext, OMAPLFBInit, OMAPLFBInitFails, OMAPLFBInitDone, delete_module,
         PVRSRVRemoveDCDeviceKM, RemoveDCDeviceFrees, Connections, Holding
<1>1. ASSUME hExtDevice' = hExtDevice, modRefs' = modRefs, syncs' = syncs,
             Holding' = Holding
      PROVE  ModuleRefBalanced' /\ SyncBalance'
  BY <1>1 DEF WInv, ModuleRefBalanced, SyncBalance, Holding
<1>2. CASE OMAPLFBInit
  <2>1. ~hExtDevice /\ Connections = {} /\ Cardinality(Connections) = 0
    BY <1>2, Finite DEF OMAPLFBInit, WInv, Detached
  <2>2. TypeOK'
    <3>1. hExtDevice' \in BOOLEAN /\ oops' \in BOOLEAN
      BY <1>0, <1>2, Zenon DEF OMAPLFBInit, TypeOK
    <3>2. /\ mod' = "coming" /\ node' = "listed" /\ unload' = unload
          /\ loads' \in Nat /\ modRefs' = 0 /\ ui32RefCount' = 0 /\ psSwapChain' = 0
          /\ UNCHANGED <<env, files, conn, opener, holder, call, chain, owner, waiting, syncs>>
      BY <1>0, <1>2 DEF OMAPLFBInit, TypeOK
    <3> QED BY <1>0, <3>1, <3>2 DEF TypeOK
  <2>3. hExtDevice' = hExtDevice /\ modRefs' = modRefs /\ syncs' = syncs
    BY <1>2, <2>1 DEF OMAPLFBInit, WInv, ModuleRefBalanced, TypeOK
  <2>4. ModuleRefBalanced' /\ SyncBalance'
    BY <1>0, <1>1, <2>3
  <2>5. CountCovers' /\ Detached' /\ Unloading'
    BY <1>0, <1>2, <2>1 DEF OMAPLFBInit, CountCovers, Detached, Unloading
  <2> QED BY <2>2, <2>4, <2>5 DEF WInv
<1>3. CASE OMAPLFBInitFails \/ OMAPLFBInitDone \/ delete_module
  <2>1. TypeOK'
    BY <1>0, <1>3 DEF OMAPLFBInitFails, OMAPLFBInitDone, delete_module, TypeOK
  <2>2. ModuleRefBalanced' /\ SyncBalance'
    BY <1>0, <1>1, <1>3 DEF OMAPLFBInitFails, OMAPLFBInitDone, delete_module
  <2>3. node = "listed" /\ node' = "listed"
    BY <1>3 DEF OMAPLFBInitFails, OMAPLFBInitDone, delete_module, WInv, Unloading
  <2>4. CountCovers'
    BY <1>0, <1>3 DEF OMAPLFBInitFails, OMAPLFBInitDone, delete_module, WInv, CountCovers
  <2>5. Detached' /\ Unloading'
    BY <1>3, <2>3 DEF OMAPLFBInitFails, OMAPLFBInitDone, delete_module, WInv, Detached, Unloading
  <2> QED BY <2>1, <2>2, <2>4, <2>5 DEF WInv
<1>4. CASE PVRSRVRemoveDCDeviceKM
  <2>1. TypeOK'
    BY <1>0, <1>4 DEF PVRSRVRemoveDCDeviceKM, TypeOK
  <2>2. ModuleRefBalanced' /\ SyncBalance'
    BY <1>0, <1>1, <1>4 DEF PVRSRVRemoveDCDeviceKM
  <2>3. node = "listed" /\ mod = "going"
    BY <1>4 DEF PVRSRVRemoveDCDeviceKM, WInv, Unloading
  <2>4. CountCovers'
    BY <1>0, <1>4 DEF PVRSRVRemoveDCDeviceKM, WInv, CountCovers
  <2>5. ui32RefCount = 0 => ~hExtDevice /\ Connections = {}
    BY Finite DEF WInv, CountCovers
  <2>6. Detached' /\ Unloading'
    BY <1>0, <1>4, <2>3, <2>5 DEF PVRSRVRemoveDCDeviceKM, Detached, Unloading
  <2> QED BY <2>1, <2>2, <2>4, <2>6 DEF WInv
<1>5. CASE RemoveDCDeviceFrees
  <2>1. TypeOK'
    BY <1>0, <1>5 DEF RemoveDCDeviceFrees, TypeOK
  <2>2. ModuleRefBalanced' /\ SyncBalance'
    BY <1>0, <1>1, <1>5 DEF RemoveDCDeviceFrees
  <2>3. ~hExtDevice /\ Connections = {}
    BY <1>5 DEF RemoveDCDeviceFrees, WInv, Detached, Unloading
  <2>4. CountCovers'
    BY <1>0, <1>5 DEF RemoveDCDeviceFrees, WInv, CountCovers
  <2>5. Detached' /\ Unloading'
    BY <1>0, <1>5, <2>3 DEF RemoveDCDeviceFrees, Detached, Unloading
  <2> QED BY <2>1, <2>2, <2>4, <2>5 DEF WInv
<1> QED BY <1>2, <1>3, <1>4, <1>5 DEF ModuleNext

\* Opening the device: also when the resource manager forgets the connection
\* and when err1 leaves the count behind.
LEMMA WildOpen ==
  ASSUME WInv, NEW p \in Procs, PVRSRVOpenDCDeviceKM(p) PROVE WInv'
<1> USE DEF moduleVars, deviceVars, procVars, chainVars, Healthy
<1>0. TypeOK
  BY DEF WInv
<1>1. CASE OpenFindsDevice(p) \/ OpenFails(p)
  <2>1. TypeOK' /\ Connections' = Connections /\ Holding' = Holding
    BY <1>0, <1>1 DEF OpenFindsDevice, OpenFails, CallReturns, TypeOK, Connections, Holding
  <2>2. call' = "open" => call = "open" \/ node = "listed"
    BY <1>1 DEF OpenFindsDevice, OpenFails, CallReturns
  <2>3. UNCHANGED <<mod, unload, node, modRefs, ui32RefCount, hExtDevice, syncs>>
    BY <1>1 DEF OpenFindsDevice, OpenFails
  <2> QED BY <2>1, <2>2, <2>3, WildFrame
<1>2. CASE OpenAgain(p) \/ OpenFirst(p)
  <2>1. PICK i \in FreshConn, s \in {"open", "unregistered"} :
             opener' = [opener EXCEPT ![i] = p] /\ conn' = [conn EXCEPT ![i] = s]
    BY <1>2 DEF OpenAgain, OpenFirst, ResManRegisterConnection
  <2>2. i \in ConnIds /\ conn[i] = "free"
    BY DEF FreshConn
  <2>3. Cardinality(Connections)' = Cardinality(Connections) + 1 /\ Cardinality(Connections) \in Nat
    BY <1>0, <2>1, <2>2, ConnectionAdded, Finite
  <2>4. /\ mod' = mod /\ unload' = unload /\ node' = node /\ loads' = loads
        /\ files' = files /\ chain' = chain /\ owner' = owner /\ waiting' = waiting
        /\ psSwapChain' = psSwapChain /\ oops' = oops /\ env' = env
        /\ holder' = None /\ call' = "none" /\ call = "open" /\ node # "none"
        /\ ui32RefCount' = ui32RefCount + 1
    BY <1>2 DEF OpenAgain, OpenFirst, CallReturns, Opening
  <2>5. node = "listed"
    BY <1>0, <1>2, <2>4 DEF WInv, Detached, Unloading, OpenAgain, OpenFirst, TypeOK
  <2>6. \/ hExtDevice' = hExtDevice /\ modRefs' = modRefs /\ syncs' = syncs
        \/ ~hExtDevice /\ hExtDevice' = TRUE /\ modRefs' = modRefs + 1 /\ syncs' = syncs + 1
    BY <1>2 DEF OpenAgain, OpenFirst, WInv, CountCovers
  <2>7. TypeOK'
    <3>1. /\ conn' \in [ConnIds -> {"free", "open", "unregistered", "lost"}]
          /\ opener' \in [ConnIds -> Procs \cup {None}]
      BY <1>0, <2>1, <2>2 DEF TypeOK
    <3>2. ui32RefCount' \in Nat /\ modRefs' \in Nat /\ syncs' \in Nat
      BY <1>0, <2>4, <2>6 DEF TypeOK
    <3>3. hExtDevice' \in BOOLEAN
      BY <1>0, <2>6 DEF TypeOK
    <3> QED BY <1>0, <2>4, <3>1, <3>2, <3>3 DEF TypeOK
  <2>8. ModuleRefBalanced'
    BY <1>0, <2>6 DEF WInv, ModuleRefBalanced, TypeOK
  <2>9. SyncBalance'
    <3>1. Cardinality(Holding) \in Nat /\ Cardinality(Holding)' = Cardinality(Holding)
      BY <2>4, Finite DEF Holding
    <3>2. NBuffers * Cardinality(Holding) \in Nat
      BY <3>1, Distributes
    <3> QED BY <2>6, <3>1, <3>2 DEF WInv, SyncBalance, Holding
  <2>10. CountCovers'
    BY <1>0, <2>3, <2>4 DEF WInv, CountCovers, TypeOK
  <2>11. Detached' /\ Unloading'
    BY <2>4, <2>5 DEF WInv, Detached, Unloading
  <2> QED BY <2>7, <2>8, <2>9, <2>10, <2>11 DEF WInv
<1>3. CASE OpenModuleGoing(p)
  <2>1. /\ ui32RefCount' = ui32RefCount + 1 /\ ui32RefCount = 0 /\ call' = "none" /\ holder' = None
        /\ UNCHANGED <<moduleVars, modRefs, node, hExtDevice, files, conn, opener, chainVars, syncs,
                       oops, env>>
    BY <1>3 DEF OpenModuleGoing, CallReturns
  <2>2. TypeOK' /\ Connections' = Connections /\ Holding' = Holding
    BY <1>0, <2>1 DEF TypeOK, Connections, Holding
  <2>3. ModuleRefBalanced' /\ SyncBalance' /\ Unloading'
    BY <2>1, <2>2 DEF WInv, ModuleRefBalanced, SyncBalance, Holding, Unloading
  <2>4. CountCovers'
    BY <2>1, <2>2, Finite DEF WInv, CountCovers
  <2>5. Detached'
    BY <2>1, <2>2 DEF WInv, Detached
  <2> QED BY <2>2, <2>3, <2>4, <2>5 DEF WInv
<1>4. CASE OpenStale(p)
  BY <1>4, WildOops DEF OpenStale
<1> QED BY <1>1, <1>2, <1>3, <1>4 DEF PVRSRVOpenDCDeviceKM

\* Closing a connection, whatever its process leaves behind.
LEMMA WildClose ==
  ASSUME WInv, NEW p \in Procs, NEW i \in ConnsOf(p), CloseConnection(i)
  PROVE  WInv'
<1> USE DEF moduleVars, chainVars, Healthy
<1>0. TypeOK
  BY DEF WInv
<1>1. i \in ConnIds /\ conn[i] = "open"
  BY DEF ConnsOf
<1>2. /\ conn' = [conn EXCEPT ![i] = "free"] /\ opener' = [opener EXCEPT ![i] = None]
      /\ ui32RefCount' = ui32RefCount - 1
      /\ hExtDevice' = (IF ui32RefCount = 1 THEN FALSE ELSE hExtDevice)
      /\ syncs' = (IF ui32RefCount = 1 THEN syncs - 1 ELSE syncs)
      /\ modRefs' = (IF ui32RefCount = 1 THEN modRefs - 1 ELSE modRefs)
      /\ ui32RefCount = 1 => hExtDevice
  BY DEF CloseConnection, CloseDCDeviceCallBack
<1>3. /\ mod' = mod /\ loads' = loads /\ unload' = unload /\ node' = node /\ files' = files
      /\ holder' = holder /\ call' = call /\ chain' = chain /\ owner' = owner
      /\ waiting' = waiting /\ psSwapChain' = psSwapChain /\ oops' = oops /\ env' = env
  BY DEF CloseConnection
<1>4. /\ Cardinality(Connections)' = Cardinality(Connections) - 1
      /\ Cardinality(Connections) > 0 /\ Cardinality(Connections) \in Nat
  BY <1>0, <1>1, <1>2, ConnectionRemoved, Finite
<1>5. ui32RefCount \in Nat /\ ui32RefCount > 0 /\ node = "listed"
  <2>1. Connections # {}
    BY <1>1 DEF Connections
  <2> QED BY <1>0, <1>4, <2>1 DEF WInv, CountCovers, Detached, TypeOK
<1>6. modRefs = (IF hExtDevice THEN 1 ELSE 0) /\ modRefs \in Nat
  BY <1>0 DEF WInv, ModuleRefBalanced, TypeOK
<1>7. Cardinality(Holding) \in Nat /\ Cardinality(Holding)' = Cardinality(Holding)
  BY <1>3, Finite DEF Holding
<1>8. /\ NBuffers * Cardinality(Holding) \in Nat
      /\ syncs = (IF hExtDevice THEN 1 ELSE 0) + NBuffers * Cardinality(Holding)
  BY <1>7, Distributes DEF WInv, SyncBalance, Holding
<1>9. ModuleRefBalanced'
  BY <1>2, <1>6 DEF ModuleRefBalanced
<1>10. SyncBalance'
  BY <1>2, <1>7, <1>8 DEF SyncBalance, Holding
<1>11. CountCovers'
  BY <1>2, <1>4, <1>5 DEF WInv, CountCovers
<1>12. Detached' /\ Unloading'
  BY <1>3, <1>5 DEF WInv, Detached, Unloading
<1>13. TypeOK'
  <2>1. ui32RefCount' \in Nat /\ modRefs' \in Nat /\ syncs' \in Nat
    BY <1>2, <1>5, <1>6, <1>8
  <2>2. hExtDevice' \in BOOLEAN
    BY <1>0, <1>2 DEF TypeOK
  <2>3. /\ conn' \in [ConnIds -> {"free", "open", "unregistered", "lost"}]
        /\ opener' \in [ConnIds -> Procs \cup {None}]
    BY <1>0, <1>1, <1>2 DEF TypeOK
  <2> QED BY <1>0, <1>3, <2>1, <2>2, <2>3 DEF TypeOK
<1> QED BY <1>9, <1>10, <1>11, <1>12, <1>13 DEF WInv

\* A step on the swap chains that leaves the sync infos balanced.
LEMMA WildChain ==
  ASSUME WInv, UNCHANGED <<moduleVars, modRefs, deviceVars, procVars, waiting, oops, env>>,
         chain' \in [ChainIds -> {"none", "live", "unregistered", "lost", "freed"}],
         owner' \in [ChainIds -> Procs \cup {None}],
         psSwapChain' \in ChainIds \cup {0}, syncs' \in Nat, SyncBalance'
  PROVE  WInv'
<1> USE DEF moduleVars, deviceVars, procVars
<1>1. TypeOK'
  BY DEF WInv, TypeOK
<1>2. ModuleRefBalanced' /\ Unloading'
  BY DEF WInv, ModuleRefBalanced, Unloading
<1>3. Connections' = Connections
  BY DEF Connections
<1>4. CountCovers' /\ Detached'
  BY <1>3 DEF WInv, CountCovers, Detached
<1> QED BY <1>1, <1>2, <1>4 DEF WInv

\* A new swap chain.
LEMMA WildCreate ==
  ASSUME WInv, NEW p \in Procs, PVRSRVCreateDCSwapChainKM(p) PROVE WInv'
<1> USE DEF chainVars, Healthy
<1>0. /\ chain \in [ChainIds -> {"none", "live", "unregistered", "lost", "freed"}]
      /\ owner \in [ChainIds -> Procs \cup {None}] /\ syncs \in Nat /\ NBuffers \in Nat
      /\ psSwapChain \in ChainIds \cup {0} /\ TypeOK
  BY ConstantsAssumption DEF WInv, TypeOK
<1>1. ASSUME NEW c \in FreshChain, CreateChain(p, c),
             UNCHANGED <<moduleVars, modRefs, deviceVars, procVars>>
      PROVE  WInv'
  <2>1. PICK s \in {"live", "unregistered"} : chain' = [chain EXCEPT ![c] = s]
    BY <1>1 DEF CreateChain
  <2>2. /\ c \in ChainIds /\ chain[c] = "none" /\ owner' = [owner EXCEPT ![c] = p]
        /\ psSwapChain' = c /\ syncs' = syncs + NBuffers
        /\ waiting' = waiting /\ oops' = oops /\ env' = env /\ hExtDevice' = hExtDevice
    BY <1>1 DEF CreateChain, FreshChain, deviceVars
  <2>3. /\ Cardinality(Holding) \in Nat
        /\ Cardinality(Holding)' = Cardinality(Holding) + 1
    BY <1>0, <2>1, <2>2, ChainAdded, Finite
  <2>4. /\ NBuffers * Cardinality(Holding) \in Nat
        /\ NBuffers * (Cardinality(Holding) + 1) = NBuffers * Cardinality(Holding) + NBuffers
    BY <2>3, Distributes
  <2>5. syncs = (IF hExtDevice THEN 1 ELSE 0) + NBuffers * Cardinality(Holding)
    BY DEF WInv, SyncBalance, Holding
  <2>6. syncs' = (IF hExtDevice' THEN 1 ELSE 0) + NBuffers * Cardinality(Holding)'
    BY <1>0, <2>2, <2>3, <2>4, <2>5
  <2>7. SyncBalance' /\ syncs' \in Nat
    BY <1>0, <2>2, <2>6 DEF SyncBalance, Holding
  <2>8. /\ chain' \in [ChainIds -> {"none", "live", "unregistered", "lost", "freed"}]
        /\ owner' \in [ChainIds -> Procs \cup {None}]
    BY <1>0, <2>1, <2>2
  <2> QED BY <1>1, <2>2, <2>7, <2>8, WildChain
<1>2. ASSUME CreateChainFails, UNCHANGED <<moduleVars, modRefs, deviceVars, procVars>>
      PROVE  WInv'
  <2>1. UNCHANGED <<chain, owner, waiting, psSwapChain, syncs, oops, env, hExtDevice>>
    BY <1>2 DEF CreateChainFails, deviceVars
  <2>2. SyncBalance'
    BY <2>1 DEF WInv, SyncBalance
  <2> QED BY <1>0, <1>2, <2>1, <2>2, WildChain
<1>3. ASSUME NEW c \in FreshChain, CreateChainNotifierFails(c),
             UNCHANGED <<moduleVars, modRefs, deviceVars, procVars>>
      PROVE  WInv'
  <2>1. /\ c \in ChainIds /\ chain[c] = "none" /\ chain' = [chain EXCEPT ![c] = "freed"]
        /\ psSwapChain' = c /\ UNCHANGED <<owner, syncs, waiting, oops, env, hExtDevice>>
    BY <1>3 DEF CreateChainNotifierFails, FreshChain, deviceVars
  <2>2. Holding' = Holding
    BY <1>0, <2>1 DEF Holding
  <2>3. SyncBalance'
    BY <2>1, <2>2 DEF WInv, SyncBalance, Holding
  <2>4. chain' \in [ChainIds -> {"none", "live", "unregistered", "lost", "freed"}]
    BY <1>0, <2>1
  <2> QED BY <1>0, <1>3, <2>1, <2>3, <2>4, WildChain
<1>4. CASE CreateChainStale
  BY <1>4, WildOops DEF CreateChainStale
<1> QED BY <1>1, <1>2, <1>3, <1>4 DEF PVRSRVCreateDCSwapChainKM

\* The end of a live swap chain: omaplfb takes it, or it keeps its sync infos.
LEMMA WildDestroy ==
  ASSUME WInv, NEW c \in ChainIds, chain[c] = "live", DestroyDCSwapChainCallBack(c)
  PROVE  WInv'
<1> USE DEF Healthy
<1>0. /\ chain \in [ChainIds -> {"none", "live", "unregistered", "lost", "freed"}]
      /\ owner \in [ChainIds -> Procs \cup {None}] /\ syncs \in Nat /\ NBuffers \in Nat
      /\ psSwapChain \in ChainIds \cup {0} /\ TypeOK
  BY ConstantsAssumption DEF WInv, TypeOK
<1>1. CASE Oops
  BY <1>1, WildOops
<1>2. ASSUME psSwapChain' = 0, chain' = [chain EXCEPT ![c] = "freed"], syncs' = syncs - NBuffers,
             Healthy, UNCHANGED <<moduleVars, modRefs, deviceVars, procVars, owner, waiting>>
      PROVE  WInv'
  <2>1. /\ Cardinality(Holding) \in Nat /\ Cardinality(Holding) > 0
        /\ Cardinality(Holding)' = Cardinality(Holding) - 1
    BY <1>0, <1>2, ChainRemoved, Finite
  <2>2. /\ NBuffers * Cardinality(Holding) \in Nat
        /\ NBuffers * (Cardinality(Holding) - 1) = NBuffers * Cardinality(Holding) - NBuffers
        /\ NBuffers * Cardinality(Holding) >= NBuffers
    BY <2>1, Distributes
  <2>3. syncs = (IF hExtDevice THEN 1 ELSE 0) + NBuffers * Cardinality(Holding)
    BY DEF WInv, SyncBalance, Holding
  <2>4. hExtDevice' = hExtDevice
    BY <1>2 DEF deviceVars
  <2>5. /\ syncs' = (IF hExtDevice' THEN 1 ELSE 0) + NBuffers * Cardinality(Holding)'
        /\ syncs' \in Nat
    BY <1>0, <1>2, <2>1, <2>2, <2>3, <2>4
  <2>6. SyncBalance'
    BY <2>5 DEF SyncBalance, Holding
  <2>7. chain' \in [ChainIds -> {"none", "live", "unregistered", "lost", "freed"}]
    BY <1>0, <1>2
  <2> QED BY <1>0, <1>2, <2>5, <2>6, <2>7, WildChain
<1>3. ASSUME chain' = [chain EXCEPT ![c] = "lost"], Healthy,
             UNCHANGED <<moduleVars, modRefs, deviceVars, procVars, owner, waiting, psSwapChain, syncs>>
      PROVE  WInv'
  <2>1. Holding' = Holding
    BY <1>0, <1>3 DEF Holding
  <2>2. hExtDevice' = hExtDevice
    BY <1>3 DEF deviceVars
  <2>3. SyncBalance'
    BY <1>3, <2>1, <2>2 DEF WInv, SyncBalance, Holding
  <2>4. chain' \in [ChainIds -> {"none", "live", "unregistered", "lost", "freed"}]
    BY <1>0, <1>3
  <2> QED BY <1>0, <1>3, <2>3, <2>4, WildChain
<1> QED BY <1>1, <1>2, <1>3 DEF DestroyDCSwapChainCallBack

\* Everything a process does.
LEMMA WildProc == ASSUME WInv, NEW p \in Procs, ProcNext(p) PROVE WInv'
<1> USE DEF moduleVars, deviceVars, procVars, chainVars, Healthy
<1>0. TypeOK
  BY DEF WInv
<1>1. CASE pvr_open(p) \/ PVRSRVSwapToDCBufferKM(p)
  <2>1. TypeOK' /\ Connections' = Connections /\ Holding' = Holding /\ call' = call
    BY <1>0, <1>1 DEF pvr_open, PVRSRVSwapToDCBufferKM, TypeOK, Connections, Holding
  <2>2. UNCHANGED <<mod, unload, node, modRefs, ui32RefCount, hExtDevice, syncs>>
    BY <1>1 DEF pvr_open, PVRSRVSwapToDCBufferKM
  <2> QED BY <2>1, <2>2, WildFrame
<1>2. CASE pvr_release(p)
  <2>1. /\ conn' \in [ConnIds -> {"free", "open", "unregistered", "lost"}]
        /\ \A i \in ConnIds : conn'[i] # "free" <=> conn[i] # "free"
    BY <1>0, <1>2 DEF pvr_release, TypeOK
  <2>2. Connections' = Connections /\ Holding' = Holding
    BY <1>2, <2>1 DEF pvr_release, Connections, Holding
  <2>3. files' \in [Procs -> Nat]
    <3>1. files \in [Procs -> Nat] /\ files[p] > 0 /\ files[p] \in Nat
      BY <1>0, <1>2 DEF pvr_release, Enter, TypeOK
    <3>2. files' = [files EXCEPT ![p] = files[p] - 1]
      BY <1>2 DEF pvr_release
    <3> QED BY <3>1, <3>2
  <2>4. holder' \in Procs \cup {None} /\ call' \in {"none", "open", "release"} /\ call' \in {call, "release"}
    BY <1>0, <1>2 DEF pvr_release, TypeOK
  <2>5. UNCHANGED <<mod, loads, unload, node, modRefs, ui32RefCount, hExtDevice, syncs, opener,
                    chain, owner, waiting, psSwapChain, oops, env>>
    BY <1>2 DEF pvr_release
  <2>6. TypeOK'
    BY <1>0, <2>1, <2>3, <2>4, <2>5 DEF TypeOK
  <2> QED BY <2>2, <2>4, <2>5, <2>6, WildFrame
<1>3. CASE PVRSRVResManDisconnect(p)
  <2>1. ASSUME NEW c \in LastChain(p), DestroyDCSwapChainCallBack(c) PROVE WInv'
    BY <2>1, WildDestroy DEF LastChain, ChainsOf
  <2>2. ASSUME NEW i \in ConnsOf(p), CloseConnection(i) PROVE WInv'
    BY <2>2, WildClose
  <2>3. CASE CloseConnectionStale
    BY <2>3, WildOops DEF CloseConnectionStale
  <2>4. ASSUME CallReturns, Healthy,
               UNCHANGED <<moduleVars, modRefs, deviceVars, files, conn, opener, chainVars, syncs>>
        PROVE  WInv'
    <3>1. TypeOK' /\ Connections' = Connections /\ Holding' = Holding /\ call' = "none"
      BY <1>0, <2>4 DEF CallReturns, TypeOK, Connections, Holding
    <3> QED BY <2>4, <3>1, WildFrame
  <2> QED BY <1>3, <2>1, <2>2, <2>3, <2>4 DEF PVRSRVResManDisconnect
<1>4. CASE PVRSRVOpenDCDeviceKM(p)
  BY <1>4, WildOpen
<1>5. CASE PVRSRVCloseDCDeviceKM(p)
  <2>1. CASE CloseConnectionStale \/ Oops
    BY <2>1, WildOops DEF CloseConnectionStale
  <2> QED BY <1>5, <2>1, WildClose DEF PVRSRVCloseDCDeviceKM
<1>6. CASE PVRSRVCreateDCSwapChainKM(p)
  BY <1>6, WildCreate
<1>7. CASE PVRSRVDestroyDCSwapChainKM(p)
  BY <1>7, WildDestroy, WildOops DEF PVRSRVDestroyDCSwapChainKM
<1>8. CASE CallFunctionTable(p)
  BY <1>8, WildOops DEF CallFunctionTable
<1> QED BY <1>1, <1>2, <1>3, <1>4, <1>5, <1>6, <1>7, <1>8 DEF ProcNext

\* Nothing is connected and nothing is held before omaplfb is loaded.
LEMMA WildInit == ASSUME Init PROVE WInv
<1>1. Connections = {} /\ Holding = {}
  BY DEF Init, Connections, Holding
<1>2. Cardinality(Connections) = 0 /\ Cardinality(Holding) = 0
  BY <1>1, FS_EmptySet
<1>3. NBuffers * 0 = 0
  BY ConstantsAssumption
<1>4. CountCovers /\ SyncBalance
  BY <1>2, <1>3 DEF Init, CountCovers, SyncBalance, Holding
<1>5. TypeOK
  BY ConstantsAssumption DEF Init, TypeOK
<1>6. ModuleRefBalanced /\ Detached /\ Unloading
  BY <1>1 DEF Init, ModuleRefBalanced, Detached, Unloading
<1> QED BY <1>4, <1>5, <1>6 DEF WInv

\* Every step preserves the invariant.
LEMMA WildNext == ASSUME WInv, [Next]_vars PROVE WInv'
<1> USE DEF moduleVars, deviceVars, procVars, chainVars
<1>0. TypeOK
  BY DEF WInv
<1>1. CASE PVRSRVProcessQueues
  <2>1. CASE Oops
    BY <2>1, WildOops
  <2>2. CASE ~Oops
    <3>1. /\ UNCHANGED <<mod, unload, node, modRefs, ui32RefCount, hExtDevice, syncs, call>>
          /\ Connections' = Connections /\ Holding' = Holding
      BY <1>1, <2>2 DEF PVRSRVProcessQueues, Healthy, Connections, Holding
    <3>2. TypeOK'
      BY <1>0, <1>1, <2>2 DEF PVRSRVProcessQueues, TypeOK, Healthy
    <3> QED BY <3>1, <3>2, WildFrame
  <2> QED BY <2>1, <2>2
<1>2. CASE UNCHANGED vars
  <2>1. TypeOK' /\ Connections' = Connections /\ Holding' = Holding /\ call' = call
    BY <1>0, <1>2 DEF vars, TypeOK, Connections, Holding
  <2> QED BY <1>2, <2>1, WildFrame DEF vars
<1> QED BY <1>1, <1>2, WildModule, WildProc DEF Next, Stopped

\* In every environment WInv holds in every state.
THEOREM WildInvariance == Spec => []WInv
<1>1. WInv /\ [Next]_vars => WInv'
  BY WildNext
<1> QED BY <1>1, WildInit, PTL DEF Spec

\* Whatever fails and whoever races, ui32RefCount, the module's use count and the
\* number of sync infos are never decremented below zero.
THEOREM KeepsTypes == Spec => []TypeOK
<1>1. WInv => TypeOK
  BY DEF WInv
<1> QED BY <1>1, WildInvariance, PTL

\* In every environment open, close, create and destroy keep the references of
\* the module and the sync infos balanced, for every number of buffers.
THEOREM KeepsBalance == Spec => []ReferencesBalanced
<1>1. WInv => ReferencesBalanced
  BY DEF WInv, ReferencesBalanced
<1> QED BY <1>1, WildInvariance, PTL

-----------------------------------------------------------------------------
(***************************************************************************)
(* The buffer class: the inductive invariant.                              *)
(***************************************************************************)

\* A device on the driver's list has a devinfo.
ListedHasInfo == \A d \in Ids : psBCInfo[d].listed => device[d].on

\* bc_cat_init registers its devices in order.
NotYetListed ==
  bcModule.at = "init" => \A d \in Ids : d >= bcModule.id => ~psBCInfo[d].listed

\* Buffers lie in an array.
BuffersHaveArray ==
  \A d \in Ids : device[d].on /\ device[d].num > 0 => device[d].array # 0

\* The loop of PVRSRVOpenBCDeviceKM does not run past ui32BufferCount, and the
\* open that collects the buffers is the only user of the device.
FirstOpen ==
  bcCall.op = "buffers" =>
    /\ Len(psBCInfo[bcCall.dev].ext) <= psBCInfo[bcCall.dev].count
    /\ psBCInfo[bcCall.dev].refs = 1

BInv ==
  /\ BCTypeOK
  /\ BCAccountExact
  /\ ListedHasInfo
  /\ NotYetListed
  /\ BuffersHaveArray
  /\ FirstOpen

-----------------------------------------------------------------------------
(***************************************************************************)
(* Records and their fields.                                               *)
(***************************************************************************)

\* What a devinfo that exists holds.
LEMMA InfoFields ==
  ASSUME NEW v \in Infos, v.on
  PROVE  /\ v \in [on : {TRUE}, registered : {0, 1}, ref : 0..2, array : 0..MaxRequests,
                   num : 0..MaxBuffers, type : {"MMAP", "USERPTR"}]
         /\ v.ref \in 0..2 /\ v.array \in 0..MaxRequests /\ v.num \in 0..MaxBuffers
<1>1. ~NoInfo.on
  BY Zenon DEF NoInfo
<1>2. v # NoInfo
  BY <1>1, Zenon
<1> QED BY <1>2 DEF Infos

\* A devinfo stays one when its users change.
LEMMA InfoRef ==
  ASSUME NEW v \in Infos, v.on, NEW r \in 0..2
  PROVE  LET w == [v EXCEPT !.ref = r] IN
           w \in Infos /\ w.on /\ w.num = v.num /\ w.array = v.array /\ w.type = v.type
                      /\ w.registered = v.registered
BY InfoFields DEF Infos

\* A devinfo stays one when its buffers are destroyed.
LEMMA InfoEmptied ==
  ASSUME NEW v \in Infos, v.on
  PROVE  Emptied(v) \in Infos /\ Emptied(v).on /\ Emptied(v).num = 0
         /\ Emptied(v).registered = v.registered
<1>1. 0 \in 0..MaxBuffers /\ 0 \in 0..MaxRequests
  BY BCConstantsAssumption
<1> QED BY <1>1, InfoFields DEF Infos, Emptied

\* The records of devices that the code starts with.
LEMMA NewRecords ==
  /\ NoInfo \in Infos /\ ~NoInfo.on
  /\ NewInfo \in Infos /\ NewInfo.on /\ NewInfo.num = 0
  /\ [NewInfo EXCEPT !.registered = 1] \in Infos
  /\ [NewInfo EXCEPT !.registered = 1].on /\ [NewInfo EXCEPT !.registered = 1].num = 0
  /\ NoNode \in Nodes /\ ~NoNode.listed /\ NoNode.refs = 0 /\ NoNode.ext = <<>>
  /\ NewNode \in Nodes /\ NewNode.listed /\ NewNode.refs = 0 /\ NewNode.ext = <<>>
  /\ 0 \in Ids
<1>1. 0 \in 0..MaxBuffers /\ 0 \in 0..MaxRequests /\ 0 \in 0..(MaxConnections + 1) /\ 0 \in Ids
  BY BCConstantsAssumption DEF Ids
<1>2. <<>> \in Seq(Arrays)
  OBVIOUS
<1>3. NoInfo \in Infos /\ ~NoInfo.on
  BY Zenon DEF NoInfo, Infos
<1>4. NewInfo \in Infos /\ NewInfo.on /\ NewInfo.num = 0
  BY <1>1 DEF NewInfo, Infos
<1>5. LET w == [NewInfo EXCEPT !.registered = 1] IN w \in Infos /\ w.on /\ w.num = 0
  <2>1. NewInfo \in [on : {TRUE}, registered : {0, 1}, ref : 0..2, array : 0..MaxRequests,
                     num : 0..MaxBuffers, type : {"MMAP", "USERPTR"}]
    BY <1>4, InfoFields
  <2> QED BY <1>4, <2>1 DEF Infos
<1>6. NoNode \in Nodes /\ ~NoNode.listed /\ NoNode.refs = 0 /\ NoNode.ext = <<>>
  BY <1>1, <1>2 DEF NoNode, Nodes
<1>7. NewNode \in Nodes /\ NewNode.listed /\ NewNode.refs = 0 /\ NewNode.ext = <<>>
  BY <1>1, <1>2 DEF NoNode, NewNode, Nodes
<1> QED BY <1>1, <1>3, <1>4, <1>5, <1>6, <1>7

\* What the driver's record of a device holds.
LEMMA NodeFields ==
  ASSUME NEW v \in Nodes
  PROVE  /\ v.listed \in BOOLEAN /\ v.refs \in 0..(MaxConnections + 1)
         /\ v.count \in 0..MaxBuffers /\ v.ext \in Seq(Arrays) /\ Len(v.ext) \in Nat
<1>1. v.ext \in Seq(Arrays)
  BY DEF Nodes
<1> QED BY <1>1 DEF Nodes

-----------------------------------------------------------------------------
(***************************************************************************)
(* Counting connections.                                                   *)
(***************************************************************************)

\* There are finitely many connections to a device.
LEMMA BCFinite ==
  ASSUME NEW d
  PROVE  /\ IsFiniteSet(ConnectionsTo(d))
         /\ Cardinality(ConnectionsTo(d)) \in 0..MaxConnections
         /\ Cardinality(ConnectionsTo(d)) = 0 <=> ConnectionsTo(d) = {}
<1>1. IsFiniteSet(BCConnIds) /\ Cardinality(BCConnIds) = MaxConnections
  BY FS_Interval, BCConstantsAssumption DEF BCConnIds
<1>2. ConnectionsTo(d) \subseteq BCConnIds
  BY DEF ConnectionsTo
<1>3. IsFiniteSet(ConnectionsTo(d)) /\ Cardinality(ConnectionsTo(d)) <= MaxConnections
  BY <1>1, <1>2, FS_Subset
<1> QED BY <1>3, FS_CardinalityType, FS_EmptySet, BCConstantsAssumption

\* BCConnected adds one connection, to its device only.
LEMMA BCConnectionAdded ==
  ASSUME BCTypeOK, NEW c \in Clients, NEW d \in Ids, BCConnected(c, d)
  PROVE  /\ Cardinality(ConnectionsTo(d))' = Cardinality(ConnectionsTo(d)) + 1
         /\ Cardinality(ConnectionsTo(d)) < MaxConnections
         /\ \A e \in Ids \ {d} : ConnectionsTo(e)' = ConnectionsTo(e)
         /\ bcConn' \in [BCConnIds -> [state : {"free", "open", "unregistered", "lost"},
                                       client : Clients \cup {NoClient}, dev : Ids]]
         /\ bcCall' = NoCall
<1>1. PICK i \in BCFresh, s \in {"open", "unregistered"} :
         bcConn' = [bcConn EXCEPT ![i] = [state |-> s, client |-> c, dev |-> d]]
  BY DEF BCConnected
<1>2. i \in BCConnIds /\ bcConn[i].state = "free"
  BY DEF BCFresh
<1>3. i \notin ConnectionsTo(d) /\ ConnectionsTo(d)' = ConnectionsTo(d) \cup {i}
  BY <1>1, <1>2 DEF ConnectionsTo, BCTypeOK
<1>4. \A e \in Ids \ {d} : ConnectionsTo(e)' = ConnectionsTo(e)
  BY <1>1, <1>2 DEF ConnectionsTo, BCTypeOK
<1>5. Cardinality(ConnectionsTo(d))' = Cardinality(ConnectionsTo(d)) + 1
  BY <1>3, BCFinite, FS_AddElement
<1>6. Cardinality(ConnectionsTo(d)) < MaxConnections
  <2>1. ConnectionsTo(d) \cup {i} \subseteq BCConnIds
    BY <1>2 DEF ConnectionsTo
  <2>2. IsFiniteSet(BCConnIds) /\ Cardinality(BCConnIds) = MaxConnections
    BY FS_Interval, BCConstantsAssumption DEF BCConnIds
  <2>3. Cardinality(ConnectionsTo(d) \cup {i}) <= MaxConnections
    BY <2>1, <2>2, FS_Subset
  <2>4. Cardinality(ConnectionsTo(d) \cup {i}) = Cardinality(ConnectionsTo(d)) + 1
    BY <1>3, BCFinite, FS_AddElement
  <2> QED BY <2>3, <2>4, BCFinite, BCConstantsAssumption
<1> QED BY <1>1, <1>2, <1>4, <1>5, <1>6 DEF BCConnected, BCTypeOK

\* A connection that is closed counts one less, for its device only.
LEMMA BCConnectionRemoved ==
  ASSUME BCTypeOK, NEW i \in BCConnIds, bcConn[i].state # "free", NEW d, d = bcConn[i].dev,
         bcConn' = [bcConn EXCEPT ![i] = NoConn]
  PROVE  /\ Cardinality(ConnectionsTo(d))' = Cardinality(ConnectionsTo(d)) - 1
         /\ Cardinality(ConnectionsTo(d)) > 0
         /\ \A e \in Ids \ {d} : ConnectionsTo(e)' = ConnectionsTo(e)
         /\ bcConn' \in [BCConnIds -> [state : {"free", "open", "unregistered", "lost"},
                                       client : Clients \cup {NoClient}, dev : Ids]]
<1>1. i \in ConnectionsTo(d) /\ ConnectionsTo(d)' = ConnectionsTo(d) \ {i}
  BY DEF ConnectionsTo, BCTypeOK, NoConn
<1>2. \A e \in Ids \ {d} : ConnectionsTo(e)' = ConnectionsTo(e)
  BY DEF ConnectionsTo, BCTypeOK, NoConn
<1>3. Cardinality(ConnectionsTo(d)) > 0
  BY <1>1, BCFinite
<1>4. Cardinality(ConnectionsTo(d))' = Cardinality(ConnectionsTo(d)) - 1
  BY <1>1, BCFinite, FS_RemoveElement
<1> QED BY <1>2, <1>3, <1>4, NewRecords DEF NoConn, BCTypeOK

-----------------------------------------------------------------------------
(***************************************************************************)
(* The steps that leave the driver's records alone.                        *)
(***************************************************************************)

\* The account depends on the driver's own records only.
LEMMA AccountFrame ==
  ASSUME BInv, UNCHANGED <<psBCInfo, bcSyncs, bcConn, bcCall>>
  PROVE  BCAccountExact' /\ FirstOpen'
<1>1. \A d \in Ids : ConnectionsTo(d)' = ConnectionsTo(d)
  BY DEF ConnectionsTo
<1>2. BCAccountExact'
  BY <1>1 DEF BInv, BCAccountExact, Counted
<1>3. FirstOpen'
  BY DEF BInv, FirstOpen
<1> QED BY <1>2, <1>3

\* What an oops leaves: everything else.
LEMMA BCOopsPreserves == ASSUME BInv, BCOops PROVE BInv'
<1>1. UNCHANGED <<providerVars, bcFiles, serviceVars, bcCall, bcMaps, bcEnv>> /\ bcOops' = TRUE
  BY DEF BCOops
<1> USE <1>1 DEF providerVars, memoryVars, serviceVars
<1>2. BCTypeOK'
  BY DEF BInv, BCTypeOK
<1>3. BCAccountExact' /\ FirstOpen'
  BY AccountFrame
<1>4. ListedHasInfo' /\ NotYetListed' /\ BuffersHaveArray'
  BY DEF BInv, ListedHasInfo, NotYetListed, BuffersHaveArray
<1> QED BY <1>2, <1>3, <1>4 DEF BInv
\* A devinfo is replaced by another.
LEMMA InfoReplaced ==
  ASSUME BInv, NEW d \in Ids, NEW w \in Infos, w.on, w.num > 0 => w.array # 0,
         device' = [device EXCEPT ![d] = w]
  PROVE  /\ device' \in [Ids -> Infos] /\ BuffersHaveArray'
         /\ \A e \in Ids : device[e].on => device'[e].on
BY DEF BInv, BCTypeOK, BuffersHaveArray

\* A file operation of bc_cat changes devinfos and buffers, nothing of the driver.
LEMMA FilePreserves == ASSUME BInv, NEW d \in Ids, BCFileNext(d) PROVE BInv'
<1> USE DEF providerVars, memoryVars, serviceVars, BCHealthy
<1>0. BCTypeOK /\ device \in [Ids -> Infos] /\ ListedHasInfo /\ NotYetListed /\ BuffersHaveArray
  BY DEF BInv, BCTypeOK
<1>1. CASE bc_open(d)
  <2>1. PICK r \in {1, 2}, n \in 0..2 : /\ device' = [device EXCEPT ![d].ref = r]
                                        /\ bcFiles' = [bcFiles EXCEPT ![d] = n]
    <3>1. bcFiles[d] \in 0..2
      BY <1>0 DEF BCTypeOK
    <3> QED BY <1>1, <3>1 DEF bc_open
  <2>2. device[d].on /\ device[d] \in Infos
    BY <1>0, <1>1 DEF bc_open
  <2>3. device' = [device EXCEPT ![d] = [device[d] EXCEPT !.ref = r]]
    BY <2>1
  <2>4. device' \in [Ids -> Infos] /\ BuffersHaveArray' /\ \A e \in Ids : device[e].on => device'[e].on
    <3>1. device[d].num > 0 => device[d].array # 0
      BY <1>0, <2>2 DEF BuffersHaveArray
    <3>2. r \in 0..2
      BY <2>1
    <3> HIDE <2>1, <1>0
    <3> QED BY <2>2, <2>3, <3>1, <3>2, InfoRef, InfoReplaced
  <2>5. UNCHANGED <<bcModule, inserts, memoryVars, serviceVars, bcCall, bcMaps, bcOops, bcEnv>>
    BY <1>1 DEF bc_open
  <2>6. BCTypeOK'
    BY <1>0, <2>1, <2>4, <2>5 DEF BCTypeOK
  <2>7. ListedHasInfo' /\ NotYetListed'
    BY <1>0, <2>4, <2>5 DEF ListedHasInfo, NotYetListed
  <2> QED BY <2>4, <2>5, <2>6, <2>7, AccountFrame DEF BInv
<1>2. CASE bc_release(d)
  <2>1. bcFiles' \in [Ids -> 0..2]
    BY <1>0, <1>2 DEF bc_release, BCTypeOK
  <2>2. device' \in [Ids -> Infos] /\ BuffersHaveArray' /\ \A e \in Ids : device[e].on => device'[e].on
    <3>1. CASE device[d].on /\ device[d].ref > 0
      <4>1. device[d].ref - 1 \in 0..2 /\ device[d] \in Infos
        <5>1. device[d] \in Infos
          BY <1>0
        <5>2. device[d].ref \in 0..2
          BY <3>1, <5>1, InfoFields
        <5> QED BY <3>1, <5>1, <5>2
      <4>2. device' = [device EXCEPT ![d] = [device[d] EXCEPT !.ref = device[d].ref - 1]]
        BY <1>2, <3>1 DEF bc_release
      <4>3. device[d].num > 0 => device[d].array # 0
        BY <1>0, <3>1 DEF BuffersHaveArray
      <4> QED BY <3>1, <4>1, <4>2, <4>3, InfoRef, InfoReplaced
    <3>2. CASE ~(device[d].on /\ device[d].ref > 0)
      BY <1>0, <1>2, <3>2 DEF bc_release, BuffersHaveArray
    <3> QED BY <3>1, <3>2
  <2>3. UNCHANGED <<bcModule, inserts, memoryVars, serviceVars, bcCall, bcMaps, bcOops, bcEnv>>
    BY <1>2 DEF bc_release
  <2>4. BCTypeOK'
    BY <1>0, <2>1, <2>2, <2>3 DEF BCTypeOK
  <2>5. ListedHasInfo' /\ NotYetListed'
    BY <1>0, <2>2, <2>3 DEF ListedHasInfo, NotYetListed
  <2> QED BY <2>2, <2>3, <2>4, <2>5, AccountFrame DEF BInv
<1>3. CASE BC_CreateBuffers(d)
  <2>1. requests' \in Arrays /\ requests' \in 0..MaxRequests /\ requests' # 0
    <3>1. requests' = requests + 1 /\ requests < MaxRequests /\ requests \in 0..MaxRequests
      BY <1>0, <1>3 DEF BC_CreateBuffers, BCTypeOK
    <3> QED BY <3>1, BCConstantsAssumption DEF Arrays
  <2>2. device[d].on /\ device[d] \in Infos
    BY <1>0, <1>3 DEF BC_CreateBuffers
  <2>3. PICK left \in {BC_DestroyBuffers(device[d])}, type \in {"MMAP", "USERPTR"} :
          \/ \E n \in 1..MaxBuffers, made \in 0..MaxBuffers :
               /\ arrays' = left[1] \cup {requests'}
               /\ frames' = left[2] \cup (IF type = "MMAP" THEN {requests'} \X (1..made) ELSE {})
               /\ device' = [device EXCEPT ![d].array = requests', ![d].num = made, ![d].type = type]
          \/ /\ arrays' = left[1] /\ frames' = left[2]
             /\ device' = [device EXCEPT ![d].array = 0, ![d].num = 0, ![d].type = type]
    BY <1>3 DEF BC_CreateBuffers
  <2>4. left[1] \subseteq Arrays /\ left[2] \subseteq Buffers
    <3>1. left = <<arrays, frames>>
          \/ left = <<arrays \ {device[d].array}, frames \ OwnBuffers(device[d])>>
      BY <2>3 DEF BC_DestroyBuffers
    <3>2. arrays \subseteq Arrays /\ frames \subseteq Buffers
      BY <1>0 DEF BCTypeOK
    <3> QED BY <3>1, <3>2
  <2>5. arrays' \subseteq Arrays /\ frames' \subseteq Buffers
    <3>1. \A made \in 0..MaxBuffers : {requests'} \X (1..made) \subseteq Buffers
      BY <2>1, BCConstantsAssumption DEF Buffers
    <3> QED BY <2>1, <2>3, <2>4, <3>1
  <2>6. foreign' \subseteq Buffers /\ bcOops' \in BOOLEAN
    BY <1>0, <1>3 DEF BC_CreateBuffers, ForgetFreed, BCTypeOK, FreesForeign
  <2>7. PICK a \in 0..MaxRequests, n \in 0..MaxBuffers :
           /\ n > 0 => a # 0
           /\ device' = [device EXCEPT ![d] = [device[d] EXCEPT !.array = a, !.num = n, !.type = type]]
    <3>1. 0 \in 0..MaxRequests /\ 0 \in 0..MaxBuffers
      BY BCConstantsAssumption
    <3>2. CASE device' = [device EXCEPT ![d].array = 0, ![d].num = 0, ![d].type = type]
      <4>1. device' = [device EXCEPT ![d] = [device[d] EXCEPT !.array = 0, !.num = 0, !.type = type]]
        BY <3>2
      <4>2. 0 > 0 => 0 # 0
        OBVIOUS
      <4> QED BY <3>1, <4>1, <4>2, Zenon
    <3>3. ASSUME NEW made \in 0..MaxBuffers,
                 device' = [device EXCEPT ![d].array = requests', ![d].num = made, ![d].type = type]
          PROVE  \E a \in 0..MaxRequests, n \in 0..MaxBuffers :
                   /\ n > 0 => a # 0
                   /\ device' = [device EXCEPT ![d] = [device[d] EXCEPT !.array = a, !.num = n, !.type = type]]
      BY <2>1, <3>3
    <3> QED BY <2>3, <3>2, <3>3
  <2>8. device' \in [Ids -> Infos] /\ BuffersHaveArray' /\ \A e \in Ids : device[e].on => device'[e].on
    <3>0. PICK w : w = [device[d] EXCEPT !.array = a, !.num = n, !.type = type]
      OBVIOUS
    <3>1. w \in Infos /\ w.on /\ w.array = a /\ w.num = n
      <4>1. a \in 0..MaxRequests /\ n \in 0..MaxBuffers /\ type \in {"MMAP", "USERPTR"}
        BY <2>3, <2>7
      <4>2. device[d] \in [on : {TRUE}, registered : {0, 1}, ref : 0..2, array : 0..MaxRequests,
                           num : 0..MaxBuffers, type : {"MMAP", "USERPTR"}]
        BY <2>2, InfoFields
      <4> QED BY <3>0, <4>1, <4>2 DEF Infos
    <3>2. device' = [device EXCEPT ![d] = w] /\ (w.num > 0 => w.array # 0)
      BY <2>7, <3>0, <3>1
    <3> QED BY <3>1, <3>2, InfoReplaced
  <2>9. UNCHANGED <<bcModule, inserts, bcFiles, serviceVars, bcCall, bcMaps, bcEnv>>
    BY <1>3 DEF BC_CreateBuffers
  <2>10. BCTypeOK'
    BY <1>0, <2>1, <2>5, <2>6, <2>8, <2>9 DEF BCTypeOK
  <2>11. ListedHasInfo' /\ NotYetListed'
    BY <1>0, <2>8, <2>9 DEF ListedHasInfo, NotYetListed
  <2> QED BY <2>8, <2>9, <2>10, <2>11, AccountFrame DEF BInv
<1>4. CASE BCSetBufferPhyAddr(d)
  <2>1. device[d].on /\ device[d] \in Infos
    BY <1>0, <1>4 DEF BCSetBufferPhyAddr
  <2>2. PICK k \in 1..device[d].num : foreign' = foreign \cup {<<device[d].array, k>>}
    BY <1>4 DEF BCSetBufferPhyAddr
  <2>3. k \in 1..MaxBuffers /\ device[d].array \in Arrays
    <3>1. device[d].array \in 0..MaxRequests /\ device[d].num \in 0..MaxBuffers
      BY <2>1, InfoFields
    <3>2. device[d].num > 0 => device[d].array # 0
      BY <1>0, <2>1 DEF BuffersHaveArray
    <3> QED BY <2>2, <3>1, <3>2, BCConstantsAssumption DEF Arrays
  <2>4. foreign' \subseteq Buffers
    BY <1>0, <2>2, <2>3 DEF BCTypeOK, Buffers
  <2>5. UNCHANGED <<bcModule, inserts, device, bcFiles, requests, arrays, frames,
                    serviceVars, bcCall, bcMaps, bcOops, bcEnv>>
    BY <1>4 DEF BCSetBufferPhyAddr
  <2>6. BCTypeOK'
    BY <1>0, <2>4, <2>5 DEF BCTypeOK
  <2>7. ListedHasInfo' /\ NotYetListed' /\ BuffersHaveArray'
    BY <1>0, <2>5 DEF ListedHasInfo, NotYetListed, BuffersHaveArray
  <2> QED BY <2>5, <2>6, <2>7, AccountFrame DEF BInv
<1>5. CASE StaleFile(d)
  BY <1>5, BCOopsPreserves DEF StaleFile
<1> QED BY <1>1, <1>2, <1>3, <1>4, <1>5 DEF BCFileNext
\* bc_cat_init starts.
LEMMA InitPreserves == ASSUME BInv, bc_cat_init PROVE BInv'
<1> USE DEF providerVars, memoryVars, serviceVars, BCHealthy
<1>1. device' \in [Ids -> Infos] /\ \A d \in Ids : ~device'[d].on
  BY NewRecords DEF bc_cat_init
<1>2. bcModule' = [at |-> "init", id |-> 0] /\ inserts' \in 0..MaxInserts
  BY BCConstantsAssumption DEF bc_cat_init, BInv, BCTypeOK
<1>3. \A d \in Ids : ~psBCInfo[d].listed
  BY DEF bc_cat_init
<1>4. UNCHANGED <<bcFiles, memoryVars, serviceVars, bcCall, bcMaps, bcOops, bcEnv>>
  BY DEF bc_cat_init
<1>5. BCTypeOK'
  BY <1>1, <1>2, <1>4, NewRecords DEF BInv, BCTypeOK
<1>6. ListedHasInfo' /\ NotYetListed' /\ BuffersHaveArray'
  BY <1>1, <1>3, <1>4 DEF ListedHasInfo, NotYetListed, BuffersHaveArray
<1> QED BY <1>4, <1>5, <1>6, AccountFrame DEF BInv

\* NextDevice goes through the devices in order.
LEMMA NextDeviceSteps ==
  ASSUME BCTypeOK, NEW stage \in {"init", "undo", "destroy"},
         NextDevice(stage, IF stage = "undo" THEN 0 ELSE DEVICE_COUNT - 1)
  PROVE  /\ bcModule' \in [at : {"out", "init", "undo", "live", "destroy", "unregister"}, id : Ids]
         /\ bcModule'.at = "init" => stage = "init" /\ bcModule'.id = bcModule.id + 1
<1>1. bcModule.id \in 0..(DEVICE_COUNT - 1) /\ DEVICE_COUNT \in Nat
  BY BCConstantsAssumption DEF BCTypeOK, Ids
<1>2. CASE bcModule.id = (IF stage = "undo" THEN 0 ELSE DEVICE_COUNT - 1)
  BY <1>2, NewRecords DEF NextDevice
<1>3. CASE bcModule.id # (IF stage = "undo" THEN 0 ELSE DEVICE_COUNT - 1)
  <2>1. bcModule' = [at |-> stage, id |-> IF stage = "undo" THEN bcModule.id - 1 ELSE bcModule.id + 1]
    BY <1>3 DEF NextDevice
  <2>2. (IF stage = "undo" THEN bcModule.id - 1 ELSE bcModule.id + 1) \in Ids
    BY <1>1, <1>3 DEF Ids
  <2> QED BY <2>1, <2>2
<1> QED BY <1>2, <1>3

\* A record without references has no account to keep.
LEMMA NoReferences ==
  ASSUME BInv, NEW d \in Ids, psBCInfo[d].refs = 0
  PROVE  /\ Cardinality(ConnectionsTo(d)) = 0 /\ Counted(d) = 0
         /\ bcSyncs[d] = 0 /\ psBCInfo[d].ext = <<>>
<1>1. Cardinality(ConnectionsTo(d)) \in Nat /\ Counted(d) \in {0, 1}
  BY BCFinite DEF Counted
<1>2. psBCInfo[d].refs = Cardinality(ConnectionsTo(d)) + Counted(d)
  BY DEF BInv, BCAccountExact
<1>3. bcSyncs[d] = 0 /\ bcSyncs[d] = Len(psBCInfo[d].ext)
  BY DEF BInv, BCAccountExact
<1>4. psBCInfo[d].ext \in Seq(Arrays)
  BY DEF BInv, BCTypeOK, Nodes
<1> QED BY <1>1, <1>2, <1>3, <1>4

\* A record without references is replaced by one that is new, or none.
LEMMA NodeReplaced ==
  ASSUME BInv, NEW d \in Ids, psBCInfo[d].refs = 0, NEW w \in {NoNode, NewNode},
         psBCInfo' = [psBCInfo EXCEPT ![d] = w], UNCHANGED <<bcSyncs, bcConn, bcCall>>
  PROVE  /\ psBCInfo' \in [Ids -> Nodes]
         /\ BCAccountExact'
         /\ FirstOpen'
<1>1. w \in Nodes /\ w.refs = 0 /\ w.ext = <<>>
  BY NewRecords
<1>2. psBCInfo \in [Ids -> Nodes] /\ bcCall.dev \in Ids
  BY DEF BInv, BCTypeOK
<1>3. psBCInfo' \in [Ids -> Nodes]
  BY <1>1, <1>2
<1>4. \A e \in Ids : ConnectionsTo(e)' = ConnectionsTo(e) /\ Counted(e)' = Counted(e)
  BY DEF ConnectionsTo, Counted
<1>5. psBCInfo'[d] = w /\ \A e \in Ids \ {d} : psBCInfo'[e] = psBCInfo[e]
  BY <1>2
<1>6. BCAccountExact'
  BY <1>1, <1>4, <1>5, NoReferences DEF BInv, BCAccountExact
<1>7. FirstOpen'
  BY <1>2, <1>5, NoReferences DEF BInv, FirstOpen, Counted
<1> QED BY <1>3, <1>6, <1>7
\* A step of bc_cat_init, delete_bc_cat or bc_cat_cleanup.
LEMMA BCModulePreserves == ASSUME BInv, BCModuleNext PROVE BInv'
<1> USE DEF providerVars, memoryVars, serviceVars, BCHealthy
<1>0. /\ BCTypeOK /\ device \in [Ids -> Infos] /\ psBCInfo \in [Ids -> Nodes]
      /\ bcModule \in [at : {"out", "init", "undo", "live", "destroy", "unregister"}, id : Ids]
      /\ bcModule.id \in Ids
      /\ BCAccountExact /\ ListedHasInfo /\ NotYetListed /\ BuffersHaveArray
  BY DEF BInv, BCTypeOK
<1>1. ASSUME NEW d \in Ids, ~psBCInfo[d].listed
      PROVE  psBCInfo[d].refs = 0
  <2>1. psBCInfo[d].refs \in 0..(MaxConnections + 1)
    BY <1>0 DEF Nodes
  <2> QED BY <1>0, <1>1, <2>1 DEF BCAccountExact
<1>2. CASE BC_Register
  <2>1. PICK d \in Ids : d = bcModule.id
    BY <1>0
  <2>2. ~psBCInfo[d].listed /\ psBCInfo[d].refs = 0
    <3>1. d \in Int /\ ~psBCInfo[d].listed
      BY <1>0, <1>2, <2>1 DEF BC_Register, NotYetListed, Ids
    <3> QED BY <1>1, <3>1
  <2>3. PICK w \in Infos : w = [NewInfo EXCEPT !.registered = 1] /\ w.on /\ w.num = 0
    BY NewRecords
  <2>4. device' = [device EXCEPT ![d] = w] /\ psBCInfo' = [psBCInfo EXCEPT ![d] = NewNode]
    BY <1>2, <2>1, <2>3 DEF BC_Register
  <2>5. /\ device' \in [Ids -> Infos] /\ BuffersHaveArray'
        /\ device'[d].on /\ \A e \in Ids : device[e].on => device'[e].on
    <3>1. w.num > 0 => w.array # 0
      BY <2>3
    <3>2. device'[d] = w
      BY <1>0, <2>4
    <3> QED BY <2>3, <2>4, <3>1, <3>2, InfoReplaced
  <2>6. UNCHANGED <<inserts, bcFiles, memoryVars, bcSyncs, bcConn, bcCall, bcMaps, bcOops, bcEnv>>
    BY <1>2 DEF BC_Register
  <2>7. psBCInfo' \in [Ids -> Nodes] /\ BCAccountExact' /\ FirstOpen'
    BY <2>2, <2>4, <2>6, NodeReplaced
  <2>8. /\ bcModule' \in [at : {"out", "init", "undo", "live", "destroy", "unregister"}, id : Ids]
        /\ bcModule'.at = "init" => bcModule'.id = bcModule.id + 1
    BY <1>0, <1>2, NextDeviceSteps DEF BC_Register
  <2>9. BCTypeOK'
    BY <1>0, <2>5, <2>6, <2>7, <2>8 DEF BCTypeOK
  <2>10. ListedHasInfo'
    BY <1>0, <2>4, <2>5 DEF ListedHasInfo
  <2>11. NotYetListed'
    BY <1>0, <1>2, <2>1, <2>4, <2>8 DEF BC_Register, NotYetListed, Ids
  <2> QED BY <2>5, <2>7, <2>9, <2>10, <2>11 DEF BInv
<1>3. CASE BC_RegisterFails
  <2>1. PICK w \in {NoInfo, NewInfo} : device' = [device EXCEPT ![bcModule.id] = w]
    BY <1>3 DEF BC_RegisterFails
  <2>2. w \in Infos /\ (w.on => w.num = 0)
    BY NewRecords
  <2>3. device' \in [Ids -> Infos] /\ BuffersHaveArray'
    BY <1>0, <2>1, <2>2 DEF BuffersHaveArray
  <2>4. bcModule' \in [at : {"live", "undo"}, id : {0}]
    BY <1>3 DEF BC_RegisterFails
  <2>5. UNCHANGED <<inserts, bcFiles, memoryVars, serviceVars, bcCall, bcMaps, bcOops, bcEnv>>
    BY <1>3 DEF BC_RegisterFails
  <2>6. BCTypeOK'
    BY <1>0, <2>3, <2>4, <2>5, NewRecords DEF BCTypeOK
  <2>7. ~psBCInfo[bcModule.id].listed
    BY <1>0, <1>3 DEF BC_RegisterFails, NotYetListed, Ids
  <2>8. ListedHasInfo' /\ NotYetListed'
    BY <1>0, <2>1, <2>4, <2>5, <2>7 DEF ListedHasInfo, NotYetListed
  <2> QED BY <2>3, <2>5, <2>6, <2>8, AccountFrame DEF BInv
<1>4. ASSUME NEW s \in {"undo", "destroy", "unregister"}, NEW i \in Ids,
             bcModule' = [at |-> s, id |-> i],
             UNCHANGED <<inserts, device, bcFiles, memoryVars, serviceVars, bcCall, bcMaps, bcOops, bcEnv>>
      PROVE  BInv'
  <2>1. BCTypeOK'
    BY <1>0, <1>4 DEF BCTypeOK
  <2>2. ListedHasInfo' /\ NotYetListed' /\ BuffersHaveArray'
    BY <1>0, <1>4 DEF ListedHasInfo, NotYetListed, BuffersHaveArray
  <2> QED BY <1>4, <2>1, <2>2, AccountFrame DEF BInv
<1>5. CASE DeviceCreateFails
  <2>1. bcModule' = [at |-> "undo", id |-> bcModule.id]
    BY <1>0, <1>5 DEF DeviceCreateFails
  <2> QED BY <1>0, <1>4, <1>5, <2>1 DEF DeviceCreateFails
<1>6. CASE delete_bc_cat
  BY <1>4, <1>6, NewRecords DEF delete_bc_cat
<1>7. ASSUME BC_Unregister(bcModule.id),
             bcModule' \in [at : {"out", "undo", "destroy", "live"}, id : Ids],
             UNCHANGED <<inserts, bcFiles, memoryVars, bcSyncs, bcConn, bcCall, bcMaps, bcOops, bcEnv>>
      PROVE  BInv'
  <2>1. PICK d \in Ids : d = bcModule.id
    BY <1>0
  <2>2. CASE psBCInfo[d].refs = 0 /\ psBCInfo' = [psBCInfo EXCEPT ![d] = NoNode]
               /\ device' = [device EXCEPT ![d] = NoInfo]
    <3>1. device' \in [Ids -> Infos] /\ BuffersHaveArray'
      BY <1>0, <2>2, NewRecords DEF BuffersHaveArray
    <3>2. psBCInfo' \in [Ids -> Nodes] /\ BCAccountExact' /\ FirstOpen'
      BY <1>7, <2>2, NodeReplaced
    <3>3. BCTypeOK'
      BY <1>0, <1>7, <3>1, <3>2 DEF BCTypeOK
    <3>4. ListedHasInfo' /\ NotYetListed'
      BY <1>0, <1>7, <2>2, NewRecords DEF ListedHasInfo, NotYetListed
    <3> QED BY <3>1, <3>2, <3>3, <3>4 DEF BInv
  <2>3. CASE UNCHANGED <<psBCInfo, device>>
    <3>1. BCTypeOK'
      BY <1>0, <1>7, <2>3 DEF BCTypeOK
    <3>2. ListedHasInfo' /\ NotYetListed' /\ BuffersHaveArray'
      BY <1>0, <1>7, <2>3 DEF ListedHasInfo, NotYetListed, BuffersHaveArray
    <3> QED BY <1>7, <2>3, <3>1, <3>2, AccountFrame DEF BInv
  <2> QED BY <1>7, <2>1, <2>2, <2>3 DEF BC_Unregister, PVRSRVRemoveBCDeviceKM
<1>8. CASE InitUndoes
  <2>1. bcModule' \in [at : {"out", "undo", "destroy", "live"}, id : Ids]
    BY <1>0, <1>8, NextDeviceSteps DEF InitUndoes, NextDevice
  <2> QED BY <1>7, <1>8, <2>1 DEF InitUndoes
<1>9. CASE CleanupUnregisters
  <2>1. bcModule' \in [at : {"out", "undo", "destroy", "live"}, id : Ids]
    BY <1>0, <1>9, NextDeviceSteps DEF CleanupUnregisters, NextDevice
  <2> QED BY <1>7, <1>9, <2>1 DEF CleanupUnregisters
<1>10. CASE CleanupDestroysBuffers
  <2>1. PICK d \in Ids : d = bcModule.id
    BY <1>0
  <2>2. bcModule' = [at |-> "unregister", id |-> d]
    BY <1>0, <1>10, <2>1 DEF CleanupDestroysBuffers
  <2>3. UNCHANGED <<inserts, bcFiles, requests, serviceVars, bcCall, bcMaps, bcEnv>>
    BY <1>10 DEF CleanupDestroysBuffers
  <2>4. CASE device[d].on
    <3>1. device[d] \in Infos /\ Emptied(device[d]) \in Infos /\ Emptied(device[d]).on
             /\ Emptied(device[d]).num = 0
      BY <1>0, <2>4, InfoEmptied
    <3>2. PICK left \in {BC_DestroyBuffers(device[d])} :
            /\ arrays' = left[1] /\ frames' = left[2]
            /\ device' = [device EXCEPT ![d] = Emptied(device[d])]
            /\ bcOops' = FreesForeign(device[d])
            /\ ForgetFreed
      BY <1>10, <2>1, <2>4 DEF CleanupDestroysBuffers
    <3>3. left = <<arrays, frames>>
          \/ left = <<arrays \ {device[d].array}, frames \ OwnBuffers(device[d])>>
      BY <3>2 DEF BC_DestroyBuffers
    <3>4. arrays' \subseteq Arrays /\ frames' \subseteq Buffers
      BY <1>0, <3>2, <3>3 DEF BCTypeOK
    <3>5. foreign' \subseteq Buffers /\ bcOops' \in BOOLEAN
      BY <1>0, <3>2 DEF ForgetFreed, FreesForeign, BCTypeOK
    <3>6. /\ device' \in [Ids -> Infos] /\ BuffersHaveArray'
          /\ \A e \in Ids : device[e].on => device'[e].on
      <4>1. PICK w \in Infos : w = Emptied(device[d])
        BY <3>1
      <4>2. w.on /\ (w.num > 0 => w.array # 0) /\ device' = [device EXCEPT ![d] = w]
        BY <3>1, <3>2, <4>1
      <4> QED BY <4>2, InfoReplaced
    <3>7. BCTypeOK'
      BY <1>0, <2>2, <2>3, <3>4, <3>5, <3>6 DEF BCTypeOK
    <3>8. ListedHasInfo' /\ NotYetListed'
      BY <1>0, <2>2, <2>3, <3>6 DEF ListedHasInfo, NotYetListed
    <3> QED BY <2>3, <3>6, <3>7, <3>8, AccountFrame DEF BInv
  <2>5. CASE ~device[d].on
    BY <1>4, <1>10, <2>1, <2>2, <2>3, <2>5 DEF CleanupDestroysBuffers
  <2> QED BY <2>4, <2>5
<1>11. CASE bc_cat_init
  BY <1>11, InitPreserves
<1> QED BY <1>2, <1>3, <1>5, <1>6, <1>8, <1>9, <1>10, <1>11 DEF BCModuleNext
-----------------------------------------------------------------------------
(***************************************************************************)
(* The steps of the driver.                                                *)
(***************************************************************************)

\* The parts of the invariant that a step of the driver, which changes no
\* devinfo and no buffer, has to keep.
LEMMA DriverFrame ==
  ASSUME BInv, UNCHANGED <<bcModule, inserts, device, requests, arrays, frames, foreign, bcFiles,
                           bcOops, bcEnv>>,
         psBCInfo' \in [Ids -> Nodes], \A d \in Ids : psBCInfo'[d].listed = psBCInfo[d].listed,
         bcSyncs' \in [Ids -> Nat],
         bcConn' \in [BCConnIds -> [state : {"free", "open", "unregistered", "lost"},
                                   client : Clients \cup {NoClient}, dev : Ids]],
         bcCall' \in [op : {"none", "found", "buffers", "release"},
                     client : Clients \cup {NoClient}, dev : Ids],
         bcMaps' \subseteq Clients \X Buffers,
         BCAccountExact', FirstOpen'
  PROVE  BInv'
<1>1. BCTypeOK'
  BY DEF BInv, BCTypeOK
<1>2. ListedHasInfo' /\ NotYetListed' /\ BuffersHaveArray'
  BY DEF BInv, ListedHasInfo, NotYetListed, BuffersHaveArray
<1> QED BY <1>1, <1>2 DEF BInv

\* The record of a device that nobody uses any more.
LEMMA EmptyNode ==
  ASSUME NEW d \in Ids, psBCInfo \in [Ids -> Nodes],
         psBCInfo' = [psBCInfo EXCEPT ![d] =
                        [psBCInfo[d] EXCEPT !.refs = 0, !.count = 0, !.ext = <<>>]]
  PROVE  \E w \in Nodes : /\ psBCInfo' = [psBCInfo EXCEPT ![d] = w]
                          /\ w.refs = 0 /\ w.listed = psBCInfo[d].listed /\ w.ext = <<>>
<1>0. PICK x : x = <<>> /\ x \in Seq(Arrays)
  <2>1. <<>> \in Seq(Arrays)
    OBVIOUS
  <2> QED BY <2>1, Zenon
<1>1. PICK w : w = [psBCInfo[d] EXCEPT !.refs = 0, !.count = 0, !.ext = x]
  OBVIOUS
<1>2. 0 \in 0..(MaxConnections + 1) /\ 0 \in 0..MaxBuffers
  BY BCConstantsAssumption
<1>3. w \in Nodes /\ w.refs = 0 /\ w.listed = psBCInfo[d].listed /\ w.ext = x
  BY <1>0, <1>1, <1>2 DEF Nodes
<1> QED BY <1>0, <1>1, <1>3

\* One step of PVRSRVOpenBCDeviceKM, for a client that has found device d.
LEMMA BCOpenPreserves ==
  ASSUME BInv, NEW c \in Clients, NEW d \in Ids, PVRSRVOpenBCDeviceKM(c, d)
  PROVE  BInv'
<1> USE DEF providerVars, memoryVars, serviceVars, BCHealthy
<1>0. /\ BCTypeOK /\ psBCInfo \in [Ids -> Nodes] /\ psBCInfo[d] \in Nodes
      /\ BCAccountExact /\ ListedHasInfo /\ FirstOpen
      /\ bcSyncs \in [Ids -> Nat] /\ bcMaps \subseteq Clients \X Buffers
      /\ bcConn \in [BCConnIds -> [state : {"free", "open", "unregistered", "lost"},
                                   client : Clients \cup {NoClient}, dev : Ids]]
  BY DEF BInv, BCTypeOK
<1>1. NoCall \in [op : {"none", "found", "buffers", "release"},
                 client : Clients \cup {NoClient}, dev : Ids]
  BY NewRecords DEF NoCall
<1>2. psBCInfo[d].refs \in 0..(MaxConnections + 1) /\ Len(psBCInfo[d].ext) \in Nat
         /\ psBCInfo[d].count \in 0..MaxBuffers
  BY <1>0, NodeFields
<1>3. CASE OpenBCFindsDevice(c, d)
  <2>1. bcCall = NoCall /\ bcCall' = [op |-> "found", client |-> c, dev |-> d]
    BY <1>3 DEF OpenBCFindsDevice
  <2>2. UNCHANGED <<bcModule, inserts, device, requests, arrays, frames, foreign, bcFiles, bcOops,
                    bcEnv, psBCInfo, bcSyncs, bcConn, bcMaps>>
    BY <1>3 DEF OpenBCFindsDevice
  <2>3. \A e \in Ids : ConnectionsTo(e)' = ConnectionsTo(e) /\ Counted(e)' = Counted(e)
    BY <2>1, <2>2 DEF ConnectionsTo, Counted, NoCall
  <2>4. BCAccountExact'
    BY <1>0, <2>2, <2>3 DEF BCAccountExact
  <2>5. FirstOpen'
    BY <2>1 DEF FirstOpen
  <2> QED BY <1>0, <2>1, <2>2, <2>4, <2>5, DriverFrame
<1>4. CASE OpenBCFails(c, d)
  <2>1. bcCall = [op |-> "found", client |-> c, dev |-> d] /\ bcCall' = NoCall
    BY <1>4 DEF OpenBCFails, Found
  <2>2. UNCHANGED <<bcModule, inserts, device, requests, arrays, frames, foreign, bcFiles, bcOops,
                    bcEnv, psBCInfo, bcSyncs, bcConn, bcMaps>>
    BY <1>4 DEF OpenBCFails
  <2>3. \A e \in Ids : ConnectionsTo(e)' = ConnectionsTo(e) /\ Counted(e)' = Counted(e)
    BY <2>1, <2>2 DEF ConnectionsTo, Counted, NoCall
  <2>4. BCAccountExact'
    BY <1>0, <2>2, <2>3 DEF BCAccountExact
  <2>5. FirstOpen'
    BY <2>1 DEF FirstOpen, NoCall
  <2> QED BY <1>0, <1>1, <2>1, <2>2, <2>4, <2>5, DriverFrame
<1>5. CASE OpenBCStale(c, d)
  BY <1>5, BCOopsPreserves DEF OpenBCStale
<1>6. CASE OpenBCAgain(c, d)
  <2>1. /\ bcCall = [op |-> "found", client |-> c, dev |-> d] /\ psBCInfo[d].refs > 0
        /\ psBCInfo' = [psBCInfo EXCEPT ![d] = [psBCInfo[d] EXCEPT !.refs = psBCInfo[d].refs + 1]]
        /\ BCConnected(c, d)
    BY <1>6 DEF OpenBCAgain, Found
  <2>2. UNCHANGED <<bcModule, inserts, device, requests, arrays, frames, foreign, bcFiles, bcOops,
                    bcEnv, bcSyncs, bcMaps>>
    BY <1>6 DEF OpenBCAgain
  <2>3. /\ Cardinality(ConnectionsTo(d))' = Cardinality(ConnectionsTo(d)) + 1
        /\ Cardinality(ConnectionsTo(d)) < MaxConnections
        /\ \A e \in Ids \ {d} : ConnectionsTo(e)' = ConnectionsTo(e)
        /\ bcConn' \in [BCConnIds -> [state : {"free", "open", "unregistered", "lost"},
                                      client : Clients \cup {NoClient}, dev : Ids]]
        /\ bcCall' = NoCall
    BY <1>0, <2>1, BCConnectionAdded
  <2>4. \A e \in Ids : Counted(e) = 0 /\ Counted(e)' = 0
    BY <2>1, <2>3 DEF Counted, NoCall
  <2>5. Cardinality(ConnectionsTo(d)) \in Nat
    BY BCFinite
  <2>6. psBCInfo[d].refs = Cardinality(ConnectionsTo(d))
    BY <1>0, <2>4, <2>5 DEF BCAccountExact
  <2>7. psBCInfo[d].refs + 1 \in 0..(MaxConnections + 1)
    BY <2>3, <2>5, <2>6, BCConstantsAssumption
  <2>8. PICK w \in Nodes : /\ psBCInfo' = [psBCInfo EXCEPT ![d] = w]
                          /\ w.refs = psBCInfo[d].refs + 1 /\ w.listed = psBCInfo[d].listed
                          /\ w.count = psBCInfo[d].count /\ w.ext = psBCInfo[d].ext
    <3>1. PICK w : w = [psBCInfo[d] EXCEPT !.refs = psBCInfo[d].refs + 1]
      OBVIOUS
    <3>2. w \in Nodes /\ w.refs = psBCInfo[d].refs + 1 /\ w.listed = psBCInfo[d].listed
            /\ w.count = psBCInfo[d].count /\ w.ext = psBCInfo[d].ext
      BY <1>0, <2>7, <3>1 DEF Nodes
    <3> QED BY <2>1, <3>1, <3>2
  <2>9. /\ psBCInfo' \in [Ids -> Nodes] /\ psBCInfo'[d] = w
        /\ \A e \in Ids \ {d} : psBCInfo'[e] = psBCInfo[e]
    BY <1>0, <2>8
  <2>10. BCAccountExact'
    BY <1>0, <1>2, <2>1, <2>2, <2>3, <2>4, <2>5, <2>6, <2>8, <2>9 DEF BCAccountExact
  <2>11. FirstOpen'
    BY <2>3 DEF FirstOpen, NoCall
  <2> QED BY <1>0, <1>1, <2>2, <2>3, <2>8, <2>9, <2>10, <2>11, DriverFrame
<1>7. CASE OpenBCFirst(c, d)
  <2>1. /\ bcCall = [op |-> "found", client |-> c, dev |-> d]
        /\ psBCInfo[d].listed /\ psBCInfo[d].refs = 0
        /\ psBCInfo' = [psBCInfo EXCEPT ![d] =
                          [psBCInfo[d] EXCEPT !.refs = 1, !.count = device[d].num, !.ext = <<>>]]
        /\ bcCall' = [bcCall EXCEPT !.op = "buffers"]
    BY <1>7 DEF OpenBCFirst, Found
  <2>2. UNCHANGED <<bcModule, inserts, device, requests, arrays, frames, foreign, bcFiles, bcOops,
                    bcEnv, bcSyncs, bcConn, bcMaps>>
    BY <1>7 DEF OpenBCFirst
  <2>3. device[d].num \in 0..MaxBuffers
    <3>1. device[d].on /\ device[d] \in Infos
      BY <1>0, <2>1 DEF ListedHasInfo, BCTypeOK
    <3> QED BY <3>1, InfoFields
  <2>4. PICK w \in Nodes : /\ psBCInfo' = [psBCInfo EXCEPT ![d] = w]
                          /\ w.refs = 1 /\ w.listed = psBCInfo[d].listed
                          /\ w.count = device[d].num /\ w.ext = <<>>
    <3>1. 1 \in 0..(MaxConnections + 1)
      BY BCConstantsAssumption
    <3>2. PICK x : x = <<>> /\ x \in Seq(Arrays)
      <4>1. <<>> \in Seq(Arrays)
        OBVIOUS
      <4> QED BY <4>1, Zenon
    <3>3. PICK w : w = [psBCInfo[d] EXCEPT !.refs = 1, !.count = device[d].num, !.ext = x]
      OBVIOUS
    <3>4. w \in Nodes /\ w.refs = 1 /\ w.listed = psBCInfo[d].listed
            /\ w.count = device[d].num /\ w.ext = x
      BY <1>0, <2>3, <3>1, <3>2, <3>3 DEF Nodes
    <3> QED BY <2>1, <3>2, <3>3, <3>4
  <2>5. /\ psBCInfo' \in [Ids -> Nodes] /\ psBCInfo'[d] = w
        /\ \A e \in Ids \ {d} : psBCInfo'[e] = psBCInfo[e]
    BY <1>0, <2>4
  <2>6. bcCall' = [op |-> "buffers", client |-> c, dev |-> d]
    BY <2>1
  <2>7. /\ \A e \in Ids : ConnectionsTo(e)' = ConnectionsTo(e)
        /\ \A e \in Ids \ {d} : Counted(e)' = Counted(e)
        /\ Counted(d)' = 1
    BY <2>1, <2>2, <2>6 DEF ConnectionsTo, Counted
  <2>8. Cardinality(ConnectionsTo(d)) = 0 /\ bcSyncs[d] = 0
    BY <2>1, NoReferences
  <2>9. BCAccountExact'
    BY <1>0, <2>1, <2>2, <2>4, <2>5, <2>7, <2>8 DEF BCAccountExact
  <2>10. FirstOpen'
    BY <2>3, <2>4, <2>5, <2>6 DEF FirstOpen
  <2> QED BY <1>0, <2>2, <2>4, <2>5, <2>6, <2>9, <2>10, DriverFrame
<1>8. CASE OpenBCBuffer(c, d)
  <2>1. /\ bcCall = [op |-> "buffers", client |-> c, dev |-> d]
        /\ Len(psBCInfo[d].ext) < psBCInfo[d].count
        /\ Len(psBCInfo[d].ext) + 1 <= device[d].num
        /\ psBCInfo' = [psBCInfo EXCEPT ![d] =
                          [psBCInfo[d] EXCEPT !.ext = Append(psBCInfo[d].ext, device[d].array)]]
        /\ bcSyncs' = [bcSyncs EXCEPT ![d] = bcSyncs[d] + 1]
    BY <1>8 DEF OpenBCBuffer, Collecting, GetBCBuffer
  <2>2. UNCHANGED <<bcModule, inserts, device, requests, arrays, frames, foreign, bcFiles, bcOops,
                    bcEnv, bcConn, bcCall, bcMaps>>
    BY <1>8 DEF OpenBCBuffer
  <2>3. Counted(d) = 1
    BY <2>1 DEF Counted
  <2>4. psBCInfo[d].refs > 0 /\ psBCInfo[d].listed
    <3>1. Cardinality(ConnectionsTo(d)) \in Nat
      BY BCFinite
    <3> QED BY <1>0, <2>3, <3>1 DEF BCAccountExact
  <2>5. device[d].array \in Arrays
    <3>1. device[d].on /\ device[d] \in Infos
      BY <1>0, <2>4 DEF ListedHasInfo, BCTypeOK
    <3>2. device[d].array \in 0..MaxRequests /\ device[d].num \in 0..MaxBuffers
      BY <3>1, InfoFields
    <3>3. device[d].array # 0
      BY <1>2, <2>1, <3>1, <3>2 DEF BInv, BuffersHaveArray
    <3> QED BY <3>2, <3>3, BCConstantsAssumption DEF Arrays
  <2>6. PICK w \in Nodes : /\ psBCInfo' = [psBCInfo EXCEPT ![d] = w]
                          /\ w.refs = psBCInfo[d].refs /\ w.listed = psBCInfo[d].listed
                          /\ w.count = psBCInfo[d].count /\ Len(w.ext) = Len(psBCInfo[d].ext) + 1
    <3>1. PICK x : x = Append(psBCInfo[d].ext, device[d].array)
      OBVIOUS
    <3>2. x \in Seq(Arrays) /\ Len(x) = Len(psBCInfo[d].ext) + 1
      BY <1>0, <2>5, <3>1, NodeFields
    <3>3. PICK w : w = [psBCInfo[d] EXCEPT !.ext = x]
      OBVIOUS
    <3>4. w \in Nodes /\ w.refs = psBCInfo[d].refs /\ w.listed = psBCInfo[d].listed
            /\ w.count = psBCInfo[d].count /\ w.ext = x
      BY <1>0, <3>2, <3>3 DEF Nodes
    <3> QED BY <2>1, <3>1, <3>2, <3>3, <3>4
  <2>7. /\ psBCInfo' \in [Ids -> Nodes] /\ psBCInfo'[d] = w
        /\ \A e \in Ids \ {d} : psBCInfo'[e] = psBCInfo[e]
    BY <1>0, <2>6
  <2>8. /\ bcSyncs' \in [Ids -> Nat] /\ bcSyncs'[d] = bcSyncs[d] + 1
        /\ \A e \in Ids \ {d} : bcSyncs'[e] = bcSyncs[e]
    BY <1>0, <2>1
  <2>9. \A e \in Ids : ConnectionsTo(e)' = ConnectionsTo(e) /\ Counted(e)' = Counted(e)
    BY <2>2 DEF ConnectionsTo, Counted
  <2>10. BCAccountExact'
    <3>1. /\ psBCInfo[d].refs = Cardinality(ConnectionsTo(d)) + Counted(d)
          /\ bcSyncs[d] = Len(psBCInfo[d].ext)
      BY <1>0 DEF BCAccountExact
    <3>2. /\ psBCInfo'[d].refs = Cardinality(ConnectionsTo(d))' + Counted(d)'
          /\ bcSyncs'[d] = Len(psBCInfo'[d].ext) /\ Counted(d)' = 1
          /\ psBCInfo'[d].refs > 0 /\ psBCInfo'[d].listed
      BY <2>3, <2>4, <2>6, <2>7, <2>8, <2>9, <3>1
    <3> QED BY <1>0, <1>2, <2>4, <2>6, <2>7, <2>8, <2>9, <3>2 DEF BCAccountExact
  <2>11. FirstOpen'
    <3>1. bcCall'.dev = d /\ psBCInfo[d].refs = 1
      BY <1>0, <2>1, <2>2 DEF FirstOpen
    <3>2. Len(psBCInfo'[d].ext) <= psBCInfo'[d].count /\ psBCInfo'[d].refs = 1
      BY <1>2, <2>1, <2>6, <2>7, <3>1, BCConstantsAssumption
    <3> QED BY <3>1, <3>2 DEF FirstOpen
  <2> QED BY <1>0, <2>2, <2>6, <2>7, <2>8, <2>10, <2>11, DriverFrame DEF BCTypeOK
<1>9. CASE OpenBCBufferFails(c, d)
  <2>1. /\ bcCall = [op |-> "buffers", client |-> c, dev |-> d]
        /\ psBCInfo' = [psBCInfo EXCEPT ![d] =
                          [psBCInfo[d] EXCEPT !.refs = 0, !.count = 0, !.ext = <<>>]]
        /\ bcSyncs' = [bcSyncs EXCEPT ![d] = 0]
        /\ bcCall' = NoCall
        /\ Len(psBCInfo[d].ext) < psBCInfo[d].count
    BY <1>9 DEF OpenBCBufferFails, Collecting
  <2>2. UNCHANGED <<bcModule, inserts, device, requests, arrays, frames, foreign, bcFiles, bcOops,
                    bcEnv, bcConn, bcMaps>>
    BY <1>9 DEF OpenBCBufferFails
  <2>3. PICK w \in Nodes : /\ psBCInfo' = [psBCInfo EXCEPT ![d] = w]
                          /\ w.refs = 0 /\ w.listed = psBCInfo[d].listed /\ w.ext = <<>>
    BY <1>0, <2>1, EmptyNode
  <2>4. /\ psBCInfo' \in [Ids -> Nodes] /\ psBCInfo'[d] = w
        /\ \A e \in Ids \ {d} : psBCInfo'[e] = psBCInfo[e]
    BY <1>0, <2>3
  <2>5. /\ bcSyncs' \in [Ids -> Nat] /\ bcSyncs'[d] = 0
        /\ \A e \in Ids \ {d} : bcSyncs'[e] = bcSyncs[e]
    BY <1>0, <2>1
  <2>6. Counted(d) = 1 /\ \A e \in Ids : ConnectionsTo(e)' = ConnectionsTo(e) /\ Counted(e)' = 0
    BY <2>1, <2>2 DEF ConnectionsTo, Counted, NoCall
  <2>7. \A e \in Ids \ {d} : Counted(e) = 0
    BY <2>1 DEF Counted
  <2>8. Cardinality(ConnectionsTo(d)) = 0
    <3>1. psBCInfo[d].refs = 1 /\ psBCInfo[d].refs = Cardinality(ConnectionsTo(d)) + Counted(d)
      BY <1>0, <2>1 DEF BCAccountExact, FirstOpen
    <3> QED BY <2>6, <3>1, BCFinite
  <2>9. BCAccountExact'
    BY <1>0, <2>3, <2>4, <2>5, <2>6, <2>7, <2>8 DEF BCAccountExact
  <2>10. FirstOpen'
    BY <2>1 DEF FirstOpen, NoCall
  <2> QED BY <1>0, <1>1, <2>1, <2>2, <2>3, <2>4, <2>5, <2>9, <2>10, DriverFrame
<1>10. CASE OpenBCDone(c, d)
  <2>1. /\ bcCall = [op |-> "buffers", client |-> c, dev |-> d]
        /\ Len(psBCInfo[d].ext) = psBCInfo[d].count
        /\ BCConnected(c, d)
    BY <1>10 DEF OpenBCDone, Collecting
  <2>2. UNCHANGED <<bcModule, inserts, device, requests, arrays, frames, foreign, bcFiles, bcOops,
                    bcEnv, psBCInfo, bcSyncs, bcMaps>>
    BY <1>10 DEF OpenBCDone
  <2>3. /\ Cardinality(ConnectionsTo(d))' = Cardinality(ConnectionsTo(d)) + 1
        /\ \A e \in Ids \ {d} : ConnectionsTo(e)' = ConnectionsTo(e)
        /\ bcConn' \in [BCConnIds -> [state : {"free", "open", "unregistered", "lost"},
                                      client : Clients \cup {NoClient}, dev : Ids]]
        /\ bcCall' = NoCall
    BY <1>0, <2>1, BCConnectionAdded
  <2>4. /\ Counted(d) = 1 /\ \A e \in Ids \ {d} : Counted(e) = 0
        /\ \A e \in Ids : Counted(e)' = 0
    BY <2>1, <2>3 DEF Counted, NoCall
  <2>5. Cardinality(ConnectionsTo(d)) \in Nat
    BY BCFinite
  <2>6. BCAccountExact'
    BY <1>0, <2>1, <2>2, <2>3, <2>4, <2>5 DEF BCAccountExact
  <2>7. FirstOpen'
    BY <2>3 DEF FirstOpen, NoCall
  <2> QED BY <1>0, <1>1, <2>2, <2>3, <2>6, <2>7, DriverFrame
<1> QED BY <1>3, <1>4, <1>5, <1>6, <1>7, <1>8, <1>9, <1>10 DEF PVRSRVOpenBCDeviceKM
\* CloseBCDeviceCallBack, called by an ioctl or by the resource manager.
LEMMA BCClosePreserves ==
  ASSUME BInv, NEW i \in BCConnIds, bcConn[i].state = "open", bcCall.op \in {"none", "release"},
         CloseBCDeviceCallBack(i)
  PROVE  BInv'
<1> USE DEF providerVars, memoryVars, serviceVars, BCHealthy
<1>0. /\ BCTypeOK /\ psBCInfo \in [Ids -> Nodes]
      /\ BCAccountExact /\ ListedHasInfo /\ FirstOpen
      /\ bcSyncs \in [Ids -> Nat] /\ bcMaps \subseteq Clients \X Buffers
      /\ bcCall \in [op : {"none", "found", "buffers", "release"},
                     client : Clients \cup {NoClient}, dev : Ids]
  BY DEF BInv, BCTypeOK
<1>1. PICK d \in Ids : d = bcConn[i].dev
  BY <1>0 DEF BCTypeOK
<1>2. CASE BCOops
  BY <1>2, BCOopsPreserves
<1>3. CASE ~BCOops
  <2>1. /\ bcConn' = [bcConn EXCEPT ![i] = NoConn]
        /\ UNCHANGED <<bcModule, inserts, device, requests, arrays, frames, foreign, bcFiles, bcOops,
                       bcEnv, bcCall, bcMaps>>
        /\ \/ /\ psBCInfo[d].refs = 1
              /\ psBCInfo' = [psBCInfo EXCEPT ![d] =
                                [psBCInfo[d] EXCEPT !.refs = 0, !.count = 0, !.ext = <<>>]]
              /\ bcSyncs' = [bcSyncs EXCEPT ![d] = bcSyncs[d] - psBCInfo[d].count]
           \/ /\ psBCInfo[d].refs # 1
              /\ psBCInfo' = [psBCInfo EXCEPT ![d] =
                                [psBCInfo[d] EXCEPT !.refs = psBCInfo[d].refs - 1]]
              /\ bcSyncs' = bcSyncs
    BY <1>1, <1>3 DEF CloseBCDeviceCallBack
  <2>2. /\ Cardinality(ConnectionsTo(d))' = Cardinality(ConnectionsTo(d)) - 1
        /\ Cardinality(ConnectionsTo(d)) > 0
        /\ \A e \in Ids \ {d} : ConnectionsTo(e)' = ConnectionsTo(e)
        /\ bcConn' \in [BCConnIds -> [state : {"free", "open", "unregistered", "lost"},
                                      client : Clients \cup {NoClient}, dev : Ids]]
    BY <1>0, <1>1, <2>1, BCConnectionRemoved
  <2>3. \A e \in Ids : Counted(e) = 0 /\ Counted(e)' = 0
    BY <2>1 DEF Counted
  <2>4. /\ psBCInfo[d].refs = Cardinality(ConnectionsTo(d))
        /\ bcSyncs[d] = psBCInfo[d].count /\ bcSyncs[d] = Len(psBCInfo[d].ext)
        /\ psBCInfo[d].listed
    BY <1>0, <2>2, <2>3, BCFinite DEF BCAccountExact
  <2>5. FirstOpen'
    BY <2>1 DEF FirstOpen
  <2>6. CASE psBCInfo[d].refs = 1
    <3>1. PICK w \in Nodes : /\ psBCInfo' = [psBCInfo EXCEPT ![d] = w]
                            /\ w.refs = 0 /\ w.listed = psBCInfo[d].listed /\ w.ext = <<>>
      BY <1>0, <2>1, <2>6, EmptyNode
    <3>2. /\ psBCInfo' \in [Ids -> Nodes] /\ psBCInfo'[d] = w
          /\ \A e \in Ids \ {d} : psBCInfo'[e] = psBCInfo[e]
      BY <1>0, <3>1
    <3>3. bcSyncs[d] - psBCInfo[d].count = 0
      BY <1>0, <2>4
    <3>4. /\ bcSyncs' \in [Ids -> Nat] /\ bcSyncs'[d] = 0
          /\ \A e \in Ids \ {d} : bcSyncs'[e] = bcSyncs[e]
      BY <1>0, <2>1, <2>6, <3>3
    <3>5. BCAccountExact'
      BY <1>0, <2>2, <2>3, <2>4, <2>6, <3>1, <3>2, <3>4 DEF BCAccountExact
    <3> QED BY <1>0, <2>1, <2>2, <2>5, <3>1, <3>2, <3>4, <3>5, DriverFrame
  <2>7. CASE psBCInfo[d].refs # 1
    <3>1. Cardinality(ConnectionsTo(d)) \in 0..MaxConnections
      BY BCFinite
    <3>2. psBCInfo[d].refs - 1 \in 0..(MaxConnections + 1) /\ psBCInfo[d].refs - 1 > 0
      BY <2>2, <2>4, <2>7, <3>1, BCConstantsAssumption
    <3>3. PICK w : w = [psBCInfo[d] EXCEPT !.refs = psBCInfo[d].refs - 1]
      OBVIOUS
    <3>4. w \in Nodes /\ w.refs = psBCInfo[d].refs - 1 /\ w.listed = psBCInfo[d].listed
            /\ w.count = psBCInfo[d].count /\ w.ext = psBCInfo[d].ext
      BY <1>0, <3>2, <3>3 DEF Nodes
    <3>5. /\ psBCInfo' \in [Ids -> Nodes] /\ psBCInfo'[d] = w
          /\ \A e \in Ids \ {d} : psBCInfo'[e] = psBCInfo[e]
      BY <1>0, <2>1, <2>7, <3>3, <3>4
    <3>6. bcSyncs' = bcSyncs
      BY <2>1, <2>7
    <3>7. BCAccountExact'
      <4>1. /\ psBCInfo'[d].refs = Cardinality(ConnectionsTo(d))' + Counted(d)'
            /\ bcSyncs'[d] = Len(psBCInfo'[d].ext)
            /\ Len(psBCInfo'[d].ext) = psBCInfo'[d].count
            /\ psBCInfo'[d].refs # 0 /\ psBCInfo'[d].listed
        <5>1. Counted(d)' = 0
          BY <1>1, <2>3
        <5>2. psBCInfo'[d].refs = Cardinality(ConnectionsTo(d))' + Counted(d)'
          BY <2>2, <2>4, <3>1, <3>4, <3>5, <5>1
        <5>3. psBCInfo'[d].refs # 0 /\ psBCInfo'[d].listed
          <6>1. psBCInfo'[d].refs # 0
            BY <3>2, <3>4, <3>5
          <6>2. psBCInfo'[d].listed
            BY <2>4, <3>4, <3>5, Zenon
          <6> QED BY <6>1, <6>2
        <5>4. bcSyncs'[d] = Len(psBCInfo'[d].ext) /\ Len(psBCInfo'[d].ext) = psBCInfo'[d].count
          BY <2>4, <3>4, <3>5, <3>6
        <5> QED BY <5>2, <5>3, <5>4
      <4> QED BY <1>0, <1>1, <2>2, <2>3, <3>5, <3>6, <4>1 DEF BCAccountExact
    <3> QED BY <1>0, <2>1, <2>2, <2>5, <3>4, <3>5, <3>6, <3>7, DriverFrame
  <2> QED BY <2>6, <2>7
<1> QED BY <1>2, <1>3

\* The other steps of a client.
LEMMA ClientPreserves == ASSUME BInv, NEW c \in Clients, BCClientNext(c) PROVE BInv'
<1> USE DEF providerVars, memoryVars, serviceVars, BCHealthy
<1>0. /\ BCTypeOK /\ psBCInfo \in [Ids -> Nodes]
      /\ BCAccountExact /\ ListedHasInfo /\ FirstOpen
      /\ bcSyncs \in [Ids -> Nat] /\ bcMaps \subseteq Clients \X Buffers
      /\ bcConn \in [BCConnIds -> [state : {"free", "open", "unregistered", "lost"},
                                   client : Clients \cup {NoClient}, dev : Ids]]
      /\ bcCall \in [op : {"none", "found", "buffers", "release"},
                     client : Clients \cup {NoClient}, dev : Ids]
      /\ frames \subseteq Buffers
  BY DEF BInv, BCTypeOK
<1>1. ASSUME bcMaps' \subseteq Clients \X Buffers,
             UNCHANGED <<providerVars, bcFiles, serviceVars, bcCall, bcOops, bcEnv>>
      PROVE  BInv'
  BY <1>0, <1>1, AccountFrame, DriverFrame
<1>2. ASSUME NEW d \in Ids, PVRSRVOpenBCDeviceKM(c, d) PROVE BInv'
  BY <1>2, BCOpenPreserves
<1>3. CASE PVRSRVCloseBCDeviceKM(c)
  BY <1>3, BCOopsPreserves, BCClosePreserves DEF PVRSRVCloseBCDeviceKM, OpenOf, NoCall
<1>4. CASE PVRSRVMapDeviceClassMemoryKM(c)
  <2>1. CASE BCOops
    BY <2>1, BCOopsPreserves
  <2>2. CASE ~BCOops
    <3>1. PICK b \in frames : bcMaps' = bcMaps \cup {<<c, b>>}
      BY <1>4, <2>2 DEF PVRSRVMapDeviceClassMemoryKM
    <3>2. UNCHANGED <<providerVars, bcFiles, serviceVars, bcCall, bcOops, bcEnv>>
      BY <1>4, <2>2 DEF PVRSRVMapDeviceClassMemoryKM
    <3>3. bcMaps' \subseteq Clients \X Buffers
      BY <1>0, <3>1
    <3> QED BY <1>1, <3>2, <3>3
  <2> QED BY <2>1, <2>2
<1>5. CASE PVRSRVUnmapDeviceClassMemoryKM(c)
  <2>1. bcMaps' \subseteq Clients \X Buffers
    BY <1>0, <1>5 DEF PVRSRVUnmapDeviceClassMemoryKM
  <2> QED BY <1>1, <1>5, <2>1 DEF PVRSRVUnmapDeviceClassMemoryKM
<1>6. CASE PVRSRVGetBCInfoKM(c)
  BY <1>6, BCOopsPreserves DEF PVRSRVGetBCInfoKM
<1>7. CASE ClientEnds(c)
  <2>1. /\ bcCall = NoCall /\ bcCall' = [op |-> "release", client |-> c, dev |-> 0]
        /\ bcConn' = [i \in BCConnIds |->
                  IF bcConn[i].client = c /\ bcConn[i].state = "unregistered"
                  THEN [bcConn[i] EXCEPT !.state = "lost", !.client = NoClient] ELSE bcConn[i]]
        /\ UNCHANGED <<bcModule, inserts, device, requests, arrays, frames, foreign, bcFiles, bcOops,
                       bcEnv, psBCInfo, bcSyncs, bcMaps>>
    BY <1>7 DEF ClientEnds
  <2>2. bcConn' \in [BCConnIds -> [state : {"free", "open", "unregistered", "lost"},
                                  client : Clients \cup {NoClient}, dev : Ids]]
    BY <1>0, <2>1
  <2>3. \A e \in Ids : ConnectionsTo(e)' = ConnectionsTo(e)
    BY <1>0, <2>1 DEF ConnectionsTo
  <2>4. \A e \in Ids : Counted(e)' = Counted(e)
    BY <2>1 DEF Counted, NoCall
  <2>5. BCAccountExact'
    <3>1. psBCInfo' = psBCInfo /\ bcSyncs' = bcSyncs
      BY <2>1
    <3> QED BY <1>0, <2>3, <2>4, <3>1 DEF BCAccountExact
  <2>6. FirstOpen'
    BY <2>1 DEF FirstOpen
  <2>7. bcCall' \in [op : {"none", "found", "buffers", "release"},
                    client : Clients \cup {NoClient}, dev : Ids]
    BY <2>1, NewRecords
  <2> QED BY <1>0, <2>1, <2>2, <2>5, <2>6, <2>7, DriverFrame
<1>8. CASE ReleaseBCDevices(c)
  <2>1. ASSUME NEW i \in OpenOf(c), CloseBCDeviceCallBack(i)
        PROVE  BInv'
    BY <1>8, <2>1, BCClosePreserves DEF ReleaseBCDevices, OpenOf
  <2>2. CASE /\ bcMaps' = {m \in bcMaps : m[1] # c} /\ bcCall' = NoCall
             /\ BCHealthy /\ UNCHANGED <<providerVars, bcFiles, serviceVars>>
    <3>1. \A e \in Ids : ConnectionsTo(e)' = ConnectionsTo(e)
      BY <2>2 DEF ConnectionsTo
    <3>2. \A e \in Ids : Counted(e) = 0 /\ Counted(e)' = 0
      BY <1>8, <2>2 DEF Counted, NoCall, ReleaseBCDevices
    <3>3. BCAccountExact' /\ FirstOpen'
      BY <1>0, <2>2, <3>1, <3>2 DEF BCAccountExact, FirstOpen, NoCall
    <3>4. bcCall' \in [op : {"none", "found", "buffers", "release"},
                      client : Clients \cup {NoClient}, dev : Ids]
      BY <2>2, NewRecords DEF NoCall
    <3>5. bcMaps' \subseteq Clients \X Buffers
      BY <1>0, <2>2
    <3> QED BY <1>0, <2>2, <3>3, <3>4, <3>5, DriverFrame
  <2> QED BY <1>8, <2>1, <2>2 DEF ReleaseBCDevices
<1> QED BY <1>2, <1>3, <1>4, <1>5, <1>6, <1>7, <1>8 DEF BCClientNext

-----------------------------------------------------------------------------
(***************************************************************************)
(* The theorems.                                                           *)
(***************************************************************************)

\* The invariant holds when nothing is loaded.
LEMMA BCInitEstablishes == ASSUME BCInit PROVE BInv
<1>1. BCTypeOK
  <2>1. 0 \in 0..MaxInserts /\ 0 \in 0..MaxRequests /\ 0 \in 0..2
    BY BCConstantsAssumption
  <2> QED BY <2>1, NewRecords, BCConstantsAssumption DEF BCInit, BCTypeOK, NoConn, NoCall
<1>2. \A d \in Ids : ConnectionsTo(d) = {} /\ Counted(d) = 0
  BY DEF BCInit, ConnectionsTo, Counted, NoConn, NoCall
<1>3. BCAccountExact
  <2>1. \A d \in Ids : /\ psBCInfo[d].refs = 0 /\ psBCInfo[d].ext = <<>> /\ bcSyncs[d] = 0
                       /\ Cardinality(ConnectionsTo(d)) = 0
    BY <1>2, NewRecords, FS_EmptySet DEF BCInit
  <2>2. \A d \in Ids : Len(psBCInfo[d].ext) = 0
    BY <2>1
  <2>3. ASSUME NEW d \in Ids
        PROVE  /\ psBCInfo[d].refs = Cardinality(ConnectionsTo(d)) + Counted(d)
               /\ ~(psBCInfo[d].refs > 0)
               /\ bcSyncs[d] = Len(psBCInfo[d].ext) /\ bcSyncs[d] = 0
    <3>1. Cardinality(ConnectionsTo(d)) = 0 /\ Counted(d) = 0 /\ psBCInfo[d].refs = 0
      BY <1>2, <2>1
    <3>2. bcSyncs[d] = 0 /\ Len(psBCInfo[d].ext) = 0
      BY <2>1, <2>2
    <3> QED BY <3>1, <3>2
  <2> QED BY <2>3 DEF BCAccountExact
<1>4. ListedHasInfo /\ NotYetListed /\ BuffersHaveArray /\ FirstOpen
  BY NewRecords DEF BCInit, ListedHasInfo, NotYetListed, BuffersHaveArray, FirstOpen, NoCall
<1> QED BY <1>1, <1>3, <1>4 DEF BInv

\* Every step preserves the invariant.
LEMMA BCNextPreserves == ASSUME BInv, [BCNext]_bcVars PROVE BInv'
<1>1. ASSUME UNCHANGED bcVars PROVE BInv'
  <2> USE <1>1 DEF bcVars, providerVars, memoryVars, serviceVars
  <2>1. BCTypeOK'
    BY DEF BInv, BCTypeOK
  <2>2. ListedHasInfo' /\ NotYetListed' /\ BuffersHaveArray'
    BY DEF BInv, ListedHasInfo, NotYetListed, BuffersHaveArray
  <2> QED BY <2>1, <2>2, AccountFrame DEF BInv
<1> QED BY <1>1, BCModulePreserves, FilePreserves, ClientPreserves DEF BCNext, BCStopped

\* The types, and the agreement of the list of devices, the driver's records and
\* the devinfos of bc_cat, hold whatever the module loader, the clients and the
\* ioctls of bc_cat do: KeepsAccount and FollowsNoStalePointer rest on it.
THEOREM BCInvariance == BCSpec => []BInv
<1>1. BCInit => BInv
  BY BCInitEstablishes
<1>2. BInv /\ [BCNext]_bcVars => BInv'
  BY BCNextPreserves
<1> QED BY <1>1, <1>2, PTL DEF BCSpec

\* Whatever fails, races or is unloaded, ui32RefCount of a buffer device counts
\* its connections and the open under way, and there is one sync info for every
\* buffer that the close will free: no path of PVRSRVOpenBCDeviceKM and
\* CloseBCDeviceCallBack leaks or frees twice.
THEOREM KeepsAccount == BCSpec => []BCAccountExact
<1>1. BInv => BCAccountExact
  BY DEF BInv
<1> QED BY <1>1, BCInvariance, PTL

-----------------------------------------------------------------------------
(***************************************************************************)
(* The provider: the second inductive invariant, on top of the first.      *)
(***************************************************************************)

\* Device d has array a; buffer k of array a has dma memory of device d.
HoldsArray(d, a) == device[d].on /\ device[d].num > 0 /\ device[d].array = a

Owning(d, a, k) ==
  device[d].on /\ device[d].type = "MMAP" /\ device[d].array = a /\ k <= device[d].num

\* Arrays and dma memory are those of the devices, no array is that of two, and
\* an address that a process has set is that of a buffer without dma memory.
ArraysHeld == \A a \in Arrays : a \in arrays <=> \E d \in Ids : HoldsArray(d, a)

FramesOwned ==
  \A a \in Arrays, k \in 1..MaxBuffers : <<a, k>> \in frames <=> \E d \in Ids : Owning(d, a, k)

ArraysApart ==
  \A d, e \in Ids : \A a \in Arrays : HoldsArray(d, a) /\ HoldsArray(e, a) => d = e

ArraysRequested == \A d \in Ids : device[d].on => device[d].array <= requests

ForeignElsewhere ==
  \A b \in foreign : \E d \in Ids : HoldsArray(d, b[1]) /\ device[d].type = "USERPTR"

MemoryExact ==
  /\ ArraysHeld
  /\ FramesOwned
  /\ ArraysApart
  /\ ArraysRequested
  /\ ForeignElsewhere

\* The resource manager knows of every connection.
AllRegistered ==
  \A i \in BCConnIds : /\ bcConn[i].state \in {"free", "open"}
                       /\ bcConn[i].state = "free" => bcConn[i].client = NoClient

\* bc_cat_init and bc_cat_cleanup go through the devices in order, and the buffers
\* of a device are gone before its registration is.
DevicesInOrder ==
  \A d \in Ids :
    /\ bcModule.at = "out" => ~device[d].on
    /\ bcModule.at = "init" /\ d >= bcModule.id => ~device[d].on
    /\ bcModule.at = "undo" /\ d > bcModule.id => ~device[d].on
    /\ bcModule.at \in {"destroy", "unregister"} /\ d < bcModule.id => ~device[d].on
    /\ bcModule.at \in {"init", "undo"} /\ device[d].on => device[d].num = 0
    /\ bcModule.at = "unregister" /\ d = bcModule.id /\ device[d].on => device[d].num = 0

\* While bc_cat is not live nobody uses it.
Unused ==
  bcModule.at # "live" =>
    /\ \A d \in Ids : psBCInfo[d].refs = 0 /\ bcFiles[d] = 0
    /\ bcCall.op \notin {"found", "buffers"}
    /\ bcMaps = {}

\* The driver knows exactly the devices that there are.
ListedExactly ==
  /\ \A d \in Ids : (device[d].on <=> psBCInfo[d].listed)
                    /\ (device[d].on => device[d].registered = 1)
  /\ bcCall.op \in {"found", "buffers"} => psBCInfo[bcCall.dev].listed

\* What PVRSRVOpenBCDeviceKM has copied is what the provider has.
CopiesCurrent ==
  \A d \in Ids :
    /\ psBCInfo[d].refs > 0 => psBCInfo[d].count = device[d].num
    /\ \A k \in DOMAIN psBCInfo[d].ext : psBCInfo[d].ext[k] = device[d].array

MapsAllocated == \A m \in bcMaps : m[2] \in frames

UseSafe ==
  /\ AllRegistered
  /\ DevicesInOrder
  /\ Unused
  /\ ListedExactly
  /\ CopiesCurrent
  /\ MapsAllocated

SInv == BCCalm /\ ~bcOops /\ MemoryExact /\ UseSafe

-----------------------------------------------------------------------------
(***************************************************************************)
(* Arrays and dma memory.                                                  *)
(***************************************************************************)

\* Nothing changes in memory when no devinfo changes what it has.
LEMMA MemorySame ==
  ASSUME MemoryExact, UNCHANGED <<arrays, frames, foreign, requests>>,
         \A d \in Ids : /\ device'[d].on = device[d].on
                        /\ device[d].on => /\ device'[d].num = device[d].num
                                           /\ device'[d].array = device[d].array
                                           /\ device'[d].type = device[d].type
  PROVE  MemoryExact'
<1>1. \A d \in Ids : \A a : HoldsArray(d, a)' = HoldsArray(d, a)
  BY DEF HoldsArray
<1>2. \A d \in Ids, a \in Arrays, k \in 1..MaxBuffers : Owning(d, a, k)' <=> Owning(d, a, k)
  BY DEF Owning
<1>3. ArraysHeld'
  BY <1>1 DEF MemoryExact, ArraysHeld
<1>4. FramesOwned'
  <2>1. FramesOwned
    BY DEF MemoryExact
  <2>2. ASSUME NEW a \in Arrays, NEW k \in 1..MaxBuffers
        PROVE  <<a, k>> \in frames' <=> \E e \in Ids : Owning(e, a, k)'
    BY <1>2, <2>1, Zenon DEF FramesOwned
  <2> QED BY <2>2 DEF FramesOwned
<1>5. ArraysApart'
  BY <1>1 DEF MemoryExact, ArraysApart
<1>6. ArraysRequested'
  BY DEF MemoryExact, ArraysRequested
<1>7. ForeignElsewhere'
  BY DEF MemoryExact, ForeignElsewhere, HoldsArray
<1> QED BY <1>3, <1>4, <1>5, <1>6, <1>7 DEF MemoryExact

\* Nothing changes in memory when a device without buffers comes or goes.
LEMMA MemoryEmpty ==
  ASSUME MemoryExact, UNCHANGED <<arrays, frames, foreign, requests>>,
         device \in [Ids -> Infos], device' \in [Ids -> Infos],
         NEW d \in Ids, device[d].on => device[d].num = 0,
         device'[d].on => device'[d].num = 0 /\ device'[d].array <= requests,
         \A e \in Ids \ {d} : device'[e] = device[e]
  PROVE  MemoryExact'
<1>1. \A e \in Ids : \A a : HoldsArray(e, a)' = HoldsArray(e, a)
  BY DEF HoldsArray
<1>2. \A e \in Ids, a \in Arrays, k \in 1..MaxBuffers : Owning(e, a, k)' <=> Owning(e, a, k)
  BY DEF Owning
<1>3. ArraysHeld'
  BY <1>1 DEF MemoryExact, ArraysHeld
<1>4. FramesOwned'
  <2>1. FramesOwned
    BY DEF MemoryExact
  <2>2. ASSUME NEW a \in Arrays, NEW k \in 1..MaxBuffers
        PROVE  <<a, k>> \in frames' <=> \E e \in Ids : Owning(e, a, k)'
    BY <1>2, <2>1, Zenon DEF FramesOwned
  <2> QED BY <2>2 DEF FramesOwned
<1>5. ArraysApart'
  BY <1>1 DEF MemoryExact, ArraysApart
<1>6. ArraysRequested'
  BY DEF MemoryExact, ArraysRequested
<1>7. ForeignElsewhere'
  BY DEF MemoryExact, ForeignElsewhere, HoldsArray
<1> QED BY <1>3, <1>4, <1>5, <1>6, <1>7 DEF MemoryExact

\* BC_DestroyBuffers leaves what the other devices have and frees only dma memory
\* of its own.
LEMMA Destroyed ==
  ASSUME BInv, MemoryExact, NEW d \in Ids, device[d].on, NEW left, left = BC_DestroyBuffers(device[d])
  PROVE  /\ \A a \in Arrays : a \in left[1] <=> \E e \in Ids \ {d} : HoldsArray(e, a)
         /\ \A a \in Arrays, k \in 1..MaxBuffers :
              <<a, k>> \in left[2] <=> \E e \in Ids \ {d} : Owning(e, a, k)
         /\ left[1] \subseteq Arrays /\ left[2] \subseteq Buffers
         /\ ~FreesForeign(device[d])
<1>1. /\ device \in [Ids -> Infos] /\ arrays \subseteq Arrays /\ frames \subseteq Buffers
      /\ foreign \subseteq Buffers /\ MaxBuffers \in Nat /\ MaxRequests \in Nat
  BY BCConstantsAssumption DEF BInv, BCTypeOK
<1>2. \A e \in Ids : device[e].on => /\ device[e].array \in 0..MaxRequests
                                     /\ device[e].num \in 0..MaxBuffers
                                     /\ device[e].num > 0 => device[e].array \in Arrays
  <2>1. ASSUME NEW e \in Ids, device[e].on
        PROVE  /\ device[e].array \in 0..MaxRequests
               /\ device[e].num \in 0..MaxBuffers
               /\ device[e].num > 0 => device[e].array \in Arrays
    <3>1. device[e] \in Infos
      BY <1>1
    <3>2. device[e].array \in 0..MaxRequests /\ device[e].num \in 0..MaxBuffers
      BY <2>1, <3>1, InfoFields
    <3>3. device[e].num > 0 => device[e].array # 0
      BY <2>1 DEF BInv, BuffersHaveArray
    <3> QED BY <1>1, <3>2, <3>3 DEF Arrays
  <2> QED BY <2>1
<1>3. ASSUME NEW e \in Ids, NEW a, NEW k \in 1..MaxBuffers, Owning(e, a, k)
      PROVE  HoldsArray(e, a)
  BY <1>2, <1>3 DEF Owning, HoldsArray
<1>4. CASE device[d].num = 0
  <2>1. left[1] = arrays /\ left[2] = frames
    BY <1>4 DEF BC_DestroyBuffers
  <2>2. \A a : ~HoldsArray(d, a)
    BY <1>4 DEF HoldsArray
  <2>3. \A a : \A k \in 1..MaxBuffers : ~Owning(d, a, k)
    BY <1>4 DEF Owning
  <2>4. OwnBuffers(device[d]) = {}
    BY <1>4 DEF OwnBuffers
  <2>5. \A a \in Arrays : a \in left[1] <=> \E e \in Ids \ {d} : HoldsArray(e, a)
    BY <2>1, <2>2 DEF MemoryExact, ArraysHeld
  <2>6. \A a \in Arrays, k \in 1..MaxBuffers :
          <<a, k>> \in left[2] <=> \E e \in Ids \ {d} : Owning(e, a, k)
    BY <2>1, <2>3 DEF MemoryExact, FramesOwned
  <2> QED BY <1>1, <2>1, <2>4, <2>5, <2>6 DEF FreesForeign
<1>5. CASE device[d].num # 0
  <2>1. left[1] = arrays \ {device[d].array} /\ left[2] = frames \ OwnBuffers(device[d])
    BY <1>5 DEF BC_DestroyBuffers
  <2>2. HoldsArray(d, device[d].array) /\ device[d].array \in Arrays
    BY <1>2, <1>5 DEF HoldsArray
  <2>3. \A a \in Arrays : a \in left[1] <=> \E e \in Ids \ {d} : HoldsArray(e, a)
    <3>1. \A a : HoldsArray(d, a) <=> a = device[d].array
      BY <2>2 DEF HoldsArray
    <3>2. \A e \in Ids : HoldsArray(e, device[d].array) => e = d
      BY <2>2 DEF MemoryExact, ArraysApart
    <3> QED BY <2>1, <3>1, <3>2 DEF MemoryExact, ArraysHeld
  <2>4. \A a \in Arrays, k \in 1..MaxBuffers :
          <<a, k>> \in OwnBuffers(device[d]) <=> Owning(d, a, k)
    BY <1>2 DEF OwnBuffers, Owning
  <2>5. \A a \in Arrays, k \in 1..MaxBuffers :
          <<a, k>> \in left[2] <=> \E e \in Ids \ {d} : Owning(e, a, k)
    <3>1. ASSUME NEW a \in Arrays, NEW k \in 1..MaxBuffers, NEW e \in Ids, Owning(e, a, k), Owning(d, a, k)
          PROVE  e = d
      BY <1>3, <3>1 DEF MemoryExact, ArraysApart
    <3> QED BY <2>1, <2>4, <3>1 DEF MemoryExact, FramesOwned
  <2>6. ASSUME FreesForeign(device[d]) PROVE FALSE
    <3>1. PICK b : b \in OwnBuffers(device[d]) /\ b \in foreign
      BY <2>6 DEF FreesForeign
    <3>2. device[d].type = "MMAP" /\ b[1] = device[d].array
      BY <3>1 DEF OwnBuffers
    <3>3. PICK e \in Ids : HoldsArray(e, b[1]) /\ device[e].type = "USERPTR"
      BY <3>1 DEF MemoryExact, ForeignElsewhere
    <3>4. e = d
      BY <2>2, <3>2, <3>3 DEF MemoryExact, ArraysApart
    <3> QED BY <3>2, <3>3, <3>4
  <2> QED BY <1>1, <2>1, <2>3, <2>5, <2>6
<1> QED BY <1>4, <1>5
\* The buffers of a device are destroyed, and perhaps replaced by those of a new
\* array.
LEMMA MemoryReplaced ==
  ASSUME BInv, MemoryExact, NEW d \in Ids, device[d].on,
         NEW left, left = BC_DestroyBuffers(device[d]),
         device' \in [Ids -> Infos], device'[d].on, \A e \in Ids \ {d} : device'[e] = device[e],
         NEW a0 \in 0..MaxRequests, NEW n0 \in 0..MaxBuffers,
         device'[d].array = a0, device'[d].num = n0,
         requests' \in 0..MaxRequests, requests <= requests', a0 <= requests',
         n0 > 0 => a0 > requests,
         arrays' \subseteq Arrays, frames' \subseteq Buffers,
         \A a \in Arrays : a \in arrays' <=> a \in left[1] \/ (n0 > 0 /\ a = a0),
         \A a \in Arrays, k \in 1..MaxBuffers :
           <<a, k>> \in frames' <=>
             \/ <<a, k>> \in left[2]
             \/ device'[d].type = "MMAP" /\ a = a0 /\ k <= n0,
         ForgetFreed
  PROVE  MemoryExact'
<1>1. /\ device \in [Ids -> Infos] /\ arrays \subseteq Arrays /\ frames \subseteq Buffers
      /\ foreign \subseteq Buffers /\ MaxBuffers \in Nat /\ MaxRequests \in Nat
      /\ requests \in 0..MaxRequests
  BY BCConstantsAssumption DEF BInv, BCTypeOK
<1>2. /\ \A a \in Arrays : a \in left[1] <=> \E e \in Ids \ {d} : HoldsArray(e, a)
      /\ \A a \in Arrays, k \in 1..MaxBuffers :
           <<a, k>> \in left[2] <=> \E e \in Ids \ {d} : Owning(e, a, k)
  BY Destroyed
<1>3. \A e \in Ids \ {d} : \A a : HoldsArray(e, a)' <=> HoldsArray(e, a)
  BY DEF HoldsArray
<1>4. \A e \in Ids \ {d} : \A a \in Arrays, k \in 1..MaxBuffers : Owning(e, a, k)' <=> Owning(e, a, k)
  BY DEF Owning
<1>5. \A a \in Arrays : HoldsArray(d, a)' <=> n0 > 0 /\ a = a0
  BY DEF HoldsArray
<1>6. \A a \in Arrays, k \in 1..MaxBuffers : Owning(d, a, k)' <=> device'[d].type = "MMAP" /\ a = a0 /\ k <= n0
  BY DEF Owning
<1>7. ArraysHeld'
  BY <1>2, <1>3, <1>5 DEF ArraysHeld
<1>8. FramesOwned'
  <2>1. ASSUME NEW a \in Arrays, NEW k \in 1..MaxBuffers
        PROVE  <<a, k>> \in frames' <=> \E e \in Ids : Owning(e, a, k)'
    <3>1. (\E e \in Ids : Owning(e, a, k)') <=>
            (\E e \in Ids \ {d} : Owning(e, a, k)) \/ Owning(d, a, k)'
      BY <1>4, Zenon
    <3> QED BY <1>2, <1>6, <3>1
  <2> QED BY <2>1 DEF FramesOwned
<1>9. \A e \in Ids \ {d} : device[e].on => device[e].array \in Nat /\ device[e].array <= requests
  <2>1. ASSUME NEW e \in Ids \ {d}, device[e].on PROVE device[e].array \in 0..MaxRequests
    BY <1>1, <2>1, InfoFields
  <2> QED BY <1>1, <2>1 DEF MemoryExact, ArraysRequested
<1>10. ArraysApart'
  <2>1. ASSUME NEW e \in Ids, NEW f \in Ids, NEW a \in Arrays, HoldsArray(e, a)', HoldsArray(f, a)'
        PROVE  e = f
    <3>1. CASE e # d /\ f # d
      BY <1>3, <2>1, <3>1 DEF MemoryExact, ArraysApart
    <3>2. ASSUME NEW g \in Ids \ {d}, HoldsArray(g, a)', HoldsArray(d, a)' PROVE FALSE
      <4>1. a = a0 /\ a0 > requests
        BY <1>5, <3>2
      <4>2. a <= requests
        BY <1>3, <1>9, <3>2 DEF HoldsArray
      <4> QED BY <1>1, <4>1, <4>2 DEF Arrays
    <3> QED BY <2>1, <3>1, <3>2
  <2> QED BY <2>1 DEF ArraysApart
<1>11. ArraysRequested'
  BY <1>1, <1>9 DEF ArraysRequested
<1>12. ForeignElsewhere'
  <2>1. ASSUME NEW b \in foreign' PROVE \E e \in Ids : HoldsArray(e, b[1])' /\ device'[e].type = "USERPTR"
    <3>1. b \in foreign /\ b[1] \in arrays' /\ b[1] \in Arrays
      BY <2>1 DEF ForgetFreed
    <3>2. PICK e \in Ids : HoldsArray(e, b[1]) /\ device[e].type = "USERPTR"
      BY <3>1 DEF MemoryExact, ForeignElsewhere
    <3>3. CASE e # d
      <4>1. HoldsArray(e, b[1])'
        BY <1>3, <3>2, <3>3
      <4> QED BY <3>2, <3>3, <4>1
    <3>4. CASE e = d
      <4>1. b[1] \in left[1] \/ (n0 > 0 /\ b[1] = a0)
        BY <3>1
      <4>2. b[1] \notin left[1]
        BY <1>2, <3>1, <3>2, <3>4 DEF MemoryExact, ArraysApart
      <4>3. b[1] <= requests
        BY <3>2, <3>4 DEF MemoryExact, ArraysRequested, HoldsArray
      <4> QED BY <1>1, <4>1, <4>2, <4>3
    <3> QED BY <3>3, <3>4
  <2> QED BY <2>1 DEF ForeignElsewhere
<1> QED BY <1>7, <1>8, <1>10, <1>11, <1>12 DEF MemoryExact

-----------------------------------------------------------------------------
(***************************************************************************)
(* The file operations of bc_cat.                                          *)
(***************************************************************************)

\* Nothing the driver relies on changes when no devinfo changes what it has.
LEMMA UseSame ==
  ASSUME UseSafe, UNCHANGED <<bcModule, psBCInfo, bcConn, bcCall, bcMaps, frames>>,
         bcModule.at # "live" => bcFiles' = bcFiles,
         \A d \in Ids : /\ device'[d].on = device[d].on
                        /\ device[d].on => /\ device'[d].num = device[d].num
                                           /\ device'[d].array = device[d].array
                                           /\ device'[d].registered = device[d].registered,
         \A d \in Ids : psBCInfo[d].refs = 0 => psBCInfo[d].ext = <<>>,
         \A d \in Ids : psBCInfo[d].refs = 0 \/ device[d].on
  PROVE  UseSafe'
<1>1. AllRegistered' /\ MapsAllocated'
  BY DEF UseSafe, AllRegistered, MapsAllocated
<1>2. DevicesInOrder'
  BY DEF UseSafe, DevicesInOrder
<1>3. Unused'
  BY DEF UseSafe, Unused
<1>4. ListedExactly'
  BY DEF UseSafe, ListedExactly
<1>5. CopiesCurrent'
  BY DEF UseSafe, CopiesCurrent
<1> QED BY <1>1, <1>2, <1>3, <1>4, <1>5 DEF UseSafe
\* What the exact account says of each device.
LEMMA AccountFacts ==
  ASSUME BInv, NEW d \in Ids
  PROVE  /\ psBCInfo[d].refs \in Nat /\ Len(psBCInfo[d].ext) \in Nat
         /\ DOMAIN psBCInfo[d].ext = 1..Len(psBCInfo[d].ext)
         /\ psBCInfo[d].refs = 0 => psBCInfo[d].ext = <<>> /\ ConnectionsTo(d) = {} /\ Counted(d) = 0
         /\ psBCInfo[d].refs # 0 => device[d].on /\ psBCInfo[d].listed
         /\ device[d] \in Infos /\ psBCInfo[d] \in Nodes
<1>1. psBCInfo[d] \in Nodes /\ device[d] \in Infos
  BY DEF BInv, BCTypeOK
<1>2. psBCInfo[d].refs \in Nat /\ psBCInfo[d].ext \in Seq(Arrays) /\ Len(psBCInfo[d].ext) \in Nat
  BY <1>1, NodeFields, BCConstantsAssumption
<1>3. psBCInfo[d].refs = 0 => psBCInfo[d].ext = <<>> /\ ConnectionsTo(d) = {} /\ Counted(d) = 0
  BY NoReferences, BCFinite
<1>4. psBCInfo[d].refs # 0 => device[d].on /\ psBCInfo[d].listed
  BY <1>2 DEF BInv, BCAccountExact, ListedHasInfo
<1> QED BY <1>1, <1>2, <1>3, <1>4

\* Files are only used while bc_cat is live.
LEMMA FileSafe == ASSUME BInv, SInv, NEW d \in Ids, BCFileNext(d) PROVE SInv'
<1> USE DEF providerVars, memoryVars, serviceVars, BCHealthy
<1>0. /\ BCCalm /\ ~bcOops /\ MemoryExact /\ UseSafe /\ bcEnv.orderly
      /\ device \in [Ids -> Infos] /\ bcFiles \in [Ids -> 0..2]
  BY DEF SInv, BCCalm, BInv, BCTypeOK
<1>2. bcFiles[d] > 0 => bcModule.at = "live" /\ CodeThere
  BY <1>0 DEF UseSafe, Unused, CodeThere
<1>3. ASSUME NEW r \in 0..2, device[d].on, bcModule.at = "live",
             device' = [device EXCEPT ![d] = [device[d] EXCEPT !.ref = r]],
             UNCHANGED <<bcModule, memoryVars, serviceVars, bcCall, bcMaps, bcOops, bcEnv>>
      PROVE  SInv'
  <2>1. device[d] \in Infos
    BY <1>0
  <2>2. PICK w : w = [device[d] EXCEPT !.ref = r]
    OBVIOUS
  <2>3. w.on = device[d].on /\ w.num = device[d].num /\ w.array = device[d].array
           /\ w.type = device[d].type /\ w.registered = device[d].registered
    <3>1. device[d] \in [on : {TRUE}, registered : {0, 1}, ref : 0..2, array : 0..MaxRequests,
                         num : 0..MaxBuffers, type : {"MMAP", "USERPTR"}]
      BY <1>3, <2>1, InfoFields
    <3> QED BY <2>2, <3>1
  <2>4. \A e \in Ids : device'[e] = IF e = d THEN w ELSE device[e]
    BY <1>0, <1>3, <2>2
  <2>5. \A e \in Ids : /\ device'[e].on = device[e].on
                       /\ device[e].on => /\ device'[e].num = device[e].num
                                          /\ device'[e].array = device[e].array
                                          /\ device'[e].type = device[e].type
                                          /\ device'[e].registered = device[e].registered
    BY <2>3, <2>4
  <2>6. MemoryExact'
    BY <1>0, <1>3, <2>5, MemorySame
  <2>7. UseSafe'
    BY <1>0, <1>3, <2>5, AccountFacts, UseSame
  <2> QED BY <1>0, <1>3, <2>6, <2>7 DEF SInv, BCCalm
<1>4. CASE bc_open(d)
  <2>1. \E r \in 0..2 : device' = [device EXCEPT ![d] = [device[d] EXCEPT !.ref = r]]
    BY <1>4 DEF bc_open
  <2> QED BY <1>0, <1>3, <1>4, <2>1 DEF bc_open
<1>5. CASE bc_release(d)
  <2>1. bcModule.at = "live"
    BY <1>2, <1>5 DEF bc_release
  <2>2. UNCHANGED <<bcModule, memoryVars, serviceVars, bcCall, bcMaps, bcOops, bcEnv>>
    BY <1>5 DEF bc_release
  <2>3. CASE device[d].on /\ device[d].ref > 0
    <3>1. device[d].ref - 1 \in 0..2
      <4>1. device[d].ref \in 0..2
        BY <1>0, <2>3, InfoFields
      <4> QED BY <2>3, <4>1
    <3>2. device' = [device EXCEPT ![d] = [device[d] EXCEPT !.ref = device[d].ref - 1]]
      BY <1>5, <2>3 DEF bc_release
    <3> QED BY <1>3, <2>1, <2>2, <2>3, <3>1, <3>2
  <2>4. CASE ~(device[d].on /\ device[d].ref > 0)
    <3>1. device' = device
      BY <1>5, <2>4 DEF bc_release
    <3> QED BY <1>0, <2>1, <2>2, <3>1, MemorySame, UseSame, AccountFacts DEF SInv, BCCalm
  <2> QED BY <2>3, <2>4
<1>6. CASE StaleFile(d)
  BY <1>2, <1>6 DEF StaleFile
<1>7. CASE BCSetBufferPhyAddr(d)
  <2>1. /\ device[d].on /\ device[d].type = "USERPTR"
        /\ UNCHANGED <<bcModule, inserts, device, bcFiles, requests, arrays, frames,
                       serviceVars, bcCall, bcMaps, bcOops, bcEnv>>
    BY <1>0, <1>7 DEF BCSetBufferPhyAddr
  <2>2. PICK k \in 1..device[d].num : foreign' = foreign \cup {<<device[d].array, k>>}
    BY <1>7 DEF BCSetBufferPhyAddr
  <2>3. device[d].num \in 0..MaxBuffers
    BY <1>0, <2>1, InfoFields
  <2>4. HoldsArray(d, device[d].array)
    BY <2>1, <2>2, <2>3 DEF HoldsArray
  <2>5. ForeignElsewhere'
    <3>1. ASSUME NEW b \in foreign' PROVE \E e \in Ids : HoldsArray(e, b[1])' /\ device'[e].type = "USERPTR"
      <4>1. CASE b \in foreign
        BY <1>0, <2>1, <4>1 DEF MemoryExact, ForeignElsewhere, HoldsArray
      <4>2. CASE b = <<device[d].array, k>>
        <5>1. b[1] = device[d].array
          BY <4>2
        <5> QED BY <2>1, <2>4, <5>1 DEF HoldsArray
      <4> QED BY <2>2, <3>1, <4>1, <4>2
    <3> QED BY <3>1 DEF ForeignElsewhere
  <2>6. MemoryExact'
    BY <1>0, <2>1, <2>5 DEF MemoryExact, ArraysHeld, FramesOwned, ArraysApart, ArraysRequested,
                            HoldsArray, Owning
  <2>7. UseSafe'
    BY <1>0, <2>1, AccountFacts, UseSame
  <2> QED BY <1>0, <2>1, <2>6, <2>7 DEF SInv, BCCalm
<1>8. CASE BC_CreateBuffers(d)
  <2>1. /\ device[d].on /\ bcModule.at = "live" /\ ~InUse(d)
        /\ requests' = requests + 1 /\ requests < MaxRequests
        /\ bcOops' = FreesForeign(device[d]) /\ ForgetFreed
        /\ UNCHANGED <<bcModule, inserts, bcFiles, serviceVars, bcCall, bcMaps, bcEnv>>
    BY <1>0, <1>8 DEF BC_CreateBuffers
  <2>2. requests \in 0..MaxRequests /\ MaxRequests \in Nat /\ MaxBuffers \in Nat
    BY BCConstantsAssumption DEF BInv, BCTypeOK
  <2>3. requests' \in Arrays /\ requests' \in 0..MaxRequests
    BY <2>1, <2>2 DEF Arrays
  <2>4. PICK left : left = BC_DestroyBuffers(device[d])
    OBVIOUS
  <2>5. /\ \A a \in Arrays, k \in 1..MaxBuffers :
             <<a, k>> \in left[2] <=> \E e \in Ids \ {d} : Owning(e, a, k)
        /\ left[1] \subseteq Arrays /\ left[2] \subseteq Buffers
        /\ ~FreesForeign(device[d])
    BY <1>0, <2>1, <2>4, Destroyed
  <2>6. PICK a0 \in 0..MaxRequests, n0 \in 0..MaxBuffers, t0 \in {"MMAP", "USERPTR"} :
          /\ a0 <= requests' /\ (n0 > 0 => a0 = requests')
          /\ device' = [device EXCEPT ![d] = [device[d] EXCEPT !.array = a0, !.num = n0, !.type = t0]]
          /\ arrays' = left[1] \cup (IF n0 > 0 THEN {a0} ELSE {})
          /\ frames' = left[2] \cup (IF t0 = "MMAP" THEN {a0} \X (1..n0) ELSE {})
    <3>1. ~BCFails("dma")
      BY <1>0 DEF BCCalm, BCFails
    <3>2. PICK type \in {"MMAP", "USERPTR"} :
            \/ \E n \in 1..MaxBuffers :
                 /\ arrays' = left[1] \cup {requests'}
                 /\ frames' = left[2] \cup (IF type = "MMAP" THEN {requests'} \X (1..n) ELSE {})
                 /\ device' = [device EXCEPT ![d] = [device[d] EXCEPT !.array = requests', !.num = n, !.type = type]]
            \/ /\ arrays' = left[1] /\ frames' = left[2]
               /\ device' = [device EXCEPT ![d] = [device[d] EXCEPT !.array = 0, !.num = 0, !.type = type]]
      <4>1. PICK l \in {BC_DestroyBuffers(device[d])}, type \in {"MMAP", "USERPTR"} :
              \/ \E n \in 1..MaxBuffers, made \in 0..MaxBuffers :
                   /\ made = n \/ (made < n /\ type = "MMAP" /\ BCFails("dma"))
                   /\ arrays' = l[1] \cup {requests'}
                   /\ frames' = l[2] \cup (IF type = "MMAP" THEN {requests'} \X (1..made) ELSE {})
                   /\ device' = [device EXCEPT ![d].array = requests', ![d].num = made, ![d].type = type]
              \/ /\ arrays' = l[1] /\ frames' = l[2]
                 /\ device' = [device EXCEPT ![d].array = 0, ![d].num = 0, ![d].type = type]
        BY <1>8 DEF BC_CreateBuffers
      <4>2. l = left
        BY <2>4, <4>1
      <4>3. ASSUME NEW n \in 1..MaxBuffers, NEW made \in 0..MaxBuffers,
                   made = n \/ (made < n /\ type = "MMAP" /\ BCFails("dma")),
                   arrays' = l[1] \cup {requests'},
                   frames' = l[2] \cup (IF type = "MMAP" THEN {requests'} \X (1..made) ELSE {}),
                   device' = [device EXCEPT ![d].array = requests', ![d].num = made, ![d].type = type]
            PROVE  /\ arrays' = left[1] \cup {requests'}
                   /\ frames' = left[2] \cup (IF type = "MMAP" THEN {requests'} \X (1..n) ELSE {})
                   /\ device' = [device EXCEPT ![d] = [device[d] EXCEPT !.array = requests', !.num = n, !.type = type]]
        <5>1. made = n
          BY <3>1, <4>3
        <5> QED BY <4>2, <4>3, <5>1
      <4>4. ASSUME arrays' = l[1], frames' = l[2],
                   device' = [device EXCEPT ![d].array = 0, ![d].num = 0, ![d].type = type]
            PROVE  /\ arrays' = left[1] /\ frames' = left[2]
                   /\ device' = [device EXCEPT ![d] = [device[d] EXCEPT !.array = 0, !.num = 0, !.type = type]]
        BY <4>2, <4>4
      <4> QED BY <4>1, <4>3, <4>4, Zenon
    <3>3. CASE \E n \in 1..MaxBuffers :
                 /\ arrays' = left[1] \cup {requests'}
                 /\ frames' = left[2] \cup (IF type = "MMAP" THEN {requests'} \X (1..n) ELSE {})
                 /\ device' = [device EXCEPT ![d] = [device[d] EXCEPT !.array = requests', !.num = n, !.type = type]]
      <4>1. PICK n \in 1..MaxBuffers :
                 /\ arrays' = left[1] \cup {requests'}
                 /\ frames' = left[2] \cup (IF type = "MMAP" THEN {requests'} \X (1..n) ELSE {})
                 /\ device' = [device EXCEPT ![d] = [device[d] EXCEPT !.array = requests', !.num = n, !.type = type]]
        BY <3>3
      <4>2. n \in 0..MaxBuffers /\ n > 0 /\ requests' <= requests'
        BY <2>2, <2>3, <4>1
      <4>3. arrays' = left[1] \cup (IF n > 0 THEN {requests'} ELSE {})
        BY <4>1, <4>2
      <4> QED BY <2>3, <3>2, <4>1, <4>2, <4>3, Zenon
    <3>4. CASE /\ arrays' = left[1] /\ frames' = left[2]
               /\ device' = [device EXCEPT ![d] = [device[d] EXCEPT !.array = 0, !.num = 0, !.type = type]]
      <4>1. 0 \in 0..MaxRequests /\ 0 \in 0..MaxBuffers /\ 0 <= requests' /\ ~(0 > 0)
        BY <2>2, <2>3
      <4>2. arrays' = left[1] \cup (IF 0 > 0 THEN {0} ELSE {})
        BY <3>4, <4>1
      <4>3. frames' = left[2] \cup (IF type = "MMAP" THEN {0} \X (1..0) ELSE {})
        BY <3>4
      <4> QED BY <3>2, <3>4, <4>1, <4>2, <4>3, Zenon
    <3> QED BY <3>2, <3>3, <3>4
  <2>7. PICK w : w = [device[d] EXCEPT !.array = a0, !.num = n0, !.type = t0]
    OBVIOUS
  <2>8. /\ w \in Infos /\ w.on /\ w.array = a0 /\ w.num = n0 /\ w.type = t0
        /\ w.registered = device[d].registered
    <3>1. device[d] \in [on : {TRUE}, registered : {0, 1}, ref : 0..2, array : 0..MaxRequests,
                         num : 0..MaxBuffers, type : {"MMAP", "USERPTR"}]
      BY <1>0, <2>1, InfoFields
    <3> QED BY <2>6, <2>7, <3>1 DEF Infos
  <2>9. device' \in [Ids -> Infos] /\ \A e \in Ids : device'[e] = IF e = d THEN w ELSE device[e]
    BY <1>0, <2>6, <2>7, <2>8
  <2>10. MemoryExact'
    <3>1. \A a \in Arrays : a \in arrays' <=> a \in left[1] \/ (n0 > 0 /\ a = a0)
      BY <2>6
    <3>2. \A a \in Arrays, k \in 1..MaxBuffers :
            <<a, k>> \in frames' <=>
              \/ <<a, k>> \in left[2]
              \/ device'[d].type = "MMAP" /\ a = a0 /\ k <= n0
      BY <2>6, <2>8, <2>9
    <3>3. arrays' \subseteq Arrays /\ frames' \subseteq Buffers
      <4>1. n0 > 0 => a0 \in Arrays
        BY <2>3, <2>6
      <4>2. {a0} \X (1..n0) \subseteq Buffers
        BY <2>2, <2>6, <4>1 DEF Buffers
      <4> QED BY <2>5, <2>6, <4>1, <4>2
    <3>4. requests <= requests' /\ (n0 > 0 => a0 > requests)
      BY <2>1, <2>2, <2>6
    <3> QED BY <1>0, <2>1, <2>3, <2>4, <2>6, <2>8, <2>9, <3>1, <3>2, <3>3, <3>4, MemoryReplaced
  <2>11. MapsAllocated'
    <3>1. ASSUME NEW m \in bcMaps PROVE m[2] \in frames'
      <4>1. m[2] \in frames /\ m[2] \in Buffers
        BY <1>0, <3>1 DEF UseSafe, MapsAllocated, BInv, BCTypeOK
      <4>2. PICK a \in Arrays, k \in 1..MaxBuffers : m[2] = <<a, k>>
        BY <4>1 DEF Buffers
      <4>3. PICK e \in Ids : Owning(e, a, k)
        BY <1>0, <4>1, <4>2 DEF MemoryExact, FramesOwned
      <4>4. e # d
        <5>1. m[2][1] = a
          BY <4>2
        <5> QED BY <2>1, <4>3, <5>1 DEF InUse, Owning
      <4>5. <<a, k>> \in left[2]
        BY <2>5, <4>2, <4>3, <4>4
      <4> QED BY <2>6, <4>2, <4>5
    <3> QED BY <2>1, <3>1 DEF MapsAllocated
  <2>12. UseSafe'
    <3>1. psBCInfo[d].refs = 0
      BY <2>1, AccountFacts DEF InUse
    <3>2. CopiesCurrent'
      BY <1>0, <2>1, <2>9, <3>1, AccountFacts DEF UseSafe, CopiesCurrent
    <3>3. AllRegistered' /\ DevicesInOrder' /\ Unused'
      BY <1>0, <2>1 DEF UseSafe, AllRegistered, DevicesInOrder, Unused
    <3>4. ListedExactly'
      BY <1>0, <2>1, <2>8, <2>9 DEF UseSafe, ListedExactly
    <3> QED BY <2>11, <3>2, <3>3, <3>4 DEF UseSafe
  <2> QED BY <1>0, <2>1, <2>5, <2>10, <2>12 DEF SInv, BCCalm
<1> QED BY <1>4, <1>5, <1>6, <1>7, <1>8 DEF BCFileNext
-----------------------------------------------------------------------------
(***************************************************************************)
(* bc_cat is loaded and unloaded.                                          *)
(***************************************************************************)

\* NextDevice goes to the next device, and after the last to the next stage.
LEMMA NextStage ==
  ASSUME BInv, NEW stage \in {"init", "undo", "destroy"},
         NextDevice(stage, IF stage = "undo" THEN 0 ELSE DEVICE_COUNT - 1)
  PROVE  \/ /\ bcModule.id = (IF stage = "undo" THEN 0 ELSE DEVICE_COUNT - 1)
            /\ bcModule' = [at |-> IF stage = "init" THEN "live" ELSE "out", id |-> 0]
         \/ bcModule' = [at |-> stage, id |-> IF stage = "undo" THEN bcModule.id - 1 ELSE bcModule.id + 1]
BY DEF NextDevice

\* One device that nobody uses comes or goes.
LEMMA DeviceReplaced ==
  ASSUME BInv, SInv, NEW d \in Ids, psBCInfo[d].refs = 0, device[d].on => device[d].num = 0,
         device' \in [Ids -> Infos], \A e \in Ids \ {d} : device'[e] = device[e],
         device'[d].on => device'[d].num = 0 /\ device'[d].array <= requests /\ device'[d].registered = 1,
         psBCInfo' \in [Ids -> Nodes], \A e \in Ids \ {d} : psBCInfo'[e] = psBCInfo[e],
         psBCInfo'[d].refs = 0, psBCInfo'[d].ext = <<>>, psBCInfo'[d].listed <=> device'[d].on,
         bcModule.at # "live", 
         UNCHANGED <<bcFiles, memoryVars, bcConn, bcCall, bcMaps, bcOops, bcEnv>>,
         DevicesInOrder'
  PROVE  SInv'
<1> USE DEF memoryVars
<1>0. BCCalm /\ ~bcOops /\ MemoryExact /\ UseSafe /\ device \in [Ids -> Infos]
  BY DEF SInv, BInv, BCTypeOK
<1>1. MemoryExact'
  BY <1>0, MemoryEmpty
<1>2. AllRegistered' /\ MapsAllocated'
  BY <1>0 DEF UseSafe, AllRegistered, MapsAllocated
<1>3. Unused'
  BY <1>0 DEF UseSafe, Unused
<1>4. ListedExactly'
  BY <1>0 DEF UseSafe, ListedExactly, Unused
<1>5. CopiesCurrent'
  BY <1>0 DEF UseSafe, CopiesCurrent
<1> QED BY <1>0, <1>1, <1>2, <1>3, <1>4, <1>5 DEF SInv, UseSafe, BCCalm
\* bc_cat is loaded and unloaded while nobody uses it.
LEMMA ModuleSafe == ASSUME BInv, SInv, BCModuleNext PROVE SInv'
<1> USE DEF providerVars, memoryVars, serviceVars, BCHealthy
<1>0. /\ BCCalm /\ ~bcOops /\ MemoryExact /\ UseSafe /\ bcEnv.orderly
      /\ device \in [Ids -> Infos] /\ psBCInfo \in [Ids -> Nodes]
      /\ bcModule \in [at : {"out", "init", "undo", "live", "destroy", "unregister"}, id : Ids]
      /\ bcModule.id \in Ids /\ DEVICE_COUNT \in Nat /\ Ids = 0..(DEVICE_COUNT - 1)
      /\ requests \in 0..MaxRequests
  BY BCConstantsAssumption DEF SInv, BCCalm, BInv, BCTypeOK, Ids
<1>1. BInv'
  BY BCModulePreserves
<1>2. device' \in [Ids -> Infos] /\ psBCInfo' \in [Ids -> Nodes]
  BY <1>1 DEF BInv, BCTypeOK
<1>3. CASE bc_cat_init
  <2>1. /\ bcModule.at = "out" /\ bcModule' = [at |-> "init", id |-> 0]
        /\ \A d \in Ids : device'[d] = NoInfo
        /\ UNCHANGED <<bcFiles, memoryVars, serviceVars, bcCall, bcMaps, bcOops, bcEnv>>
    BY <1>3 DEF bc_cat_init
  <2>2. \A d \in Ids : ~device[d].on /\ ~device'[d].on
    BY <1>0, <2>1, NewRecords DEF UseSafe, DevicesInOrder
  <2>3. \A d \in Ids : psBCInfo[d].refs = 0 /\ psBCInfo[d].ext = <<>>
    BY <1>0, <2>1, AccountFacts DEF UseSafe, Unused
  <2>4. MemoryExact'
    BY <1>0, <2>1, <2>2 DEF MemoryExact, ArraysHeld, FramesOwned, ArraysApart, ArraysRequested,
                            ForeignElsewhere, HoldsArray, Owning
  <2>5. AllRegistered' /\ MapsAllocated' /\ Unused' /\ DevicesInOrder'
    BY <1>0, <2>1, <2>2 DEF UseSafe, AllRegistered, MapsAllocated, Unused, DevicesInOrder
  <2>6. ListedExactly' /\ CopiesCurrent'
    BY <1>0, <2>1, <2>2, <2>3 DEF UseSafe, ListedExactly, CopiesCurrent
  <2> QED BY <1>0, <2>1, <2>4, <2>5, <2>6 DEF SInv, UseSafe, BCCalm
<1>4. CASE BC_Register
  <2>1. PICK d \in Ids : d = bcModule.id
    BY <1>0
  <2>2. /\ bcModule.at = "init"
        /\ device' = [device EXCEPT ![d] = [NewInfo EXCEPT !.registered = 1]]
        /\ psBCInfo' = [psBCInfo EXCEPT ![d] = NewNode]
        /\ NextDevice("init", DEVICE_COUNT - 1)
        /\ UNCHANGED <<bcFiles, memoryVars, bcConn, bcCall, bcMaps, bcOops, bcEnv>>
    BY <1>4, <2>1 DEF BC_Register
  <2>3. PICK w \in Infos : w = [NewInfo EXCEPT !.registered = 1] /\ w.on /\ w.num = 0
                          /\ w.array = 0 /\ w.registered = 1
    <3>1. NewInfo \in [on : {TRUE}, registered : {0, 1}, ref : 0..2, array : 0..MaxRequests,
                       num : 0..MaxBuffers, type : {"MMAP", "USERPTR"}]
      BY NewRecords, InfoFields
    <3>2. NewInfo.array = 0
      BY DEF NewInfo
    <3> QED BY <3>1, <3>2, NewRecords
  <2>4. device'[d] = w /\ psBCInfo'[d] = NewNode
        /\ \A e \in Ids \ {d} : device'[e] = device[e] /\ psBCInfo'[e] = psBCInfo[e]
    BY <1>0, <2>1, <2>2, <2>3
  <2>5. ~device[d].on /\ \A e \in Ids : device[e].on => device[e].num = 0
    BY <1>0, <2>1, <2>2 DEF UseSafe, DevicesInOrder
  <2>6. \/ bcModule' = [at |-> "live", id |-> 0]
        \/ bcModule' = [at |-> "init", id |-> d + 1]
    BY <2>1, <2>2, NextStage
  <2>7. DevicesInOrder'
    BY <1>0, <2>1, <2>2, <2>3, <2>4, <2>5, <2>6 DEF UseSafe, DevicesInOrder
  <2>8. psBCInfo[d].refs = 0 /\ bcModule.at # "live"
    BY <1>0, <2>1, <2>2 DEF UseSafe, Unused
  <2>9. device'[d].num = 0 /\ device'[d].array <= requests /\ device'[d].registered = 1
    BY <1>0, <2>3, <2>4
  <2>10. psBCInfo'[d].refs = 0 /\ psBCInfo'[d].ext = <<>>
    BY <2>4, NewRecords
  <2>11. psBCInfo'[d].listed <=> device'[d].on
    BY <2>3, <2>4, NewRecords
  <2> QED BY <1>2, <2>2, <2>4, <2>5, <2>7, <2>8, <2>9, <2>10, <2>11, DeviceReplaced
<1>5. CASE BC_RegisterFails
  BY <1>0, <1>5 DEF BC_RegisterFails, BCCalm, BCFails
<1>6. ASSUME NEW s \in {"undo", "destroy", "unregister"}, NEW i \in Ids,
             bcModule' = [at |-> s, id |-> i],
             UNCHANGED <<device, bcFiles, memoryVars, serviceVars, bcCall, bcMaps, bcOops, bcEnv>>,
             DevicesInOrder', Unused'
      PROVE  SInv'
  <2>1. MemoryExact'
    BY <1>0, <1>6, MemorySame
  <2>2. AllRegistered' /\ MapsAllocated' /\ ListedExactly' /\ CopiesCurrent'
    BY <1>0, <1>6 DEF UseSafe, AllRegistered, MapsAllocated, ListedExactly, CopiesCurrent
  <2> QED BY <1>0, <1>6, <2>1, <2>2 DEF SInv, UseSafe, BCCalm
<1>7. CASE DeviceCreateFails
  <2>1. /\ bcModule' = [at |-> "undo", id |-> bcModule.id] /\ bcModule.at = "init"
        /\ UNCHANGED <<device, bcFiles, memoryVars, serviceVars, bcCall, bcMaps, bcOops, bcEnv>>
    BY <1>0, <1>7 DEF DeviceCreateFails
  <2>2. DevicesInOrder' /\ Unused'
    BY <1>0, <2>1 DEF UseSafe, DevicesInOrder, Unused
  <2> QED BY <1>0, <1>6, <2>1, <2>2
<1>8. CASE delete_bc_cat
  <2>1. /\ bcModule' = [at |-> "destroy", id |-> 0]
        /\ UNCHANGED <<device, bcFiles, memoryVars, serviceVars, bcCall, bcMaps, bcOops, bcEnv>>
        /\ \A d \in Ids : ~InUse(d) /\ bcFiles[d] = 0
    BY <1>0, <1>8 DEF delete_bc_cat
  <2>2. 0 \in Ids /\ \A d \in Ids : ~(d < 0)
    BY <1>0, NewRecords
  <2>3. DevicesInOrder'
    BY <2>1, <2>2 DEF DevicesInOrder
  <2>4. bcMaps = {}
    <3>1. ASSUME NEW m \in bcMaps PROVE FALSE
      <4>1. m[2] \in frames /\ m[2] \in Buffers
        BY <1>0, <3>1 DEF UseSafe, MapsAllocated, BInv, BCTypeOK
      <4>2. PICK a \in Arrays, k \in 1..MaxBuffers : m[2] = <<a, k>>
        BY <4>1 DEF Buffers
      <4>3. PICK e \in Ids : Owning(e, a, k)
        BY <1>0, <4>1, <4>2 DEF MemoryExact, FramesOwned
      <4>4. m[2][1] = a
        BY <4>2
      <4> QED BY <2>1, <4>3, <4>4 DEF InUse, Owning
    <3> QED BY <3>1
  <2>5. \A d \in Ids : psBCInfo[d].refs = 0
    <3>1. ASSUME NEW d \in Ids PROVE psBCInfo[d].refs = 0
      BY <2>1, AccountFacts DEF InUse
    <3> QED BY <3>1
  <2>6. bcCall.op \notin {"found", "buffers"}
    BY <2>1 DEF InUse, BInv, BCTypeOK
  <2>7. Unused'
    BY <2>1, <2>4, <2>5, <2>6 DEF Unused
  <2> QED BY <1>6, <2>1, <2>2, <2>3, <2>7
<1>9. ASSUME NEW stage \in {"undo", "destroy"}, BC_Unregister(bcModule.id),
             bcModule.at = IF stage = "undo" THEN "undo" ELSE "unregister",
             NextDevice(stage, IF stage = "undo" THEN 0 ELSE DEVICE_COUNT - 1),
             UNCHANGED <<bcFiles, memoryVars, bcSyncs, bcConn, bcCall, bcMaps, bcOops, bcEnv>>
      PROVE  SInv'
  <2>1. PICK d \in Ids : d = bcModule.id
    BY <1>0
  <2>2. psBCInfo[d].refs = 0 /\ bcModule.at # "live"
    BY <1>0, <1>9 DEF UseSafe, Unused
  <2>3. device[d].on => device[d].num = 0
    BY <1>0, <1>9, <2>1 DEF UseSafe, DevicesInOrder
  <2>4. /\ ~device'[d].on /\ ~psBCInfo'[d].listed /\ psBCInfo'[d].refs = 0 /\ psBCInfo'[d].ext = <<>>
        /\ \A e \in Ids \ {d} : device'[e] = device[e] /\ psBCInfo'[e] = psBCInfo[e]
    <3>1. CASE device[d].on
      <4>1. Registered(d)
        BY <1>0, <3>1 DEF Registered, UseSafe, ListedExactly
      <4>2. device' = [device EXCEPT ![d] = NoInfo] /\ psBCInfo' = [psBCInfo EXCEPT ![d] = NoNode]
        BY <1>9, <2>1, <2>2, <4>1 DEF BC_Unregister, PVRSRVRemoveBCDeviceKM
      <4> QED BY <1>0, <2>1, <4>2, NewRecords
    <3>2. CASE ~device[d].on
      <4>1. UNCHANGED <<psBCInfo, device>>
        BY <1>9, <2>1, <3>2 DEF BC_Unregister, Registered
      <4>2. ~psBCInfo[d].listed
        BY <1>0, <3>2 DEF UseSafe, ListedExactly
      <4> QED BY <2>2, <3>2, <4>1, <4>2, AccountFacts
    <3> QED BY <3>1, <3>2
  <2>5. \/ bcModule' = [at |-> "out", id |-> 0] /\ d = (IF stage = "undo" THEN 0 ELSE DEVICE_COUNT - 1)
        \/ bcModule' = [at |-> stage, id |-> IF stage = "undo" THEN d - 1 ELSE d + 1]
    BY <1>9, <2>1, NextStage
  <2>6. DevicesInOrder'
    <3>1. CASE stage = "undo"
      <4>1. \A e \in Ids : (e > d => ~device[e].on) /\ (device[e].on => device[e].num = 0)
        BY <1>0, <1>9, <2>1, <3>1 DEF UseSafe, DevicesInOrder
      <4> QED BY <1>0, <2>1, <2>4, <2>5, <3>1, <4>1 DEF DevicesInOrder
    <3>2. CASE stage = "destroy"
      <4>1. \A e \in Ids : e < d => ~device[e].on
        BY <1>0, <1>9, <2>1, <3>2 DEF UseSafe, DevicesInOrder
      <4> QED BY <1>0, <2>1, <2>4, <2>5, <3>2, <4>1 DEF DevicesInOrder
    <3> QED BY <3>1, <3>2
  <2> QED BY <1>2, <1>9, <2>1, <2>2, <2>3, <2>4, <2>6, DeviceReplaced
<1>10. CASE InitUndoes
  <2>1. NextDevice("undo", IF "undo" = "undo" THEN 0 ELSE DEVICE_COUNT - 1)
    BY <1>10 DEF InitUndoes
  <2> QED BY <1>9, <1>10, <2>1 DEF InitUndoes
<1>11. CASE CleanupUnregisters
  <2>1. NextDevice("destroy", IF "destroy" = "undo" THEN 0 ELSE DEVICE_COUNT - 1)
    BY <1>11 DEF CleanupUnregisters
  <2> QED BY <1>9, <1>11, <2>1 DEF CleanupUnregisters
<1>12. CASE CleanupDestroysBuffers
  <2>1. PICK d \in Ids : d = bcModule.id
    BY <1>0
  <2>2. /\ bcModule.at = "destroy" /\ bcModule' = [at |-> "unregister", id |-> d]
        /\ UNCHANGED <<inserts, bcFiles, requests, serviceVars, bcCall, bcMaps, bcEnv>>
    BY <1>0, <1>12, <2>1 DEF CleanupDestroysBuffers
  <2>3. /\ \A e \in Ids : psBCInfo[e].refs = 0 /\ psBCInfo[e].ext = <<>>
        /\ bcMaps = {} /\ bcCall.op \notin {"found", "buffers"}
    BY <1>0, <2>2, AccountFacts DEF UseSafe, Unused
  <2>4. \A e \in Ids : e < d => ~device[e].on
    BY <1>0, <2>1, <2>2 DEF UseSafe, DevicesInOrder
  <2>5. Unused'
    BY <1>0, <2>2, <2>3 DEF UseSafe, Unused
  <2>6. CASE device[d].on
    <3>1. PICK left : /\ left = BC_DestroyBuffers(device[d])
                      /\ arrays' = left[1] /\ frames' = left[2]
                      /\ device' = [device EXCEPT ![d] = Emptied(device[d])]
                      /\ bcOops' = FreesForeign(device[d])
                      /\ ForgetFreed
      BY <1>12, <2>1, <2>6 DEF CleanupDestroysBuffers
    <3>2. PICK w \in Infos : w = Emptied(device[d]) /\ w.on /\ w.num = 0
                            /\ w.registered = device[d].registered
      BY <1>0, <2>1, <2>6, InfoEmptied
    <3>3. device'[d] = w /\ \A e \in Ids \ {d} : device'[e] = device[e]
      BY <1>0, <2>1, <3>1, <3>2
    <3>4. w.array \in 0..MaxRequests /\ w.array <= requests
      <4>1. w.array \in 0..MaxRequests
        BY <3>2, InfoFields
      <4>2. device[d].array <= requests
        BY <1>0, <2>1, <2>6 DEF MemoryExact, ArraysRequested
      <4>3. w.array = device[d].array \/ w.array = 0
        <5>1. device[d] \in [on : {TRUE}, registered : {0, 1}, ref : 0..2, array : 0..MaxRequests,
                             num : 0..MaxBuffers, type : {"MMAP", "USERPTR"}]
          BY <1>0, <2>1, <2>6, InfoFields
        <5> QED BY <3>2, <5>1 DEF Emptied
      <4> QED BY <1>0, <4>1, <4>2, <4>3
    <3>5. arrays' \subseteq Arrays /\ frames' \subseteq Buffers /\ bcOops' = FALSE
      BY <1>0, <2>1, <2>6, <3>1, Destroyed
    <3>6. MemoryExact'
      <4>0. PICK n \in 0..MaxBuffers, a0 \in 0..MaxRequests : n = 0 /\ a0 = w.array
        BY <3>4, BCConstantsAssumption
      <4>1. device'[d].num = n /\ device'[d].array = a0 /\ device'[d].on
        BY <3>2, <3>3, <4>0
      <4>2. requests' \in 0..MaxRequests /\ requests <= requests' /\ a0 <= requests' /\ (n > 0 => a0 > requests)
        BY <1>0, <2>2, <3>4, <4>0
      <4>3. \A a \in Arrays : a \in arrays' <=> a \in left[1] \/ (n > 0 /\ a = a0)
        BY <3>1, <4>0
      <4>4. \A a \in Arrays, k \in 1..MaxBuffers :
              <<a, k>> \in frames' <=>
                \/ <<a, k>> \in left[2]
                \/ device'[d].type = "MMAP" /\ a = a0 /\ k <= n
        BY <3>1, <4>0
      <4>5. left = BC_DestroyBuffers(device[d]) /\ ForgetFreed
        BY <3>1
      <4>6. n \in 0..MaxBuffers /\ a0 \in 0..MaxRequests
        BY <4>0
      <4>7. \A e \in Ids \ {d} : device'[e] = device[e]
        BY <3>3
      <4>8. MemoryExact /\ device' \in [Ids -> Infos]
        BY <1>0, <1>2
      <4> QED BY <2>1, <2>6, <3>5, <4>1, <4>2, <4>3, <4>4, <4>5, <4>6, <4>7, <4>8, MemoryReplaced
    <3>7. DevicesInOrder'
      BY <1>0, <2>2, <2>4, <3>2, <3>3 DEF DevicesInOrder
    <3>8. AllRegistered' /\ MapsAllocated'
      BY <1>0, <2>2, <2>3 DEF UseSafe, AllRegistered, MapsAllocated
    <3>9. ListedExactly' /\ CopiesCurrent'
      BY <1>0, <2>2, <2>3, <2>6, <3>2, <3>3 DEF UseSafe, ListedExactly, CopiesCurrent
    <3> QED BY <1>0, <2>2, <2>5, <3>5, <3>6, <3>7, <3>8, <3>9 DEF SInv, UseSafe, BCCalm
  <2>7. CASE ~device[d].on
    <3>1. UNCHANGED <<arrays, frames, foreign, device, bcOops>>
      BY <1>12, <2>1, <2>7 DEF CleanupDestroysBuffers
    <3>2. DevicesInOrder'
      BY <2>2, <2>4, <2>7, <3>1 DEF DevicesInOrder
    <3> QED BY <1>6, <2>1, <2>2, <2>5, <3>1, <3>2
  <2> QED BY <2>6, <2>7
<1> QED BY <1>3, <1>4, <1>5, <1>7, <1>8, <1>10, <1>11, <1>12 DEF BCModuleNext
-----------------------------------------------------------------------------
(***************************************************************************)
(* The steps of the driver.                                                *)
(***************************************************************************)

\* The driver changes its own records only, and only while bc_cat is live.
LEMMA DriverSafe ==
  ASSUME BInv, SInv, bcModule.at = "live",
         UNCHANGED <<bcModule, device, requests, arrays, frames, foreign, bcFiles, bcOops, bcEnv>>,
         \A d \in Ids : psBCInfo'[d].listed = psBCInfo[d].listed,
         bcCall'.op \in {"found", "buffers"} => psBCInfo[bcCall'.dev].listed /\ bcCall'.dev \in Ids,
         AllRegistered', CopiesCurrent', MapsAllocated'
  PROVE  SInv'
<1>0. BCCalm /\ ~bcOops /\ MemoryExact /\ UseSafe
  BY DEF SInv
<1>1. MemoryExact'
  BY <1>0, MemorySame
<1>2. DevicesInOrder' /\ Unused'
  BY <1>0 DEF UseSafe, DevicesInOrder, Unused
<1>3. ListedExactly'
  BY <1>0 DEF UseSafe, ListedExactly
<1> QED BY <1>0, <1>1, <1>2, <1>3 DEF SInv, UseSafe, BCCalm
\* In a calm environment the record of a device that has users is what the
\* provider has, its functions are there, and only live bc_cat has users.
LEMMA UsersAreServed ==
  ASSUME BInv, SInv, NEW d \in Ids
  PROVE  /\ psBCInfo[d].refs # 0 => bcModule.at = "live" /\ CodeThere /\ psBCInfo[d].listed
         /\ bcCall.op \in {"found", "buffers"} => bcModule.at = "live" /\ CodeThere
                                                 /\ psBCInfo[bcCall.dev].listed
         /\ ConnectionsTo(d) # {} => psBCInfo[d].refs # 0
BY AccountFacts DEF SInv, UseSafe, Unused, ListedExactly, CodeThere

\* One step of PVRSRVOpenBCDeviceKM.
LEMMA OpenSafe ==
  ASSUME BInv, SInv, NEW c \in Clients, NEW d \in Ids, PVRSRVOpenBCDeviceKM(c, d)
  PROVE  SInv'
<1> USE DEF providerVars, memoryVars, serviceVars, BCHealthy
<1>0. /\ BCCalm /\ ~bcOops /\ MemoryExact /\ UseSafe /\ bcEnv.orderly
      /\ psBCInfo \in [Ids -> Nodes] /\ psBCInfo[d] \in Nodes
      /\ AllRegistered /\ CopiesCurrent /\ MapsAllocated /\ c # NoClient
  BY BCConstantsAssumption DEF SInv, UseSafe, BCCalm, BInv, BCTypeOK
<1>1. BInv'
  BY BCOpenPreserves
<1>2. psBCInfo' \in [Ids -> Nodes]
  BY <1>1 DEF BInv, BCTypeOK
<1>3. BCConnected(c, d) => AllRegistered' /\ bcCall' = NoCall
  <2>1. ~BCFails("resman")
    BY <1>0 DEF BCCalm, BCFails
  <2>2. bcConn \in [BCConnIds -> [state : {"free", "open", "unregistered", "lost"},
                                 client : Clients \cup {NoClient}, dev : Ids]]
    BY DEF BInv, BCTypeOK
  <2> QED BY <1>0, <2>1, <2>2 DEF BCConnected, BCFresh, AllRegistered
<1>4. CASE OpenBCFindsDevice(c, d)
  <2>1. /\ bcModule.at = "live" /\ psBCInfo[d].listed
        /\ bcCall' = [op |-> "found", client |-> c, dev |-> d]
        /\ UNCHANGED <<bcModule, device, requests, arrays, frames, foreign, bcFiles, bcOops, bcEnv,
                       psBCInfo, bcConn, bcMaps>>
    BY <1>0, <1>4 DEF OpenBCFindsDevice
  <2>2. AllRegistered' /\ CopiesCurrent' /\ MapsAllocated'
    BY <1>0, <2>1 DEF AllRegistered, CopiesCurrent, MapsAllocated
  <2> QED BY <2>1, <2>2, DriverSafe
<1>5. CASE OpenBCAgain(c, d)
  <2>1. /\ bcCall = [op |-> "found", client |-> c, dev |-> d] /\ psBCInfo[d].refs > 0
        /\ psBCInfo' = [psBCInfo EXCEPT ![d] = [psBCInfo[d] EXCEPT !.refs = psBCInfo[d].refs + 1]]
        /\ BCConnected(c, d)
        /\ UNCHANGED <<bcModule, device, requests, arrays, frames, foreign, bcFiles, bcOops, bcEnv, bcMaps>>
    BY <1>5 DEF OpenBCAgain, Found
  <2>2. PICK w : w = [psBCInfo[d] EXCEPT !.refs = psBCInfo[d].refs + 1]
    OBVIOUS
  <2>3. w.listed = psBCInfo[d].listed /\ w.count = psBCInfo[d].count /\ w.ext = psBCInfo[d].ext
    BY <1>0, <2>2 DEF Nodes
  <2>4. psBCInfo'[d] = w /\ \A e \in Ids \ {d} : psBCInfo'[e] = psBCInfo[e]
    BY <1>0, <2>1, <2>2
  <2>5. CopiesCurrent' /\ MapsAllocated' /\ AllRegistered' /\ bcCall'.op = "none"
    <3>1. CopiesCurrent'
      BY <1>0, <2>1, <2>3, <2>4 DEF CopiesCurrent
    <3> QED BY <1>0, <1>3, <2>1, <3>1 DEF MapsAllocated, NoCall
  <2>6. bcModule.at = "live"
    BY <2>1, UsersAreServed
  <2>7. \A e \in Ids : psBCInfo'[e].listed = psBCInfo[e].listed
    BY <2>3, <2>4
  <2> QED BY <2>1, <2>5, <2>6, <2>7, DriverSafe
<1>6. CASE OpenBCFirst(c, d)
  <2>1. /\ bcCall = [op |-> "found", client |-> c, dev |-> d] /\ psBCInfo[d].listed
        /\ psBCInfo' = [psBCInfo EXCEPT ![d] =
                          [psBCInfo[d] EXCEPT !.refs = 1, !.count = device[d].num, !.ext = <<>>]]
        /\ bcCall' = [bcCall EXCEPT !.op = "buffers"]
        /\ UNCHANGED <<bcModule, device, requests, arrays, frames, foreign, bcFiles, bcOops, bcEnv,
                       bcConn, bcMaps>>
    BY <1>6 DEF OpenBCFirst, Found
  <2>2. PICK x : x = <<>>
    OBVIOUS
  <2>3. PICK w : w = [psBCInfo[d] EXCEPT !.refs = 1, !.count = device[d].num, !.ext = x]
    OBVIOUS
  <2>4. w.listed = psBCInfo[d].listed /\ w.count = device[d].num /\ w.ext = x
    BY <1>0, <2>3 DEF Nodes
  <2>5. psBCInfo'[d] = w /\ \A e \in Ids \ {d} : psBCInfo'[e] = psBCInfo[e]
    BY <1>0, <2>1, <2>2, <2>3
  <2>6. CopiesCurrent'
    BY <1>0, <2>1, <2>2, <2>4, <2>5 DEF CopiesCurrent
  <2>7. MapsAllocated' /\ AllRegistered'
    BY <1>0, <2>1 DEF MapsAllocated, AllRegistered
  <2>8. bcModule.at = "live" /\ bcCall'.dev = d
    BY <2>1, UsersAreServed
  <2>9. \A e \in Ids : psBCInfo'[e].listed = psBCInfo[e].listed
    BY <2>4, <2>5
  <2> QED BY <2>1, <2>6, <2>7, <2>8, <2>9, DriverSafe
<1>7. CASE OpenBCFails(c, d)
  <2>1. /\ bcCall.op = "found" /\ bcCall' = NoCall
        /\ UNCHANGED <<bcModule, device, requests, arrays, frames, foreign, bcFiles, bcOops, bcEnv,
                       psBCInfo, bcConn, bcMaps>>
    BY <1>7 DEF OpenBCFails, Found
  <2>2. AllRegistered' /\ CopiesCurrent' /\ MapsAllocated' /\ bcCall'.op = "none"
    BY <1>0, <2>1 DEF AllRegistered, CopiesCurrent, MapsAllocated, NoCall
  <2>3. bcModule.at = "live"
    BY <2>1, UsersAreServed
  <2> QED BY <2>1, <2>2, <2>3, DriverSafe
<1>8. CASE OpenBCStale(c, d)
  <2>1. bcCall.op \in {"found", "buffers"} /\ bcCall.dev = d
    BY <1>8 DEF OpenBCStale, Found, Collecting
  <2>2. CodeThere /\ psBCInfo[d].listed
    BY <2>1, UsersAreServed
  <2> QED BY <1>8, <2>2 DEF OpenBCStale
<1>9. CASE OpenBCBuffer(c, d)
  <2>1. /\ bcCall = [op |-> "buffers", client |-> c, dev |-> d]
        /\ psBCInfo' = [psBCInfo EXCEPT ![d] =
                          [psBCInfo[d] EXCEPT !.ext = Append(psBCInfo[d].ext, device[d].array)]]
        /\ UNCHANGED <<bcModule, device, requests, arrays, frames, foreign, bcFiles, bcOops, bcEnv,
                       bcConn, bcCall, bcMaps>>
    BY <1>9 DEF OpenBCBuffer, Collecting
  <2>2. PICK x : x = Append(psBCInfo[d].ext, device[d].array)
    OBVIOUS
  <2>3. \A k \in DOMAIN x : x[k] = device[d].array
    <3>1. psBCInfo[d].ext \in Seq(Arrays)
      BY <1>0, NodeFields
    <3>2. \A k \in 1..Len(psBCInfo[d].ext) : psBCInfo[d].ext[k] = device[d].array
      BY <1>0, <3>1 DEF CopiesCurrent
    <3>3. \A k \in DOMAIN x : k \in 1..(Len(psBCInfo[d].ext) + 1)
              /\ x[k] = IF k <= Len(psBCInfo[d].ext) THEN psBCInfo[d].ext[k] ELSE device[d].array
      BY <2>2, <3>1
    <3> QED BY <3>1, <3>2, <3>3
  <2>4. PICK w : w = [psBCInfo[d] EXCEPT !.ext = x]
    OBVIOUS
  <2>5. w.listed = psBCInfo[d].listed /\ w.count = psBCInfo[d].count /\ w.refs = psBCInfo[d].refs
           /\ w.ext = x
    BY <1>0, <2>4 DEF Nodes
  <2>6. psBCInfo'[d] = w /\ \A e \in Ids \ {d} : psBCInfo'[e] = psBCInfo[e]
    BY <1>0, <2>1, <2>2, <2>4
  <2>7. CopiesCurrent'
    BY <1>0, <2>1, <2>3, <2>5, <2>6 DEF CopiesCurrent
  <2>8. MapsAllocated' /\ AllRegistered'
    BY <1>0, <2>1 DEF MapsAllocated, AllRegistered
  <2>9. bcModule.at = "live" /\ psBCInfo[d].listed
    BY <2>1, UsersAreServed
  <2>10. \A e \in Ids : psBCInfo'[e].listed = psBCInfo[e].listed
    BY <2>5, <2>6
  <2> QED BY <2>1, <2>7, <2>8, <2>9, <2>10, DriverSafe
<1>10. CASE OpenBCBufferFails(c, d)
  <2>1. /\ bcCall.op = "buffers" /\ bcCall' = NoCall
        /\ psBCInfo' = [psBCInfo EXCEPT ![d] =
                          [psBCInfo[d] EXCEPT !.refs = 0, !.count = 0, !.ext = <<>>]]
        /\ UNCHANGED <<bcModule, device, requests, arrays, frames, foreign, bcFiles, bcOops, bcEnv,
                       bcConn, bcMaps>>
    BY <1>10 DEF OpenBCBufferFails, Collecting
  <2>2. PICK w \in Nodes : /\ psBCInfo' = [psBCInfo EXCEPT ![d] = w]
                          /\ w.refs = 0 /\ w.listed = psBCInfo[d].listed /\ w.ext = <<>>
    BY <1>0, <2>1, EmptyNode
  <2>3. psBCInfo'[d] = w /\ \A e \in Ids \ {d} : psBCInfo'[e] = psBCInfo[e]
    BY <1>0, <2>2
  <2>4. CopiesCurrent' /\ MapsAllocated' /\ AllRegistered' /\ bcCall'.op = "none"
    BY <1>0, <2>1, <2>2, <2>3 DEF CopiesCurrent, MapsAllocated, AllRegistered, NoCall
  <2>5. bcModule.at = "live"
    BY <2>1, UsersAreServed
  <2>6. \A e \in Ids : psBCInfo'[e].listed = psBCInfo[e].listed
    BY <2>2, <2>3
  <2> QED BY <2>1, <2>4, <2>5, <2>6, DriverSafe
<1>11. CASE OpenBCDone(c, d)
  <2>1. /\ bcCall.op = "buffers" /\ BCConnected(c, d)
        /\ UNCHANGED <<bcModule, device, requests, arrays, frames, foreign, bcFiles, bcOops, bcEnv,
                       psBCInfo, bcMaps>>
    BY <1>11 DEF OpenBCDone, Collecting
  <2>2. CopiesCurrent' /\ MapsAllocated' /\ AllRegistered' /\ bcCall'.op = "none"
    BY <1>0, <1>3, <2>1 DEF CopiesCurrent, MapsAllocated, NoCall
  <2>3. bcModule.at = "live"
    BY <2>1, UsersAreServed
  <2> QED BY <2>1, <2>2, <2>3, DriverSafe
<1> QED BY <1>4, <1>5, <1>6, <1>7, <1>8, <1>9, <1>10, <1>11 DEF PVRSRVOpenBCDeviceKM
\* CloseBCDeviceCallBack finds the provider's code.
LEMMA CloseSafe ==
  ASSUME BInv, SInv, NEW i \in BCConnIds, bcConn[i].state = "open",
         bcCall.op \in {"none", "release"}, CloseBCDeviceCallBack(i)
  PROVE  SInv'
<1> USE DEF providerVars, memoryVars, serviceVars, BCHealthy
<1>0. /\ psBCInfo \in [Ids -> Nodes] /\ AllRegistered /\ CopiesCurrent /\ MapsAllocated
      /\ bcConn \in [BCConnIds -> [state : {"free", "open", "unregistered", "lost"},
                                   client : Clients \cup {NoClient}, dev : Ids]]
  BY DEF SInv, UseSafe, BInv, BCTypeOK
<1>1. PICK d \in Ids : d = bcConn[i].dev
  BY <1>0
<1>2. i \in ConnectionsTo(d)
  BY <1>1 DEF ConnectionsTo
<1>3. psBCInfo[d].refs # 0 /\ bcModule.at = "live" /\ CodeThere
  BY <1>1, <1>2, UsersAreServed
<1>4. /\ bcConn' = [bcConn EXCEPT ![i] = NoConn]
      /\ UNCHANGED <<bcModule, device, requests, arrays, frames, foreign, bcFiles, bcOops, bcEnv,
                     bcCall, bcMaps>>
      /\ \/ /\ psBCInfo[d].refs = 1
            /\ psBCInfo' = [psBCInfo EXCEPT ![d] =
                              [psBCInfo[d] EXCEPT !.refs = 0, !.count = 0, !.ext = <<>>]]
         \/ psBCInfo' = [psBCInfo EXCEPT ![d] = [psBCInfo[d] EXCEPT !.refs = psBCInfo[d].refs - 1]]
  BY <1>1, <1>3 DEF CloseBCDeviceCallBack
<1>5. AllRegistered' /\ MapsAllocated'
  BY <1>0, <1>4 DEF AllRegistered, MapsAllocated, NoConn
<1>6. CopiesCurrent' /\ \A e \in Ids : psBCInfo'[e].listed = psBCInfo[e].listed
  <2>1. CASE psBCInfo' = [psBCInfo EXCEPT ![d] =
                              [psBCInfo[d] EXCEPT !.refs = 0, !.count = 0, !.ext = <<>>]]
    <3>1. PICK w \in Nodes : /\ psBCInfo' = [psBCInfo EXCEPT ![d] = w]
                            /\ w.refs = 0 /\ w.listed = psBCInfo[d].listed /\ w.ext = <<>>
      BY <1>0, <1>1, <2>1, EmptyNode
    <3>2. psBCInfo'[d] = w /\ \A e \in Ids \ {d} : psBCInfo'[e] = psBCInfo[e]
      BY <1>0, <1>1, <3>1
    <3> QED BY <1>0, <1>4, <3>1, <3>2 DEF CopiesCurrent
  <2>2. CASE psBCInfo' = [psBCInfo EXCEPT ![d] = [psBCInfo[d] EXCEPT !.refs = psBCInfo[d].refs - 1]]
    <3>1. PICK w : w = [psBCInfo[d] EXCEPT !.refs = psBCInfo[d].refs - 1]
      OBVIOUS
    <3>2. w.listed = psBCInfo[d].listed /\ w.count = psBCInfo[d].count /\ w.ext = psBCInfo[d].ext
      BY <1>0, <1>1, <3>1 DEF Nodes
    <3>3. psBCInfo'[d] = w /\ \A e \in Ids \ {d} : psBCInfo'[e] = psBCInfo[e]
      BY <1>0, <1>1, <2>2, <3>1
    <3>4. psBCInfo[d].refs > 0
      BY <1>1, <1>3, AccountFacts
    <3> QED BY <1>0, <1>4, <3>2, <3>3, <3>4 DEF CopiesCurrent
  <2> QED BY <1>4, <2>1, <2>2
<1>7. bcCall'.op \notin {"found", "buffers"}
  BY <1>4
<1> QED BY <1>3, <1>4, <1>5, <1>6, <1>7, DriverSafe

\* The other steps of a client.
LEMMA ClientSafe == ASSUME BInv, SInv, NEW c \in Clients, BCClientNext(c) PROVE SInv'
<1> USE DEF providerVars, memoryVars, serviceVars, BCHealthy
<1>0. /\ BCCalm /\ ~bcOops /\ MemoryExact /\ UseSafe
      /\ psBCInfo \in [Ids -> Nodes] /\ AllRegistered /\ CopiesCurrent /\ MapsAllocated
      /\ Unused /\ ListedExactly /\ DevicesInOrder
      /\ bcConn \in [BCConnIds -> [state : {"free", "open", "unregistered", "lost"},
                                   client : Clients \cup {NoClient}, dev : Ids]]
      /\ c # NoClient
  BY BCConstantsAssumption DEF SInv, UseSafe, BInv, BCTypeOK
<1>1. ASSUME NEW i \in BCConnIds, bcConn[i].client = c
      PROVE  /\ bcConn[i].state = "open" /\ bcConn[i].dev \in Ids
             /\ psBCInfo[bcConn[i].dev].refs # 0 /\ bcModule.at = "live" /\ CodeThere
  <2>1. bcConn[i].state = "open" /\ bcConn[i].dev \in Ids
    BY <1>0, <1>1 DEF AllRegistered
  <2>2. i \in ConnectionsTo(bcConn[i].dev)
    BY <2>1 DEF ConnectionsTo
  <2> QED BY <2>1, <2>2, UsersAreServed
<1>2. ASSUME NEW d \in Ids, PVRSRVOpenBCDeviceKM(c, d) PROVE SInv'
  BY <1>2, OpenSafe
<1>3. CASE PVRSRVCloseBCDeviceKM(c)
  <2>1. PICK i \in OpenOf(c) : CloseBCDeviceCallBack(i)
    BY <1>1, <1>3 DEF PVRSRVCloseBCDeviceKM
  <2>2. bcCall.op = "none"
    BY <1>3 DEF PVRSRVCloseBCDeviceKM, NoCall
  <2> QED BY <2>1, <2>2, CloseSafe DEF OpenOf
<1>4. ASSUME UNCHANGED <<providerVars, bcFiles, serviceVars, bcOops, bcEnv>>,
             bcCall'.op \notin {"found", "buffers"}, MapsAllocated',
             bcModule.at # "live" => bcMaps' = {}
      PROVE  SInv'
  <2>1. MemoryExact'
    BY <1>0, <1>4, MemorySame
  <2>2. AllRegistered' /\ DevicesInOrder' /\ CopiesCurrent'
    BY <1>0, <1>4 DEF AllRegistered, DevicesInOrder, CopiesCurrent
  <2>3. Unused' /\ ListedExactly'
    BY <1>0, <1>4 DEF Unused, ListedExactly
  <2> QED BY <1>0, <1>4, <2>1, <2>2, <2>3 DEF SInv, UseSafe, BCCalm
<1>5. CASE PVRSRVMapDeviceClassMemoryKM(c)
  <2>0. PICK i \in BCConnIds :
          /\ bcConn[i].client = c
          /\ \E b \in Collected(bcConn[i].dev) :
               \/ /\ GetBCBufferAddr(b)
                  /\ b \in frames \ foreign
                  /\ bcMaps' = bcMaps \cup {<<c, b>>}
                  /\ BCHealthy
                  /\ UNCHANGED <<providerVars, bcFiles, serviceVars, bcCall>>
               \/ /\ ~GetBCBufferAddr(b)
                  /\ BCOops
    BY <1>5 DEF PVRSRVMapDeviceClassMemoryKM
  <2>1. PICK b \in Collected(bcConn[i].dev) :
          /\ bcConn[i].client = c
          /\ \/ /\ GetBCBufferAddr(b)
                /\ b \in frames \ foreign
                /\ bcMaps' = bcMaps \cup {<<c, b>>}
                /\ BCHealthy
                /\ UNCHANGED <<providerVars, bcFiles, serviceVars, bcCall>>
             \/ /\ ~GetBCBufferAddr(b)
                /\ BCOops
    BY <2>0
  <2>2. bcCall = NoCall
    BY <1>5 DEF PVRSRVMapDeviceClassMemoryKM
  <2>3. PICK d \in Ids : d = bcConn[i].dev /\ psBCInfo[d].refs # 0
    BY <1>1, <2>0, <2>1
  <2>4. bcModule.at = "live" /\ CodeThere
    BY <1>1, <2>0, <2>1
  <2>5. GetBCBufferAddr(b)
    <3>1. PICK k \in DOMAIN psBCInfo[d].ext : b = <<psBCInfo[d].ext[k], k>>
      BY <2>1, <2>3 DEF Collected
    <3>2. b[1] = device[d].array
      BY <1>0, <2>3, <3>1 DEF CopiesCurrent
    <3>3. /\ device[d].on /\ device[d] \in Infos /\ psBCInfo[d].refs \in Nat
          /\ k \in 1..Len(psBCInfo[d].ext) /\ Len(psBCInfo[d].ext) \in Nat
      BY <2>3, <3>1, AccountFacts
    <3>4. Counted(d) = 0
      BY <2>2 DEF Counted, NoCall
    <3>5. Len(psBCInfo[d].ext) = psBCInfo[d].count /\ psBCInfo[d].count = device[d].num
      BY <1>0, <2>3, <3>3, <3>4 DEF BInv, BCAccountExact, CopiesCurrent
    <3>6. device[d].num > 0
      BY <3>3, <3>5
    <3>7. device[d].array \in Arrays
      <4>1. device[d].array \in 0..MaxRequests
        BY <3>3, InfoFields
      <4>2. device[d].array # 0
        BY <2>3, <3>3, <3>6 DEF BInv, BuffersHaveArray
      <4> QED BY <4>1, <4>2, BCConstantsAssumption DEF Arrays
    <3>8. device[d].array \in arrays
      BY <1>0, <2>3, <3>3, <3>6, <3>7 DEF MemoryExact, ArraysHeld, HoldsArray
    <3> QED BY <2>4, <3>2, <3>8 DEF GetBCBufferAddr
  <2>6. /\ b \in frames /\ bcMaps' = bcMaps \cup {<<c, b>>}
        /\ UNCHANGED <<providerVars, bcFiles, serviceVars, bcCall, bcOops, bcEnv>>
    BY <2>1, <2>5
  <2>7. MapsAllocated'
    BY <1>0, <2>6 DEF MapsAllocated
  <2>8. bcCall'.op \notin {"found", "buffers"}
    BY <2>2, <2>6 DEF NoCall
  <2> QED BY <1>4, <2>4, <2>6, <2>7, <2>8
<1>6. CASE PVRSRVUnmapDeviceClassMemoryKM(c)
  <2>1. /\ bcCall = NoCall /\ bcMaps' \subseteq bcMaps
        /\ UNCHANGED <<providerVars, bcFiles, serviceVars, bcCall, bcOops, bcEnv>>
    BY <1>6 DEF PVRSRVUnmapDeviceClassMemoryKM
  <2>2. MapsAllocated' /\ (bcModule.at # "live" => bcMaps' = {})
    BY <1>0, <2>1 DEF MapsAllocated, Unused
  <2>3. bcCall'.op \notin {"found", "buffers"}
    BY <2>1 DEF NoCall
  <2> QED BY <1>4, <2>1, <2>2, <2>3
<1>7. CASE PVRSRVGetBCInfoKM(c)
  BY <1>1, <1>7 DEF PVRSRVGetBCInfoKM
<1>8. CASE ClientEnds(c)
  <2>1. bcConn' = bcConn
    <3>1. \A i \in BCConnIds : bcConn[i].state # "unregistered"
      BY <1>0 DEF AllRegistered
    <3>2. bcConn' = [i \in BCConnIds |-> bcConn[i]]
      BY <1>8, <3>1 DEF ClientEnds
    <3> QED BY <1>0, <3>2
  <2>2. /\ bcCall'.op = "release"
        /\ UNCHANGED <<providerVars, bcFiles, psBCInfo, bcSyncs, bcMaps, bcOops, bcEnv>>
    BY <1>8 DEF ClientEnds
  <2>3. MapsAllocated' /\ (bcModule.at # "live" => bcMaps' = {})
    BY <1>0, <2>2 DEF MapsAllocated, Unused
  <2> QED BY <1>4, <2>1, <2>2, <2>3
<1>9. CASE ReleaseBCDevices(c)
  <2>1. ASSUME NEW i \in OpenOf(c), CloseBCDeviceCallBack(i) PROVE SInv'
    BY <1>9, <2>1, CloseSafe DEF ReleaseBCDevices, OpenOf
  <2>2. CASE /\ bcMaps' = {m \in bcMaps : m[1] # c} /\ bcCall' = NoCall
             /\ BCHealthy /\ UNCHANGED <<providerVars, bcFiles, serviceVars>>
    <3>1. MapsAllocated' /\ (bcModule.at # "live" => bcMaps' = {})
      BY <1>0, <2>2 DEF MapsAllocated, Unused
    <3>2. bcCall'.op \notin {"found", "buffers"}
      BY <2>2 DEF NoCall
    <3> QED BY <1>4, <2>2, <3>1, <3>2
  <2> QED BY <1>9, <2>1, <2>2 DEF ReleaseBCDevices
<1> QED BY <1>2, <1>3, <1>5, <1>6, <1>7, <1>8, <1>9 DEF BCClientNext

-----------------------------------------------------------------------------
(***************************************************************************)
(* The theorems.                                                           *)
(***************************************************************************)

\* Nothing is used when nothing is loaded.
LEMMA InitSafe == ASSUME BCInit, BCCalm PROVE SInv
<1>1. \A d \in Ids : ~device[d].on /\ ~psBCInfo[d].listed /\ psBCInfo[d].refs = 0 /\ psBCInfo[d].ext = <<>>
  BY NewRecords DEF BCInit
<1>2. MemoryExact
  BY <1>1 DEF BCInit, MemoryExact, ArraysHeld, FramesOwned, ArraysApart, ArraysRequested,
              ForeignElsewhere, HoldsArray, Owning
<1>3. AllRegistered /\ DevicesInOrder /\ Unused /\ MapsAllocated
  BY <1>1 DEF BCInit, AllRegistered, DevicesInOrder, Unused, MapsAllocated, NoConn, NoCall
<1>4. ListedExactly /\ CopiesCurrent
  BY <1>1 DEF BCInit, ListedExactly, CopiesCurrent, NoCall
<1> QED BY <1>2, <1>3, <1>4 DEF SInv, UseSafe, BCInit

\* What the environment does in a behaviour is fixed.
LEMMA EnvironmentFixed == ASSUME [BCNext]_bcVars PROVE bcEnv' = bcEnv
<1> USE DEF bcVars, BCHealthy, BCOops
<1>1. ASSUME BCModuleNext PROVE bcEnv' = bcEnv
  BY <1>1 DEF BCModuleNext, bc_cat_init, BC_Register, BC_RegisterFails, DeviceCreateFails, InitUndoes,
              delete_bc_cat, CleanupDestroysBuffers, CleanupUnregisters
<1>2. ASSUME NEW d \in Ids, BCFileNext(d) PROVE bcEnv' = bcEnv
  BY <1>2 DEF BCFileNext, bc_open, bc_release, BC_CreateBuffers, BCSetBufferPhyAddr, StaleFile
<1>3. ASSUME NEW i, CloseBCDeviceCallBack(i) PROVE bcEnv' = bcEnv
  BY <1>3 DEF CloseBCDeviceCallBack
<1>4. ASSUME NEW c, NEW d, PVRSRVOpenBCDeviceKM(c, d) PROVE bcEnv' = bcEnv
  BY <1>4 DEF PVRSRVOpenBCDeviceKM, OpenBCFindsDevice, OpenBCAgain, OpenBCFirst, OpenBCFails,
              OpenBCStale, OpenBCBuffer, OpenBCBufferFails, OpenBCDone
<1>5. ASSUME NEW c \in Clients, BCClientNext(c) PROVE bcEnv' = bcEnv
  BY <1>3, <1>4, <1>5 DEF BCClientNext, PVRSRVCloseBCDeviceKM, PVRSRVMapDeviceClassMemoryKM,
              PVRSRVUnmapDeviceClassMemoryKM, PVRSRVGetBCInfoKM, ClientEnds, ReleaseBCDevices
<1> QED BY <1>1, <1>2, <1>5 DEF BCNext, BCStopped

\* Every step preserves the invariant.
LEMMA NextSafe == ASSUME BInv, SInv, [BCNext]_bcVars PROVE SInv'
<1>1. ASSUME UNCHANGED bcVars PROVE SInv'
  <2> USE <1>1 DEF bcVars, providerVars, memoryVars, serviceVars
  <2>1. MemoryExact'
    BY MemorySame DEF SInv
  <2>2. UseSafe'
    BY AccountFacts, UseSame DEF SInv
  <2> QED BY <2>1, <2>2 DEF SInv, BCCalm
<1> QED BY <1>1, ModuleSafe, FileSafe, ClientSafe DEF BCNext, BCStopped

\* The invariant says what BCProviderSafe promises.
LEMMA SafeConsequences == ASSUME BInv, SInv PROVE BCProviderSafe
<1>0. /\ BCCalm /\ ~bcOops /\ MemoryExact /\ UseSafe
      /\ device \in [Ids -> Infos] /\ arrays \subseteq Arrays /\ frames \subseteq Buffers
      /\ MaxBuffers \in Nat /\ MaxRequests \in Nat
  BY BCConstantsAssumption DEF SInv, BInv, BCTypeOK
<1>1. ASSUME NEW d \in Ids, device[d].on
      PROVE  /\ device[d].num \in 0..MaxBuffers
             /\ device[d].num > 0 => device[d].array \in Arrays
  <2>1. device[d].num \in 0..MaxBuffers /\ device[d].array \in 0..MaxRequests
    BY <1>0, <1>1, InfoFields
  <2>2. device[d].num > 0 => device[d].array # 0
    BY <1>1 DEF BInv, BuffersHaveArray
  <2> QED BY <1>0, <2>1, <2>2 DEF Arrays
<1>2. frames = UNION {BuffersOf(d) : d \in Ids}
  <2>1. ASSUME NEW b \in frames PROVE \E d \in Ids : b \in BuffersOf(d)
    <3>1. PICK a \in Arrays, k \in 1..MaxBuffers : b = <<a, k>>
      BY <1>0, <2>1 DEF Buffers
    <3>2. PICK d \in Ids : Owning(d, a, k)
      BY <1>0, <2>1, <3>1 DEF MemoryExact, FramesOwned
    <3>3. device[d].num \in 0..MaxBuffers
      BY <1>1, <3>2 DEF Owning
    <3>4. k \in 1..device[d].num
      BY <1>0, <3>1, <3>2, <3>3 DEF Owning
    <3> QED BY <3>1, <3>2, <3>4 DEF Owning, BuffersOf, OwnBuffers
  <2>2. ASSUME NEW d \in Ids, NEW b \in BuffersOf(d) PROVE b \in frames
    <3>1. device[d].on /\ device[d].type = "MMAP"
      BY <2>2 DEF BuffersOf, OwnBuffers
    <3>2. PICK k \in 1..device[d].num : b = <<device[d].array, k>>
      BY <2>2, <3>1 DEF BuffersOf, OwnBuffers
    <3>3. k \in 1..MaxBuffers /\ device[d].array \in Arrays /\ k <= device[d].num
      BY <1>0, <1>1, <3>1, <3>2
    <3>4. Owning(d, device[d].array, k)
      BY <3>1, <3>3 DEF Owning
    <3> QED BY <1>0, <3>2, <3>3, <3>4 DEF MemoryExact, FramesOwned
  <2> QED BY <2>1, <2>2
<1>3. arrays = {device[d].array : d \in {e \in Ids : device[e].on /\ device[e].num > 0}}
  BY <1>0, <1>1 DEF MemoryExact, ArraysHeld, HoldsArray
<1>4. \A d \in Ids : psBCInfo[d].listed => CodeThere /\ device[d].on
  BY <1>0 DEF UseSafe, ListedExactly, DevicesInOrder, CodeThere
<1>5. bcModule.at = "out" => \A d \in Ids : ~device[d].on
  BY <1>0 DEF UseSafe, DevicesInOrder
<1>6. /\ \A d \in Ids : \A k \in DOMAIN psBCInfo[d].ext : psBCInfo[d].ext[k] = device[d].array
      /\ \A m \in bcMaps : m[2] \in frames
  BY <1>0 DEF UseSafe, CopiesCurrent, MapsAllocated
<1> QED BY <1>0, <1>2, <1>3, <1>4, <1>5, <1>6 DEF BCProviderSafe

\* If the users of bc_cat wait for each other, and neither its dma memory nor its
\* registration nor the resource manager fails, the driver never follows a stale
\* pointer into bc_cat: PVRSRVOpenBCDeviceKM copies addresses without a lock, and
\* nothing but that discipline of the users keeps them valid.
THEOREM FollowsNoStalePointer == BCSpec => []BCProviderSafe
<1>1. BCInit => (BCCalm => SInv)
  BY InitSafe
<1>2. BInv /\ (BCCalm => SInv) /\ [BCNext]_bcVars => (BCCalm => SInv)'
  <2>1. [BCNext]_bcVars => (BCCalm' <=> BCCalm)
    BY EnvironmentFixed DEF BCCalm
  <2> QED BY <2>1, NextSafe
<1>3. BInv /\ (BCCalm => SInv) => BCProviderSafe
  BY SafeConsequences DEF BCProviderSafe
<1> QED BY <1>1, <1>2, <1>3, BCInvariance, PTL DEF BCSpec

-----------------------------------------------------------------------------
(***************************************************************************)
(* deviceclass.c as a whole: what holds of each half holds of both, since  *)
(* they share no record.                                                   *)
(***************************************************************************)

\* A behaviour of both halves is a behaviour of each.
LEMMA Halves == ClassSpec => Spec /\ BCSpec
<1>1. ClassInit => Init /\ BCInit
  BY DEF ClassInit
<1>2. [ClassNext]_classVars => [Next]_vars /\ [BCNext]_bcVars
  BY DEF ClassNext, classVars
<1> QED BY <1>1, <1>2, PTL DEF ClassSpec, Spec, BCSpec

\* Whatever fails and whoever races, no counter of deviceclass.c, ui32RefCount, the
\* module's use count or the sync infos of display and buffer devices, is
\* decremented below zero, and no index leaves its array.
THEOREM KeepsClassTypes == ClassSpec => []ClassTypeOK
<1>1. BInv => BCTypeOK
  BY DEF BInv
<1>2. TypeOK /\ BCTypeOK => ClassTypeOK
  BY DEF ClassTypeOK
<1> QED BY <1>1, <1>2, Halves, KeepsTypes, BCInvariance, PTL

=============================================================================
