----------------------------- MODULE DeviceMem -----------------------------
(***************************************************************************)
(* The memory infos, synchronisation infos and memory contexts of          *)
(* devicemem.c and mem.c, as the processes reach them through the bridge:  *)
(* what is allocated, wrapped, exported, mapped by another process, and    *)
(* freed by its owner or by the resource manager when the owner dies.      *)
(*                                                                         *)
(* Every bridge call runs under pvr_lock, so it is one step.  A call that  *)
(* fails before it has changed anything is not a step; the failures that   *)
(* leave something behind are.  Device addresses and pages belong to       *)
(* DeviceHeap: here a buffer is only what holds a reference on a context.  *)
(* A call that stops the kernel (BUG_ON of a memory info that could not be *)
(* registered) or that reads freed memory (mapping an export whose context *)
(* is gone) is left out by its guard.                                      *)
(***************************************************************************)
EXTENDS Integers, FiniteSets, FiniteSetsExt

CONSTANTS Procs,       \* processes; each connects and dies once
          Mems,        \* memory infos, numbers from 1 on; each is used once
          Addrs,       \* physical addresses that are wrapped
          Requests,    \* [heap: "own" or "shared", sync, resman: BOOLEAN]
          Loads        \* the bounds of a behaviour, which Init chooses: [kinds: of memory,
                       \*  mems: memory infos, open: of open_count and of the references
                       \*  it loses, faults: calls that fail after they changed something]

ASSUME MemsAssumption == Mems \subseteq Nat \ {0} /\ IsFiniteSet(Mems)
ASSUME RequestsAssumption == Requests \subseteq [heap : {"own", "shared"}, sync : BOOLEAN,
                                                 resman : BOOLEAN]
ASSUME LoadsAssumption == \A l \in Loads : l.faults \in Nat

VARIABLES proc,        \* the process: its memory context and its handles to it
          mem,         \* the PVRSRV_KERNEL_MEM_INFOs
          sync,        \* the PVRSRV_KERNEL_SYNC_INFOs, named after who made them
          syncTable,   \* sync_table of the device: address to sync info
          exports,     \* memory infos with a handle of the kernel's handle base
          kref,        \* ui32RefCount of the kernel's context
          chain,       \* the process that has the swap chain
          load, faults

vars == <<proc, mem, sync, syncTable, exports, kref, chain, load, faults>>

Kernel == "kernel"           \* the context of the shared heaps
Nobody == "nobody"
Disp   == 0                  \* the sync info of the buffer of the swap chain
NoSync == -1
NoMem  == 0

ASSUME NamesAssumption == /\ {Kernel, Nobody} \cap Procs = {}
                          /\ {Nobody, "display"} \cap Addrs = {}

Kinds == {"alloc", "wrap", "map", "dc", "sys"}
Unused == [st |-> "unused", kind |-> "alloc", p |-> Nobody, ctx |-> Nobody, item |-> FALSE,
           ref |-> 0, exported |-> FALSE, sync |-> NoSync, src |-> NoMem, addr |-> Nobody,
           h |-> FALSE, refh |-> FALSE]
Freed(mi) == [Unused EXCEPT !.st = "freed", !.kind = mi.kind, !.p = mi.p,
                             !.h = mi.h, !.refh = mi.refh]
NoContext == [live |-> FALSE, ref |-> 0, open |-> 0, h |-> FALSE, lost |-> 0]
NoSyncInfo == [live |-> FALSE, ref |-> 0, addr |-> Nobody]

(* What a bridge call works on, and the step that leaves the result behind. *)
Now == [proc |-> proc, mem |-> mem, sync |-> sync, syncTable |-> syncTable,
        exports |-> exports, kref |-> kref]
Becomes(s) ==
    /\ proc' = s.proc /\ mem' = s.mem /\ sync' = s.sync
    /\ syncTable' = s.syncTable /\ exports' = s.exports /\ kref' = s.kref

Live(s, m) == s.mem[m].st = "live"
Meets(fault) == /\ fault # "none" => faults < load.faults
                /\ UNCHANGED load
                /\ faults' = IF fault = "none" THEN faults ELSE faults + 1

-----------------------------------------------------------------------------
(* Memory contexts (buffer_manager.c). *)
BM_DestroyContextCallBack(s, p) == [s EXCEPT !.proc[p].ctx = NoContext]
BM_DestroyContext(s, p) == BM_DestroyContextCallBack(s, p)

pvr_get_ctx(s, c) == IF c = Kernel THEN [s EXCEPT !.kref = @ + 1]
                                   ELSE [s EXCEPT !.proc[c].ctx.ref = @ + 1]

(* The last reference destroys the context, whoever gives it up. *)
pvr_put_ctx(s, c) ==
    IF c = Kernel THEN [s EXCEPT !.kref = @ - 1]
    ELSE IF s.proc[c].ctx.ref = 1 THEN BM_DestroyContext(s, c)
    ELSE [s EXCEPT !.proc[c].ctx.ref = @ - 1]

(* The BM_BUF of a memory info: wraps of one contiguous range share it, and only
   the first takes and the last gives up a reference on the context. *)
Buffer(s, m) == IF s.mem[m].addr = Nobody THEN <<m>> ELSE <<s.mem[m].ctx, s.mem[m].addr>>
SharesBuffer(s, m) == \E n \in Mems \ {m} :
                         Live(s, n) /\ s.mem[n].ctx # Nobody /\ Buffer(s, n) = Buffer(s, m)
AllocDeviceMem(s, m, new) == pvr_get_ctx([s EXCEPT !.mem[m] = new], new.ctx)
BM_Wrap(s, m, new) ==
    LET t == [s EXCEPT !.mem[m] = new]
    IN  IF SharesBuffer(t, m) THEN t ELSE pvr_get_ctx(t, new.ctx)

FreeDeviceMem(s, m) ==
    LET t == [s EXCEPT !.mem[m] = Freed(@)]
    IN  IF SharesBuffer(s, m) THEN t ELSE pvr_put_ctx(t, s.mem[m].ctx)

(* Synchronisation infos live in a shared heap. *)
PVRSRVAllocSyncInfoKM(s, y, addr) ==
    pvr_get_ctx([s EXCEPT !.sync[y] = [live |-> TRUE, ref |-> IF addr = Nobody THEN 0 ELSE 1,
                                       addr |-> addr]], Kernel)
PVRSRVFreeSyncInfoKM(s, y) == pvr_put_ctx([s EXCEPT !.sync[y] = NoSyncInfo], Kernel)

put_syncinfo(s, y) ==
    IF s.sync[y].ref = 1
    THEN PVRSRVFreeSyncInfoKM([s EXCEPT !.syncTable[s.sync[y].addr] = NoSync], y)
    ELSE [s EXCEPT !.sync[y].ref = @ - 1]

alloc_or_reuse_syncinfo(s, y, addr, fault) ==
    IF s.syncTable[addr] # NoSync THEN [s EXCEPT !.sync[s.syncTable[addr]].ref = @ + 1]
    ELSE LET t == PVRSRVAllocSyncInfoKM(s, y, addr)
         IN  IF fault = "hash" THEN t ELSE [t EXCEPT !.syncTable[addr] = y]

-----------------------------------------------------------------------------
(* What the resource manager calls, or the owner through ResManFreeResByPtr.  The
   item is gone whatever the callback returns. *)
FreeDeviceMemCallBackIgnoresMaps(s, m) ==
    LET t == [s EXCEPT !.mem[m].ref = @ - 1, !.mem[m].item = FALSE, !.exports = @ \ {m}]
    IN  FreeDeviceMem(IF t.mem[m].sync = NoSync THEN t
                      ELSE PVRSRVFreeSyncInfoKM(t, t.mem[m].sync), m)

FreeDeviceMemCallBackKeepsSync(s, m) ==
    LET t == [s EXCEPT !.mem[m].ref = @ - 1, !.mem[m].item = FALSE]
    IN  IF t.mem[m].exported /\ t.mem[m].ref # 0 THEN t
        ELSE FreeDeviceMem([t EXCEPT !.exports = @ \ {m}], m)

FreeDeviceMemCallBack(s, m) ==
    LET t == [s EXCEPT !.mem[m].ref = @ - 1, !.mem[m].item = FALSE]
        u == IF t.mem[m].exported THEN [t EXCEPT !.exports = @ \ {m}] ELSE t
        v == IF t.mem[m].sync = NoSync THEN u ELSE PVRSRVFreeSyncInfoKM(u, t.mem[m].sync)
    IN  IF t.mem[m].exported /\ t.mem[m].ref # 0 THEN t ELSE FreeDeviceMem(v, m)

UnwrapExtMemoryCallBack(s, m) == FreeDeviceMem(put_syncinfo(s, s.mem[m].sync), m)

UnmapDeviceMemoryCallBackKeepsSource(s, m) == FreeDeviceMem(s, m)

UnmapDeviceMemoryCallBack(s, m) ==
    LET t == FreeDeviceMem(s, m)
    IN  IF Live(s, s.mem[m].src) THEN [t EXCEPT !.mem[s.mem[m].src].ref = @ - 1] ELSE t

UnmapDeviceClassMemoryCallBack(s, m) == FreeDeviceMem(s, m)

FreeSharedSysMemCallBack(s, m) ==
    [s EXCEPT !.mem[m] = Freed(@)]

FreeResourceByPtr(s, m) ==
    CASE s.mem[m].kind = "alloc" -> FreeDeviceMemCallBack(s, m)
      [] s.mem[m].kind = "wrap"  -> UnwrapExtMemoryCallBack(s, m)
      [] s.mem[m].kind = "map"   -> UnmapDeviceMemoryCallBack(s, m)
      [] s.mem[m].kind = "dc"    -> UnmapDeviceClassMemoryCallBack(s, m)
      [] s.mem[m].kind = "sys"   -> FreeSharedSysMemCallBack(s, m)

(* A handle goes with the handles below it.  The one PVRSRVMapMemInfoMemBW makes
   hangs below the parent of the memory info's handle where it has one, which is
   the handle of the display buffer for device class memory. *)
DropHandles(mi, refh) == [mi EXCEPT !.h = FALSE, !.refh = refh]
ReleaseHandle(s, m) ==
    [s EXCEPT !.mem[m] = DropHandles(@, @.refh /\ @.kind = "dc")]

-----------------------------------------------------------------------------
Init ==
    /\ proc = [p \in Procs |-> [st |-> "new", heaps |-> FALSE, ctx |-> NoContext]]
    /\ mem = [m \in Mems |-> Unused]
    /\ sync = [y \in Mems \cup {Disp} |-> NoSyncInfo]
    /\ syncTable = [a \in Addrs |-> NoSync]
    /\ exports = {}
    /\ kref = 1
    /\ chain = Nobody
    /\ load \in Loads
    /\ faults = 0

Up(p) == proc[p].st = "up"
Fresh(m, kind) == /\ kind \in load.kinds /\ m <= load.mems
                  /\ mem[m].st = "unused" /\ \A n \in Mems : n < m => mem[n].st # "unused"
ContextLive(c) == c # Kernel => proc[c].ctx.live
HasHandle(p, m) == Up(p) /\ mem[m].p = p /\ mem[m].h

PVRSRVConnect(p) ==
    /\ proc[p].st = "new"
    /\ proc' = [proc EXCEPT ![p].st = "up"]
    /\ UNCHANGED <<mem, sync, syncTable, exports, kref, chain, load, faults>>

(* A process has one context: a second call takes a reference on it and looks for
   its handle, and loses the reference when there is none. *)
PVRSRVCreateDeviceMemContextKM(c) ==
    IF c.live THEN [c EXCEPT !.ref = @ + 1] ELSE [NoContext EXCEPT !.live = TRUE, !.ref = 1]

PVRSRVCreateDeviceMemContextBW(p, fault) ==
    /\ Up(p)
    /\ Meets(fault)
    /\ fault = "commit" => ~proc[p].ctx.live
    /\ LET c == proc[p].ctx
           k == PVRSRVCreateDeviceMemContextKM(c)
       IN  \/ /\ ~c.live
              /\ proc' = [proc EXCEPT ![p] = [proc[p] EXCEPT !.heaps = @ \/ fault = "none",
                              !.ctx = [k EXCEPT !.open = 1, !.h = fault = "none"]]]
           \/ /\ c.live /\ c.h /\ c.open < load.open
              /\ proc' = [proc EXCEPT ![p] = [@ EXCEPT !.ctx = [k EXCEPT !.open = @ + 1]]]
           \/ /\ c.live /\ ~c.h /\ c.lost < load.open
              /\ proc' = [proc EXCEPT ![p] = [@ EXCEPT !.ctx = [k EXCEPT !.lost = @ + 1]]]
    /\ UNCHANGED <<mem, sync, syncTable, exports, kref, chain>>

PVRSRVDestroyDeviceMemContextKM(s, p) == pvr_put_ctx(s, p)

PVRSRVDestroyDeviceMemContextBW(p) ==
    /\ Up(p) /\ proc[p].ctx.h
    /\ LET c == proc[p].ctx
           closed == [c EXCEPT !.open = @ - 1, !.h = c.open > 1]
       IN  Becomes(PVRSRVDestroyDeviceMemContextKM([Now EXCEPT !.proc[p].ctx = closed], p))
    /\ UNCHANGED <<chain, load, faults>>

(* The shared heaps get handles of their own; those of the context's heaps exist
   with its handle. *)
PVRSRVGetDeviceMemHeapInfoKM(s, p) == [s EXCEPT !.proc[p].heaps = TRUE]

PVRSRVGetDeviceMemHeapInfoBW(p) ==
    /\ Up(p) /\ proc[p].ctx.h
    /\ Becomes(PVRSRVGetDeviceMemHeapInfoKM(Now, p))
    /\ UNCHANGED <<chain, load, faults>>

HeapContext(p, heap) == IF heap = "shared" THEN Kernel ELSE p
HasHeap(p, heap) == Up(p) /\ IF heap = "shared" THEN proc[p].heaps ELSE proc[p].ctx.h

(* fault "res": the memory is freed, its synchronisation info is not. *)
PVRSRVAllocDeviceMemKM(s, p, m, r, fault) ==
    LET new == [Unused EXCEPT !.st = "live", !.p = p, !.ctx = HeapContext(p, r.heap),
                              !.sync = IF r.sync THEN m ELSE NoSync,
                              !.item = r.resman, !.ref = 1]
        t == AllocDeviceMem(s, m, new)
        u == IF r.sync THEN PVRSRVAllocSyncInfoKM(t, m, Nobody) ELSE t
    IN  IF fault = "res" THEN FreeDeviceMem(u, m) ELSE u

PVRSRVAllocDeviceMemBW(p, m, r, fault) ==
    /\ Fresh(m, "alloc") /\ HasHeap(p, r.heap)
    /\ Meets(fault)
    /\ fault = "res" => r.resman /\ r.sync
    /\ Becomes([PVRSRVAllocDeviceMemKM(Now, p, m, r, fault) EXCEPT !.mem[m].h = fault = "none"])
    /\ UNCHANGED chain

PVRSRVFreeDeviceMemKM(s, m) == FreeResourceByPtr(s, m)

PVRSRVFreeDeviceMemBW(p, m) ==
    /\ HasHandle(p, m) /\ mem[m].kind # "sys"
    /\ mem[m].ref = 1
    /\ mem[m].item \/ mem[m].kind = "alloc"
    /\ Becomes(ReleaseHandle(PVRSRVFreeDeviceMemKM(Now, m), m))
    /\ UNCHANGED <<chain, load, faults>>

PVRSRVExportDeviceMemBW(p, m) ==
    /\ HasHandle(p, m) /\ mem[m].kind # "sys" /\ mem[m].st = "live"
    /\ m \notin exports
    /\ exports' = exports \cup {m}
    /\ mem' = [mem EXCEPT ![m].exported = TRUE]
    /\ UNCHANGED <<proc, sync, syncTable, kref, chain, load, faults>>

(* The memory info of the mapping has no reference of its own; it holds one on its
   source and borrows the source's synchronisation info. *)
PVRSRVMapDeviceMemoryKM(s, p, src, m, heap, fault) ==
    LET new == [Unused EXCEPT !.st = "live", !.kind = "map", !.p = p,
                              !.ctx = HeapContext(p, heap), !.sync = s.mem[src].sync,
                              !.src = src, !.item = fault # "res"]
    IN  [BM_Wrap(s, m, new) EXCEPT !.mem[src].ref = @ + 1]

PVRSRVMapDeviceMemoryBW(p, src, m, heap, fault) ==
    /\ src \in exports /\ mem[src].st = "live"
    /\ ContextLive(mem[src].ctx)
    /\ Fresh(m, "map") /\ HasHeap(p, heap)
    /\ Meets(fault)
    /\ Becomes([PVRSRVMapDeviceMemoryKM(Now, p, src, m, heap, fault) EXCEPT
                    !.mem[m].h = fault # "commit"])
    /\ UNCHANGED chain

(* The three calls that undo a mapping are one: each frees whatever the handle
   names, without a look at its kind or its reference count. *)
FreeByHandle(p, m) ==
    /\ HasHandle(p, m) /\ mem[m].kind # "sys"
    /\ mem[m].item
    /\ Becomes(ReleaseHandle(FreeResourceByPtr(Now, m), m))
    /\ UNCHANGED <<chain, load, faults>>
PVRSRVUnmapDeviceMemoryBW(p, m) == FreeByHandle(p, m)
PVRSRVUnmapDeviceClassMemoryBW(p, m) == FreeByHandle(p, m)
PVRSRVUnwrapExtMemoryBW(p, m) == FreeByHandle(p, m)

(* The wrapped pages go to the context's general heap; the synchronisation info is
   that of the first page's address.  fault "hash": it is not entered in the table. *)
PVRSRVWrapExtMemoryKM(s, p, m, a, contig, fault) ==
    LET new == [Unused EXCEPT !.st = "live", !.kind = "wrap", !.p = p, !.ctx = p,
                              !.addr = IF contig THEN a ELSE Nobody,
                              !.sync = IF s.syncTable[a] = NoSync THEN m ELSE s.syncTable[a],
                              !.item = fault # "res", !.ref = 1]
        t == alloc_or_reuse_syncinfo(BM_Wrap(s, m, new), m, a, fault)
    IN  IF fault = "hash" THEN FreeDeviceMem(t, m) ELSE t

PVRSRVWrapExtMemoryBW(p, m, a, contig, fault) ==
    /\ Fresh(m, "wrap") /\ Up(p) /\ proc[p].ctx.h
    /\ Meets(fault)
    /\ fault = "hash" => syncTable[a] = NoSync
    /\ Becomes([PVRSRVWrapExtMemoryKM(Now, p, m, a, contig, fault) EXCEPT
                    !.mem[m].h = fault \in {"none", "res"}])
    /\ UNCHANGED chain

(* A buffer of the swap chain, in one piece: its synchronisation info is the
   chain's, and its handle hangs below the handle of the buffer. *)
PVRSRVMapDeviceClassMemoryKM(s, p, m, fault) ==
    BM_Wrap(s, m, [Unused EXCEPT !.st = "live", !.kind = "dc", !.p = p, !.ctx = p,
                                 !.addr = "display", !.sync = Disp, !.item = fault # "res"])

PVRSRVMapDeviceClassMemoryBW(p, m, fault) ==
    /\ Fresh(m, "dc") /\ Up(p) /\ proc[p].ctx.h /\ chain = p
    /\ Meets(fault)
    /\ Becomes([PVRSRVMapDeviceClassMemoryKM(Now, p, m, fault) EXCEPT
                    !.mem[m].h = fault # "commit"])
    /\ UNCHANGED chain

PVRSRVAllocSharedSysMemoryKM(s, p, m, fault) ==
    [s EXCEPT !.mem[m] = [Unused EXCEPT !.st = "live", !.kind = "sys", !.p = p,
                                        !.item = fault # "res"]]

PVRSRVAllocSharedSysMemoryBW(p, m, fault) ==
    /\ Fresh(m, "sys") /\ Up(p)
    /\ Meets(fault)
    /\ Becomes([PVRSRVAllocSharedSysMemoryKM(Now, p, m, fault) EXCEPT
                    !.mem[m].h = fault # "commit"])
    /\ UNCHANGED chain

PVRSRVFreeSharedSysMemoryBW(p, m) ==
    /\ HasHandle(p, m) /\ mem[m].kind = "sys"
    /\ Becomes(ReleaseHandle(FreeSharedSysMemCallBack(Now, m), m))
    /\ UNCHANGED <<chain, load, faults>>

(* Only memory with a synchronisation info: without one, and without the flag that
   says so, the code follows a NULL pointer. *)
PVRSRVMapMemInfoMemBW(p, m) ==
    /\ "dc" \in load.kinds
    /\ HasHandle(p, m) /\ mem[m].st = "live"
    /\ mem[m].sync # NoSync \/ mem[m].kind = "alloc"
    /\ mem' = [mem EXCEPT ![m].refh = TRUE]
    /\ UNCHANGED <<proc, sync, syncTable, exports, kref, chain, load, faults>>

(* The swap chain of DeviceClass, as far as its buffer's synchronisation info and
   the handles below the buffer go. *)
CreateSwapChain(p) ==
    /\ "dc" \in load.kinds
    /\ Up(p) /\ chain = Nobody
    /\ chain' = p
    /\ Becomes(PVRSRVAllocSyncInfoKM(Now, Disp, Nobody))
    /\ UNCHANGED <<load, faults>>

DropChain(s, p) ==
    [PVRSRVFreeSyncInfoKM(s, Disp) EXCEPT !.mem =
        [m \in Mems |-> IF s.mem[m].kind = "dc" /\ s.mem[m].p = p
                        THEN DropHandles(s.mem[m], FALSE) ELSE s.mem[m]]]
DestroySwapChain(p) ==
    /\ Up(p) /\ chain = p
    /\ chain' = Nobody
    /\ Becomes(DropChain(Now, p))
    /\ UNCHANGED <<load, faults>>

(* The resource manager frees what is left, type by type in a fixed order; shared
   system memory is of none of these types. *)
FreeOrder == <<"dc", "wrap", "map", "alloc">>
Items(s, p, kind) == {m \in Mems : Live(s, m) /\ s.mem[m].item /\ s.mem[m].p = p
                                              /\ s.mem[m].kind = kind}
free_one_res(s, p, kind) ==
    FoldSet(LAMBDA m, t : FreeResourceByPtr(t, m), s, Items(s, p, kind))
PVRSRVResManDisconnectAllocFirst(s, p) ==
    LET a == free_one_res(s, p, FreeOrder[4])
        b == free_one_res(a, p, FreeOrder[1])
        c == free_one_res(b, p, FreeOrder[2])
        d == free_one_res(c, p, FreeOrder[3])
    IN  BM_DestroyContextCallBack(d, p)

PVRSRVResManDisconnect(s, p) ==
    LET a == free_one_res(s, p, FreeOrder[1])
        b == free_one_res(a, p, FreeOrder[2])
        c == free_one_res(b, p, FreeOrder[3])
        d == free_one_res(c, p, FreeOrder[4])
    IN  BM_DestroyContextCallBack(d, p)

PVRSRVDisconnect(p) ==
    /\ Up(p)
    /\ LET s == PVRSRVResManDisconnect(IF chain = p THEN DropChain(Now, p) ELSE Now, p)
       IN  Becomes([s EXCEPT !.proc[p] = [s.proc[p] EXCEPT !.st = "gone", !.heaps = FALSE],
                       !.mem = [m \in Mems |-> IF s.mem[m].p = p
                                  THEN DropHandles(s.mem[m], FALSE) ELSE s.mem[m]]])
    /\ chain' = IF chain = p THEN Nobody ELSE chain
    /\ UNCHANGED <<load, faults>>

Next ==
    \E p \in Procs :
      \/ PVRSRVConnect(p)
      \/ PVRSRVDisconnect(p)
      \/ \E f \in {"none", "commit"} : PVRSRVCreateDeviceMemContextBW(p, f)
      \/ PVRSRVDestroyDeviceMemContextBW(p)
      \/ PVRSRVGetDeviceMemHeapInfoBW(p)
      \/ CreateSwapChain(p)
      \/ DestroySwapChain(p)
      \/ \E m \in Mems :
           \/ PVRSRVFreeDeviceMemBW(p, m)
           \/ PVRSRVExportDeviceMemBW(p, m)
           \/ PVRSRVUnmapDeviceMemoryBW(p, m)
           \/ PVRSRVUnmapDeviceClassMemoryBW(p, m)
           \/ PVRSRVUnwrapExtMemoryBW(p, m)
           \/ PVRSRVFreeSharedSysMemoryBW(p, m)
           \/ PVRSRVMapMemInfoMemBW(p, m)
           \/ \E f \in {"none", "res", "commit"} :
                \/ \E r \in Requests : PVRSRVAllocDeviceMemBW(p, m, r, f)
                \/ \E src \in Mems, heap \in {"own", "shared"} :
                     PVRSRVMapDeviceMemoryBW(p, src, m, heap, f)
                \/ PVRSRVMapDeviceClassMemoryBW(p, m, f)
                \/ PVRSRVAllocSharedSysMemoryBW(p, m, f)
           \/ \E a \in Addrs, contig \in BOOLEAN, f \in {"none", "res", "commit", "hash"} :
                PVRSRVWrapExtMemoryBW(p, m, a, contig, f)

Spec == Init /\ [][Next]_vars

-----------------------------------------------------------------------------
TypeOK ==
    /\ proc \in [Procs -> [st : {"new", "up", "gone"}, heaps : BOOLEAN,
                          ctx : [live : BOOLEAN, ref : Nat, open : Nat, h : BOOLEAN,
                                 lost : Nat]]]
    /\ \A m \in Mems : /\ mem[m].st \in {"unused", "live", "freed"} /\ mem[m].kind \in Kinds
                       /\ mem[m].st = "live" => mem[m].ref \in Nat
    /\ sync \in [Mems \cup {Disp} -> [live : BOOLEAN, ref : Nat, addr : Addrs \cup {Nobody}]]
    /\ syncTable \in [Addrs -> Mems \cup {NoSync}]
    /\ exports \subseteq Mems
    /\ kref \in Nat /\ faults \in 0..load.faults /\ chain \in Procs \cup {Nobody}

LiveMems == {m \in Mems : mem[m].st = "live"}
Maps(src) == {m \in LiveMems : mem[m].kind = "map" /\ mem[m].src = src}
Buffers(c) == {Buffer(Now, m) : m \in {n \in LiveMems : mem[n].ctx = c}}

(* ui32RefCount of a memory info counts its owner and its mappings, that of a
   context its opens and its buffers, refcount of a shared synchronisation info its
   wraps: none is ever off by one, whichever of the many paths gave a reference up. *)
CountsExact ==
    /\ TypeOK
    /\ \A m \in LiveMems :
          LET maps == Cardinality(Maps(m))
          IN  CASE mem[m].kind \in {"map", "dc", "sys"} -> mem[m].ref = maps
                [] mem[m].kind = "wrap" \/ (mem[m].kind = "alloc" /\ mem[m].item) -> mem[m].ref = 1 + maps
                [] OTHER -> mem[m].ref \in {maps, 1 + maps}
    /\ \A p \in Procs : proc[p].ctx.live =>
          /\ proc[p].ctx.ref = proc[p].ctx.open + proc[p].ctx.lost + Cardinality(Buffers(p))
          /\ proc[p].ctx.ref > 0
    /\ kref = 1 + Cardinality({y \in DOMAIN sync : sync[y].live}) + Cardinality(Buffers(Kernel))
    /\ \A a \in Addrs : syncTable[a] # NoSync =>
          LET y == syncTable[a]
              users == {m \in LiveMems : mem[m].kind = "wrap" /\ mem[m].sync = y}
          IN  sync[y].live /\ sync[y].addr = a /\ sync[y].ref = Cardinality(users)
    /\ \A m \in LiveMems : mem[m].kind = "wrap" => syncTable[sync[mem[m].sync].addr] = mem[m].sync

(* What a process can reach through a handle still exists: the memory info, the
   context its buffer is in, and its synchronisation info, which may belong to
   another process (a mapping) or to a swap chain (device class memory).  What the
   kernel's handle base names exists too.  Two things are outside: exports of what is
   not an allocation, and the second handle PVRSRVMapMemInfoMemBW makes for device
   class memory, which outlives the first. *)
SyncLive(m) == mem[m].sync # NoSync => sync[mem[m].sync].live
HandlesLive ==
    /\ \A m \in Mems : mem[m].h \/ (mem[m].refh /\ mem[m].kind # "dc") =>
          /\ mem[m].st = "live"
          /\ mem[m].kind # "sys" => ContextLive(mem[m].ctx)
          /\ mem[m].kind # "map" => SyncLive(m)
          /\ mem[m].kind = "map" /\ mem[mem[m].src].kind = "alloc" =>
                mem[mem[m].src].st = "live" /\ SyncLive(m)
    /\ \A m \in exports : mem[m].kind = "alloc" => mem[m].st = "live" /\ SyncLive(m)

(* As long as no call has failed half way every synchronisation info has somebody
   who will free it: the memory info it was made for, a wrap that shares it, or the
   swap chain. *)
SyncsOwned ==
    faults = 0 => \A y \in DOMAIN sync : sync[y].live =>
       IF y = Disp THEN chain # Nobody
       ELSE \E m \in LiveMems : mem[m].sync = y /\ (m = y \/ mem[m].kind = "wrap")

(* A process that ends leaves no device memory behind except what another process
   has mapped and what could not be registered for it, whatever it shared with itself
   and in whichever order it made it (PVRSRVResManDisconnect).  Shared system memory
   ("sys") stays: its type is not one PVRSRVResManDisconnect frees, against the
   PVR_ASSERT(ctx->psResItemList == NULL) at its end. *)
CleanDeath ==
    [][\A p \in Procs : proc[p].st = "up" /\ proc'[p].st = "gone" =>
          /\ ~proc'[p].ctx.live
          /\ \A m \in Mems : mem[m].p = p /\ mem[m].item /\ mem'[m].st = "live" =>
                \/ mem[m].kind = "sys"
                \/ \E d \in Mems : /\ mem'[d].st = "live" /\ mem[d].src = m
                                   /\ mem[d].p # p \/ ~mem[d].item]_vars

=============================================================================
