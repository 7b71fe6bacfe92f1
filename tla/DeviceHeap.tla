----------------------------- MODULE DeviceHeap -----------------------------
(***************************************************************************)
(* One device memory heap of buffer_manager.c: buffers come out of an      *)
(* arena that imports mappings (OS pages mapped to a range of device       *)
(* addresses), or wrap pages of somebody else.  It composes the arenas of  *)
(* ra.c, the page tables of mmu.c and the GPU, which caches translations   *)
(* until a command tells it to drop them.  Every call may fail once, at    *)
(* any of the allocations it makes.                                        *)
(*                                                                         *)
(* All of it runs under pvr_lock, so a call is one step; the GPU is not    *)
(* bound by the lock.  AllocDeviceMem asks for RAM in every call, so the   *)
(* branch of AllocMemory without RAM is not modelled, and nothing sets     *)
(* PVRSRV_MEM_INTERLEAVED.                                                 *)
(***************************************************************************)
EXTENDS PageTables

CONSTANTS Pages,          \* OS pages, numbers
          Foreign,        \* pages that are wrapped, numbers from 100 on
          MaxBufs, MaxMappings,
          Loads,          \* the bounds of a behaviour, which Init chooses:
                          \* [type: of the heap, others: contexts that share it,
                          \*  ring: commands on their way, faults: calls that fail]
          Requests,       \* <<size, flags, alignment>>, flags "rw" or "dummy"
          Wraps,          \* <<size, offset, "contig" or "scatter">>
          LeakingFaults   \* failures after which the code leaves something behind

VARIABLES heap,      \* [imp: import arena, vm: VM arena, mmu, maps]
          bufs,      \* the BM_BUFs
          bufHash,   \* pBufferHash of the context: <<key, buffer>>, newest first
          alive,     \* the owner's context exists
          load,      \* the bounds of this behaviour
          gpu,       \* [ring: the commands it has not taken, stale: what it has cached]
          faults,    \* how many calls have met a failure
          leaked,    \* history: a failure of LeakingFaults happened
          mixed      \* history: an address was wrapped in two sizes at once

vars == <<heap, bufs, bufHash, alive, load, gpu, faults, leaked, mixed>>

None == [kind |-> "none"]
MapIds == 1..MaxMappings
BufIds == 1..MaxBufs

(* The allocation that fails in a call, <<where, call, number>>: "imp1" and "imp2"
   are the two attempts of RA_Alloc on the import arena, "vm" its only one on the
   VM arena, "pt" the page tables.  The allocations of BM_BUF and BM_MAPPING and
   OSAllocPages fail alike, before anything has changed ("map"). *)
NoFault == <<"none", "none", 0>>
MapFaults == {NoFault, <<"bm", "map", 0>>, <<"bm", "sub", 0>>, <<"bm", "zero", 0>>}
    \cup {<<"vm", c, 0>> : c \in SplitFaults}
    \cup {<<"pt", c, n>> : c \in {"info", "page"}, n \in 1..2}
AllocFaults == MapFaults \cup {<<"bm", "span", 0>>}
    \cup {<<w, c, 0>> : w \in {"imp1", "imp2"}, c \in SplitFaults}
WrapFaults == MapFaults \cup {<<"bm", "hash", 0>>}

Meets(fault) ==
    /\ fault # NoFault => faults < load.faults
    /\ faults' = IF fault = NoFault THEN faults ELSE faults + 1

At(fault, where) == IF fault[1] = where THEN fault[2] ELSE "none"

Used(h) == UNION {{h.maps[m].pages[n] : n \in DOMAIN h.maps[m].pages} :
                     m \in {k \in MapIds : h.maps[k].kind # "none"}}
           \cup {h.mmu.pt[i].page : i \in HeapPDs}
FreePages(h) == Pages \ Used(h)

flagsOf(h) == [m \in MapIds |-> IF h.maps[m].kind = "env" THEN h.maps[m].flags ELSE "none"]

Lowest(S) == CHOOSE x \in S : \A y \in S : x <= y
FreeMaps(h) == {m \in MapIds : h.maps[m].kind = "none"}
IsFreeBuf(b) == bufs[b] = None /\ b = Lowest({c \in BufIds : bufs[c] = None})

-----------------------------------------------------------------------------
(* The GPU caches directory entries and page translations, valid ones only, until
   a command tells it to drop them; dropping directory entries drops the page
   translations too.  It is taken to have cached all it can: stale is the set of
   kinds of entries it may have that the tables no longer have. *)
Walk(mmu, c, i, k) == IF mmu.pd[c][i] = 0 THEN 0 ELSE mmu.pt[i].pte[k]
Dropped(old, new) ==
    {x \in {"PD", "PT"} :
       \E c \in old.ctxs, i \in HeapPDs :
          \/ x = "PD" /\ old.pd[c][i] \notin {0, new.pd[c][i]}
          \/ x = "PT" /\ \E k \in 0..(PTSize - 1) :
                           Walk(old, c, i, k) \notin {0, Walk(new, c, i, k)}}
GpuKeeps == gpu' = [gpu EXCEPT !.stale = @ \cup Dropped(heap.mmu, heap'.mmu)]

-----------------------------------------------------------------------------
(* pMapping becomes a range of device addresses whose pages are mapped. *)
DevMemoryAlloc(h, mapping, uAlignment, fault) ==
    LET taken == {mapping.pages[n] : n \in DOMAIN mapping.pages}
        m == Lowest(FreeMaps(h))
        Mapped(r) ==
            IF r.ok
            THEN [ok |-> TRUE, m |-> m, base |-> r.base,
                  heap |-> [h EXCEPT !.vm = r.vm, !.mmu = MapPages(r.mmu, r.base, mapping.pages),
                                     !.maps[m] = [mapping EXCEPT !.DevVAddr = r.base]]]
            ELSE [ok |-> FALSE, m |-> 0, base |-> 0,
                  heap |-> [h EXCEPT !.vm = r.vm, !.mmu = r.mmu]]
    IN  Mapped(MMU_Alloc(h.vm, h.mmu, mapping.uSize, uAlignment, FreePages(h) \ taken, fault))

DevMemoryFree(h, m) ==
    LET Freed(r) == [h EXCEPT !.vm = r.vm, !.mmu = r.mmu]
    IN  Freed(MMU_Free(h.vm, h.mmu, h.maps[m].DevVAddr))

(* The import callback of the arena: pages of the OS (one page, mapped again
   and again, for a dummy allocation) and device addresses for them. *)
BM_ImportMemory(h, uSize, uFlags, fault) ==
    LET n     == RoundUp(uSize, PageSize) \div PageSize
        wants == IF uFlags = "dummy" THEN 1 ELSE n
        page(k) == KthSmallest(FreePages(h), k)
        mapping == [kind |-> "env", uSize |-> n * PageSize, DevVAddr |-> 0, flags |-> uFlags,
                    pages |-> ShadowPages([k \in 1..wants |-> page(k)], n, uFlags = "dummy")]
    IN  IF \/ At(fault, "bm") = "map"
           \/ FreeMaps(h) = {} \/ wants > Cardinality(FreePages(h))
        THEN [ok |-> FALSE, m |-> 0, base |-> 0, heap |-> h]
        ELSE DevMemoryAlloc(h, mapping, 0, fault)

BM_FreeMemory(h, m) ==
    IF m = NoMapping THEN h ELSE [DevMemoryFree(h, m) EXCEPT !.maps[m] = None]

(* RA_Alloc on the import arena: an attempt, an import, another attempt.  The
   second attempt may fail and the import stays in the arena. *)
RA_AllocImport(h, uSize, uFlags, uAlignment, fault) ==
    LET Attempt(g, arena, where) ==
            AttemptAllocAligned(arena, uSize, uFlags, uAlignment, flagsOf(g), At(fault, where))
        Got(g, a) == [ok |-> a.ok, base |-> a.base, m |-> a.psMapping,
                      heap |-> BM_FreeMemory([g EXCEPT !.imp = a.arena], a.export)]
        Imported(i) ==
            LET m == i.heap.maps[i.m]
            IN  CASE ~i.ok -> [ok |-> FALSE, heap |-> i.heap, base |-> 0, m |-> 0]
                  [] i.ok /\ At(fault, "bm") = "span" ->
                        [ok |-> FALSE, heap |-> BM_FreeMemory(i.heap, i.m), base |-> 0, m |-> 0]
                  [] OTHER -> Got(i.heap, Attempt(i.heap,
                                    InsertResourceSpan(i.heap.imp, m.DevVAddr, m.uSize, i.m),
                                    "imp2"))
        First(r) ==
            IF r.ok THEN r
            ELSE Imported(BM_ImportMemory(r.heap, ImportSize(h.imp, uSize, uAlignment),
                                          uFlags, fault))
    IN  First(Got(h, Attempt(h, h.imp, "imp1")))

-----------------------------------------------------------------------------
(* Zeroing maps the buffer for the CPU, which may fail. *)
ZeroBufFails(fault) == At(fault, "bm") = "zero"

(* A failure of OSGetSubMemHandle, which is called when the buffer is not its
   whole mapping, or of ZeroBuf leaves the segment allocated (late). *)
AllocMemory(h, uSize, uFlags, uAlignment, fault) ==
    LET Buffer(r) ==
            LET whole == uSize = r.heap.maps[r.m].uSize
            IN  [heap |-> r.heap, ok |-> r.ok,
                 late |-> r.ok /\ (ZeroBufFails(fault) \/ (At(fault, "bm") = "sub" /\ ~whole)),
                 buf  |-> [kind |-> "ram", m |-> r.m, addr |-> r.base, size |-> uSize,
                           ref |-> 1, key |-> 0]]
    IN  Buffer(RA_AllocImport(h, uSize, uFlags, uAlignment, fault))

BM_Alloc(b, uSize, uFlags, uAlignment, fault) ==
    /\ alive /\ IsFreeBuf(b) /\ Meets(fault)
    /\ \E r \in {AllocMemory(heap, uSize, uFlags, uAlignment, fault)} :
          /\ heap' = r.heap
          /\ bufs' = IF r.ok /\ ~r.late THEN [bufs EXCEPT ![b] = r.buf] ELSE bufs
          /\ leaked' = (leaked \/ r.late \/ fault \in LeakingFaults)
    /\ GpuKeeps
    /\ UNCHANGED <<bufHash, alive, load, mixed>>

(* FreeBuf; a wrapped mapping goes with its buffer. *)
FreeBuf(h, buf) ==
    IF buf.kind = "ram"
    THEN LET Exported(r) == BM_FreeMemory([h EXCEPT !.imp = r.arena], r.export)
         IN  Exported(RA_Free(h.imp, buf.addr, FALSE))
    ELSE BM_FreeMemory(h, buf.m)

HashHits(h, key) == {n \in DOMAIN h : h[n][1] = key}

(* HASH_Remove takes the newest entry of the key; an entry of b that is left
   dangles and is written 0. *)
HashRemove(h, key, b) ==
    LET n == Lowest(HashHits(h, key))
        r == IF HashHits(h, key) = {} THEN h ELSE SubSeq(h, 1, n - 1) \o SubSeq(h, n + 1, Len(h))
    IN  [k \in DOMAIN r |-> IF r[k][2] = b THEN <<r[k][1], 0>> ELSE r[k]]

WrapPages(first, n, kind) ==
    [k \in 1..n |-> IF kind = "contig" THEN first + k - 1 ELSE first + n - k]

(* A wrapped mapping begins at a page of the device; the buffer begins at the
   offset.  A failure of OSGetSubMemHandle, which an offset calls for, frees the
   mapping and leaves its device addresses and table entries (late); one of
   ZeroBuf leaves the mapping as well. *)
WrapMemory(h, first, uSize, offset, kind, key, fault) ==
    LET n == RoundUp(uSize + offset, PageSize) \div PageSize
        mapping == [kind |-> kind, uSize |-> n * PageSize, DevVAddr |-> 0, flags |-> "rw",
                    pages |-> WrapPages(first, n, kind)]
        Wrapped(r) ==
            LET sub == r.ok /\ At(fault, "bm") = "sub" /\ offset > 0
            IN  [ok |-> r.ok, late |-> r.ok /\ (sub \/ ZeroBufFails(fault)),
                 heap |-> IF sub THEN [r.heap EXCEPT !.maps[r.m] = None] ELSE r.heap,
                 buf |-> [kind |-> kind, m |-> r.m, addr |-> r.base + offset,
                          size |-> uSize, ref |-> 1, key |-> key]]
    IN  Wrapped(IF At(fault, "bm") = "map" \/ FreeMaps(h) = {}
                THEN [ok |-> FALSE, m |-> 0, base |-> 0, heap |-> h]
                ELSE DevMemoryAlloc(h, mapping, PageSize, fault))

(* BM_Wrap finds a contiguous wrap of the same address and size, which it
   shares, or makes a new one.  Physical addresses count pages; an offset within
   the first page makes another address.  The look-up reads the buffer the hash
   table names, so it must still be there. *)
BM_Wrap(b, first, uSize, offset, kind, fault) ==
    LET key  == first * PageSize + offset
        hits == HashHits(bufHash, key)
        hit  == bufHash[Lowest(hits)][2]
        noHash == At(fault, "bm") = "hash" /\ kind = "contig"
    IN  /\ alive
        /\ hits # {} => hit # 0
        /\ IF hits # {} /\ heap.maps[bufs[hit].m].uSize = RoundUp(uSize + offset, PageSize)
           THEN /\ bufs' = [bufs EXCEPT ![hit].ref = @ + 1]
                /\ bufs[hit].ref < 2 /\ fault = NoFault /\ b = hit
                /\ UNCHANGED <<heap, bufHash, faults, leaked, mixed>>
           ELSE /\ IsFreeBuf(b) /\ Meets(fault)
                /\ \E r \in {WrapMemory(heap, first, uSize, offset, kind, key, fault)} :
                      LET made == r.ok /\ ~r.late
                      IN  /\ heap' = IF made /\ noHash THEN FreeBuf(r.heap, r.buf) ELSE r.heap
                          /\ bufs' = IF made /\ ~noHash THEN [bufs EXCEPT ![b] = r.buf] ELSE bufs
                          /\ bufHash' = IF made /\ ~noHash /\ kind = "contig"
                                        THEN <<<<key, b>>>> \o bufHash ELSE bufHash
                          /\ leaked' = (leaked \/ r.late)
                /\ mixed' = (mixed \/ (kind = "contig" /\ hits # {}))
        /\ GpuKeeps /\ UNCHANGED <<alive, load>>

BM_Free(b) ==
    LET buf == bufs[b]
        last == buf.ref = 1
    IN  /\ buf # None
        /\ bufs' = [bufs EXCEPT ![b] = IF last THEN None ELSE [buf EXCEPT !.ref = @ - 1]]
        /\ bufHash' = IF last /\ buf.kind = "contig" THEN HashRemove(bufHash, buf.key, b)
                                                     ELSE bufHash
        /\ heap' = IF last THEN FreeBuf(heap, buf) ELSE heap
        /\ GpuKeeps
        /\ UNCHANGED <<alive, load, faults, leaked, mixed>>

-----------------------------------------------------------------------------
(* BM_CreateContext of another process, without faults or with a failure of
   ResManRegisterRes, which undoes it; and the end of that context, whose own
   heaps MMU_Delete goes through. *)
CreateContext(c, fails) ==
    LET new == MMU_InsertHeap(heap.mmu, c)
    IN  /\ alive /\ c \notin heap.mmu.ctxs
        /\ heap' = [heap EXCEPT !.mmu = IF fails THEN MMU_Finalise(new, c) ELSE new]
        /\ GpuKeeps
        /\ UNCHANGED <<bufs, bufHash, alive, load, faults, leaked, mixed>>

DestroyContext(c) ==
    /\ c \in heap.mmu.ctxs
    /\ heap' = [heap EXCEPT !.mmu = [MMU_Finalise(@, c) EXCEPT !.cc = @ \cup {"PD"}]]
    /\ GpuKeeps
    /\ UNCHANGED <<bufs, bufHash, alive, load, faults, leaked, mixed>>

(* BM_DestroyContextCallBack of the owner: it has no buffers left, because each
   one holds a reference.  RA_Delete does not give imports back. *)
DestroyOwner ==
    /\ alive /\ \A b \in BufIds : bufs[b] = None
    /\ heap.mmu.type = "shared" => heap.mmu.ctxs = {Owner}
    /\ alive' = FALSE
    /\ heap' = [heap EXCEPT !.imp = EmptyArena(PageSize), !.vm = EmptyArena(PageSize),
                            !.mmu = MMU_Finalise(MMU_Delete(@), Owner)]
    /\ bufHash' = <<>>
    /\ GpuKeeps
    /\ UNCHANGED <<bufs, load, faults, leaked, mixed>>

(* BM_CreateContext and BM_CreateHeap of the owner. *)
CreateOwner ==
    /\ ~alive /\ ~leaked
    /\ alive' = TRUE
    /\ heap' = [heap EXCEPT !.vm = RA_Create(HeapBase, HeapSize, PageSize),
                            !.mmu = MMU_Create(@.type, @.ctxs, @.pd, @.cc)]
    /\ GpuKeeps
    /\ UNCHANGED <<bufs, bufHash, load, faults, leaked, mixed>>

-----------------------------------------------------------------------------
(* A command carries ui32CacheControl (SGXScheduleCCBCommand), which is then 0;
   the clean-up request of SGXCleanupRequest takes it over too. *)
Schedule ==
    /\ Len(gpu.ring) < load.ring
    /\ gpu' = [gpu EXCEPT !.ring = Append(@, heap.mmu.cc)]
    /\ heap' = [heap EXCEPT !.mmu.cc = {}]
    /\ UNCHANGED <<bufs, bufHash, alive, load, faults, leaked, mixed>>

GpuTakes ==
    /\ gpu.ring # <<>>
    /\ gpu' = [ring  |-> Tail(gpu.ring),
               stale |-> CASE "PD" \in Head(gpu.ring) -> {}
                           [] Head(gpu.ring) = {"PT"} -> gpu.stale \ {"PT"}
                           [] OTHER -> gpu.stale]
    /\ UNCHANGED <<heap, bufs, bufHash, alive, load, faults, leaked, mixed>>

-----------------------------------------------------------------------------
Init ==
    \E l \in Loads :
        /\ load = l
        /\ heap = [imp |-> EmptyArena(PageSize), vm |-> RA_Create(HeapBase, HeapSize, PageSize),
                   mmu |-> MMU_Create(l.type, {}, [c \in Contexts |-> NoPDEs], {}),
                   maps |-> [m \in MapIds |-> None]]
        /\ bufs = [b \in BufIds |-> None]
        /\ bufHash = <<>> /\ alive = TRUE /\ faults = 0 /\ leaked = FALSE /\ mixed = FALSE
        /\ gpu = [ring |-> <<>>, stale |-> {}]

Next ==
    \/ \E b \in BufIds, r \in Requests, e \in AllocFaults : BM_Alloc(b, r[1], r[2], r[3], e)
    \/ \E b \in BufIds, p \in Foreign, w \in Wraps, e \in WrapFaults :
          BM_Wrap(b, p, w[1], w[2], w[3], e)
    \/ \E b \in BufIds : BM_Free(b)
    \/ \E c \in load.others : CreateContext(c, FALSE) \/ CreateContext(c, TRUE) \/ DestroyContext(c)
    \/ DestroyOwner \/ CreateOwner
    \/ Schedule \/ GpuTakes

Spec == Init /\ [][Next]_vars

-----------------------------------------------------------------------------
LiveBufs == {b \in BufIds : bufs[b] # None}

(* The translation of the page at addr that a walk through the owner's
   directory finds. *)
Translation(addr) ==
    LET i == PDIndex(addr)
    IN  IF heap.mmu.pd[Owner][i] = 0 THEN 0 ELSE heap.mmu.pt[i].pte[PTIndex(addr)]

TypeOK ==
    /\ load \in Loads /\ alive \in BOOLEAN /\ leaked \in BOOLEAN /\ mixed \in BOOLEAN
    /\ \A b \in LiveBufs : bufs[b].kind \in {"ram", "contig", "scatter"} /\ bufs[b].m \in MapIds
    /\ heap.mmu.ctxs \subseteq Contexts
    /\ \A i \in DOMAIN gpu.ring : gpu.ring[i] \subseteq {"PD", "PT"}

(* Splits and joins at the boundaries of segments (_SegmentSplit, _FreeBT), with
   any of their allocations failing, leave both arenas exact: the segments cover
   the resource without gap or overlap, each free one is on the list of its size
   and the hash table knows the live ones. *)
ArenasExact == \A a \in {heap.imp, heap.vm} : Contiguous(a) /\ ListsExact(a)

(* Whatever was allocated, freed, split, imported or failed before, two buffers
   share no byte of the device's memory, and each byte of a buffer is mapped to
   the page of the buffer's own mapping. *)
BuffersBacked ==
    \A b \in LiveBufs :
        LET buf == bufs[b]
            map == heap.maps[buf.m]
        IN  /\ map # None
            /\ map.DevVAddr <= buf.addr /\ buf.addr + buf.size <= map.DevVAddr + map.uSize
            /\ \A x \in buf.addr..(buf.addr + buf.size - 1) :
                  Translation(x) = map.pages[((x - map.DevVAddr) \div PageSize) + 1]
            /\ \A c \in LiveBufs \ {b} : bufs[c].addr + bufs[c].size <= buf.addr
                                       \/ buf.addr + buf.size <= bufs[c].addr

(* ui32ValidPTECount, which decides when a table is freed, counts the valid
   entries of each table; a table has a directory entry exactly while it has a
   page, in every context that shares the heap and in no other; and two tables
   or mappings never have the same page. *)
TablesExact ==
    /\ \A i \in HeapPDs :
          LET pt == heap.mmu.pt[i]
          IN  /\ pt.ui32ValidPTECount = Cardinality({k \in DOMAIN pt.pte : pt.pte[k] # 0})
              /\ pt.page = 0 => pt.ui32ValidPTECount = 0
              /\ \A c \in Contexts :
                    heap.mmu.pd[c][i] = IF alive /\ c \in Sharers(heap.mmu) THEN pt.page ELSE 0
              /\ pt.page # 0 =>
                    /\ \A j \in HeapPDs \ {i} : heap.mmu.pt[j].page # pt.page
                    /\ \A j \in HeapPDs, k \in 0..(PTSize - 1) : heap.mmu.pt[j].pte[k] # pt.page

(* The structures of the heap are exact after every call, also one that failed. *)
StructuresExact == TypeOK /\ ArenasExact /\ TablesExact

(* A translation the GPU still has but the tables do not is one that an
   invalidation is on its way for: pending in ui32CacheControl or in a command
   the GPU takes before any that the host schedules from now on.  So no command
   scheduled after memory was freed uses the freed pages. *)
Pending == {heap.mmu.cc} \cup {gpu.ring[n] : n \in DOMAIN gpu.ring}
StaleIsCovered ==
    /\ "PD" \in gpu.stale => \E p \in Pending : "PD" \in p
    /\ "PT" \in gpu.stale => \E p \in Pending : p # {}

(* When the last buffer is gone every import has been given back and the range
   of device addresses is whole again, so BM_DestroyContext does not meet
   BUG_ON(!bTestDelete) and RA_Delete does not assert; unless one of the
   failures happened after which the code leaves a segment or an import. *)
NothingLeftBehind ==
    LiveBufs = {} /\ ~leaked =>
        /\ RA_TestDelete(heap.imp) /\ heap.imp.segs = <<>>
        /\ Len(heap.vm.segs) <= 1 /\ heap.vm.hash = {}
        /\ \A m \in MapIds : heap.maps[m] = None

(* pBufferHash names buffers that exist, under their own address, and no buffer
   twice: BM_Wrap reads what it finds there.  It does not hold when an address
   is wrapped in two sizes at once, because HASH_Remove takes the newest entry
   of the address whatever buffer is freed. *)
BufferHashLive ==
    ~mixed => \A n \in DOMAIN bufHash :
                /\ bufHash[n][2] # 0 /\ bufs[bufHash[n][2]] # None
                /\ bufs[bufHash[n][2]].key = bufHash[n][1]
                /\ \A k \in DOMAIN bufHash \ {n} : bufHash[k][2] # bufHash[n][2]

(* A buffer has its own memory, and who looks a buffer up finds a live one. *)
BuffersExact == BuffersBacked /\ BufferHashLive
=============================================================================
