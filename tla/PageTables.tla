----------------------------- MODULE PageTables -----------------------------
(***************************************************************************)
(* The GPU page tables of mmu.c, for one heap, as operators on a record    *)
(*   type  the heap's DevMemHeapType: "shared" or "percontext"             *)
(*   ctxs  pvMMUContextList, the owner of the heap included                *)
(*   pd    the page directory of each context, on the heap's range: the    *)
(*         page of a page table, or 0                                      *)
(*   pt    apsPTInfoList of the owner, on the heap's range                 *)
(*   cc    ui32CacheControl: the invalidations the next command carries    *)
(* Addresses count bytes of a small address space.  SGX addresses have 28  *)
(* bits, so the branch of _DeferredAllocPagetables for a range that ends   *)
(* at 2^32 is never taken and is left out, as is local device memory,      *)
(* which this system does not have.                                        *)
(***************************************************************************)
EXTENDS ResourceArena, FiniteSets

CONSTANTS PageSize,       \* SGX_MMU_PAGE_SIZE
          PTSize,         \* entries of a page table, SGX_MMU_PT_SIZE
          HeapBase, HeapSize,
          Owner,          \* the context the heap belongs to
          Others          \* contexts that come and go

ASSUME GeometryAssumption ==
    /\ {PageSize, PTSize, HeapSize} \subseteq Nat \ {0}
    /\ HeapBase \in Nat
    /\ HeapBase % (PageSize * PTSize) = 0 /\ HeapSize % PageSize = 0
    /\ Owner \notin Others

Contexts == Others \cup {Owner}
PTSpan   == PageSize * PTSize
PDIndex(addr) == addr \div PTSpan
HeapPDs  == PDIndex(HeapBase)..PDIndex(HeapBase + HeapSize - 1)
PTIndex(addr) == (addr % PTSpan) \div PageSize

(* struct MMU_PT_INFO: its page is 0 until the page is allocated. *)
PTInfo(info, page) ==
    [info |-> info, page |-> page, ui32ValidPTECount |-> 0,
     pte |-> [k \in 0..(PTSize - 1) |-> 0]]
NoPTInfo == PTInfo(FALSE, 0)

NoPDEs == [i \in HeapPDs |-> 0]

(* The contexts whose directory an entry of this heap is written to. *)
Sharers(mmu) == IF mmu.type = "shared" THEN mmu.ctxs ELSE {Owner}

KthSmallest(S, k) == CHOOSE x \in S : Cardinality({y \in S : y <= x}) = k

-----------------------------------------------------------------------------
(* Allocates the missing tables of [addr, addr + size).  Call n of the kind
   fault[2] fails when fault[1] is "pt" and fault[3] is n; what was allocated
   before stays. *)
DeferredAllocPagetables(mmu, addr, size, freePages, fault) ==
    LET need == {i \in PDIndex(addr)..(RoundUp(addr + size, PTSpan) \div PTSpan - 1) :
                    mmu.pt[i].page = 0}
        rank(i) == Cardinality({j \in need : j <= i})
        fails(i) == \/ rank(i) > Cardinality(freePages)
                    \/ /\ fault[1] = "pt" /\ fault[3] = rank(i)
                       /\ fault[2] = "info" => ~mmu.pt[i].info
        done == {i \in need : \A j \in need : j <= i => ~fails(j)}
        bad  == {i \in need \ done : rank(i) = Cardinality(done) + 1
                                     /\ ~(fault[1] = "pt" /\ fault[2] = "info")}
        page(i) == KthSmallest(freePages, rank(i))
    IN  [ok  |-> done = need,
         mmu |-> [mmu EXCEPT
                    !.pt = [i \in HeapPDs |-> IF i \in done THEN PTInfo(TRUE, page(i))
                                         ELSE IF i \in bad THEN PTInfo(TRUE, 0)
                                         ELSE @[i]],
                    !.pd = [c \in Contexts |->
                              [i \in HeapPDs |-> IF i \in done /\ c \in Sharers(mmu)
                                                 THEN page(i) ELSE @[c][i]]],
                    !.cc = IF done = {} THEN @ ELSE @ \cup {"PD"}]]

(* Frees the tables of the directory entries in S. *)
DeferredFreePageTables(mmu, S) ==
    [mmu EXCEPT
       !.pd = [c \in Contexts |-> [i \in HeapPDs |-> IF i \in S /\ c \in Sharers(mmu)
                                                    THEN 0 ELSE @[c][i]]],
       !.pt = [i \in HeapPDs |-> IF i \in S THEN NoPTInfo ELSE @[i]]]

(* Mutant: freeing a table invalidates page translations only. *)
UnmapPagesAndFreePTsLight(mmu, start, end) ==
    LET pages == {p \in start..(end - 1) : p % PageSize = 0}
        mine(i) == {PTIndex(p) : p \in {q \in pages : PDIndex(q) = i}}
        left(i) == mmu.pt[i].ui32ValidPTECount
                     - Cardinality({k \in mine(i) : mmu.pt[i].pte[k] # 0})
        freed == {i \in HeapPDs : mine(i) # {} /\ mmu.pt[i].page # 0 /\ left(i) = 0}
    IN  DeferredFreePageTables(
          [mmu EXCEPT
             !.pt = [i \in HeapPDs |->
                [@[i] EXCEPT !.pte = [k \in DOMAIN @ |-> IF k \in mine(i) THEN 0 ELSE @[k]],
                             !.ui32ValidPTECount = left(i)]],
             !.cc = @ \cup {"PT"}], freed)

(* MMU_FreePageTables, the backing store callback of the VM arena: clears the
   entries of whole pages and frees the tables that have none left. *)
UnmapPagesAndFreePTs(mmu, start, end) ==
    LET pages == {p \in start..(end - 1) : p % PageSize = 0}
        mine(i) == {PTIndex(p) : p \in {q \in pages : PDIndex(q) = i}}
        left(i) == mmu.pt[i].ui32ValidPTECount
                     - Cardinality({k \in mine(i) : mmu.pt[i].pte[k] # 0})
        freed == {i \in HeapPDs : mine(i) # {} /\ mmu.pt[i].page # 0 /\ left(i) = 0}
        clear == [mmu EXCEPT
                    !.pt = [i \in HeapPDs |->
                       [@[i] EXCEPT !.pte = [k \in DOMAIN @ |-> IF k \in mine(i) THEN 0 ELSE @[k]],
                                    !.ui32ValidPTECount = left(i)]],
                    !.cc = @ \cup (IF freed # {} THEN {"PD"} ELSE {"PT"})]
    IN  DeferredFreePageTables(clear, freed)

(* Mutant: the list of pages is not advanced. *)
MapPagesSame(mmu, addr, pages) ==
    LET at(i, k) == {n \in DOMAIN pages :
                       LET p == addr + (n - 1) * PageSize
                       IN  PDIndex(p) = i /\ PTIndex(p) = k}
        new(i) == {k \in 0..(PTSize - 1) : at(i, k) # {}}
    IN  [mmu EXCEPT !.pt = [i \in HeapPDs |->
            [@[i] EXCEPT !.pte = [k \in 0..(PTSize - 1) |->
                                    IF k \in new(i) THEN pages[1] ELSE @[k]],
                         !.ui32ValidPTECount = @ + Cardinality(new(i))]]]

(* The pages MMU_MapShadow writes: a dummy allocation is one page, n times. *)
ShadowPages(pages, n, bDummyAllocation) ==
    [k \in 1..n |-> pages[IF bDummyAllocation THEN 1 ELSE k]]

(* MMU_MapPages, MMU_MapShadow and MMU_MapScatter: one entry for each page. *)
MapPages(mmu, addr, pages) ==
    LET at(i, k) == {n \in DOMAIN pages :
                       LET p == addr + (n - 1) * PageSize
                       IN  PDIndex(p) = i /\ PTIndex(p) = k}
        new(i) == {k \in 0..(PTSize - 1) : at(i, k) # {}}
    IN  [mmu EXCEPT !.pt = [i \in HeapPDs |->
            [@[i] EXCEPT !.pte = [k \in 0..(PTSize - 1) |->
                                    IF k \in new(i) THEN pages[CHOOSE n \in at(i, k) : TRUE]
                                                    ELSE @[k]],
                         !.ui32ValidPTECount = @ + Cardinality(new(i))]]]

-----------------------------------------------------------------------------
(* Mutant: the range is not given back when its tables cannot be allocated. *)
MMU_AllocKeepsRange(vm, mmu, uSize, uAlignment, freePages, fault) ==
    LET WithTables(a, t) == [ok |-> t.ok, vm |-> a.arena, mmu |-> t.mmu,
                             base |-> IF t.ok THEN a.base ELSE 0]
        WithRange(a) ==
            IF ~a.ok THEN [ok |-> FALSE, vm |-> a.arena, mmu |-> mmu, base |-> 0]
            ELSE WithTables(a, DeferredAllocPagetables(mmu, a.base, uSize, freePages, fault))
    IN  WithRange(AttemptAllocAligned(vm, uSize, 0, uAlignment, <<>>,
                                      IF fault[1] = "vm" THEN fault[2] ELSE "none"))

(* A range of device addresses and its tables; without all of its tables the
   range is given back, and the tables that were allocated stay. *)
MMU_Alloc(vm, mmu, uSize, uAlignment, freePages, fault) ==
    LET WithTables(a, t) ==
            IF t.ok THEN [ok |-> TRUE, vm |-> a.arena, mmu |-> t.mmu, base |-> a.base]
                    ELSE [ok |-> FALSE, vm |-> RA_Free(a.arena, a.base, FALSE).arena,
                          mmu |-> t.mmu, base |-> 0]
        WithRange(a) ==
            IF ~a.ok THEN [ok |-> FALSE, vm |-> a.arena, mmu |-> mmu, base |-> 0]
            ELSE WithTables(a, DeferredAllocPagetables(mmu, a.base, uSize, freePages, fault))
    IN  WithRange(AttemptAllocAligned(vm, uSize, 0, uAlignment, <<>>,
                                      IF fault[1] = "vm" THEN fault[2] ELSE "none"))

MMU_Free(vm, mmu, addr) ==
    LET Unmapped(r) == [vm  |-> r.arena,
                        mmu |-> IF r.start < r.end
                                THEN UnmapPagesAndFreePTs(mmu, r.start, r.end) ELSE mmu]
    IN  Unmapped(RA_Free(vm, addr, TRUE))

(* The directory of a new context. *)
MMU_Initialise(pd, c) == [pd EXCEPT ![c] = NoPDEs]

(* MMU_Create of the heap for its owner's new context. *)
MMU_Create(type, ctxs, pd, cc) ==
    [type |-> type, ctxs |-> ctxs \cup {Owner}, pd |-> MMU_Initialise(pd, Owner),
     pt |-> [i \in HeapPDs |-> NoPTInfo], cc |-> cc]

(* MMU_Delete frees every table of the heap; MMU_Finalise takes the context off
   the list. *)
MMU_Delete(mmu) ==
    [DeferredFreePageTables(mmu, HeapPDs) EXCEPT !.cc = @ \cup {"PD"}]

MMU_Finalise(mmu, c) ==
    [mmu EXCEPT !.ctxs = @ \ {c}, !.pd[c] = NoPDEs]

(* A new context receives the directory entries of the kernel's shared heap. *)
MMU_InsertHeap(mmu, c) ==
    LET new == [mmu EXCEPT !.ctxs = @ \cup {c}, !.pd = MMU_Initialise(@, c)]
    IN  IF mmu.type = "shared"
        THEN [new EXCEPT !.pd[c] = mmu.pd[Owner],
                         !.cc = IF mmu.pd[Owner] = NoPDEs THEN @ ELSE @ \cup {"PD"}]
        ELSE new
=============================================================================
