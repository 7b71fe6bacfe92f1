------------------------------- MODULE UserMap -------------------------------
(***************************************************************************)
(* How driver memory gets into the address space of a process: the memory  *)
(* areas of mm.c and osfunc.c, the offset records of mmap.c, the mappings  *)
(* (vm_area_structs) the kernel keeps for the process, and the references  *)
(* on page frames they all hold.                                           *)
(*                                                                         *)
(* The bridge calls run under pvr_lock, PVRMMap, MMapVOpen and MMapVClose  *)
(* do not; g_sMMapMutex makes each of them one step.  Between the call     *)
(* that tells a thread an offset and its mmap(2) anything may happen.  A   *)
(* record is created at the tail of both of its lists, so one sequence in  *)
(* order of creation stands for both.  A call that stops the kernel (the   *)
(* BUG() of OSUnRegisterMem for memory still mapped) is left out by its    *)
(* guard.  Frames are numbered; the bytes inside a page are not modelled.  *)
(***************************************************************************)
EXTENDS Integers, Sequences, FiniteSets, FiniteSetsExt, SequencesExt, Functions

CONSTANTS Procs,
          Threads,     \* numbers
          ProcOf,      \* the process of a thread
          Areas,       \* memory areas, numbers from 1 on; each is used once
          Handles,     \* of a process, numbers from 1 on; used again when free
          Frames,      \* page frames of RAM, consecutive numbers
          IOFrames,    \* frames of device registers
          Loads        \* the bounds of a behaviour, which Init chooses: [kinds: of memory,
                       \*  areas, asks: for an offset, splits: of a mapping, heir: whether
                       \*  another process may close the last file of one that died,
                       \*  anon: the frames of a buffer each process brings, threads: in
                       \*  use, pages: the frames an allocation may get]

ASSUME NumbersAssumption == /\ Areas \cup Handles \cup Frames \cup IOFrames \subseteq Nat \ {0}
                            /\ Frames \cap IOFrames = {}
ASSUME LoadsAssumption ==
    /\ IsFiniteSet(Areas) /\ IsFiniteSet(Procs)
    /\ ProcOf \in [Threads -> Procs]
    /\ \A l \in Loads :
          /\ l.threads \subseteq Threads /\ l.pages \subseteq Seq(Frames)
          /\ l.areas \in Nat /\ 1 .. l.areas \subseteq Areas
          /\ l.anon \in [Procs -> Seq(Frames)]
          /\ \A p \in Procs : l.anon[p] # <<>> => \E t \in l.threads : ProcOf[t] = p
          /\ \A p, q \in Procs : \A i \in DOMAIN l.anon[p], j \in DOMAIN l.anon[q] :
                l.anon[p][i] = l.anon[q][j] => p = q /\ i = j

VARIABLES frame,       \* references on the frames of RAM, free at 0
          area,        \* struct LinuxMemArea
          structs,     \* the KV_OFFSET_STRUCTs
          vmas,        \* mappings made by PVRMMap
          handles,     \* what memory a handle of a process names
          anon,        \* frames of a buffer of the process itself
          told,        \* what MHANDLE_TO_MMAP_DATA last returned to the thread
          asks,        \* calls of MHANDLE_TO_MMAP_DATA so far
          proc, load

vars == <<frame, area, structs, vmas, handles, anon, told, asks, proc, load>>

NoArea == 0
NotTold == [off |-> <<"none", 0>>, size |-> 0, area |-> NoArea, h |-> 0]
NewArea == [st |-> "unused", type |-> "none", reg |-> FALSE, frames |-> <<>>,
            parent |-> NoArea, src |-> NoArea, wrap |-> "none"]

Now == [frame |-> frame, area |-> area, structs |-> structs]
Becomes(s) == frame' = s.frame /\ area' = s.area /\ structs' = s.structs

Free(s) == {f \in Frames : s.frame[f] = 0}
Occurs(f, fs) == Cardinality({i \in DOMAIN fs : fs[i] = f})
GetPages(s, fs) == [s EXCEPT !.frame = [f \in Frames |-> @[f] + Occurs(f, fs)]]
PutPages(s, fs) == [s EXCEPT !.frame = [f \in Frames |-> @[f] - Occurs(f, fs)]]

-----------------------------------------------------------------------------
(* Memory areas (mm.c).  A sub area lies in its parent, never in a sub area. *)
LinuxMemAreaRoot(s, a) == IF s.area[a].type = "sub" THEN s.area[a].parent ELSE a

PagesAreContiguous(fs) == \A i \in DOMAIN fs : fs[i] = fs[1] + i - 1

LinuxMemAreaPhysIsContig(s, a) ==
    LET r == s.area[LinuxMemAreaRoot(s, a)]
    IN  r.type \in {"ioremap", "io"} \/ (r.type = "extkv" /\ PagesAreContiguous(r.frames))

LinuxMemAreaToCpuPFN(s, a, i) == s.area[a].frames[i]

LinuxMemAreaStructAlloc(s, a, type, fs) ==
    [s EXCEPT !.area[a] = [NewArea EXCEPT !.st = "live", !.type = type, !.frames = fs]]

NewVMallocLinuxMemArea(s, a, fs) == GetPages(LinuxMemAreaStructAlloc(s, a, "vmalloc", fs), fs)

(* alloc_pages fails after it has given the first `got` pages. *)
NewAllocPagesLinuxMemAreaKeepsFirst(s, a, fs, got) ==
    IF got = Len(fs) THEN GetPages(LinuxMemAreaStructAlloc(s, a, "pages", fs), fs)
    ELSE PutPages(GetPages(s, SubSeq(fs, 1, got)), SubSeq(fs, 2, got))

NewAllocPagesLinuxMemArea(s, a, fs, got) ==
    IF got = Len(fs) THEN GetPages(LinuxMemAreaStructAlloc(s, a, "pages", fs), fs)
    ELSE PutPages(GetPages(s, SubSeq(fs, 1, got)), SubSeq(fs, 1, got))

NewExternalKVLinuxMemArea(s, a, fs) == LinuxMemAreaStructAlloc(s, a, "extkv", fs)
NewIORemapLinuxMemArea(s, a, fs) == LinuxMemAreaStructAlloc(s, a, "ioremap", fs)
NewIOLinuxMemArea(s, a, fs) == LinuxMemAreaStructAlloc(s, a, "io", fs)
NewSubLinuxMemArea(s, a, parent, fs) ==
    [LinuxMemAreaStructAlloc(s, a, "sub", fs) EXCEPT !.area[a].parent = parent]

LinuxMemAreaStructFree(s, a) == [s EXCEPT !.area[a] = [NewArea EXCEPT !.st = "freed"]]
FreeVMallocLinuxMemArea(s, a) == PutPages(LinuxMemAreaStructFree(s, a), s.area[a].frames)
FreeAllocPagesLinuxMemArea(s, a) == PutPages(LinuxMemAreaStructFree(s, a), s.area[a].frames)

LinuxMemAreaDeepFree(s, a) ==
    CASE s.area[a].type = "vmalloc" -> FreeVMallocLinuxMemArea(s, a)
      [] s.area[a].type = "pages"   -> FreeAllocPagesLinuxMemArea(s, a)
      [] OTHER -> LinuxMemAreaStructFree(s, a)

-----------------------------------------------------------------------------
(* Offset records (mmap.c). *)
StructOf(ss, a, p) == {i \in DOMAIN ss : ss[i].area = a /\ ss[i].pid = p}
WithId(ss, id) == {i \in DOMAIN ss : ss[i].id = id}
FreshId(ss) == Min((1 .. Len(ss) + Cardinality(vmas) + 1)
                    \ ({ss[i].id : i \in DOMAIN ss} \cup {v.id : v \in vmas}))

CreateOffsetStruct(s, a, off, size, p, t) ==
    [s EXCEPT !.structs = Append(@, [id |-> FreshId(@), area |-> a, off |-> off, size |-> size,
                                     pid |-> p, tid |-> t, mapped |-> 0, ref |-> 0,
                                     onList |-> FALSE, uva |-> FALSE])]

(* The records at the places I of a list, in their order. *)
NthPlace(I, n) == CHOOSE i \in I : Cardinality({j \in I : j <= i}) = n
RecordsAt(ss, I) == [n \in 1 .. Cardinality(I) |-> ss[NthPlace(I, n)]]

DestroyAll(s, I) == [s EXCEPT !.structs = RecordsAt(@, DOMAIN @ \ I)]
DestroyOffsetStruct(s, i) == DestroyAll(s, {i})

PVRMMapRegisterArea(s, a) == [s EXCEPT !.area[a].reg = TRUE]

(* Stops at the first record still mapped, with those before it destroyed. *)
RemoveRefused(s, a) == \E i \in DOMAIN s.structs : s.structs[i].area = a /\ s.structs[i].mapped # 0
PVRMMapRemoveRegisteredAreaIgnoresMapped(s, a) ==
    [DestroyAll(s, {i \in DOMAIN s.structs : s.structs[i].area = a}) EXCEPT !.area[a].reg = FALSE]

PVRMMapRemoveRegisteredArea(s, a) ==
    LET I == {i \in DOMAIN s.structs : s.structs[i].area = a}
        stop == {i \in I : s.structs[i].mapped # 0}
    IN  IF stop = {} THEN [DestroyAll(s, I) EXCEPT !.area[a].reg = FALSE]
        ELSE DestroyAll(s, {i \in I : i < Min(stop)})

LinuxMMapPerProcessDisconnectReleased(s, current) ==
    DestroyAll(s, {i \in DOMAIN s.structs : /\ s.structs[i].onList /\ s.structs[i].pid = current
                                            /\ s.structs[i].ref = 0})

LinuxMMapPerProcessDisconnect(s, current) ==
    DestroyAll(s, {i \in DOMAIN s.structs : s.structs[i].onList /\ s.structs[i].pid = current})

-----------------------------------------------------------------------------
(* The memory calls of osfunc.c.  An area that cannot be unregistered because it is
   mapped stays behind: "lost" says that nobody will free it before the module goes.
   "kept" says the same of memory whose owner gave it up while it was exported. *)
Lose(s, a) == [s EXCEPT !.area[a].st = "lost"]
Keep(s, a) == [s EXCEPT !.area[a].st = "kept"]

OSAllocPages(s, a, kind, fs, got) ==
    IF kind = "multi" THEN PVRMMapRegisterArea(NewVMallocLinuxMemArea(s, a, fs), a)
    ELSE IF got < Len(fs) THEN NewAllocPagesLinuxMemArea(s, a, fs, got)
    ELSE PVRMMapRegisterArea(NewAllocPagesLinuxMemArea(s, a, fs, got), a)

FreeUnlessMapped(s, a) ==
    LET t == PVRMMapRemoveRegisteredArea(s, a)
    IN  IF t.area[a].reg THEN Lose(t, a) ELSE LinuxMemAreaDeepFree(t, a)

OSFreePages(s, a) == FreeUnlessMapped(s, a)
OSGetSubMemHandle(s, a, parent, fs) ==
    PVRMMapRegisterArea(NewSubLinuxMemArea(s, a, parent, fs), a)
OSReleaseSubMemHandle(s, a) == FreeUnlessMapped(s, a)
OSReservePhys(s, a, fs, kind) ==
    PVRMMapRegisterArea(IF kind = "io" THEN NewIOLinuxMemArea(s, a, fs)
                                       ELSE NewIORemapLinuxMemArea(s, a, fs), a)
OSUnReservePhys(s, a) == FreeUnlessMapped(s, a)
OSRegisterDiscontigMem(s, a, fs) == PVRMMapRegisterArea(NewExternalKVLinuxMemArea(s, a, fs), a)
OSUnRegisterMem(s, a) == LinuxMemAreaDeepFree(PVRMMapRemoveRegisteredArea(s, a), a)

(* Whether the frame behind an entry of a page table has a struct page. *)
CPUVAddrToPage(f) == f \in Frames

(* Page frames below a buffer of the caller: get_user_pages, which may get only some
   of them, or the page tables of a mapping of device memory, page by page until one
   has no struct page.  `got` is how far it came. *)
OSAcquirePhysPageAddr(s, fs, how, got) ==
    CASE how = "gup" ->
            LET t == GetPages(s, SubSeq(fs, 1, got))
            IN  IF got = Len(fs) THEN t ELSE PutPages(t, SubSeq(fs, 1, got))
      [] how = "vma" /\ (\A i \in DOMAIN fs : CPUVAddrToPage(fs[i])) -> GetPages(s, fs)
      [] OTHER -> s

(* How the pages of a wrap were got, which says how to give them back. *)
WrapType(fs, how) ==
    IF how = "vma" /\ \E i \in DOMAIN fs : ~CPUVAddrToPage(fs[i]) THEN "pfn" ELSE how

OSReleasePhysPageAddr(s, fs, wrap) == IF wrap \in {"gup", "vma"} THEN PutPages(s, fs) ELSE s

-----------------------------------------------------------------------------
Init ==
    /\ load \in Loads
    /\ anon = load.anon
    /\ frame = [f \in Frames |-> IF \E p \in Procs : f \in ToSet(anon[p]) THEN 1 ELSE 0]
    /\ area = [a \in Areas |-> NewArea]
    /\ structs = <<>> /\ vmas = {}
    /\ handles = [p \in Procs |-> [h \in Handles |-> NoArea]]
    /\ told = [t \in Threads |-> NotTold] /\ asks = 0
    /\ proc = [p \in Procs |-> IF \E t \in load.threads : ProcOf[t] = p THEN "up" ELSE "gone"]

Up(p) == proc[p] = "up"
Fresh(a, kind) == /\ kind \in load.kinds /\ a <= load.areas
                  /\ area[a].st = "unused" /\ \A b \in Areas : b < a => area[b].st # "unused"
FreeHandle(p, h) == /\ Up(p) /\ handles[p][h] = NoArea
                    /\ \A k \in Handles : k < h => handles[p][k] # NoArea
Give(p, h, a) == handles' = [handles EXCEPT ![p][h] = a]
HandlesOf(a) == {o \in Procs \X Handles : handles[o[1]][o[2]] = a}

(* Memory with an area of its own: a whole import, or shared system memory. *)
AllocWhole(p, h, a, kind, fs, got) ==
    /\ FreeHandle(p, h) /\ Fresh(a, kind)
    /\ Becomes(OSAllocPages(Now, a, kind, fs, got))
    /\ IF got = Len(fs) THEN Give(p, h, a) ELSE handles' = handles
    /\ UNCHANGED <<vmas, anon, told, asks, proc, load>>

(* A small allocation: part of an import, which is made for it when there is none. *)
Imports == {a \in Areas : area[a].st = "live" /\ \E b \in Areas : area[b].parent = a
                                                       /\ area[b].st = "live"}
AllocSub(p, h, a) ==
    /\ FreeHandle(p, h) /\ Fresh(a, "sub")
    /\ \/ \E r \in Imports : \E f \in ToSet(area[r].frames) :
             /\ area[r].type = "vmalloc"
             /\ Becomes(OSGetSubMemHandle(Now, a, r, <<f>>))
       \/ /\ a + 1 <= load.areas
          /\ \E fs \in load.pages :
                /\ Len(fs) = 2 /\ ToSet(fs) \subseteq Free(Now)
                /\ Becomes(OSGetSubMemHandle(OSAllocPages(Now, a + 1, "multi", fs, 2),
                                             a, a + 1, <<fs[1]>>))
    /\ Give(p, h, a)
    /\ UNCHANGED <<vmas, anon, told, asks, proc, load>>

(* Physical memory the caller names (PVRSRVWrapExtMemoryKM without an address of the
   process), and the timer register. *)
WrapPhys(p, h, a, f, kind) ==
    /\ FreeHandle(p, h) /\ Fresh(a, "phys")
    /\ Becomes(OSReservePhys(Now, a, <<f>>, kind))
    /\ Give(p, h, a)
    /\ UNCHANGED <<vmas, anon, told, asks, proc, load>>

(* PVRSRVWrapExtMemoryKM with an address of the process: its own buffer, or what it
   has mapped.  A buffer that starts inside a page gets a sub area. *)
WrapExt(p, h, a, fs, how, got, unaligned) ==
    LET s == OSAcquirePhysPageAddr(Now, fs, how, got)
    IN  /\ FreeHandle(p, h) /\ Fresh(a, "wrap")
        /\ IF got < Len(fs) THEN Becomes(s) /\ handles' = handles
           ELSE LET b == IF unaligned THEN a + 1 ELSE a
                    t == [OSRegisterDiscontigMem(s, b, fs)
                            EXCEPT !.area[b].wrap = WrapType(fs, how)]
                IN  /\ b <= load.areas
                    /\ Becomes(IF unaligned THEN OSGetSubMemHandle(t, a, b, fs) ELSE t)
                    /\ Give(p, h, a)
        /\ UNCHANGED <<vmas, anon, told, asks, proc, load>>

(* PVRSRVMapDeviceMemoryKM: an area over the frames of an exported one, which then
   cannot be freed. *)
MapExported(q, h, a, b) ==
    /\ FreeHandle(q, h) /\ Fresh(a, "map")
    /\ HandlesOf(b) # {} /\ area[LinuxMemAreaRoot(Now, b)].type \in {"pages", "vmalloc"}
    /\ Becomes([OSRegisterDiscontigMem(Now, a, area[b].frames) EXCEPT !.area[a].src = b])
    /\ Give(q, h, a)
    /\ UNCHANGED <<vmas, anon, told, asks, proc, load>>

Exported(s, a) == \E b \in Areas : s.area[b].src = a /\ s.area[b].st = "live"

(* What freeing the memory does to its area (FreeBuf and the callbacks above it).  The
   result of OSReleaseSubMemHandle is not looked at: the import, or the wrap, goes all
   the same once no other part of it is in use. *)
LastPart(s, a) == \A b \in Areas \ {a} : s.area[b].parent = s.area[a].parent
                                            => s.area[b].st \in {"freed", "lost"}
FreeRoot(s, r) ==
    IF s.area[r].type = "extkv" THEN OSReleasePhysPageAddr(OSUnRegisterMem(s, r),
                                                          s.area[r].frames, s.area[r].wrap)
    ELSE IF s.area[r].type \in {"io", "ioremap"} THEN OSUnReservePhys(s, r)
    ELSE OSFreePages(s, r)
FreeBuf(s, a) ==
    IF Exported(s, a) THEN Keep(s, a)
    ELSE IF s.area[a].type = "sub"
    THEN LET t == OSReleaseSubMemHandle(s, a)
         IN  IF LastPart(s, a) THEN FreeRoot(t, s.area[a].parent) ELSE t
    ELSE FreeRoot(s, a)

(* BUG() in OSUnRegisterMem. *)
Stops(s, a) == s.area[a].type = "extkv" /\ RemoveRefused(s, a)

FreeMemory(p, h) ==
    LET a == handles[p][h]
    IN  /\ Up(p) /\ a # NoArea
        /\ HandlesOf(a) = {<<p, h>>} => ~Stops(Now, a)
        /\ Becomes(IF HandlesOf(a) = {<<p, h>>} THEN FreeBuf(Now, a) ELSE Now)
        /\ handles' = [handles EXCEPT ![p][h] = NoArea]
        /\ UNCHANGED <<vmas, anon, told, asks, proc, load>>

(* A second handle to the same memory: of the process itself, or of one that maps
   memory and gets a handle to the synchronisation info of its owner. *)
SecondHandle(p, h, q, k) ==
    /\ Up(p) /\ handles[p][h] # NoArea /\ FreeHandle(q, k)
    /\ area[handles[p][h]].type \in {"pages", "vmalloc", "sub"}
    /\ IF p = q THEN "ref" \in load.kinds ELSE "sync" \in load.kinds
    /\ Give(q, k, handles[p][h])
    /\ UNCHANGED <<frame, area, structs, vmas, anon, told, asks, proc, load>>

(* The process gives its own buffer back. *)
FreeAnon(p) ==
    /\ Up(p) /\ anon[p] # <<>> /\ load.kinds \cap {"wrap"} # {}
    /\ Becomes(PutPages(Now, anon[p]))
    /\ anon' = [anon EXCEPT ![p] = <<>>]
    /\ UNCHANGED <<vmas, handles, told, asks, proc, load>>

-----------------------------------------------------------------------------
(* The offset of an area: its first frame where the frames are contiguous, else the
   handle. *)
MMapOffset(s, a, h) ==
    IF LinuxMemAreaPhysIsContig(s, a) THEN <<"pfn", LinuxMemAreaToCpuPFN(s, a, 1)>>
                                      ELSE <<"handle", h>>
DetermineUsersSizeAndByteOffset(s, a) == Len(s.area[a].frames)

(* Memory, a second handle to it and a synchronisation info all lead to an area. *)
PVRSRVLookupOSMemHandle(p, h) == handles[p][h]

(* One more reference; a new record can be found from now on. *)
Asked(k, new) == [k EXCEPT !.ref = @ + 1, !.onList = @ \/ new]

PVRMMapOSMemHandleToMMapData(t, h) ==
    LET p == ProcOf[t]
        a == PVRSRVLookupOSMemHandle(p, h)
        I == StructOf(structs, a, p)
        i == Min(I)
        off == IF I # {} THEN structs[i].off ELSE MMapOffset(Now, a, h)
        s == IF I # {} THEN Now
             ELSE CreateOffsetStruct(Now, a, off, DetermineUsersSizeAndByteOffset(Now, a), p, t)
        k == IF I # {} THEN i ELSE Len(s.structs)
    IN  /\ Up(p) /\ a # NoArea
        /\ asks < load.asks /\ asks' = asks + 1
        /\ Becomes([s EXCEPT !.structs[k] = Asked(@, I = {})])
        /\ told' = [told EXCEPT ![t] = [off |-> off, size |-> s.structs[k].size,
                                              area |-> a, h |-> h]]
        /\ UNCHANGED <<vmas, handles, anon, proc, load>>

(* Gives up a reference; the record stays.  The caller is told to unmap at the last. *)
PVRMMapReleaseMMapData(t, h) ==
    LET p == ProcOf[t]
        a == PVRSRVLookupOSMemHandle(p, h)
        I == StructOf(structs, a, p)
    IN  /\ Up(p) /\ a # NoArea /\ I # {}
        /\ structs[Min(I)].ref > 0
        /\ structs' = [structs EXCEPT ![Min(I)].ref = @ - 1]
        /\ UNCHANGED <<frame, area, vmas, handles, anon, told, asks, proc, load>>

(* Another thread's record is not found by the number of a frame. *)
FindOffsetStructAnyProcess(t, off, size) ==
    {i \in DOMAIN structs : /\ structs[i].onList
                            /\ structs[i].off = off /\ structs[i].size = size
                            /\ off[1] = "pfn" => structs[i].tid = t}
FindOffsetStructByOffset(t, off, size) ==
    {i \in DOMAIN structs : /\ structs[i].onList
                            /\ structs[i].off = off /\ structs[i].size = size
                            /\ structs[i].pid = ProcOf[t]
                            /\ off[1] = "pfn" => structs[i].tid = t}

(* Raw for a range of frames, page by page with a reference on each otherwise; raw may
   fail and page by page be tried. *)
DoMapToUser(s, a, off, raw) ==
    IF off[1] = "pfn" /\ raw THEN [ok |-> TRUE, s |-> s]
    ELSE IF ToSet(s.area[a].frames) \subseteq Frames
    THEN [ok |-> TRUE, s |-> GetPages(s, s.area[a].frames)]
    ELSE [ok |-> FALSE, s |-> s]

(* The handle the thread asked with, the one its offset is named after, or that of a
   record it may find, names other memory by now. *)
HandleReused(p, k) ==
    \/ handles[p][k.h] # k.area
    \/ k.off[1] = "handle" /\ handles[p][k.off[2]] # k.area
    \/ /\ k.off[1] = "handle"
       /\ \E i \in DOMAIN structs : /\ structs[i].onList /\ structs[i].pid = p
                                     /\ structs[i].off = k.off
                                     /\ structs[i].area # handles[p][k.off[2]]

TakenOffList(k) == [k EXCEPT !.onList = FALSE, !.uva = TRUE]
MMapVOpenNoLock(s, i) == [s EXCEPT !.structs[i].mapped = @ + 1]

(* The thread maps what it was told.  A record that was found and cannot be mapped is
   destroyed, whatever its count. *)
PVRMMap(t, raw, fault) ==
    LET p == ProcOf[t]
        I == FindOffsetStructByOffset(t, told[t].off, told[t].size)
        i == Min(I)
        m == DoMapToUser(Now, structs[i].area, told[t].off, raw)
    IN  /\ Up(p) /\ told[t] # NotTold
        /\ told' = [told EXCEPT ![t] = NotTold]
        /\ IF I = {} THEN UNCHANGED <<frame, area, structs, vmas>>
           ELSE IF fault \/ ~m.ok
           THEN Becomes(DestroyOffsetStruct(Now, i)) /\ UNCHANGED vmas
           ELSE LET k == structs[i]
                    s == [m.s EXCEPT !.structs[i] = TakenOffList(@)]
                IN  /\ Becomes(MMapVOpenNoLock(s, i))
                    /\ vmas' = vmas \cup
                          {[p |-> p, id |-> k.id, parts |-> 1, frames |-> area[k.area].frames,
                            raw |-> told[t].off[1] = "pfn" /\ raw, area |-> k.area,
                            right |-> \/ area[k.area].frames = area[told[t].area].frames
                                      \/ HandleReused(p, told[t])]}
        /\ UNCHANGED <<handles, anon, asks, proc, load>>

(* The kernel splits a mapping, and drops a part of it; the last part gives the pages
   back. *)
MMapVOpen(v) ==
    /\ v.parts < load.splits
    /\ WithId(structs, v.id) # {}
    /\ structs' = [structs EXCEPT ![Min(WithId(structs, v.id))].mapped = @ + 1]
    /\ vmas' = (vmas \ {v}) \cup {[v EXCEPT !.parts = @ + 1]}
    /\ UNCHANGED <<frame, area, handles, anon, told, asks, proc, load>>

MMapVCloseNoLock(s, i) ==
    IF s.structs[i].mapped = 1 THEN DestroyOffsetStruct(s, i)
    ELSE [s EXCEPT !.structs[i].mapped = @ - 1]

MMapVClose(v) ==
    LET s == MMapVCloseNoLock(Now, Min(WithId(structs, v.id)))
    IN  /\ WithId(structs, v.id) # {}
        /\ IF v.parts > 1
           THEN Becomes(s) /\ vmas' = (vmas \ {v}) \cup {[v EXCEPT !.parts = @ - 1]}
           ELSE Becomes(IF v.raw THEN s ELSE PutPages(s, v.frames)) /\ vmas' = vmas \ {v}
        /\ UNCHANGED <<handles, anon, told, asks, proc, load>>

-----------------------------------------------------------------------------
(* The last file of the process is closed, which its mappings prevent; it is closed by
   whoever holds it last. *)
FreeEach(s, A) == FoldSet(LAMBDA a, t : FreeBuf(t, a), s, A)
FreeAll(s, A) ==
    LET Maps == {a \in A : s.area[a].src # NoArea}
    IN  FreeEach(FreeEach(s, Maps), A \ Maps)
Owned(p) == {a \in Areas : HandlesOf(a) # {} /\ \A o \in HandlesOf(a) : o[1] = p}

PVRSRVRelease(p, current) ==
    /\ Up(p)
    /\ \A v \in vmas : v.p # p
    /\ current # p => load.heir /\ Up(current)
    /\ Becomes(LinuxMMapPerProcessDisconnect(PutPages(FreeAll(Now, Owned(p)), anon[p]), current))
    /\ anon' = [anon EXCEPT ![p] = <<>>]
    /\ handles' = [handles EXCEPT ![p] = [h \in Handles |-> NoArea]]
    /\ told' = [t \in Threads |-> IF ProcOf[t] = p THEN NotTold ELSE told[t]]
    /\ proc' = [proc EXCEPT ![p] = IF current = p THEN "gone" ELSE "inherited"]
    /\ UNCHANGED <<vmas, asks, load>>

(* The module goes: what was left behind is freed. *)
PurgeArea(s, a) == LinuxMemAreaDeepFree(PVRMMapRemoveRegisteredArea(s, a), a)
PurgeEach(s, A) == FoldSet(LAMBDA a, t : PurgeArea(t, a), s, A)

PVRMMapCleanup ==
    LET Left == {a \in Areas : area[a].reg /\ area[a].st # "freed"}
    IN  /\ \A p \in Procs : ~Up(p) /\ proc[p] # "unloaded"
        /\ Becomes(PurgeEach(Now, Left))
        /\ proc' = [p \in Procs |-> "unloaded"]
        /\ UNCHANGED <<vmas, handles, anon, told, asks, load>>

PagesFor(F) == {fs \in load.pages : ToSet(fs) \subseteq F}

Next ==
    \/ \E p \in Procs, h \in Handles, a \in Areas :
          \/ \E kind \in {"single", "multi"} : \E fs \in PagesFor(Free(Now)) : \E got \in 0 .. Len(fs) :
                /\ kind = "multi" => got = Len(fs)
                /\ AllocWhole(p, h, a, kind, fs, got)
          \/ AllocSub(p, h, a)
          \/ \E f \in IOFrames, kind \in {"io", "ioremap"} : WrapPhys(p, h, a, f, kind)
          \/ \E got \in 0 .. 2, u \in BOOLEAN :
                /\ got <= Len(anon[p]) /\ anon[p] # <<>>
                /\ WrapExt(p, h, a, anon[p], "gup", got, u)
          \/ \E v \in vmas : v.p = p /\ WrapExt(p, h, a, v.frames, "vma", Len(v.frames), FALSE)
          \/ \E b \in Areas : MapExported(p, h, a, b)
    \/ \E p, q \in Procs, h, k \in Handles : SecondHandle(p, h, q, k)
    \/ \E p \in Procs, h \in Handles : FreeMemory(p, h)
    \/ \E p \in Procs : FreeAnon(p)
    \/ \E t \in load.threads, h \in Handles : PVRMMapOSMemHandleToMMapData(t, h)
    \/ \E t \in load.threads, h \in Handles : PVRMMapReleaseMMapData(t, h)
    \/ \E t \in load.threads, raw, fault \in BOOLEAN : PVRMMap(t, raw, fault)
    \/ \E v \in vmas : MMapVOpen(v)
    \/ \E v \in vmas : MMapVClose(v)
    \/ \E p, current \in Procs : PVRSRVRelease(p, current)
    \/ PVRMMapCleanup

Spec == Init /\ [][Next]_vars

-----------------------------------------------------------------------------
PartsOf(id) == MapThenSumSet(LAMBDA v : v.parts, {v \in vmas : v.id = id})

(* A mapping leads to a record and the record to an area that both still exist, the
   record counts the parts of its mappings, and it can be found by an offset only as
   long as nothing is mapped by it.  MMapVClose, which the kernel calls whenever the
   process unmaps, would otherwise work on freed memory (src/pvr/mmap.c:491). *)
RecordsExact ==
    /\ \A v \in vmas : WithId(structs, v.id) # {}
    /\ \A i, j \in DOMAIN structs :
          /\ structs[i].mapped = PartsOf(structs[i].id)
          /\ structs[i].onList <=> structs[i].mapped = 0
          /\ area[structs[i].area].reg /\ area[structs[i].area].st # "freed"
          /\ i # j => <<structs[i].area, structs[i].pid>> # <<structs[j].area, structs[j].pid>>

(* Every frame has one reference for each area that allocated it, page by page mapping,
   wrap that locked it, and buffer of a process; and what a process sees through a
   mapping is never free memory, in whatever order memory is freed, unwrapped and
   unmapped (src/pvr/osfunc.c:189, 1234).  One case is left out because it does not
   hold: a raw mapping of a sub area, which FreeBuf gives up while it is mapped. *)
HeldByArea(x, f) ==
    IF x.st \notin {"unused", "freed"} /\ (x.type \in {"pages", "vmalloc"} \/ x.wrap \in {"gup", "vma"})
    THEN Occurs(f, x.frames) ELSE 0
HeldByMapping(v, f) == IF v.raw THEN 0 ELSE Occurs(f, v.frames)
Holders(f) == SumFunction([a \in Areas |-> HeldByArea(area[a], f)])
                + SumFunction([v \in vmas |-> HeldByMapping(v, f)])
                + SumFunction([p \in Procs |-> Occurs(f, anon[p])])
FramesExact ==
    /\ \A f \in Frames : frame[f] = Holders(f)
    /\ \A v \in vmas : \A f \in ToSet(v.frames) \cap Frames :
          frame[f] > 0 \/ (v.raw /\ area[v.area].type = "sub" /\ area[v.area].st = "lost")

(* A thread that maps the offset it was told gets the memory its handle named, however
   its process, the other threads and other processes use offsets and handles between
   (src/pvr/mmap.c:337).  Left out are a thread that asked with a handle it has released
   since, and the case where a record was never mapped, its handle was released and
   names other memory now: the first record found wins. *)
MapsWhatWasAsked == \A v \in vmas : v.right

Unloaded == \A p \in Procs : proc[p] = "unloaded"

(* A process that is gone leaves no record behind for a later process of its number to
   find, unless its last file was closed by another process: the records removed then
   are those of the closer (src/pvr/mmap.c:824).  The module leaves none at all. *)
NoRecordLeft ==
    /\ \A i \in DOMAIN structs : Up(structs[i].pid) \/ proc[structs[i].pid] = "inherited"
    /\ Unloaded => structs = <<>>

(* Nor does the module leave a page behind, also of the areas that could not be freed
   while they were mapped (src/pvr/mmap.c:888). *)
NothingLeftMapped == NoRecordLeft /\ (Unloaded => Free(Now) = Frames)

=============================================================================
