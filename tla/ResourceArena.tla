--------------------------- MODULE ResourceArena ---------------------------
(***************************************************************************)
(* The resource arenas of ra.c, as operators on the value of a             *)
(* struct RA_ARENA:                                                        *)
(*   uQuantum  the granule of imports and of backing store                 *)
(*   segs      the segment list: boundary tags in address order            *)
(*   aHeadFree the free lists, by log2 of the size, newest first; a free   *)
(*             tag is named by its base, which no other free tag has       *)
(*   hash      the keys of pSegmentHash: the bases of the live segments    *)
(* A call that can fail because the kernel has no memory takes the name of *)
(* the allocation that fails as its last argument.                         *)
(***************************************************************************)
EXTENDS Naturals, Sequences

CONSTANT FreeTableLimit   \* number of free lists; FREE_TABLE_LIMIT is 32

ASSUME FreeTableLimitAssumption == FreeTableLimit \in Nat \ {0}

NoMapping == 0            \* a psMapping that is NULL

(* The allocations of alloc_from_bt: a tag for the front split, a tag for
   the back split, an entry of the hash table. *)
SplitFaults == {"front", "back", "hash"}

BTType == {"span", "free", "live"}

BT(type, base, uSize, psMapping) ==
    [type |-> type, base |-> base, uSize |-> uSize, psMapping |-> psMapping]

pvr_log2(n) == IF n = 0 THEN 0 ELSE CHOOSE l \in 0..31 : 2^l <= n /\ n < 2^(l + 1)

RoundUp(n, q) == ((n + q - 1) \div q) * q

-----------------------------------------------------------------------------
(* The segment list and the free lists. *)

IndexOf(a, base) ==
    CHOOSE i \in DOMAIN a.segs : a.segs[i].base = base /\ a.segs[i].type # "span"

(* Puts bts behind the last tag whose base is not above theirs. *)
SegmentListInsert(segs, bts) ==
    LET n == CHOOSE k \in 0..Len(segs) :
                /\ \A i \in 1..k : segs[i].base <= bts[1].base
                /\ k < Len(segs) => segs[k + 1].base > bts[1].base
    IN  SubSeq(segs, 1, n) \o bts \o SubSeq(segs, n + 1, Len(segs))

(* Mutant: the second part keeps the size of the whole. *)
SegmentSplitWholeSize(segs, i, uSize) ==
    LET bt == segs[i]
    IN  SubSeq(segs, 1, i - 1)
        \o << [bt EXCEPT !.uSize = uSize],
              BT("free", bt.base + uSize, bt.uSize, bt.psMapping) >>
        \o SubSeq(segs, i + 1, Len(segs))

(* Replaces tag i by its two parts; the second part is new and is free. *)
SegmentSplit(segs, i, uSize) ==
    LET bt == segs[i]
    IN  SubSeq(segs, 1, i - 1)
        \o << [bt EXCEPT !.uSize = uSize],
              BT("free", bt.base + uSize, bt.uSize - uSize, bt.psMapping) >>
        \o SubSeq(segs, i + 1, Len(segs))

FreeListInsert(free, bt) ==
    [free EXCEPT ![pvr_log2(bt.uSize)] = <<bt.base>> \o @]

FreeListRemove(free, bt) ==
    [free EXCEPT ![pvr_log2(bt.uSize)] = SelectSeq(@, LAMBDA b : b # bt.base)]

-----------------------------------------------------------------------------
(* RA_Create without a first resource: an arena that imports. *)
EmptyArena(uQuantum) ==
    [uQuantum |-> uQuantum, segs |-> <<>>, hash |-> {},
     aHeadFree |-> [l \in 0..(FreeTableLimit - 1) |-> <<>>]]

(* RA_Create with a first resource, which has no span markers. *)
RA_Create(base, uSize, uQuantum) ==
    LET bt == BT("free", base, RoundUp(uSize, uQuantum), NoMapping)
    IN  [EmptyArena(uQuantum) EXCEPT !.segs = <<bt>>,
                                     !.aHeadFree = FreeListInsert(@, bt)]

(* An import becomes a free segment between two span markers. *)
InsertResourceSpan(a, base, uSize, psMapping) ==
    LET bt == BT("free", base, uSize, psMapping)
    IN  [a EXCEPT !.segs = SegmentListInsert(@,
                        << BT("span", base, uSize, NoMapping), bt,
                           BT("span", base + uSize, 0, NoMapping) >>),
                  !.aHeadFree = FreeListInsert(@, bt)]

(* Frees the segment at base: it joins the free neighbours it touches; its
   backing store is released in whole granules (range, empty when start = end);
   a span that has become free as a whole leaves the arena (export is its
   mapping, for pImportFree). *)
FreeBT(a, base, bFreeBackingStore) ==
    LET i    == IndexOf(a, base)
        bt   == a.segs[i]
        prev == i > 1 /\ a.segs[i-1].type = "free"
                      /\ a.segs[i-1].base + a.segs[i-1].uSize = bt.base
        next == i < Len(a.segs) /\ a.segs[i+1].type = "free"
                      /\ bt.base + bt.uSize = a.segs[i+1].base
        lo   == IF prev THEN i - 1 ELSE i
        hi   == IF next THEN i + 1 ELSE i
        end  == a.segs[hi].base + a.segs[hi].uSize
        new  == BT("free", a.segs[lo].base, end - a.segs[lo].base, bt.psMapping)
        f1   == IF prev THEN FreeListRemove(a.aHeadFree, a.segs[lo]) ELSE a.aHeadFree
        f2   == IF next THEN FreeListRemove(f1, a.segs[hi]) ELSE f1
        q    == a.uQuantum
        down == (bt.base \div q) * q
        up   == RoundUp(bt.base + bt.uSize, q)
        from == IF down < new.base THEN down + q ELSE down
        to   == IF up > end THEN up - q ELSE up
        span == /\ lo > 1 /\ a.segs[lo-1].type = "span"
                /\ hi < Len(a.segs) /\ a.segs[hi+1].type = "span"
        rest == SubSeq(a.segs, hi + 1, Len(a.segs))
    IN  [arena  |-> IF span
                    THEN [a EXCEPT !.segs = SubSeq(@, 1, lo - 2) \o Tail(rest),
                                   !.aHeadFree = f2]
                    ELSE [a EXCEPT !.segs = SubSeq(@, 1, lo - 1) \o <<new>> \o rest,
                                   !.aHeadFree = FreeListInsert(f2, new)],
         start  |-> IF bFreeBackingStore /\ from < to THEN from ELSE 0,
         end    |-> IF bFreeBackingStore /\ from < to THEN to ELSE 0,
         export |-> IF span THEN new.psMapping ELSE NoMapping]

-----------------------------------------------------------------------------
AlignedBase(base, uAlignment) ==
    IF uAlignment > 1 THEN RoundUp(base, uAlignment) ELSE base

NoAlloc(a) == [ok |-> FALSE, arena |-> a, base |-> 0, psMapping |-> NoMapping,
               export |-> NoMapping]

(* Cuts uSize bytes at start out of the free segment i. *)
alloc_from_bt(a, i, start, uSize, fault) ==
    LET bt    == a.segs[i]
        front == start > bt.base
        off   == FreeListRemove(a.aHeadFree, bt)
        s1    == IF front THEN SegmentSplit(a.segs, i, start - bt.base) ELSE a.segs
        f1    == IF front THEN FreeListInsert(off, s1[i]) ELSE off
        j     == IF front THEN i + 1 ELSE i
        back  == s1[j].uSize > uSize
        s2    == IF back THEN SegmentSplit(s1, j, uSize) ELSE s1
        f2    == IF back THEN FreeListInsert(f1, s2[j + 1]) ELSE f1
        live  == [a EXCEPT !.segs = [s2 EXCEPT ![j].type = "live"], !.aHeadFree = f2]
    IN  CASE fault = "front" /\ front ->
                NoAlloc([a EXCEPT !.aHeadFree = FreeListInsert(off, bt)])
          [] fault = "back" /\ back ->
                NoAlloc([a EXCEPT !.segs = s1, !.aHeadFree = FreeListInsert(f1, s1[j])])
          [] fault = "hash" ->
                LET Undone(r) == [NoAlloc(r.arena) EXCEPT !.export = r.export]
                IN  Undone(FreeBT(live, start, FALSE))
          [] OTHER ->
                [ok |-> TRUE, arena |-> [live EXCEPT !.hash = @ \cup {start}],
                 base |-> start, psMapping |-> s2[j].psMapping, export |-> NoMapping]

(* First fit: the lists from log2 of the size upwards, each from its head.
   flagsOf maps a mapping to the flags of its import. *)
AttemptAllocAligned(a, uSize, uFlags, uAlignment, flagsOf, fault) ==
    LET fits(base) ==
            LET bt == a.segs[IndexOf(a, base)]
            IN  /\ bt.base + bt.uSize >= AlignedBase(base, uAlignment) + uSize
                /\ bt.psMapping # NoMapping => flagsOf[bt.psMapping] = uFlags
        found == {c \in (pvr_log2(uSize)..(FreeTableLimit - 1)) \X (1..Len(a.segs)) :
                     /\ c[2] \in DOMAIN a.aHeadFree[c[1]]
                     /\ fits(a.aHeadFree[c[1]][c[2]])}
        first == CHOOSE c \in found :
                     \A d \in found : c[1] < d[1] \/ (c[1] = d[1] /\ c[2] <= d[2])
        base  == a.aHeadFree[first[1]][first[2]]
    IN  IF found = {} THEN NoAlloc(a)
        ELSE alloc_from_bt(a, IndexOf(a, base), AlignedBase(base, uAlignment),
                           uSize, fault)

(* What RA_Alloc asks pImportAlloc for when the first attempt failed. *)
ImportSize(a, uSize, uAlignment) ==
    RoundUp(IF uAlignment > a.uQuantum THEN uSize + uAlignment - 1 ELSE uSize,
            a.uQuantum)

(* Frees the live segment at base; the assertion that the hash table knows it
   is the caller's business (LiveAt). *)
LiveAt(a, base) == base \in a.hash

RA_Free(a, base, bFreeBackingStore) ==
    IF LiveAt(a, base)
    THEN FreeBT([a EXCEPT !.hash = @ \ {base}], base, bFreeBackingStore)
    ELSE [arena |-> a, start |-> 0, end |-> 0, export |-> NoMapping]

(* BM_DestroyContext asks this of an arena that imports; it looks at the first
   tag only. *)
RA_TestDelete(a) == a.segs = <<>> \/ a.segs[1].type = "free"

-----------------------------------------------------------------------------
(* What an arena must look like. *)

LiveSegments(a) == {i \in DOMAIN a.segs : a.segs[i].type = "live"}
FreeSegments(a) == {i \in DOMAIN a.segs : a.segs[i].type = "free"}

(* The tags follow one another without gap or overlap, from a start marker to
   its end marker or, without markers, over the whole resource. *)
Contiguous(a) ==
    \A i \in 1..(Len(a.segs) - 1) :
        LET s == a.segs[i]
            t == a.segs[i + 1]
        IN  IF s.type = "span"
            THEN IF s.uSize = 0 THEN t.type = "span" /\ t.uSize > 0 /\ s.base <= t.base
                                ELSE t.type # "span" /\ s.base = t.base
            ELSE s.uSize > 0 /\ s.base + s.uSize = t.base /\ (t.type = "span" => t.uSize = 0)

(* The free lists hold each free tag once, in the list of its size; the hash
   table holds the live ones. *)
ListsExact(a) ==
    /\ a.hash = {a.segs[i].base : i \in LiveSegments(a)}
    /\ \A l \in DOMAIN a.aHeadFree :
          /\ {a.aHeadFree[l][k] : k \in DOMAIN a.aHeadFree[l]} =
                {a.segs[i].base : i \in {j \in FreeSegments(a) : pvr_log2(a.segs[j].uSize) = l}}
          /\ Len(a.aHeadFree[l]) =
                Len(SelectSeq(a.segs, LAMBDA s : s.type = "free" /\ pvr_log2(s.uSize) = l))
=============================================================================
