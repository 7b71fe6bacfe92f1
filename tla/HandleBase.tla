----------------------------- MODULE HandleBase -----------------------------
(***************************************************************************)
(* A base of handles (handle.c): the numbers by which a process names what *)
(* the driver keeps for it, or, for the kernel's own base, the numbers by  *)
(* which processes name what they share.                                   *)
(*                                                                         *)
(* A handle is an index of psHandleArray plus one.  Free entries of a      *)
(* process' base are linked into a list; the kernel's base has purging     *)
(* enabled and searches its array instead.  Handles made by one ioctl are  *)
(* batched: they are linked too, through the same field, and given back    *)
(* together when the ioctl fails.                                          *)
(*                                                                         *)
(* All calls run under pvr_lock, each is one step, but the recursion of    *)
(* FreeHandle and the loops around it are split at each handle: todo is    *)
(* the stack of the recursion and walk the loop that called it.            *)
(***************************************************************************)
EXTENDS Integers, Sequences, FiniteSets

CONSTANTS
  Data,              (* objects of the driver that get handles             *)
  DevCookie,         (* the device node, the object of DEV_NODE handles    *)
  Types,             (* their enum PVRSRV_HANDLE_TYPE, without DEV_NODE    *)
  HANDLE_BLOCK_SIZE,
  MaxHandle,         (* ui32MaxIndexPlusOne: MAX_MMAP_HANDLE in the code   *)
  BatchSizes,        (* ui32BatchSize of the ioctls                        *)
  MaxFailures,       (* bound: failed allocations in one batch             *)
  Bases              (* bases that are looked at, see Init                 *)

Index == 0..(MaxHandle - 1)

Handles == 0..MaxHandle

NONE == "NONE"

DEV_NODE == "DEV_NODE"

AllTypes == Types \cup {DEV_NODE}

\* The flag combinations of the bridge; the empty one is ALLOC_FLAG_NONE.
AllocFlags == {{}, {"SHARED"}, {"MULTI"}}

SubAllocFlags == {{}, {"MULTI"}, {"PRIVATE", "SHARED"}}

\* aKey of InitKey
Keys == (Data \cup {DevCookie}) \X AllTypes \X Handles

ASSUME ConstantsAssumption ==
  /\ HANDLE_BLOCK_SIZE \in Nat \ {0} /\ MaxHandle \in Nat \ {0}
  /\ MaxFailures \in Nat
  /\ DevCookie \notin Data
  /\ Types \cap {NONE, DEV_NODE} = {}
  /\ BatchSizes \subseteq Nat \ {0}
  /\ Bases \subseteq {"process", "anyclient", "kernel"}

VARIABLES
  psBase,  (* struct PVRSRV_HANDLE_BASE                                    *)
  todo,    (* indices of the FreeHandle calls under way, the last on top   *)
  walk,    (* the loop that calls FreeHandle                               *)
  before,  (* history: handles in use since before the batch was opened    *)
  owed,    (* history: handles that must be in use when the walk is over   *)
  kind     (* which base this is                                           *)

vars == <<psBase, todo, walk, before, owed, kind>>

Slot ==
  [eType : AllTypes \cup {NONE},
   pvData : Data \cup {DevCookie, NONE},
   eFlag : SUBSET {"SHARED", "MULTI", "PRIVATE"},
   bBatched : BOOLEAN,            (* INTERNAL_HANDLE_FLAG_BATCHED           *)
   bPartiallyFree : BOOLEAN,      (* ..._BATCHED_PARTIALLY_FREE             *)
   ui32NextIndexPlusOne : Handles,
   hParent : Handles,             (* sSiblings.hParent                      *)
   children : Seq(Index)]         (* the list behind sChildren              *)

\* What IncreaseHandleArraySize writes; the rest is written by AllocHandle
\* before it is read.
FreshSlot ==
  [eType |-> NONE, pvData |-> NONE, eFlag |-> {}, bBatched |-> FALSE,
   bPartiallyFree |-> FALSE, ui32NextIndexPlusOne |-> 0, hParent |-> 0,
   children |-> <<>>]

HandlesBatched(b) == b.ui32HandBatchSize # 0

\* GetHandleStructure, for any type
InUse(b, h) ==
  /\ h # 0 /\ h <= b.ui32TotalHandCount
  /\ b.psHandleArray[h - 1].eType # NONE

HandlesInUse(b) == {h \in Handles : InUse(b, h)}

GetHandleStructure(b, h, t) == InUse(b, h) /\ b.psHandleArray[h - 1].eType = t

\* HASH_Retrieve_Extended: 0 when there is none
FindHandle(b, d, t, hParent) == b.psHashTab[<<d, t, hParent>>]

ParentIfPrivate(s) == IF "PRIVATE" \in s.eFlag THEN s.hParent ELSE 0

KeyOf(s) == <<s.pvData, s.eType, ParentIfPrivate(s)>>

StructIsFree(s) == s.eType = NONE /\ ~s.bBatched /\ ~s.bPartiallyFree

RoundUpToBlock(n) ==
  ((n + HANDLE_BLOCK_SIZE - 1) \div HANDLE_BLOCK_SIZE) * HANDLE_BLOCK_SIZE

-----------------------------------------------------------------------------
(***************************************************************************)
(* Growth.                                                                 *)
(***************************************************************************)

\* The array grows by whole blocks up to the limit.
NewTotalHandCount(b, delta) ==
  LET total == b.ui32TotalHandCount + RoundUpToBlock(delta) IN
  IF total > MaxHandle THEN MaxHandle ELSE total

CanIncrease(b, delta) == NewTotalHandCount(b, delta) - b.ui32TotalHandCount >= delta

\* The new entries go to the end of the free list: their links are 0, which
\* stands for the next index.
IncreaseHandleArraySize(b, delta) ==
  LET old == b.ui32TotalHandCount
      total == NewTotalHandCount(b, delta)
      grown == [i \in Index |-> IF i >= old /\ i < total THEN FreshSlot ELSE b.psHandleArray[i]]
  IN [b EXCEPT
        !.psHandleArray =
           IF b.ui32FirstFreeIndex # 0 /\ ~b.bPurgingEnabled
           THEN [grown EXCEPT ![b.ui32LastFreeIndexPlusOne - 1].ui32NextIndexPlusOne = old + 1]
           ELSE grown,
        !.ui32FreeHandCount = @ + (total - old),
        !.ui32FirstFreeIndex = IF @ = 0 THEN old ELSE @,
        !.ui32LastFreeIndexPlusOne = IF b.bPurgingEnabled THEN @ ELSE total,
        !.ui32TotalHandCount = total]

CanEnsure(b, free) ==
  free > b.ui32FreeHandCount => CanIncrease(b, free - b.ui32FreeHandCount)

EnsureFreeHandles(b, free) ==
  IF free > b.ui32FreeHandCount
  THEN IncreaseHandleArraySize(b, free - b.ui32FreeHandCount)
  ELSE b

-----------------------------------------------------------------------------
(***************************************************************************)
(* Allocation.                                                             *)
(***************************************************************************)

\* The head of the free list, or the first free entry from ui32FirstFreeIndex
\* on.  It may be no index of the array when the list is broken.
NewIndex(b) ==
  IF b.bPurgingEnabled
  THEN LET free == {i \in b.ui32FirstFreeIndex..(b.ui32TotalHandCount - 1) :
                      StructIsFree(b.psHandleArray[i])}
       IN IF free = {} THEN b.ui32TotalHandCount
          ELSE CHOOSE i \in free : \A j \in free : i <= j
  ELSE b.ui32FirstFreeIndex

\* Variant: entries are always taken in the order of the array.
NextFreeInOrder(b, i) == i + 1

\* The entry after i on the free list: a link of 0 stands for the next index.
NextFree(b, i) ==
  LET link == b.psHandleArray[i].ui32NextIndexPlusOne IN
  IF link = 0 THEN i + 1 ELSE link - 1

\* AllocHandle from the choice of the index on, with room for the handle.
AllocHandle(b, d, t, f, hParent) ==
  LET new == NewIndex(b)
      left == b.ui32FreeHandCount - 1
  IN [b EXCEPT
        !.psHashTab = IF "MULTI" \in f THEN @ ELSE [@ EXCEPT ![<<d, t, hParent>>] = new + 1],
        !.ui32FreeHandCount = left,
        !.ui32FirstFreeIndex = IF b.bPurgingEnabled \/ left = 0 THEN 0 ELSE NextFree(b, new),
        !.ui32LastFreeIndexPlusOne = IF ~b.bPurgingEnabled /\ left = 0 THEN 0 ELSE @,
        !.psHandleArray[new] =
           [FreshSlot EXCEPT
              !.eType = t, !.pvData = d, !.eFlag = f,
              !.bBatched = HandlesBatched(b),
              !.ui32NextIndexPlusOne =
                 IF HandlesBatched(b) THEN b.ui32FirstBatchIndexPlusOne ELSE 0],
        !.ui32FirstBatchIndexPlusOne = IF HandlesBatched(b) THEN new + 1 ELSE @]

\* The child goes to the end of its parent's list.
AdoptChild(b, hParent, child) ==
  [b EXCEPT !.psHandleArray[child].hParent = hParent,
            !.psHandleArray[hParent - 1].children = Append(@, child)]

\* An allocation that fails is counted; the batch is not committed then.
AllocFails(b) ==
  IF HandlesBatched(b) THEN [b EXCEPT !.ui32BatchHandAllocFailures = @ + 1] ELSE b

Idle == todo = <<>> /\ walk.loop = "none"

MayFail == HandlesBatched(psBase) => psBase.ui32BatchHandAllocFailures < MaxFailures

\* The ways AllocHandle fails: the array cannot grow, because the limit is
\* reached or memory is short, or the hash table has no memory for the key.
AllocHandleFails(f) ==
  /\ MayFail
  /\ \/ /\ psBase.ui32FreeHandCount = 0
        /\ psBase' = AllocFails(psBase)
     \/ /\ "MULTI" \notin f /\ CanEnsure(psBase, 1)
        /\ psBase' = AllocFails([EnsureFreeHandles(psBase, 1) EXCEPT
                                  !.ui32FirstFreeIndex = IF psBase.bPurgingEnabled THEN 0 ELSE @])

PVRSRVAllocHandle(d, t, f) ==
  LET found == IF "MULTI" \in f THEN 0 ELSE FindHandle(psBase, d, t, 0) IN
  /\ Idle
  /\ UNCHANGED <<todo, walk, before, owed, kind>>
  /\ \/ /\ found # 0
        /\ IF /\ GetHandleStructure(psBase, found, t)
              /\ "SHARED" \in psBase.psHandleArray[found - 1].eFlag \cap f
           THEN UNCHANGED psBase
           ELSE MayFail /\ psBase' = AllocFails(psBase)
     \/ /\ found = 0 /\ CanEnsure(psBase, 1)
        /\ LET room == EnsureFreeHandles(psBase, 1) IN
           /\ NewIndex(room) < room.ui32TotalHandCount
           /\ psBase' = AllocHandle(room, d, t, f, 0)
     \/ found = 0 /\ AllocHandleFails(f)

\* hParent comes from the client.
PVRSRVAllocSubHandle(d, t, f, hParent) ==
  LET hParentKey == IF "PRIVATE" \in f THEN hParent ELSE 0
      found == IF "MULTI" \in f THEN 0 ELSE FindHandle(psBase, d, t, hParentKey)
  IN
  /\ Idle
  /\ kind # "kernel"
  /\ UNCHANGED <<todo, walk, before, owed, kind>>
  /\ \/ /\ ~InUse(psBase, hParent)
        /\ MayFail /\ psBase' = AllocFails(psBase)
     \/ /\ InUse(psBase, hParent) /\ found # 0
        /\ IF /\ GetHandleStructure(psBase, found, t)
              /\ "SHARED" \in psBase.psHandleArray[found - 1].eFlag \cap f
              /\ psBase.psHandleArray[found - 1].hParent = hParent
           THEN UNCHANGED psBase
           ELSE MayFail /\ psBase' = AllocFails(psBase)
     \/ /\ InUse(psBase, hParent) /\ found = 0 /\ CanEnsure(psBase, 1)
        /\ LET room == EnsureFreeHandles(psBase, 1) IN
           /\ NewIndex(room) < room.ui32TotalHandCount
           /\ psBase' = AdoptChild(AllocHandle(room, d, t, f, hParentKey), hParent, NewIndex(room))
     \/ InUse(psBase, hParent) /\ found = 0 /\ AllocHandleFails(f)

-----------------------------------------------------------------------------
(***************************************************************************)
(* Release.                                                                *)
(***************************************************************************)

\* Variant: the parent is forgotten but keeps its child on the list.
UnlinkFromParentOneSided(b, i) ==
  IF b.psHandleArray[i].hParent = 0 THEN b
  ELSE [b EXCEPT !.psHandleArray[i].hParent = 0]

\* HandleListRemove: the neighbours of the entry are linked to each other.
HandleListRemove(list, i) ==
  LET at == CHOOSE k \in DOMAIN list : list[k] = i
  IN [k \in 1..(Len(list) - 1) |-> IF k < at THEN list[k] ELSE list[k + 1]]

\* UnlinkFromParent
UnlinkFromParent(b, i) ==
  LET p == b.psHandleArray[i].hParent IN
  IF p = 0 THEN b
  ELSE [b EXCEPT !.psHandleArray[i].hParent = 0,
                 !.psHandleArray[p - 1].children = HandleListRemove(@, i)]

\* FreeHandle up to the loop over the children
FreeHandleEnter(b, i) ==
  LET s == b.psHandleArray[i]
      hashed == "MULTI" \notin s.eFlag /\ ~s.bPartiallyFree
  IN UnlinkFromParent([b EXCEPT !.psHashTab = IF hashed THEN [@ EXCEPT ![KeyOf(s)] = 0] ELSE @], i)

\* FreeHandle after that loop: a handle of the open batch stays on the batch's
\* list, any other one goes to the end of the free list.  What is left in the
\* other fields is not read again.
FreeHandleLeave(b, i) ==
  LET s == b.psHandleArray[i]
      freed == [b EXCEPT !.psHandleArray[i] =
                  [@ EXCEPT !.eType = NONE, !.pvData = NONE, !.eFlag = {}]]
  IN IF s.bBatched /\ ~s.bPartiallyFree
     THEN [freed EXCEPT !.psHandleArray[i].bPartiallyFree = TRUE]
     ELSE IF b.bPurgingEnabled
     THEN [freed EXCEPT !.ui32FreeHandCount = @ + 1]
     ELSE [freed EXCEPT
             !.psHandleArray =
                IF b.ui32FreeHandCount = 0 THEN @
                ELSE [@ EXCEPT ![b.ui32LastFreeIndexPlusOne - 1].ui32NextIndexPlusOne = i + 1],
             !.ui32FirstFreeIndex = IF b.ui32FreeHandCount = 0 THEN i ELSE @,
             !.ui32LastFreeIndexPlusOne = i + 1,
             !.ui32FreeHandCount = @ + 1]

\* One turn of the recursion: into the first child that is left, or back.
FreeHandle ==
  /\ todo # <<>>
  /\ UNCHANGED <<walk, owed, kind>>
  /\ LET i == todo[Len(todo)]
         children == psBase.psHandleArray[i].children
     IN IF children # <<>>
        THEN /\ psBase' = FreeHandleEnter(psBase, Head(children))
             /\ todo' = Append(todo, Head(children))
             /\ UNCHANGED before
        ELSE /\ psBase' = FreeHandleLeave(psBase, i)
             /\ todo' = SubSeq(todo, 1, Len(todo) - 1)
             /\ before' = before \ {i + 1}

\* PVRSRVReleaseHandle and PVRSRVLookupAndReleaseHandle.  No ioctl releases a
\* DEV_NODE handle: PVRSRV_BRIDGE_RELEASE_DEVICEINFO does nothing.
PVRSRVReleaseHandle(h, t) ==
  /\ Idle
  /\ t # DEV_NODE
  /\ GetHandleStructure(psBase, h, t)
  /\ psBase' = FreeHandleEnter(psBase, h - 1)
  /\ todo' = <<h - 1>>
  /\ UNCHANGED <<walk, before, owed, kind>>

-----------------------------------------------------------------------------
(***************************************************************************)
(* Batches.  An ioctl opens one, makes its handles and commits it; the     *)
(* dispatcher releases what is still open when the ioctl is over.          *)
(***************************************************************************)

NoWalk == [loop |-> "none", next |-> 0, commit |-> FALSE]

\* When there is no room the ioctl ends and nothing has happened.
PVRSRVNewHandleBatch(n) ==
  /\ Idle
  /\ kind # "kernel"
  /\ ~HandlesBatched(psBase)
  /\ CanEnsure(psBase, n)
  /\ psBase' = [EnsureFreeHandles(psBase, n) EXCEPT !.ui32HandBatchSize = n]
  /\ before' = HandlesInUse(psBase)
  /\ UNCHANGED <<todo, walk, owed, kind>>

\* Variant: failed allocations are not looked at.
CommitsBatchAnyway(commit) == commit

\* bCommitBatch
CommitsBatch(commit) == commit /\ psBase.ui32BatchHandAllocFailures = 0

PVRSRVHandleBatchCommitOrRelease(commit) ==
  /\ Idle
  /\ HandlesBatched(psBase)
  /\ walk' = [loop |-> "batch", next |-> psBase.ui32FirstBatchIndexPlusOne,
              commit |-> CommitsBatch(commit)]
  /\ owed' = IF commit /\ psBase.ui32BatchHandAllocFailures = 0
             THEN HandlesInUse(psBase) ELSE HandlesInUse(psBase) \cap before
  /\ UNCHANGED <<psBase, todo, before, kind>>

\* The next handle of the batch.
WalkBatch ==
  /\ todo = <<>> /\ walk.loop = "batch" /\ walk.next # 0
  /\ LET i == walk.next - 1
         s == psBase.psHandleArray[i]
         visited == [psBase EXCEPT
                       !.psHandleArray[i].ui32NextIndexPlusOne = 0,
                       !.psHandleArray[i].bBatched = s.bPartiallyFree]
     IN /\ walk' = [walk EXCEPT !.next = s.ui32NextIndexPlusOne]
        /\ IF ~walk.commit \/ s.bPartiallyFree
           THEN psBase' = FreeHandleEnter(visited, i) /\ todo' = <<i>>
           ELSE psBase' = visited /\ UNCHANGED todo
  /\ UNCHANGED <<before, owed, kind>>

EndBatch ==
  /\ todo = <<>> /\ walk.loop = "batch" /\ walk.next = 0
  /\ psBase' = [psBase EXCEPT !.ui32HandBatchSize = 0,
                              !.ui32FirstBatchIndexPlusOne = 0,
                              !.ui32BatchHandAllocFailures = 0]
  /\ walk' = NoWalk
  /\ before' = {} /\ owed' = {}
  /\ UNCHANGED <<todo, kind>>

-----------------------------------------------------------------------------
(***************************************************************************)
(* The life of a base.                                                     *)
(***************************************************************************)

\* PVRSRVAllocHandleBase; the kernel's base has purging enabled.
EmptyBase(purging) ==
  [psHandleArray |-> [i \in Index |-> FreshSlot],
   psHashTab |-> [k \in Keys |-> 0],
   ui32FreeHandCount |-> 0, ui32FirstFreeIndex |-> 0,
   ui32TotalHandCount |-> 0, ui32LastFreeIndexPlusOne |-> 0,
   ui32HandBatchSize |-> 0, ui32FirstBatchIndexPlusOne |-> 0,
   ui32BatchHandAllocFailures |-> 0, bPurgingEnabled |-> purging]

\* PVRSRVAcquireDeviceDataBW on a new base
WithDevCookie ==
  AllocHandle(EnsureFreeHandles(EmptyBase(FALSE), 1), DevCookie, DEV_NODE, {"SHARED"}, 0)

\* A client's first handle is that of the device node when the client opens the
\* device before anything else ("process"), and any other one when it
\* does not ("anyclient").
NewBase(k) ==
  CASE k = "kernel" -> EmptyBase(TRUE)
    [] k = "anyclient" -> EmptyBase(FALSE)
    [] k = "process" -> WithDevCookie

\* FreeAllHandles, called when the process has closed its last file
FreeHandleBase ==
  /\ Idle
  /\ ~HandlesBatched(psBase)
  /\ walk' = [NoWalk EXCEPT !.loop = "all"]
  /\ UNCHANGED <<psBase, todo, before, owed, kind>>

AllFreed == psBase.ui32FreeHandCount = psBase.ui32TotalHandCount

WalkAll ==
  /\ todo = <<>> /\ walk.loop = "all"
  /\ ~AllFreed /\ walk.next < psBase.ui32TotalHandCount
  /\ walk' = [walk EXCEPT !.next = @ + 1]
  /\ IF psBase.psHandleArray[walk.next].eType # NONE
     THEN psBase' = FreeHandleEnter(psBase, walk.next) /\ todo' = <<walk.next>>
     ELSE UNCHANGED <<psBase, todo>>
  /\ UNCHANGED <<before, owed, kind>>

\* The array and the hash table are freed; the next process gets a new base.
EndAll ==
  /\ todo = <<>> /\ walk.loop = "all"
  /\ AllFreed \/ walk.next >= psBase.ui32TotalHandCount
  /\ psBase' = NewBase(kind)
  /\ walk' = NoWalk
  /\ before' = {} /\ owed' = {}
  /\ UNCHANGED <<todo, kind>>

\* ui32FreeHandCount after PVRSRVPurgeHandles
FreeAfterPurge(count) == psBase.ui32FreeHandCount - (psBase.ui32TotalHandCount - count)

\* Called for the kernel's base whenever a process closes a file: gives half of
\* the array, or more, back when the upper part of it is free.
PVRSRVPurgeHandles ==
  LET used == {h \in 1..psBase.ui32TotalHandCount : ~StructIsFree(psBase.psHandleArray[h - 1])}
      last == IF used = {} THEN 0 ELSE CHOOSE h \in used : \A g \in used : g <= h
      count == RoundUpToBlock(last)
  IN
  /\ Idle
  /\ psBase.bPurgingEnabled
  /\ count <= psBase.ui32TotalHandCount \div 2
  /\ psBase' = [psBase EXCEPT
                  !.psHandleArray = [i \in Index |-> IF i < count THEN @[i] ELSE FreshSlot],
                  !.ui32FreeHandCount = FreeAfterPurge(count),
                  !.ui32FirstFreeIndex = 0,
                  !.ui32TotalHandCount = count]
  /\ UNCHANGED <<todo, walk, before, owed, kind>>

-----------------------------------------------------------------------------
Init ==
  /\ kind \in Bases
  /\ psBase = NewBase(kind)
  /\ todo = <<>> /\ walk = NoWalk
  /\ before = {} /\ owed = {}

\* The kernel's base holds memory that is exported and the data of processes:
\* no flags, no parents, no batches.
Next ==
  \/ \E d \in Data, t \in Types, f \in AllocFlags :
       (kind = "kernel" => f = {}) /\ PVRSRVAllocHandle(d, t, f)
  \/ kind # "kernel" /\ PVRSRVAllocHandle(DevCookie, DEV_NODE, {"SHARED"})
  \/ \E d \in Data, t \in Types, f \in SubAllocFlags, h \in Handles :
       PVRSRVAllocSubHandle(d, t, f, h)
  \/ \E h \in Handles, t \in Types : PVRSRVReleaseHandle(h, t)
  \/ FreeHandle
  \/ \E n \in BatchSizes : PVRSRVNewHandleBatch(n)
  \/ \E commit \in BOOLEAN : PVRSRVHandleBatchCommitOrRelease(commit)
  \/ WalkBatch
  \/ EndBatch
  \/ FreeHandleBase
  \/ WalkAll
  \/ EndAll
  \/ PVRSRVPurgeHandles

Spec == Init /\ [][Next]_vars

-----------------------------------------------------------------------------
(***************************************************************************)
(* Properties.                                                             *)
(***************************************************************************)

\* Type invariant: psBase is a handle base, and the recursion and the loop are
\* at indices of the array.
TypeOK ==
  /\ kind \in Bases
  /\ psBase.psHandleArray \in [Index -> Slot]
  /\ psBase.psHashTab \in [Keys -> Handles]
  /\ psBase.ui32TotalHandCount \in Handles
  /\ psBase.ui32FreeHandCount \in 0..psBase.ui32TotalHandCount
  /\ psBase.ui32FirstFreeIndex \in Index
  /\ psBase.ui32LastFreeIndexPlusOne \in 0..psBase.ui32TotalHandCount
  /\ psBase.ui32HandBatchSize \in BatchSizes \cup {0}
  /\ psBase.ui32FirstBatchIndexPlusOne \in 0..psBase.ui32TotalHandCount
  /\ psBase.ui32BatchHandAllocFailures \in 0..MaxFailures
  /\ psBase.bPurgingEnabled \in BOOLEAN
  /\ todo \in Seq(Index)
  /\ walk \in [loop : {"none", "batch", "all"}, next : Handles, commit : BOOLEAN]
  /\ before \subseteq Handles /\ owed \subseteq Handles

\* The handles of the open batch that the loop has not visited
BatchIndices ==
  LET start == IF walk.loop = "batch" THEN walk.next ELSE psBase.ui32FirstBatchIndexPlusOne
      reach[n \in 0..MaxHandle] ==
        IF n = 0 THEN {start}
        ELSE {psBase.psHandleArray[h - 1].ui32NextIndexPlusOne : h \in reach[n - 1] \ {0}}
  IN {h - 1 : h \in (UNION {reach[n] : n \in 0..MaxHandle}) \ {0}}

\* Entries that nobody holds
FreeIndices ==
  {i \in 0..(psBase.ui32TotalHandCount - 1) : psBase.psHandleArray[i].eType = NONE}
    \ (BatchIndices \cup {todo[k] : k \in DOMAIN todo})

\* The free list as AllocHandle will take it
FreeList ==
  LET list[k \in 1..psBase.ui32FreeHandCount] ==
        IF k = 1 THEN psBase.ui32FirstFreeIndex
        ELSE NextFree(psBase, list[k - 1] % MaxHandle)
  IN list

\* The free list of a process' base leads through every free entry once, and
\* through nothing else, whatever was allocated, released or given back with a
\* batch; ui32FreeHandCount counts it and it ends where the next entry is
\* appended.  In the kernel's base the count is that of the free entries.
\* For "anyclient", whose first handle may be released, this does not hold:
\* IncreaseHandleArraySize takes a list that starts at entry 0 for an empty one,
\* against its PVR_ASSERT.
\* (FreeHandle, AllocHandle, IncreaseHandleArraySize)
FreeListExact ==
  LET n == psBase.ui32FreeHandCount IN
  /\ n = Cardinality(FreeIndices)
  /\ ~psBase.bPurgingEnabled /\ n # 0 =>
       /\ {FreeList[k] : k \in 1..n} = FreeIndices
       /\ FreeList[n] = psBase.ui32LastFreeIndexPlusOne - 1
       /\ psBase.psHandleArray[FreeList[n]].ui32NextIndexPlusOne = 0

\* The hash table names a handle exactly as long as it is in use, so an object
\* never gets two handles where one is shared, and never a dead one; handles that
\* may be many (MULTI) are not in it.  (AllocHandle, FreeHandle)
HashExact ==
  /\ \A k \in Keys :
       LET h == psBase.psHashTab[k] IN
       h # 0 => /\ InUse(psBase, h)
                /\ "MULTI" \notin psBase.psHandleArray[h - 1].eFlag
                /\ KeyOf(psBase.psHandleArray[h - 1]) = k
  /\ \A h \in HandlesInUse(psBase) :
       LET s == psBase.psHandleArray[h - 1] IN
       "MULTI" \in s.eFlag
         \/ psBase.psHashTab[KeyOf(s)] = h
         \/ \E k \in DOMAIN todo : todo[k] = h - 1

\* Parents and children know each other, and a child never outlives its parent:
\* releasing a handle takes everything below it along.  (AdoptChild,
\* UnlinkFromParent, the recursion of FreeHandle)
TreeExact ==
  \A h \in HandlesInUse(psBase) :
    LET s == psBase.psHandleArray[h - 1] IN
    /\ s.hParent # 0 =>
         /\ InUse(psBase, s.hParent)
         /\ Cardinality({k \in DOMAIN psBase.psHandleArray[s.hParent - 1].children :
                           psBase.psHandleArray[s.hParent - 1].children[k] = h - 1}) = 1
    /\ \A k \in DOMAIN s.children :
         /\ InUse(psBase, s.children[k] + 1)
         /\ psBase.psHandleArray[s.children[k]].hParent = h

\* When a base is freed FreeAllHandles has released every handle, although it
\* stops as soon as the counts agree, and the hash table is empty, as HASH_Delete
\* asserts.
NothingLeft ==
  todo = <<>> /\ walk.loop = "all" /\ AllFreed =>
    HandlesInUse(psBase) = {} /\ \A k \in Keys : psBase.psHashTab[k] = 0

\* The three structures a handle is in, the free list, the hash table and the
\* tree of parents, agree with each other and with the handles in use at every
\* step of the recursion of FreeHandle, and freeing the base leaves nothing.
DatabaseExact == TypeOK /\ FreeListExact /\ HashExact /\ TreeExact /\ NothingLeft

\* A handle that is in use is given to nobody else: it names the same object, as
\* the same type, until it is released.  (AllocHandle takes only free entries)
HandlesKeepTheirObject ==
  [][walk.loop # "all" =>
      \A h \in HandlesInUse(psBase) \cap HandlesInUse(psBase') :
        LET s == psBase.psHandleArray[h - 1]
            t == psBase'.psHandleArray[h - 1]
        IN s.eType = t.eType /\ s.pvData = t.pvData /\ s.eFlag = t.eFlag]_vars

\* A batch is committed as a whole or given back as a whole: afterwards the
\* handles in use are all those that were made and not released meanwhile, or,
\* when an allocation failed or the ioctl did not commit, those of before.
\* (PVRSRVHandleBatchCommitOrRelease)
BatchAllOrNothing ==
  todo = <<>> /\ walk.loop = "batch" /\ walk.next = 0 => HandlesInUse(psBase) = owed
=============================================================================
