--------------------------- MODULE HandleBaseProofs ---------------------------
(***************************************************************************)
(* HandleBase for every set of objects and types, every block size, limit  *)
(* and batch size: the free list, the hash table, the tree of parents and  *)
(* the batch of a base agree at every step, a handle keeps its object, and *)
(* a batch is committed or given back as a whole.                          *)
(*                                                                         *)
(* Left out is a client that does not open the device first ("anyclient"): *)
(* its free list may start at entry 0, which IncreaseHandleArraySize takes *)
(* for an empty one.                                                       *)
(*                                                                         *)
(* The lists are in the array, so the invariant says that there is a       *)
(* numbering of their entries that the links follow; the functions by      *)
(* which HandleBase walks them are shown to give that numbering.           *)
(***************************************************************************)
EXTENDS HandleBase, FiniteSetTheorems, WellFoundedInduction, TLAPS

-----------------------------------------------------------------------------
(***************************************************************************)
(* The inductive invariant.                                                *)
(***************************************************************************)

\* A base as a record.
Base ==
  [psHandleArray : [Index -> Slot], psHashTab : [Keys -> Handles],
   ui32FreeHandCount : Handles, ui32FirstFreeIndex : Index,
   ui32TotalHandCount : Handles, ui32LastFreeIndexPlusOne : Handles,
   ui32HandBatchSize : BatchSizes \cup {0}, ui32FirstBatchIndexPlusOne : Handles,
   ui32BatchHandAllocFailures : 0..MaxFailures, bPurgingEnabled : BOOLEAN]

\* The entries of the array, the one of index i being in use.
Entries(b) == 0..(b.ui32TotalHandCount - 1)

Live(b, i) == i \in Entries(b) /\ b.psHandleArray[i].eType # NONE

\* The links of the entries, for the free list and for the list of the batch.
Links(b) == [i \in Index |-> b.psHandleArray[i].ui32NextIndexPlusOne]

\* The n entries of F form a list from `first` on that ends at `last`, where a
\* link of 0 stands for the next index.
Follows(nx, i) == IF nx[i] = 0 THEN i + 1 ELSE nx[i] - 1

FreeLinked(nx, first, last, n, F) ==
  \E L \in [1..n -> Index] :
    /\ \A j, k \in 1..n : L[j] = L[k] => j = k
    /\ F \subseteq Index
    /\ \A i \in Index : i \in F <=> \E k \in 1..n : L[k] = i
    /\ n # 0 => first = L[1] /\ last = L[n] + 1 /\ nx[L[n]] = 0
    /\ \A k \in 1..(n - 1) : L[k + 1] = Follows(nx, L[k])

\* The m entries of S form a list from `start` on that ends with a link of 0.
BatchList(nx, start, S, m, B) ==
  /\ \A j, k \in 1..m : B[j] = B[k] => j = k
  /\ S \subseteq Index
  /\ \A i \in Index : i \in S <=> \E k \in 1..m : B[k] = i
  /\ start = IF m = 0 THEN 0 ELSE B[1] + 1
  /\ \A k \in 1..m : nx[B[k]] = IF k = m THEN 0 ELSE B[k + 1] + 1

BatchLinked(nx, start, S) ==
  \E m \in Handles : \E B \in [1..m -> Index] : BatchList(nx, start, S, m, B)

\* The entries nobody holds, when S is the batch and T the stack of FreeHandle.
Unheld(b, T, S) == {i \in Entries(b) : b.psHandleArray[i].eType = NONE} \ (S \cup T)

FreeInv(b, T, S) ==
  /\ b.ui32FreeHandCount = Cardinality(Unheld(b, T, S))
  /\ ~b.bPurgingEnabled =>
       FreeLinked(Links(b), b.ui32FirstFreeIndex, b.ui32LastFreeIndexPlusOne,
                  b.ui32FreeHandCount, Unheld(b, T, S))

Held(st) == {st[k] : k \in DOMAIN st}

Start(b, w) == IF w.loop = "batch" THEN w.next ELSE b.ui32FirstBatchIndexPlusOne

\* Past its end the array has never been used.
FreshInv(b) == \A i \in Index : i \notin Entries(b) => b.psHandleArray[i] = FreshSlot

\* What the flags of an entry say about the lists it is on.
FlagInv(b, T, S) ==
  /\ S \subseteq Entries(b)
  /\ \A i \in S : /\ b.psHandleArray[i].bBatched
                  /\ b.psHandleArray[i].bPartiallyFree <=> b.psHandleArray[i].eType = NONE
  /\ \A i \in S \cap T : Live(b, i)
  /\ \A i \in Index : Live(b, i) /\ i \notin S =>
       /\ ~b.psHandleArray[i].bBatched /\ ~b.psHandleArray[i].bPartiallyFree
       /\ b.psHandleArray[i].ui32NextIndexPlusOne = 0
  /\ \A i \in T : ~Live(b, i) =>
       b.psHandleArray[i].bPartiallyFree /\ b.psHandleArray[i].ui32NextIndexPlusOne = 0

HashInv(b, T) ==
  /\ \A k \in Keys : b.psHashTab[k] # 0 =>
       LET i == b.psHashTab[k] - 1 IN
       /\ Live(b, i) /\ i \notin T
       /\ "MULTI" \notin b.psHandleArray[i].eFlag
       /\ KeyOf(b.psHandleArray[i]) = k
  /\ \A i \in Index : Live(b, i) =>
       /\ b.psHandleArray[i].pvData \in Data \cup {DevCookie}
       /\ \/ "MULTI" \in b.psHandleArray[i].eFlag
          \/ i \in T
          \/ b.psHashTab[KeyOf(b.psHandleArray[i])] = i + 1

TreeInv(b) ==
  /\ \A i \in Index : b.psHandleArray[i].eType = NONE =>
       b.psHandleArray[i].hParent = 0 /\ b.psHandleArray[i].children = <<>>
  /\ \A i \in Index : Live(b, i) /\ b.psHandleArray[i].hParent # 0 =>
       LET p == b.psHandleArray[i].hParent - 1 IN
       Live(b, p) /\ \E k \in DOMAIN b.psHandleArray[p].children :
                        b.psHandleArray[p].children[k] = i
  /\ \A i \in Index : Live(b, i) =>
       LET c == b.psHandleArray[i].children IN
       /\ \A k \in DOMAIN c : Live(b, c[k]) /\ b.psHandleArray[c[k]].hParent = i + 1
       /\ \A j, k \in DOMAIN c : c[j] = c[k] => j = k

StackInv(b, st) ==
  /\ st \in Seq(Index)
  /\ \A j, k \in DOMAIN st : st[j] = st[k] => j = k
  /\ \A i \in Held(st) : i \in Entries(b) /\ b.psHandleArray[i].hParent = 0

\* The base of the kernel, and the first entry of the base of a process.
KindInv(b, k, w, T, S) ==
  /\ k \in Bases \ {"anyclient"}
  /\ b.bPurgingEnabled <=> k = "kernel"
  /\ k = "kernel" =>
       /\ b.ui32LastFreeIndexPlusOne = 0
       /\ b.ui32HandBatchSize = 0
       /\ \A i \in Index : /\ ~b.psHandleArray[i].bBatched
                           /\ ~b.psHandleArray[i].bPartiallyFree
  /\ k = "process" /\ w.loop # "all" =>
       /\ Live(b, 0) /\ b.psHandleArray[0].eType = DEV_NODE
       /\ b.psHandleArray[0].hParent = 0 /\ 0 \notin T \cup S
  /\ k = "process" /\ w.loop # "all" /\ b.ui32FreeHandCount = 0 => b.ui32FirstFreeIndex = 0

LoopInv(b, w) ==
  /\ w \in [loop : {"none", "batch", "all"}, next : Handles, commit : BOOLEAN]
  /\ b.ui32HandBatchSize = 0 =>
       w.loop # "batch" /\ b.ui32FirstBatchIndexPlusOne = 0
  /\ w.loop = "all" => b.ui32HandBatchSize = 0
  /\ b.ui32LastFreeIndexPlusOne <= b.ui32TotalHandCount
  /\ b.ui32FirstBatchIndexPlusOne <= b.ui32TotalHandCount

\* The batch as a whole.
BatchInv(b, w, T, S, bef, ow) ==
  /\ bef \subseteq HandlesInUse(b) /\ ow \subseteq Handles
  /\ \A i \in S : i + 1 \notin bef
  /\ \A i \in Index : Live(b, i) /\ i + 1 \in bef /\ b.psHandleArray[i].hParent # 0 =>
       b.psHandleArray[i].hParent \in bef
  /\ b.ui32HandBatchSize # 0 /\ ~(w.loop = "batch" /\ w.commit) =>
       \A i \in Index : Live(b, i) /\ i + 1 \notin bef => i \in S \cup T
  /\ b.ui32HandBatchSize # 0 /\ w.loop = "none" =>
       \A i \in Index : Live(b, i) /\ i + 1 \notin bef => i \in S
  /\ w.loop = "batch" /\ w.commit => HandlesInUse(b) = ow /\ \A i \in T : ~Live(b, i)
  /\ w.loop = "batch" /\ ~w.commit =>
       HandlesInUse(b) \cap bef = ow /\ \A i \in T : i + 1 \notin bef

HBInv(b, st, w, bef, ow, k, S) ==
  /\ b \in Base
  /\ KindInv(b, k, w, Held(st), S)
  /\ LoopInv(b, w)
  /\ FreshInv(b)
  /\ BatchLinked(Links(b), Start(b, w), S)
  /\ FreeInv(b, Held(st), S)
  /\ FlagInv(b, Held(st), S)
  /\ HashInv(b, Held(st))
  /\ TreeInv(b)
  /\ StackInv(b, st)
  /\ BatchInv(b, w, Held(st), S, bef, ow)

\* The search of the kernel's base starts at the first entry.
FirstInv(b) == b.bPurgingEnabled => b.ui32FirstFreeIndex = 0

HInv ==
  /\ FirstInv(psBase)
  /\ \E S \in SUBSET Index : HBInv(psBase, todo, walk, before, owed, kind, S)

-----------------------------------------------------------------------------
(***************************************************************************)
(* Induction over numbers.                                                 *)
(***************************************************************************)

\* A set of numbers has a least one.
LEMMA LeastNumber ==
  ASSUME NEW T, T \subseteq Nat, T # {}
  PROVE  \E x \in T : \A y \in T : x <= y
<1> DEFINE R == OpToRel(<, Nat)
<1>1. IsWellFoundedOn(R, Nat)
  BY NatLessThanWellFounded
<1>2. \A x, y \in Nat : x < y => <<x, y>> \in R
  BY DEF OpToRel
<1> HIDE DEF R
<1>3. PICK x \in T : \A y \in T : ~(<<y, x>> \in R)
  BY <1>1, WFMin
<1>4. \A y \in T : ~(y < x)
  BY <1>2, <1>3
<1> QED BY <1>4

\* A set with 0 and every successor of its members has all numbers.
LEMMA AllNumbers ==
  ASSUME NEW S, S \subseteq Nat, 0 \in S, \A n \in Nat : n \in S => n + 1 \in S
  PROVE  \A n \in Nat : n \in S
<1> DEFINE T == Nat \ S
<1>1. CASE T # {}
  <2>1. T \subseteq Nat
    OBVIOUS
  <2>2. PICK x \in T : \A y \in T : x <= y
    BY <1>1, <2>1, LeastNumber
  <2> QED BY <2>2
<1> QED BY <1>1

\* A set with the least number and every predecessor's successor up to n.
LEMMA NumbersUpTo ==
  ASSUME NEW S, NEW n \in Nat, S \subseteq Nat, n # 0 => 1 \in S,
         \A k \in 1..(n - 1) : k \in S => k + 1 \in S
  PROVE  \A k \in 1..n : k \in S
<1> DEFINE U == {j \in Nat : j + 1 \in 1..n => j + 1 \in S}
<1>1. 0 \in U
  OBVIOUS
<1>2. \A j \in Nat : j \in U => j + 1 \in U
  OBVIOUS
<1>3. U \subseteq Nat
  OBVIOUS
<1>4. \A j \in Nat : j \in U
  <2> HIDE DEF U
  <2> QED BY <1>1, <1>2, <1>3, AllNumbers
<1> TAKE k \in 1..n
<1>5. k - 1 \in Nat
  OBVIOUS
<1>6. k - 1 \in U
  BY <1>4, <1>5
<1> QED BY <1>5, <1>6

\* An index is its own remainder.
LEMMA SmallRemainder ==
  ASSUME NEW i \in Index
  PROVE  i % MaxHandle = i
BY ConstantsAssumption DEF Index

-----------------------------------------------------------------------------
(***************************************************************************)
(* The lists.                                                              *)
(***************************************************************************)

\* FreeList gives the numbering of the free entries that the links follow.
LEMMA FreeListIs ==
  ASSUME psBase \in Base,
         NEW n, n = psBase.ui32FreeHandCount,
         NEW L \in [1..n -> Index],
         n # 0 => psBase.ui32FirstFreeIndex = L[1],
         \A k \in 1..(n - 1) : L[k + 1] = Follows(Links(psBase), L[k])
  PROVE  FreeList = L
<1>0. n \in Nat
  BY DEF Base, Handles
<1>1. \A k \in 2..n : NextFree(psBase, L[k - 1] % MaxHandle) = L[k]
  <2> TAKE k \in 2..n
  <2>1. k - 1 \in 1..(n - 1) /\ k - 1 \in 1..n /\ (k - 1) + 1 = k
    BY <1>0
  <2>2. L[k - 1] \in Index
    BY <2>1
  <2>3. L[k - 1] % MaxHandle = L[k - 1]
    BY <2>2, SmallRemainder
  <2>4. L[k] = Follows(Links(psBase), L[k - 1])
    BY <2>1
  <2>5. Links(psBase)[L[k - 1]] = psBase.psHandleArray[L[k - 1]].ui32NextIndexPlusOne
    BY <2>2 DEF Links
  <2> QED BY <2>3, <2>4, <2>5 DEF NextFree, Follows
<1> DEFINE F(g) == [k \in 1..n |-> IF k = 1 THEN psBase.ui32FirstFreeIndex
                                   ELSE NextFree(psBase, g[k - 1] % MaxHandle)]
<1>2. L = F(L)
  <2>1. \A k \in 1..n : L[k] = F(L)[k]
    BY <1>0, <1>1
  <2> QED BY <2>1
<1>3. FreeList = CHOOSE g : g = F(g)
  BY DEF FreeList
<1>4. FreeList = F(FreeList)
  BY <1>2, <1>3
<1>5. PICK g : g = FreeList
  OBVIOUS
<1>6. g = F(g)
  BY <1>4, <1>5
<1> DEFINE S == {k \in Nat : k \in 1..n => g[k] = L[k]}
<1>7. \A k \in 1..n : k \in S
  <2>1. n # 0 => 1 \in S
    BY <1>0, <1>6
  <2>2. ASSUME NEW k \in 1..(n - 1), k \in S PROVE k + 1 \in S
    <3>1. k \in 1..n /\ k + 1 \in 2..n /\ k + 1 \in 1..n /\ (k + 1) - 1 = k /\ k + 1 # 1
      BY <1>0
    <3>2. g[k] = L[k]
      BY <2>2, <3>1
    <3>3. g[k + 1] = NextFree(psBase, g[k] % MaxHandle)
      BY <1>6, <3>1
    <3>4. g[k + 1] = L[k + 1]
      BY <1>1, <3>1, <3>2, <3>3
    <3> QED BY <3>1, <3>4
  <2>3. S \subseteq Nat
    OBVIOUS
  <2> HIDE DEF S
  <2> QED BY <1>0, <2>1, <2>2, <2>3, NumbersUpTo
<1>8. \A k \in 1..n : g[k] = L[k]
  BY <1>0, <1>7
<1>9. DOMAIN g = 1..n /\ g = [k \in 1..n |-> g[k]]
  BY <1>6
<1> QED BY <1>5, <1>8, <1>9

\* BatchIndices gives the entries of the batch that the links lead to.
LEMMA BatchIndicesIs ==
  ASSUME psBase \in Base, NEW S, BatchLinked(Links(psBase), Start(psBase, walk), S)
  PROVE  BatchIndices = S
<1>1. PICK m \in Handles : \E B \in [1..m -> Index] :
        /\ S \subseteq Index
        /\ \A i \in Index : i \in S <=> \E k \in 1..m : B[k] = i
        /\ Start(psBase, walk) = IF m = 0 THEN 0 ELSE B[1] + 1
        /\ \A k \in 1..m : Links(psBase)[B[k]] = IF k = m THEN 0 ELSE B[k + 1] + 1
  BY DEF BatchLinked, BatchList
<1>2. PICK B \in [1..m -> Index] :
        /\ S \subseteq Index
        /\ \A i \in Index : i \in S <=> \E k \in 1..m : B[k] = i
        /\ Start(psBase, walk) = IF m = 0 THEN 0 ELSE B[1] + 1
        /\ \A k \in 1..m : Links(psBase)[B[k]] = IF k = m THEN 0 ELSE B[k + 1] + 1
  BY <1>1
<1>3. m \in Nat /\ m <= MaxHandle /\ MaxHandle \in Nat
  BY ConstantsAssumption DEF Handles
<1>4. \A k \in 1..m : B[k] \in Nat
  BY DEF Index
<1>5. \A k \in 1..m : psBase.psHandleArray[(B[k] + 1) - 1].ui32NextIndexPlusOne
                        = IF k = m THEN 0 ELSE B[k + 1] + 1
  <2> TAKE k \in 1..m
  <2>1. B[k] \in Index /\ (B[k] + 1) - 1 = B[k]
    BY <1>4
  <2>2. Links(psBase)[B[k]] = psBase.psHandleArray[B[k]].ui32NextIndexPlusOne
    BY <2>1 DEF Links
  <2> QED BY <1>2, <2>1, <2>2
<1> DEFINE start == IF walk.loop = "batch" THEN walk.next ELSE psBase.ui32FirstBatchIndexPlusOne
           next(h) == psBase.psHandleArray[h - 1].ui32NextIndexPlusOne
           G(g) == [n \in 0..MaxHandle |->
                      IF n = 0 THEN {start} ELSE {next(h) : h \in g[n - 1] \ {0}}]
           X(n) == IF n < m THEN {B[n + 1] + 1} ELSE IF n = m THEN {0} ELSE {}
           R == [n \in 0..MaxHandle |-> X(n)]
<1>6. start = IF m = 0 THEN 0 ELSE B[1] + 1
  BY <1>2 DEF Start
<1>7. \A n \in 1..MaxHandle : X(n) = {next(h) : h \in X(n - 1) \ {0}}
  <2> TAKE n \in 1..MaxHandle
  <2>1. CASE n - 1 < m
    <3>1. n \in 1..m
      BY <1>3, <2>1
    <3>2. B[n] + 1 # 0 /\ X(n - 1) = {B[n] + 1}
      BY <1>4, <2>1, <3>1
    <3>3. X(n - 1) \ {0} = {B[n] + 1}
      BY <3>2, Zenon
    <3>4. next(B[n] + 1) = IF n = m THEN 0 ELSE B[n + 1] + 1
      BY <1>5, <3>1
    <3>5. X(n) = {next(B[n] + 1)}
      BY <1>3, <3>1, <3>4
    <3> HIDE DEF next, X
    <3> QED BY <3>3, <3>5
  <2>2. CASE n - 1 = m
    <3>1. X(n - 1) = {0} /\ X(n) = {}
      BY <1>3, <2>2
    <3> HIDE DEF next, X
    <3> QED BY <3>1
  <2>3. CASE n - 1 > m
    <3>1. X(n - 1) = {} /\ X(n) = {}
      BY <1>3, <2>3
    <3> HIDE DEF next, X
    <3> QED BY <3>1
  <2>4. n - 1 < m \/ n - 1 = m \/ n - 1 > m
    BY <1>3
  <2> HIDE DEF next, X
  <2> QED BY <2>1, <2>2, <2>3, <2>4
<1>8. X(0) = {start}
  BY <1>3, <1>6
<1>9. R = G(R)
  <2>1. \A n \in 0..MaxHandle : R[n] = G(R)[n]
    <3> TAKE n \in 0..MaxHandle
    <3>1. CASE n = 0
      <4> HIDE DEF next, X, start
      <4> QED BY <1>8, <3>1
    <3>2. CASE n # 0
      <4>1. n \in 1..MaxHandle /\ n - 1 \in 0..MaxHandle
        BY <1>3, <3>2
      <4> HIDE DEF next, X, start
      <4> QED BY <1>7, <3>2, <4>1
    <3> QED BY <3>1, <3>2
  <2> HIDE DEF next, X, start
  <2> QED BY <2>1
<1> DEFINE U(g) == UNION {g[n] : n \in 0..MaxHandle}
           W(V) == {h - 1 : h \in V \ {0}}
<1>10. BatchIndices = W(U(CHOOSE g : g = G(g)))
  BY Zenon DEF BatchIndices
<1>11. PICK g : g = (CHOOSE f : f = G(f))
  OBVIOUS
<1>12. g = G(g)
  <2> HIDE DEF G, R
  <2> QED BY <1>9, <1>11
<1> DEFINE T == {n \in Nat : n \in 0..MaxHandle => g[n] = X(n)}
<1>13. \A n \in Nat : n \in T
  <2>1. 0 \in T
    <3>1. g[0] = {start}
      <4> HIDE DEF start, next
      <4> QED BY <1>3, <1>12
    <3> HIDE DEF X, start
    <3> QED BY <1>8, <3>1
  <2>2. ASSUME NEW n \in Nat, n \in T PROVE n + 1 \in T
    <3>1. CASE n + 1 \in 0..MaxHandle
      <4>1. n \in 0..MaxHandle /\ n + 1 \in 1..MaxHandle /\ (n + 1) - 1 = n /\ n + 1 # 0
        BY <1>3, <3>1
      <4>2. g[n] = X(n)
        BY <2>2, <4>1
      <4>3. g[n + 1] = {next(h) : h \in g[n] \ {0}}
        <5> HIDE DEF start, next
        <5> QED BY <1>12, <3>1, <4>1
      <4>4. X(n + 1) = {next(h) : h \in X(n) \ {0}}
        <5> HIDE DEF X, next
        <5> QED BY <1>7, <4>1
      <4>5. g[n + 1] = X(n + 1)
        <5> HIDE DEF X, next
        <5> QED BY <4>2, <4>3, <4>4
      <4> HIDE DEF X
      <4> QED BY <4>5
    <3> HIDE DEF X
    <3> QED BY <3>1
  <2>3. T \subseteq Nat
    OBVIOUS
  <2> HIDE DEF T
  <2> QED BY <2>1, <2>2, <2>3, AllNumbers
<1>14. \A n \in 0..MaxHandle : g[n] = X(n)
  <2> TAKE n \in 0..MaxHandle
  <2>1. n \in Nat
    BY <1>3
  <2>2. n \in T
    BY <1>13, <2>1
  <2> HIDE DEF X
  <2> QED BY <2>2
<1>15. \A h : h \in U(g) <=> \E n \in 0..MaxHandle : h \in X(n)
  <2> HIDE DEF X
  <2> QED BY <1>14
<1>16. \A h : (\E n \in 0..MaxHandle : h \in X(n)) /\ h # 0 <=> \E k \in 1..m : h = B[k] + 1
  <2> TAKE h
  <2>1. ASSUME NEW n \in 0..MaxHandle, h \in X(n), h # 0 PROVE \E k \in 1..m : h = B[k] + 1
    <3>1. n < m /\ h = B[n + 1] + 1
      BY <1>3, <2>1
    <3>2. n + 1 \in 1..m
      BY <1>3, <3>1
    <3> QED BY <3>1, <3>2
  <2>2. ASSUME NEW k \in 1..m, h = B[k] + 1 PROVE h # 0 /\ \E n \in 0..MaxHandle : h \in X(n)
    <3>1. k - 1 \in 0..MaxHandle /\ k - 1 < m /\ (k - 1) + 1 = k
      BY <1>3
    <3>2. h \in X(k - 1)
      BY <2>2, <3>1
    <3> QED BY <1>4, <2>2, <3>1, <3>2
  <2> QED BY <2>1, <2>2
<1>17. \A i : i \in W(U(g)) <=> \E k \in 1..m : i = B[k]
  <2> TAKE i
  <2>1. i \in W(U(g)) <=> \E h : (h \in U(g) /\ h # 0) /\ i = h - 1
    <3>1. PICK V : V = U(g)
      BY Zenon
    <3>2. i \in W(V) <=> \E h : (h \in V /\ h # 0) /\ i = h - 1
      OBVIOUS
    <3> HIDE DEF W, U
    <3> QED BY <3>1, <3>2
  <2>2. i \in W(U(g)) <=> \E h : (\E k \in 1..m : h = B[k] + 1) /\ i = h - 1
    <3> HIDE DEF W, U, X
    <3> QED BY <1>15, <1>16, <2>1
  <2>3. \A k \in 1..m : (B[k] + 1) - 1 = B[k]
    BY <1>4
  <2> HIDE DEF W, U
  <2> QED BY <2>2, <2>3
<1>18. \A i : i \in S <=> \E k \in 1..m : i = B[k]
  BY <1>2
<1>19. W(U(g)) = S
  <2> HIDE DEF W, U
  <2> QED BY <1>17, <1>18
<1> HIDE DEF W, U, G
<1> QED BY <1>10, <1>11, <1>19

\* The ends of the free list are free entries.
LEMMA FreeEnds ==
  ASSUME NEW nx, NEW first, NEW last, NEW n \in Nat, NEW F,
         FreeLinked(nx, first, last, n, F)
  PROVE  /\ F \subseteq Index
         /\ n = 0 <=> F = {}
         /\ n # 0 => first \in F /\ last - 1 \in F /\ last \in Nat /\ nx[last - 1] = 0
<1>1. PICK L \in [1..n -> Index] :
        /\ F \subseteq Index
        /\ \A i \in Index : i \in F <=> \E k \in 1..n : L[k] = i
        /\ n # 0 => first = L[1] /\ last = L[n] + 1 /\ nx[L[n]] = 0
  BY DEF FreeLinked
<1>2. CASE n = 0
  BY <1>1, <1>2
<1>3. CASE n # 0
  <2>1. 1 \in 1..n /\ n \in 1..n
    BY <1>3
  <2>2. L[1] \in Index /\ L[n] \in Index /\ L[n] \in Nat /\ (L[n] + 1) - 1 = L[n]
    BY <2>1 DEF Index
  <2>3. L[1] \in F /\ L[n] \in F
    BY <1>1, <2>1, <2>2
  <2> QED BY <1>1, <1>3, <2>2, <2>3
<1> QED BY <1>2, <1>3

\* Links of other entries do not matter.
LEMMA FreeSame ==
  ASSUME NEW nx, NEW ny, NEW first, NEW last, NEW n \in Nat, NEW F,
         FreeLinked(nx, first, last, n, F), \A i \in F : ny[i] = nx[i]
  PROVE  FreeLinked(ny, first, last, n, F)
<1>1. PICK L \in [1..n -> Index] :
        /\ \A j, k \in 1..n : L[j] = L[k] => j = k
        /\ F \subseteq Index
        /\ \A i \in Index : i \in F <=> \E k \in 1..n : L[k] = i
        /\ n # 0 => first = L[1] /\ last = L[n] + 1 /\ nx[L[n]] = 0
        /\ \A k \in 1..(n - 1) : L[k + 1] = Follows(nx, L[k])
  BY DEF FreeLinked
<1>2. \A k \in 1..n : ny[L[k]] = nx[L[k]]
  BY <1>1
<1>3. n # 0 => ny[L[n]] = 0
  BY <1>1, <1>2
<1>4. \A k \in 1..(n - 1) : L[k + 1] = Follows(ny, L[k])
  BY <1>1, <1>2 DEF Follows
<1> QED BY <1>1, <1>3, <1>4 DEF FreeLinked

\* The first entry is taken off the free list.
LEMMA FreeTake ==
  ASSUME NEW nx, NEW ny, NEW first, NEW last, NEW n \in Nat, NEW F,
         FreeLinked(nx, first, last, n, F), n # 0,
         \A i \in F \ {first} : ny[i] = nx[i],
         NEW f, NEW l, n # 1 => f = Follows(nx, first) /\ l = last
  PROVE  FreeLinked(ny, f, l, n - 1, F \ {first}) /\ (n # 1 => f \in F \ {first})
<1>1. PICK L \in [1..n -> Index] :
        /\ \A j, k \in 1..n : L[j] = L[k] => j = k
        /\ F \subseteq Index
        /\ \A i \in Index : i \in F <=> \E k \in 1..n : L[k] = i
        /\ n # 0 => first = L[1] /\ last = L[n] + 1 /\ nx[L[n]] = 0
        /\ \A k \in 1..(n - 1) : L[k + 1] = Follows(nx, L[k])
  BY DEF FreeLinked
<1>0. PICK m \in Nat : m = n - 1
  OBVIOUS
<1>2. PICK M : M = [k \in 1..m |-> L[k + 1]]
  OBVIOUS
<1>3. \A k \in 1..m : k + 1 \in 1..n /\ k \in 1..n /\ k + 1 # 1 /\ M[k] = L[k + 1]
  BY <1>0, <1>2
<1>4. M \in [1..m -> Index]
  BY <1>2, <1>3
<1>5. \A j, k \in 1..m : M[j] = M[k] => j = k
  BY <1>1, <1>3
<1>6. \A i \in Index : i \in F \ {first} <=> \E k \in 1..m : M[k] = i
  <2> TAKE i \in Index
  <2>1. ASSUME i \in F, i # first PROVE \E k \in 1..m : M[k] = i
    <3>1. PICK k \in 1..n : L[k] = i
      BY <1>1, <2>1
    <3>2. k # 1
      BY <1>1, <2>1, <3>1
    <3>3. k - 1 \in 1..m /\ (k - 1) + 1 = k
      BY <1>0, <3>2
    <3> QED BY <1>3, <3>1, <3>3
  <2>2. ASSUME NEW k \in 1..m, M[k] = i PROVE i \in F /\ i # first
    <3>1. L[k + 1] = i /\ k + 1 \in 1..n /\ 1 \in 1..n
      BY <1>3, <2>2
    <3> QED BY <1>1, <1>3, <3>1
  <2> QED BY <2>1, <2>2
<1>7. \A k \in 1..m : ny[M[k]] = nx[M[k]]
  <2> TAKE k \in 1..m
  <2>1. M[k] \in Index
    BY <1>4
  <2>2. M[k] \in F \ {first}
    BY <1>6, <2>1
  <2> QED BY <2>2
<1>8. m # 0 => f = M[1] /\ l = M[m] + 1 /\ ny[M[m]] = 0
  <2> HAVE m # 0
  <2>1. 1 \in 1..m /\ m \in 1..m /\ 1 \in 1..(n - 1) /\ m + 1 = n /\ n # 1
    BY <1>0
  <2>2. M[1] = L[2] /\ M[m] = L[n] /\ L[2] = Follows(nx, L[1])
    BY <1>1, <1>3, <2>1
  <2> QED BY <1>1, <1>7, <2>1, <2>2
<1>9. \A k \in 1..(m - 1) : M[k + 1] = Follows(ny, M[k])
  <2> TAKE k \in 1..(m - 1)
  <2>1. k \in 1..m /\ k + 1 \in 1..m /\ k + 1 \in 1..(n - 1)
    BY <1>0
  <2>2. M[k + 1] = L[(k + 1) + 1] /\ M[k] = L[k + 1]
    BY <1>3, <2>1
  <2>3. L[(k + 1) + 1] = Follows(nx, L[k + 1])
    BY <1>1, <2>1
  <2> QED BY <1>7, <2>1, <2>2, <2>3 DEF Follows
<1>10. F \ {first} \subseteq Index
  BY <1>1
<1>11. FreeLinked(ny, f, l, m, F \ {first})
  BY <1>4, <1>5, <1>6, <1>8, <1>9, <1>10 DEF FreeLinked
<1>12. n # 1 => f \in F \ {first}
  <2> HAVE n # 1
  <2>1. m # 0 /\ 1 \in 1..m
    BY <1>0
  <2>2. M[1] \in Index
    BY <1>4, <2>1
  <2> QED BY <1>6, <1>8, <2>1, <2>2
<1> QED BY <1>0, <1>11, <1>12

\* An entry is put at the end of the free list.
LEMMA FreeAppend ==
  ASSUME NEW nx, NEW ny, NEW first, NEW last, NEW n \in Nat, NEW F,
         FreeLinked(nx, first, last, n, F),
         NEW i \in Index, i \notin F, ny[i] = 0,
         \A j \in F : j # last - 1 => ny[j] = nx[j],
         n # 0 => ny[last - 1] = i + 1,
         NEW f, n = 0 => f = i, n # 0 => f = first,
         NEW l, l = i + 1, NEW q, q = n + 1, NEW G, G = F \cup {i}
  PROVE  FreeLinked(ny, f, l, q, G)
<1>1. PICK L \in [1..n -> Index] :
        /\ \A j, k \in 1..n : L[j] = L[k] => j = k
        /\ F \subseteq Index
        /\ \A j \in Index : j \in F <=> \E k \in 1..n : L[k] = j
        /\ n # 0 => first = L[1] /\ last = L[n] + 1 /\ nx[L[n]] = 0
        /\ \A k \in 1..(n - 1) : L[k + 1] = Follows(nx, L[k])
  BY DEF FreeLinked
<1>0. PICK m \in Nat : m = n + 1
  OBVIOUS
<1>2. PICK M : M = [k \in 1..m |-> IF k = m THEN i ELSE L[k]]
  OBVIOUS
<1>3. (\A k \in 1..n : k \in 1..m /\ k # m /\ M[k] = L[k]) /\ m \in 1..m /\ M[m] = i
  BY <1>0, <1>2
<1>30. \A k \in 1..m : k = m \/ k \in 1..n
  BY <1>0
<1>4. M \in [1..m -> Index]
  BY <1>2, <1>30
<1>40. \A k \in 1..n : L[k] \in F /\ L[k] # i
  BY <1>1
<1>5. \A j, k \in 1..m : M[j] = M[k] => j = k
  <2> SUFFICES ASSUME NEW j \in 1..m, NEW k \in 1..m, M[j] = M[k] PROVE j = k
    OBVIOUS
  <2>1. CASE j \in 1..n /\ k \in 1..n
    BY <1>1, <1>3, <2>1
  <2>2. CASE j = m /\ k = m
    BY <2>2
  <2>3. CASE j = m /\ k \in 1..n
    BY <1>3, <1>40, <2>3
  <2>4. CASE j \in 1..n /\ k = m
    BY <1>3, <1>40, <2>4
  <2> QED BY <1>30, <2>1, <2>2, <2>3, <2>4
<1>6. \A j \in Index : j \in F \cup {i} <=> \E k \in 1..m : M[k] = j
  <2> TAKE j \in Index
  <2>1. ASSUME j \in F PROVE \E k \in 1..m : M[k] = j
    BY <1>1, <1>3, <2>1
  <2>2. ASSUME NEW k \in 1..m, M[k] = j PROVE j \in F \cup {i}
    BY <1>3, <1>30, <1>40, <2>2
  <2> QED BY <1>3, <2>1, <2>2
<1>7. ASSUME n # 0 PROVE /\ L[n] = last - 1 /\ ny[L[n]] = i + 1 /\ 1 \in 1..n /\ n \in 1..n
                         /\ \A k \in 1..(n - 1) : ny[L[k]] = nx[L[k]]
  <2>1. n \in 1..n /\ 1 \in 1..n
    BY <1>7
  <2>2. L[n] \in Nat /\ L[n] = last - 1
    BY <1>1, <1>7, <2>1 DEF Index
  <2>3. ASSUME NEW k \in 1..(n - 1) PROVE ny[L[k]] = nx[L[k]]
    <3>1. k \in 1..n /\ k # n
      OBVIOUS
    <3>2. L[k] \in F /\ L[k] # L[n]
      BY <1>1, <1>40, <2>1, <3>1
    <3> QED BY <2>2, <3>2
  <2> QED BY <1>7, <2>1, <2>2, <2>3
<1>8. f = M[1] /\ i + 1 = M[m] + 1 /\ ny[M[m]] = 0
  <2>1. CASE n = 0
    BY <1>0, <1>3, <2>1
  <2>2. CASE n # 0
    BY <1>1, <1>3, <1>7, <2>2
  <2> QED BY <2>1, <2>2
<1>9. \A k \in 1..(m - 1) : M[k + 1] = Follows(ny, M[k])
  <2> TAKE k \in 1..(m - 1)
  <2>1. k \in 1..n /\ n # 0
    BY <1>0
  <2>2. CASE k = n
    <3>1. M[k + 1] = i /\ M[k] = L[n] /\ ny[L[n]] = i + 1 /\ i \in Nat
      BY <1>0, <1>3, <1>7, <2>1, <2>2 DEF Index
    <3> QED BY <3>1 DEF Follows
  <2>3. CASE k # n
    <3>1. k \in 1..(n - 1) /\ k + 1 \in 1..n
      BY <2>1, <2>3
    <3>2. M[k + 1] = L[k + 1] /\ M[k] = L[k] /\ L[k + 1] = Follows(nx, L[k])
      BY <1>1, <1>3, <2>1, <3>1
    <3>3. ny[L[k]] = nx[L[k]]
      BY <1>7, <2>1, <3>1
    <3> QED BY <3>2, <3>3 DEF Follows
  <2> QED BY <2>2, <2>3
<1>10. F \cup {i} \subseteq Index
  BY <1>1
<1>11. FreeLinked(ny, f, i + 1, m, F \cup {i})
  BY <1>4, <1>5, <1>6, <1>8, <1>9, <1>10 DEF FreeLinked
<1> QED BY <1>0, <1>11

\* New entries go to the end of the free list.
LEMMA FreeGrow ==
  ASSUME NEW nx, NEW ny, NEW first, NEW last, NEW n \in Nat, NEW F,
         FreeLinked(nx, first, last, n, F),
         NEW old \in Handles, NEW total \in Handles, old < total,
         \A j \in F : j < old,
         \A j \in old..(total - 1) : ny[j] = 0,
         \A j \in F : j # last - 1 => ny[j] = nx[j],
         n # 0 => ny[last - 1] = old + 1,
         NEW f, n = 0 => f = old, n # 0 => f = first,
         NEW q, q = n + (total - old), NEW G, G = F \cup (old..(total - 1))
  PROVE  FreeLinked(ny, f, total, q, G)
<1>1. PICK L \in [1..n -> Index] :
        /\ \A j, k \in 1..n : L[j] = L[k] => j = k
        /\ F \subseteq Index
        /\ \A j \in Index : j \in F <=> \E k \in 1..n : L[k] = j
        /\ n # 0 => first = L[1] /\ last = L[n] + 1 /\ nx[L[n]] = 0
        /\ \A k \in 1..(n - 1) : L[k + 1] = Follows(nx, L[k])
  BY DEF FreeLinked
<1>0. PICK m \in Nat : m = n + (total - old)
  BY DEF Handles
<1>01. /\ old \in Nat /\ total \in Nat /\ MaxHandle \in Nat /\ total <= MaxHandle /\ n < m
       /\ old..(total - 1) \subseteq Index
  BY <1>0, ConstantsAssumption DEF Handles, Index
<1>2. PICK M : M = [k \in 1..m |-> IF k <= n THEN L[k] ELSE old + (k - n - 1)]
  OBVIOUS
<1>3. \A k \in 1..n : k \in 1..m /\ M[k] = L[k]
  BY <1>0, <1>01, <1>2
<1>30. \A k \in 1..m : k \notin 1..n =>
         /\ n < k /\ M[k] = old + (k - n - 1) /\ old + (k - n - 1) \in old..(total - 1)
  BY <1>0, <1>01, <1>2
<1>4. M \in [1..m -> Index]
  BY <1>01, <1>2, <1>3, <1>30
<1>40. \A k \in 1..n : L[k] \in F /\ L[k] < old /\ L[k] \in Nat
  BY <1>1 DEF Index
<1>5. \A j, k \in 1..m : M[j] = M[k] => j = k
  <2> SUFFICES ASSUME NEW j \in 1..m, NEW k \in 1..m, M[j] = M[k] PROVE j = k
    OBVIOUS
  <2>1. CASE j \in 1..n /\ k \in 1..n
    BY <1>1, <1>3, <2>1
  <2>2. CASE j \notin 1..n /\ k \notin 1..n
    BY <1>01, <1>30, <2>2
  <2>3. CASE j \in 1..n /\ k \notin 1..n
    BY <1>01, <1>3, <1>30, <1>40, <2>3
  <2>4. CASE j \notin 1..n /\ k \in 1..n
    BY <1>01, <1>3, <1>30, <1>40, <2>4
  <2> QED BY <2>1, <2>2, <2>3, <2>4
<1>6. \A j \in Index : j \in F \cup (old..(total - 1)) <=> \E k \in 1..m : M[k] = j
  <2> TAKE j \in Index
  <2>1. ASSUME j \in F PROVE \E k \in 1..m : M[k] = j
    BY <1>1, <1>3, <2>1
  <2>2. ASSUME j \in old..(total - 1) PROVE \E k \in 1..m : M[k] = j
    <3>1. PICK k \in 1..m : k = n + 1 + (j - old)
      BY <1>0, <1>01, <2>2
    <3>2. k \notin 1..n /\ old + (k - n - 1) = j
      BY <1>01, <2>2, <3>1
    <3> QED BY <1>30, <3>2
  <2>3. ASSUME NEW k \in 1..m, M[k] = j PROVE j \in F \cup (old..(total - 1))
    BY <1>3, <1>30, <1>40, <2>3
  <2> QED BY <2>1, <2>2, <2>3
<1>7. ASSUME n # 0 PROVE /\ L[n] = last - 1 /\ ny[L[n]] = old + 1 /\ 1 \in 1..n /\ n \in 1..n
                         /\ \A k \in 1..(n - 1) : ny[L[k]] = nx[L[k]]
  <2>1. n \in 1..n /\ 1 \in 1..n
    BY <1>7
  <2>2. L[n] \in Nat /\ L[n] = last - 1
    BY <1>1, <1>7, <1>40, <2>1
  <2>3. ASSUME NEW k \in 1..(n - 1) PROVE ny[L[k]] = nx[L[k]]
    <3>1. k \in 1..n /\ k # n
      OBVIOUS
    <3>2. L[k] \in F /\ L[k] # L[n]
      BY <1>1, <1>40, <2>1, <3>1
    <3> QED BY <2>2, <3>2
  <2> QED BY <1>7, <2>1, <2>2, <2>3
<1>70. m \notin 1..n /\ m \in 1..m /\ M[m] = total - 1 /\ total - 1 \in old..(total - 1)
  BY <1>0, <1>01, <1>2
<1>8. f = M[1] /\ total = M[m] + 1 /\ ny[M[m]] = 0
  <2>1. CASE n = 0
    <3>1. 1 \in 1..m /\ 1 \notin 1..n
      BY <1>01, <2>1
    <3>2. M[1] = old
      BY <1>01, <1>30, <2>1, <3>1
    <3> QED BY <1>01, <1>70, <2>1, <3>2
  <2>2. CASE n # 0
    BY <1>01, <1>1, <1>3, <1>7, <1>70, <2>2
  <2> QED BY <2>1, <2>2
<1>9. \A k \in 1..(m - 1) : M[k + 1] = Follows(ny, M[k])
  <2> TAKE k \in 1..(m - 1)
  <2>1. k \in 1..m /\ k + 1 \in 1..m
    OBVIOUS
  <2>2. CASE k = n
    <3>1. n # 0 /\ k \in 1..n /\ k + 1 \notin 1..n
      BY <2>2
    <3>2. M[k + 1] = old /\ M[k] = L[n] /\ ny[L[n]] = old + 1
      BY <1>01, <1>3, <1>30, <1>7, <2>1, <2>2, <3>1
    <3> QED BY <1>01, <3>2 DEF Follows
  <2>3. CASE k < n
    <3>1. k \in 1..(n - 1) /\ k + 1 \in 1..n /\ k \in 1..n /\ n # 0
      BY <2>3
    <3>2. M[k + 1] = L[k + 1] /\ M[k] = L[k] /\ L[k + 1] = Follows(nx, L[k])
      BY <1>1, <1>3, <3>1
    <3>3. ny[L[k]] = nx[L[k]]
      BY <1>7, <3>1
    <3> QED BY <3>2, <3>3 DEF Follows
  <2>4. CASE k > n
    <3>1. k \notin 1..n /\ k + 1 \notin 1..n
      BY <2>4
    <3>2. /\ M[k] = old + (k - n - 1) /\ M[k + 1] = old + ((k + 1) - n - 1)
          /\ M[k] \in old..(total - 1)
      BY <1>30, <2>1, <3>1
    <3>3. M[k + 1] = M[k] + 1 /\ ny[M[k]] = 0
      BY <1>01, <3>2
    <3> QED BY <3>3 DEF Follows
  <2> QED BY <2>2, <2>3, <2>4
<1>10. F \cup (old..(total - 1)) \subseteq Index
  BY <1>1, <1>01
<1>11. FreeLinked(ny, f, total, m, F \cup (old..(total - 1)))
  BY <1>4, <1>5, <1>6, <1>8, <1>9, <1>10, <1>70 DEF FreeLinked
<1> QED BY <1>0, <1>11

\* The length of the batch's list is the number of its entries.
LEMMA BatchLength ==
  ASSUME NEW m \in Nat, NEW B \in [1..m -> Index],
         \A j, k \in 1..m : B[j] = B[k] => j = k,
         NEW S \in SUBSET Index, \A i \in Index : i \in S <=> \E k \in 1..m : B[k] = i,
         NEW i \in Index, i \notin S
  PROVE  m < MaxHandle
<1>1. B \in Injection(1..m, S)
  BY DEF Injection, IsInjective
<1>2. IsFiniteSet(Index) /\ Cardinality(Index) = MaxHandle /\ MaxHandle \in Nat
  BY FS_Interval, ConstantsAssumption DEF Index
<1>3. IsFiniteSet(S) /\ S \cup {i} \subseteq Index
  BY <1>2, FS_Subset
<1>4. IsFiniteSet(S \cup {i}) /\ Cardinality(S \cup {i}) = Cardinality(S) + 1
  BY <1>3, FS_AddElement
<1>5. Cardinality(S \cup {i}) <= MaxHandle
  BY <1>2, <1>3, FS_Subset
<1>6. Cardinality(1..m) <= Cardinality(S)
  BY <1>1, <1>3, FS_Injection
<1>7. Cardinality(1..m) = m /\ Cardinality(S) \in Nat
  BY <1>3, FS_Interval, FS_CardinalityType
<1> QED BY <1>2, <1>4, <1>5, <1>6, <1>7

LEMMA BatchSame ==
  ASSUME NEW nx, NEW ny, NEW start, NEW S, BatchLinked(nx, start, S),
         \A i \in S : ny[i] = nx[i]
  PROVE  BatchLinked(ny, start, S)
<1>1. PICK m \in Handles : \E B \in [1..m -> Index] :
    /\ \A j, k \in 1..m : B[j] = B[k] => j = k
    /\ S \subseteq Index
    /\ \A i \in Index : i \in S <=> \E k \in 1..m : B[k] = i
    /\ start = IF m = 0 THEN 0 ELSE B[1] + 1
    /\ \A k \in 1..m : nx[B[k]] = IF k = m THEN 0 ELSE B[k + 1] + 1
  BY DEF BatchLinked, BatchList
<1>2. PICK B \in [1..m -> Index] :
    /\ \A j, k \in 1..m : B[j] = B[k] => j = k
    /\ S \subseteq Index
    /\ \A i \in Index : i \in S <=> \E k \in 1..m : B[k] = i
    /\ start = IF m = 0 THEN 0 ELSE B[1] + 1
    /\ \A k \in 1..m : nx[B[k]] = IF k = m THEN 0 ELSE B[k + 1] + 1
  BY <1>1
<1>3. \A k \in 1..m : ny[B[k]] = IF k = m THEN 0 ELSE B[k + 1] + 1
  BY <1>2
<1>4. BatchList(ny, start, S, m, B)
  BY <1>2, <1>3 DEF BatchList
<1> QED BY <1>4, Zenon DEF BatchLinked

\* A list that starts with 0 is empty; any other one starts with one of its entries.
LEMMA BatchStart ==
  ASSUME NEW nx, NEW start, NEW S, BatchLinked(nx, start, S)
  PROVE  /\ S \subseteq Index
         /\ start = 0 <=> S = {}
         /\ start # 0 => start - 1 \in S /\ start \in Nat
<1>1. PICK m \in Handles : \E B \in [1..m -> Index] :
    /\ S \subseteq Index
    /\ \A i \in Index : i \in S <=> \E k \in 1..m : B[k] = i
    /\ start = IF m = 0 THEN 0 ELSE B[1] + 1
  BY DEF BatchLinked, BatchList
<1>2. PICK B \in [1..m -> Index] :
    /\ S \subseteq Index
    /\ \A i \in Index : i \in S <=> \E k \in 1..m : B[k] = i
    /\ start = IF m = 0 THEN 0 ELSE B[1] + 1
  BY <1>1
<1>3. CASE m = 0
  BY <1>2, <1>3
<1>4. CASE m # 0
  <2>1. 1 \in 1..m
    BY <1>4 DEF Handles
  <2>2. B[1] \in Index /\ B[1] \in Nat
    BY <2>1 DEF Index
  <2>3. B[1] \in S /\ start = B[1] + 1 /\ start - 1 = B[1]
    BY <1>2, <1>4, <2>1, <2>2
  <2> QED BY <1>2, <2>2, <2>3
<1> QED BY <1>3, <1>4

LEMMA BatchEmpty ==
  ASSUME NEW nx
  PROVE  BatchLinked(nx, 0, {})
<1>1. 0 \in Handles
  BY ConstantsAssumption DEF Handles
<1>2. PICK m \in Handles : m = 0
  BY <1>1
<1>3. PICK B : B \in [1..m -> Index]
  <2>1. [k \in 1..m |-> 0] \in [1..m -> Index]
    BY <1>2
  <2> QED BY <2>1
<1>4. 1..m = {}
  BY <1>2
<1>5. BatchList(nx, 0, {}, m, B)
  BY <1>2, <1>4 DEF BatchList
<1> QED BY <1>3, <1>5, Zenon DEF BatchLinked

\* A new entry is put at the front of the batch's list.
LEMMA BatchPush ==
  ASSUME NEW nx, NEW ny, NEW start, NEW S, BatchLinked(nx, start, S),
         NEW i \in Index, i \notin S, ny[i] = start, \A j \in S : ny[j] = nx[j]
  PROVE  BatchLinked(ny, i + 1, S \cup {i})
<1>1. PICK m \in Handles : \E B \in [1..m -> Index] :
    /\ \A j, k \in 1..m : B[j] = B[k] => j = k
    /\ S \subseteq Index
    /\ \A j \in Index : j \in S <=> \E k \in 1..m : B[k] = j
    /\ start = IF m = 0 THEN 0 ELSE B[1] + 1
    /\ \A k \in 1..m : nx[B[k]] = IF k = m THEN 0 ELSE B[k + 1] + 1
  BY DEF BatchLinked, BatchList
<1>2. PICK B \in [1..m -> Index] :
    /\ \A j, k \in 1..m : B[j] = B[k] => j = k
    /\ S \subseteq Index
    /\ \A j \in Index : j \in S <=> \E k \in 1..m : B[k] = j
    /\ start = IF m = 0 THEN 0 ELSE B[1] + 1
    /\ \A k \in 1..m : nx[B[k]] = IF k = m THEN 0 ELSE B[k + 1] + 1
  BY <1>1
<1>3. m \in Nat /\ MaxHandle \in Nat
  BY ConstantsAssumption DEF Handles
<1>4. m < MaxHandle
  BY <1>2, <1>3, BatchLength
<1>5. PICK l \in Handles : l = m + 1
  BY <1>3, <1>4 DEF Handles
<1>6. PICK C : C = [k \in 1..l |-> IF k = 1 THEN i ELSE B[k - 1]]
  OBVIOUS
<1>7. /\ 1 \in 1..l /\ C[1] = i
      /\ \A k \in 1..l : k = 1 \/ (k - 1 \in 1..m /\ k # 1 /\ C[k] = B[k - 1])
      /\ \A k \in 1..m : k + 1 \in 1..l /\ C[k + 1] = B[k]
  BY <1>3, <1>5, <1>6
<1>8. C \in [1..l -> Index]
  BY <1>6, <1>7
<1>9. \A k \in 1..m : B[k] \in S /\ B[k] # i
  BY <1>2
<1>10. \A j, k \in 1..l : C[j] = C[k] => j = k
  <2> SUFFICES ASSUME NEW j \in 1..l, NEW k \in 1..l, C[j] = C[k] PROVE j = k
    OBVIOUS
  <2>1. CASE j = 1 \/ k = 1
    BY <1>7, <1>9, <2>1
  <2>2. CASE j # 1 /\ k # 1
    <3>1. j - 1 \in 1..m /\ k - 1 \in 1..m /\ B[j - 1] = B[k - 1]
      BY <1>7, <2>2
    <3>2. j - 1 = k - 1
      BY <1>2, <3>1
    <3> QED BY <1>3, <1>5, <3>2
  <2> QED BY <2>1, <2>2
<1>11. \A j \in Index : j \in S \cup {i} <=> \E k \in 1..l : C[k] = j
  BY <1>2, <1>7, <1>9
<1>12. i + 1 = IF l = 0 THEN 0 ELSE C[1] + 1
  BY <1>3, <1>5, <1>7
<1>13. \A k \in 1..l : ny[C[k]] = IF k = l THEN 0 ELSE C[k + 1] + 1
  <2> TAKE k \in 1..l
  <2>1. CASE k = 1
    <3>1. CASE m = 0
      BY <1>2, <1>5, <1>7, <2>1, <3>1
    <3>2. CASE m # 0
      <4>1. 1 \in 1..m /\ k # l
        BY <1>3, <1>5, <2>1, <3>2
      <4>2. C[1 + 1] = B[1] /\ start = B[1] + 1
        BY <1>2, <1>7, <3>2, <4>1
      <4> QED BY <1>7, <2>1, <4>1, <4>2
    <3> QED BY <3>1, <3>2
  <2>2. CASE k # 1
    <3>1. k - 1 \in 1..m /\ C[k] = B[k - 1] /\ (k - 1) + 1 = k
      BY <1>3, <1>5, <1>7, <2>2
    <3>2. ny[B[k - 1]] = IF k - 1 = m THEN 0 ELSE B[k] + 1
      BY <1>2, <1>9, <3>1
    <3>3. k = l <=> k - 1 = m
      BY <1>3, <1>5
    <3>4. k # l => k \in 1..m /\ C[k + 1] = B[k]
      BY <1>3, <1>5, <1>7
    <3> QED BY <3>1, <3>2, <3>3, <3>4
  <2> QED BY <2>1, <2>2
<1>14. S \cup {i} \subseteq Index
  BY <1>2
<1>15. BatchList(ny, i + 1, S \cup {i}, l, C)
  BY <1>10, <1>11, <1>12, <1>13, <1>14 DEF BatchList
<1> QED BY <1>8, <1>15, Zenon DEF BatchLinked

\* The first entry is taken off the batch's list.
LEMMA BatchPop ==
  ASSUME NEW nx, NEW ny, NEW start, NEW S, BatchLinked(nx, start, S), start # 0,
         NEW i, i = start - 1, \A j \in S \ {i} : ny[j] = nx[j]
  PROVE  BatchLinked(ny, nx[i], S \ {i})
<1>1. PICK m \in Handles : \E B \in [1..m -> Index] :
    /\ \A j, k \in 1..m : B[j] = B[k] => j = k
    /\ S \subseteq Index
    /\ \A j \in Index : j \in S <=> \E k \in 1..m : B[k] = j
    /\ start = IF m = 0 THEN 0 ELSE B[1] + 1
    /\ \A k \in 1..m : nx[B[k]] = IF k = m THEN 0 ELSE B[k + 1] + 1
  BY DEF BatchLinked, BatchList
<1>2. PICK B \in [1..m -> Index] :
    /\ \A j, k \in 1..m : B[j] = B[k] => j = k
    /\ S \subseteq Index
    /\ \A j \in Index : j \in S <=> \E k \in 1..m : B[k] = j
    /\ start = IF m = 0 THEN 0 ELSE B[1] + 1
    /\ \A k \in 1..m : nx[B[k]] = IF k = m THEN 0 ELSE B[k + 1] + 1
  BY <1>1
<1>3. m \in Nat /\ m # 0 /\ 1 \in 1..m /\ m <= MaxHandle /\ MaxHandle \in Nat
  BY <1>2, ConstantsAssumption DEF Handles
<1>4. B[1] \in Index /\ B[1] \in Nat /\ i = B[1]
  BY <1>2, <1>3 DEF Index
<1>5. PICK l \in Handles : l = m - 1
  BY <1>3 DEF Handles
<1>6. PICK C : C = [k \in 1..l |-> B[k + 1]]
  OBVIOUS
<1>7. \A k \in 1..l : k + 1 \in 1..m /\ k + 1 # 1 /\ C[k] = B[k + 1]
  BY <1>3, <1>5, <1>6
<1>8. C \in [1..l -> Index]
  BY <1>6, <1>7
<1>9. \A j, k \in 1..l : C[j] = C[k] => j = k
  <2> SUFFICES ASSUME NEW j \in 1..l, NEW k \in 1..l, C[j] = C[k] PROVE j = k
    OBVIOUS
  <2>1. j + 1 = k + 1
    BY <1>2, <1>7
  <2> QED BY <1>3, <1>5, <2>1
<1>10. \A j \in Index : j \in S \ {i} <=> \E k \in 1..l : C[k] = j
  <2> TAKE j \in Index
  <2>1. ASSUME j \in S, j # i PROVE \E k \in 1..l : C[k] = j
    <3>1. PICK k \in 1..m : B[k] = j
      BY <1>2, <2>1
    <3>2. k # 1
      BY <1>4, <2>1, <3>1
    <3>3. k - 1 \in 1..l /\ (k - 1) + 1 = k
      BY <1>3, <1>5, <3>2
    <3> QED BY <1>7, <3>1, <3>3
  <2>2. ASSUME NEW k \in 1..l, C[k] = j PROVE j \in S /\ j # i
    <3>1. B[k + 1] = j /\ k + 1 \in 1..m /\ k + 1 # 1
      BY <1>7, <2>2
    <3> QED BY <1>2, <1>3, <1>4, <3>1
  <2> QED BY <2>1, <2>2
<1>11. nx[i] = IF l = 0 THEN 0 ELSE C[1] + 1
  <2>1. nx[i] = IF 1 = m THEN 0 ELSE B[1 + 1] + 1
    BY <1>2, <1>3, <1>4
  <2>2. CASE m = 1
    BY <1>5, <2>1, <2>2
  <2>3. CASE m # 1
    <3>1. 1 \in 1..l /\ l # 0
      BY <1>3, <1>5, <2>3
    <3> QED BY <1>7, <2>1, <2>3, <3>1
  <2> QED BY <2>2, <2>3
<1>12. \A k \in 1..l : ny[C[k]] = IF k = l THEN 0 ELSE C[k + 1] + 1
  <2> TAKE k \in 1..l
  <2>1. C[k] \in Index
    BY <1>8
  <2>2. ny[C[k]] = nx[C[k]]
    BY <1>10, <2>1
  <2>3. nx[B[k + 1]] = IF k + 1 = m THEN 0 ELSE B[(k + 1) + 1] + 1
    BY <1>2, <1>7
  <2>4. k + 1 = m <=> k = l
    BY <1>3, <1>5
  <2>5. k # l => k + 1 \in 1..l
    BY <1>3, <1>5
  <2> QED BY <1>7, <2>2, <2>3, <2>4, <2>5
<1>13. S \ {i} \subseteq Index
  BY <1>2
<1>14. BatchList(ny, nx[i], S \ {i}, l, C)
  BY <1>9, <1>10, <1>11, <1>12, <1>13 DEF BatchList
<1> QED BY <1>8, <1>14, Zenon DEF BatchLinked

-----------------------------------------------------------------------------
(***************************************************************************)
(* What the invariant is for.                                              *)
(***************************************************************************)

\* Numbers.
LEMMA Sizes ==
  ASSUME NEW b \in Base
  PROVE  /\ MaxHandle \in Nat /\ MaxHandle > 0 /\ 0 \in Index /\ 0 \in Handles
         /\ Index \subseteq Nat /\ Handles \subseteq Nat
         /\ b.ui32TotalHandCount \in Nat /\ b.ui32TotalHandCount <= MaxHandle
         /\ b.ui32FreeHandCount \in Nat
         /\ Entries(b) \subseteq Index /\ IsFiniteSet(Entries(b))
         /\ Cardinality(Entries(b)) = b.ui32TotalHandCount
<1>1. /\ MaxHandle \in Nat /\ MaxHandle > 0 /\ 0 \in Index /\ 0 \in Handles
      /\ Index \subseteq Nat /\ Handles \subseteq Nat
      /\ b.ui32TotalHandCount \in Nat /\ b.ui32TotalHandCount <= MaxHandle
      /\ b.ui32FreeHandCount \in Nat
  BY ConstantsAssumption DEF Base, Handles, Index
<1>2. Entries(b) \subseteq Index
  BY <1>1 DEF Entries, Index
<1>3. PICK z \in Int, e \in Int : z = 0 /\ e = b.ui32TotalHandCount - 1
  BY <1>1
<1>4. IsFiniteSet(Entries(b)) /\ Cardinality(Entries(b)) = b.ui32TotalHandCount
  <2>1. IsFiniteSet(z..e) /\ Cardinality(z..e) = IF z > e THEN 0 ELSE e - z + 1
    BY FS_Interval
  <2>2. Entries(b) = z..e
    BY <1>3 DEF Entries
  <2> QED BY <1>1, <1>3, <2>1, <2>2
<1> QED BY <1>1, <1>2, <1>4

\* A handle is an index plus one.
LEMMA HandleOfEntry ==
  ASSUME NEW b \in Base
  PROVE  /\ \A h \in Handles : InUse(b, h) => h - 1 \in Index /\ Live(b, h - 1)
         /\ \A i \in Index : /\ i + 1 \in Handles /\ i + 1 # 0 /\ (i + 1) - 1 = i
                             /\ Live(b, i) <=> InUse(b, i + 1)
                             /\ Live(b, i) <=> i + 1 \in HandlesInUse(b)
<1>1. \A h \in Handles : InUse(b, h) => h - 1 \in Index /\ Live(b, h - 1)
  BY Sizes DEF InUse, Live, Entries, Handles, Index
<1>2. \A i \in Index : i + 1 \in Handles /\ i + 1 # 0 /\ (i + 1) - 1 = i
  BY Sizes DEF Handles, Index
<1>3. \A i \in Index : Live(b, i) <=> InUse(b, i + 1)
  <2> TAKE i \in Index
  <2>1. i \in Entries(b) <=> i + 1 <= b.ui32TotalHandCount
    BY Sizes DEF Entries
  <2> QED BY <1>2, <2>1 DEF InUse, Live
<1> QED BY <1>1, <1>2, <1>3 DEF HandlesInUse

LEMMA UnheldFinite ==
  ASSUME NEW b \in Base, NEW T, NEW S
  PROVE  /\ IsFiniteSet(Unheld(b, T, S)) /\ Cardinality(Unheld(b, T, S)) \in Nat
         /\ Unheld(b, T, S) \subseteq Entries(b)
         /\ Cardinality(Unheld(b, T, S)) <= b.ui32TotalHandCount
         /\ Cardinality(Unheld(b, T, S)) = b.ui32TotalHandCount => Unheld(b, T, S) = Entries(b)
<1>1. Unheld(b, T, S) \subseteq Entries(b)
  BY DEF Unheld
<1> QED BY <1>1, Sizes, FS_Subset, FS_CardinalityType

\* The types.
LEMMA TypesFollow ==
  ASSUME NEW S, HBInv(psBase, todo, walk, before, owed, kind, S)
  PROVE  TypeOK
<1>1. psBase \in Base
  BY DEF HBInv
<1>2. psBase.ui32FreeHandCount <= psBase.ui32TotalHandCount
  BY <1>1, UnheldFinite DEF HBInv, FreeInv
<1>3. LoopInv(psBase, walk)
  BY DEF HBInv
<1>4. kind \in Bases /\ todo \in Seq(Index)
  BY DEF HBInv, KindInv, StackInv
<1>5. before \subseteq Handles /\ owed \subseteq Handles
  BY DEF HBInv, BatchInv, HandlesInUse
<1>6. /\ psBase.psHandleArray \in [Index -> Slot]
      /\ psBase.psHashTab \in [Keys -> Handles]
      /\ psBase.ui32TotalHandCount \in Handles
      /\ psBase.ui32FirstFreeIndex \in Index
      /\ psBase.ui32LastFreeIndexPlusOne \in Handles
      /\ psBase.ui32HandBatchSize \in BatchSizes \cup {0}
      /\ psBase.ui32FirstBatchIndexPlusOne \in Handles
      /\ psBase.ui32BatchHandAllocFailures \in 0..MaxFailures
      /\ psBase.bPurgingEnabled \in BOOLEAN
  BY <1>1 DEF Base
<1>7. /\ psBase.ui32LastFreeIndexPlusOne \in 0..psBase.ui32TotalHandCount
      /\ psBase.ui32FirstBatchIndexPlusOne \in 0..psBase.ui32TotalHandCount
      /\ psBase.ui32FreeHandCount \in 0..psBase.ui32TotalHandCount
  BY <1>1, <1>2, <1>3, <1>6, Sizes DEF LoopInv
<1>8. walk \in [loop : {"none", "batch", "all"}, next : Handles, commit : BOOLEAN]
  BY <1>3 DEF LoopInv
<1> QED BY <1>4, <1>5, <1>6, <1>7, <1>8 DEF TypeOK

\* The free list.
LEMMA FreeListFollows ==
  ASSUME NEW S, HBInv(psBase, todo, walk, before, owed, kind, S)
  PROVE  FreeListExact
<1> DEFINE F == Unheld(psBase, Held(todo), S)
           n == psBase.ui32FreeHandCount
<1>1. psBase \in Base /\ n \in Nat
  BY Sizes DEF HBInv
<1>2. BatchIndices = S
  BY <1>1, BatchIndicesIs DEF HBInv
<1>3. FreeIndices = F
  BY <1>2 DEF FreeIndices, Unheld, Entries, Held
<1>4. n = Cardinality(FreeIndices)
  BY <1>3 DEF HBInv, FreeInv
<1>5. ASSUME ~psBase.bPurgingEnabled, n # 0
      PROVE  /\ {FreeList[k] : k \in 1..n} = FreeIndices
             /\ FreeList[n] = psBase.ui32LastFreeIndexPlusOne - 1
             /\ psBase.psHandleArray[FreeList[n]].ui32NextIndexPlusOne = 0
  <2>1. FreeLinked(Links(psBase), psBase.ui32FirstFreeIndex,
                   psBase.ui32LastFreeIndexPlusOne, n, F)
    BY <1>5 DEF HBInv, FreeInv
  <2> HIDE DEF F
  <2>2. PICK L \in [1..n -> Index] :
          /\ F \subseteq Index
          /\ \A i \in Index : i \in F <=> \E k \in 1..n : L[k] = i
          /\ n # 0 => /\ psBase.ui32FirstFreeIndex = L[1]
                      /\ psBase.ui32LastFreeIndexPlusOne = L[n] + 1 /\ Links(psBase)[L[n]] = 0
          /\ \A k \in 1..(n - 1) : L[k + 1] = Follows(Links(psBase), L[k])
    BY <2>1 DEF FreeLinked
  <2>3. FreeList = L
    BY <1>1, <2>2, FreeListIs
  <2>4. \A i : i \in {L[k] : k \in 1..n} <=> i \in F
    BY <2>2
  <2>5. L[n] \in Index /\ L[n] \in Nat
    BY <1>1, <1>5 DEF Index
  <2>6. psBase.psHandleArray[L[n]].ui32NextIndexPlusOne = 0
    BY <1>5, <2>2, <2>5 DEF Links
  <2>7. L[n] = psBase.ui32LastFreeIndexPlusOne - 1
    BY <1>5, <2>2, <2>5
  <2>8. {L[k] : k \in 1..n} = F
    BY <2>4, Zenon
  <2> QED BY <1>3, <2>3, <2>6, <2>7, <2>8 DEF F
<1> QED BY <1>4, <1>5 DEF FreeListExact

\* The hash table.
LEMMA HashFollows ==
  ASSUME NEW S, HBInv(psBase, todo, walk, before, owed, kind, S)
  PROVE  HashExact
<1>1. psBase \in Base /\ HashInv(psBase, Held(todo))
  BY DEF HBInv
<1>2. ASSUME NEW k \in Keys, psBase.psHashTab[k] # 0
      PROVE  LET h == psBase.psHashTab[k] IN
             /\ InUse(psBase, h)
             /\ "MULTI" \notin psBase.psHandleArray[h - 1].eFlag
             /\ KeyOf(psBase.psHandleArray[h - 1]) = k
  <2>1. PICK h \in Handles : h = psBase.psHashTab[k]
    BY <1>1 DEF Base
  <2>2. h # 0
    BY <1>2, <2>1
  <2>3. /\ Live(psBase, h - 1) /\ "MULTI" \notin psBase.psHandleArray[h - 1].eFlag
        /\ KeyOf(psBase.psHandleArray[h - 1]) = k
    BY <1>1, <1>2, <2>1, Zenon DEF HashInv
  <2>4. h - 1 \in Index /\ (h - 1) + 1 = h
    BY <2>2, Sizes, <1>1 DEF Handles, Index
  <2>5. InUse(psBase, h)
    BY <1>1, <2>3, <2>4, HandleOfEntry
  <2> QED BY <2>1, <2>3, <2>5
<1>3. ASSUME NEW h \in HandlesInUse(psBase)
      PROVE  LET s == psBase.psHandleArray[h - 1] IN
             \/ "MULTI" \in s.eFlag
             \/ psBase.psHashTab[KeyOf(s)] = h
             \/ \E k \in DOMAIN todo : todo[k] = h - 1
  <2>1. h \in Handles /\ InUse(psBase, h)
    BY DEF HandlesInUse
  <2>2. h - 1 \in Index /\ Live(psBase, h - 1) /\ (h - 1) + 1 = h
    BY <1>1, <2>1, HandleOfEntry, Sizes
  <2>3. \/ "MULTI" \in psBase.psHandleArray[h - 1].eFlag
        \/ h - 1 \in Held(todo)
        \/ psBase.psHashTab[KeyOf(psBase.psHandleArray[h - 1])] = (h - 1) + 1
    BY <1>1, <2>2 DEF HashInv
  <2> QED BY <2>2, <2>3 DEF Held
<1> QED BY <1>2, <1>3 DEF HashExact

\* The tree of parents.
LEMMA TreeFollows ==
  ASSUME NEW S, HBInv(psBase, todo, walk, before, owed, kind, S)
  PROVE  TreeExact
<1>1. psBase \in Base /\ TreeInv(psBase)
  BY DEF HBInv
<1> SUFFICES ASSUME NEW h \in HandlesInUse(psBase)
             PROVE  LET s == psBase.psHandleArray[h - 1] IN
                    /\ s.hParent # 0 =>
                         /\ InUse(psBase, s.hParent)
                         /\ Cardinality({k \in DOMAIN psBase.psHandleArray[s.hParent - 1].children :
                              psBase.psHandleArray[s.hParent - 1].children[k] = h - 1}) = 1
                    /\ \A k \in DOMAIN s.children :
                         /\ InUse(psBase, s.children[k] + 1)
                         /\ psBase.psHandleArray[s.children[k]].hParent = h
  BY DEF TreeExact
<1>2. PICK i : i = h - 1
  OBVIOUS
<1>3. i \in Index /\ Live(psBase, i) /\ i + 1 = h /\ h \in Nat
  BY <1>1, <1>2, HandleOfEntry, Sizes DEF HandlesInUse
<1>4. ASSUME psBase.psHandleArray[i].hParent # 0
      PROVE  LET p == psBase.psHandleArray[i].hParent IN
             /\ InUse(psBase, p)
             /\ Cardinality({k \in DOMAIN psBase.psHandleArray[p - 1].children :
                              psBase.psHandleArray[p - 1].children[k] = i}) = 1
  <2>1. PICK p \in Handles : p = psBase.psHandleArray[i].hParent
    BY <1>1, <1>3 DEF Base, Slot
  <2>2. PICK c : c = psBase.psHandleArray[p - 1].children
    OBVIOUS
  <2>3. Live(psBase, p - 1) /\ \E k \in DOMAIN c : c[k] = i
    BY <1>1, <1>3, <1>4, <2>1, <2>2, Zenon DEF TreeInv
  <2>4. p - 1 \in Index /\ (p - 1) + 1 = p
    BY <1>1, <1>4, <2>1, Sizes DEF Handles, Index
  <2>5. \A j, k \in DOMAIN c : c[j] = c[k] => j = k
    BY <1>1, <2>2, <2>3, <2>4, Zenon DEF TreeInv
  <2>6. PICK k \in DOMAIN c : c[k] = i
    BY <2>3
  <2>7. {j \in DOMAIN c : c[j] = i} = {k}
    BY <2>5, <2>6
  <2>8. Cardinality({j \in DOMAIN c : c[j] = i}) = 1
    BY <2>7, FS_Singleton, Zenon
  <2>9. InUse(psBase, p)
    BY <1>1, <2>3, <2>4, HandleOfEntry
  <2> QED BY <2>1, <2>2, <2>8, <2>9, Zenon
<1>5. ASSUME NEW k \in DOMAIN psBase.psHandleArray[i].children
      PROVE  /\ InUse(psBase, psBase.psHandleArray[i].children[k] + 1)
             /\ psBase.psHandleArray[psBase.psHandleArray[i].children[k]].hParent = h
  <2>1. PICK c : c = psBase.psHandleArray[i].children
    OBVIOUS
  <2>2. Live(psBase, c[k]) /\ psBase.psHandleArray[c[k]].hParent = i + 1
    BY <1>1, <1>3, <2>1, Zenon DEF TreeInv
  <2>3. c[k] \in Index
    BY <1>1, <2>2, Sizes DEF Live
  <2>4. InUse(psBase, c[k] + 1)
    BY <1>1, <2>2, <2>3, HandleOfEntry
  <2> QED BY <1>3, <2>1, <2>2, <2>4
<1> QED BY <1>2, <1>4, <1>5, Zenon

\* Freeing the base, and the end of a batch.
LEMMA EndsFollow ==
  ASSUME NEW S, HBInv(psBase, todo, walk, before, owed, kind, S)
  PROVE  NothingLeft /\ BatchAllOrNothing
<1>1. psBase \in Base
  BY DEF HBInv
<1>2. NothingLeft
  <2> SUFFICES ASSUME todo = <<>>, AllFreed
               PROVE  HandlesInUse(psBase) = {} /\ \A k \in Keys : psBase.psHashTab[k] = 0
    BY DEF NothingLeft
  <2>1. Cardinality(Unheld(psBase, Held(todo), S)) = psBase.ui32TotalHandCount
    BY DEF AllFreed, HBInv, FreeInv
  <2>2. Unheld(psBase, Held(todo), S) = Entries(psBase)
    BY <1>1, <2>1, UnheldFinite
  <2>3. \A i : ~Live(psBase, i)
    BY <2>2 DEF Unheld, Live
  <2>4. HandlesInUse(psBase) = {}
    BY <1>1, <2>3, HandleOfEntry DEF HandlesInUse
  <2>5. \A k \in Keys : psBase.psHashTab[k] = 0
    <3>1. HashInv(psBase, Held(todo))
      BY DEF HBInv
    <3> QED BY <2>3, <3>1, Zenon DEF HashInv
  <2> QED BY <2>4, <2>5
<1>3. BatchAllOrNothing
  <2> SUFFICES ASSUME todo = <<>>, walk.loop = "batch", walk.next = 0
               PROVE  HandlesInUse(psBase) = owed
    BY DEF BatchAllOrNothing
  <2>1. S = {}
    <3>1. BatchLinked(Links(psBase), walk.next, S)
      BY DEF HBInv, Start
    <3> QED BY <3>1, BatchStart
  <2>2. Held(todo) = {}
    BY DEF Held
  <2>3. BatchInv(psBase, walk, {}, {}, before, owed)
    BY <2>1, <2>2 DEF HBInv
  <2>4. psBase.ui32HandBatchSize # 0
    BY DEF HBInv, LoopInv
  <2>5. CASE walk.commit
    BY <2>3, <2>5 DEF BatchInv
  <2>6. CASE ~walk.commit
    <3>1. \A i \in Index : Live(psBase, i) => i + 1 \in before
      BY <2>3, <2>4, <2>6 DEF BatchInv
    <3>2. \A h \in HandlesInUse(psBase) : h \in before
      <4> TAKE h \in HandlesInUse(psBase)
      <4>1. h \in Handles /\ InUse(psBase, h)
        BY DEF HandlesInUse
      <4>2. h - 1 \in Index /\ Live(psBase, h - 1) /\ (h - 1) + 1 = h
        BY <1>1, <4>1, HandleOfEntry, Sizes
      <4> QED BY <3>1, <4>2
    <3>3. HandlesInUse(psBase) \cap before = owed
      BY <2>3, <2>6 DEF BatchInv
    <3> QED BY <3>2, <3>3
  <2> QED BY <2>5, <2>6
<1> QED BY <1>2, <1>3

LEMMA Consequences == ASSUME HInv PROVE DatabaseExact /\ BatchAllOrNothing
<1>1. PICK S \in SUBSET Index : HBInv(psBase, todo, walk, before, owed, kind, S)
  BY DEF HInv
<1> QED
  BY <1>1, TypesFollow, FreeListFollows, HashFollows, TreeFollows, EndsFollow DEF DatabaseExact

-----------------------------------------------------------------------------
(***************************************************************************)
(* The operations, as relations between two bases.                         *)
(***************************************************************************)

\* Two entries that differ at most in their links.
Core(s, r) ==
  /\ s.eType = r.eType /\ s.pvData = r.pvData /\ s.eFlag = r.eFlag
  /\ s.bBatched = r.bBatched /\ s.bPartiallyFree = r.bPartiallyFree

\* The sizes of a base and the state of its batch.
Whole(b, r) ==
  /\ r.ui32TotalHandCount = b.ui32TotalHandCount
  /\ r.bPurgingEnabled = b.bPurgingEnabled
  /\ r.ui32HandBatchSize = b.ui32HandBatchSize

\* A handle that both have is that of the same object, as the same type.
SameObjects(b, r) ==
  \A j \in Index : Live(b, j) /\ Live(r, j) =>
    /\ b.psHandleArray[j].eType = r.psHandleArray[j].eType
    /\ b.psHandleArray[j].pvData = r.psHandleArray[j].pvData
    /\ b.psHandleArray[j].eFlag = r.psHandleArray[j].eFlag

KeyFor(d, t, f, hParent) == <<d, t, IF "PRIVATE" \in f THEN hParent ELSE 0>>

\* Entry i gets a new handle, below hParent if that is not 0.
AllocStep(b, r, i, d, t, f, hParent) ==
  /\ r \in Base
  /\ Whole(b, r)
  /\ r.ui32FreeHandCount = b.ui32FreeHandCount - 1
  /\ r.ui32FirstFreeIndex =
       IF b.bPurgingEnabled \/ r.ui32FreeHandCount = 0 THEN 0 ELSE Follows(Links(b), i)
  /\ r.ui32LastFreeIndexPlusOne =
       IF ~b.bPurgingEnabled /\ r.ui32FreeHandCount = 0 THEN 0 ELSE b.ui32LastFreeIndexPlusOne
  /\ r.ui32FirstBatchIndexPlusOne =
       IF HandlesBatched(b) THEN i + 1 ELSE b.ui32FirstBatchIndexPlusOne
  /\ \A k \in Keys : r.psHashTab[k] =
       IF "MULTI" \notin f /\ k = KeyFor(d, t, f, hParent) THEN i + 1 ELSE b.psHashTab[k]
  /\ r.psHandleArray[i].eType = t /\ r.psHandleArray[i].pvData = d
  /\ r.psHandleArray[i].eFlag = f /\ r.psHandleArray[i].bBatched = HandlesBatched(b)
  /\ r.psHandleArray[i].bPartiallyFree = FALSE
  /\ r.psHandleArray[i].ui32NextIndexPlusOne =
       IF HandlesBatched(b) THEN b.ui32FirstBatchIndexPlusOne ELSE 0
  /\ r.psHandleArray[i].hParent = hParent /\ r.psHandleArray[i].children = <<>>
  /\ \A j \in Index \ {i} :
       /\ Core(r.psHandleArray[j], b.psHandleArray[j])
       /\ r.psHandleArray[j].ui32NextIndexPlusOne = b.psHandleArray[j].ui32NextIndexPlusOne
       /\ r.psHandleArray[j].hParent = b.psHandleArray[j].hParent
       /\ r.psHandleArray[j].children =
            IF hParent # 0 /\ j = hParent - 1 THEN Append(b.psHandleArray[j].children, i)
            ELSE b.psHandleArray[j].children
  /\ \A j \in Index : j \notin Entries(b) => r.psHandleArray[j] = b.psHandleArray[j]

\* The conditions under which it does.
MayAlloc(b, k, S, i, d, t, f, hParent) ==
  /\ i \in Unheld(b, {}, S)
  /\ ~b.bPurgingEnabled => i = b.ui32FirstFreeIndex
  /\ d \in Data \cup {DevCookie} /\ t \in AllTypes /\ f \in SUBSET {"SHARED", "MULTI", "PRIVATE"}
  /\ hParent \in Handles
  /\ hParent # 0 => Live(b, hParent - 1)
  /\ "PRIVATE" \in f => hParent # 0
  /\ "MULTI" \notin f => b.psHashTab[KeyFor(d, t, f, hParent)] = 0

AllocBatch(b, S, i) == IF HandlesBatched(b) THEN S \cup {i} ELSE S

LEMMA HeldNone == Held(<<>>) = {}
BY DEF Held

LEMMA NoneIsNoType == NONE \notin AllTypes /\ DEV_NODE # NONE /\ DEV_NODE \in AllTypes
BY ConstantsAssumption DEF AllTypes, NONE, DEV_NODE

\* The handles in use after an allocation.
LEMMA AllocLive ==
  ASSUME NEW b \in Base, NEW r, NEW k, NEW S, NEW i, NEW d, NEW t, NEW f, NEW hParent,
         MayAlloc(b, k, S, i, d, t, f, hParent), AllocStep(b, r, i, d, t, f, hParent)
  PROVE  /\ i \in Index /\ i \in Entries(b) /\ i \notin S /\ ~Live(b, i)
         /\ b.psHandleArray[i].eType = NONE
         /\ Entries(r) = Entries(b) /\ r \in Base
         /\ \A j \in Index : Live(r, j) <=> j = i \/ Live(b, j)
         /\ HandlesInUse(r) = HandlesInUse(b) \cup {i + 1}
<1>1. i \in Entries(b) /\ i \notin S /\ b.psHandleArray[i].eType = NONE
  BY DEF MayAlloc, Unheld
<1>2. i \in Index
  BY <1>1, Sizes
<1>3. Entries(r) = Entries(b) /\ r \in Base
  BY DEF AllocStep, Whole, Entries
<1>4. t # NONE
  BY NoneIsNoType DEF MayAlloc
<1>5. \A j \in Index : Live(r, j) <=> j = i \/ Live(b, j)
  BY <1>1, <1>2, <1>3, <1>4 DEF Live, AllocStep, Core
<1>6. \A h : h \in HandlesInUse(r) <=> h \in HandlesInUse(b) \cup {i + 1}
  <2> TAKE h
  <2>1. CASE h \in Handles /\ h # 0
    <3>1. PICK j \in Index : h = j + 1
      BY <2>1, Sizes DEF Handles, Index
    <3>2. (h \in HandlesInUse(r) <=> Live(r, j)) /\ (h \in HandlesInUse(b) <=> Live(b, j))
      BY <1>3, <3>1, HandleOfEntry
    <3>3. h = i + 1 <=> j = i
      BY <1>2, <3>1, Sizes
    <3> QED BY <1>5, <3>2, <3>3
  <2>2. CASE ~(h \in Handles /\ h # 0)
    <3>1. h # i + 1
      BY <1>2, <2>2, HandleOfEntry
    <3> QED BY <2>2, <3>1 DEF HandlesInUse, InUse
  <2> QED BY <2>1, <2>2
<1>7. HandlesInUse(r) = HandlesInUse(b) \cup {i + 1}
  BY <1>6, Zenon
<1> QED BY <1>1, <1>2, <1>3, <1>5, <1>7 DEF Live

\* The lists after an allocation.
LEMMA AllocLists ==
  ASSUME NEW b \in Base, NEW r, NEW w, NEW bef, NEW ow, NEW k, NEW S,
         HBInv(b, <<>>, w, bef, ow, k, S), w.loop = "none",
         NEW i, NEW d, NEW t, NEW f, NEW hParent,
         MayAlloc(b, k, S, i, d, t, f, hParent), AllocStep(b, r, i, d, t, f, hParent)
  PROVE  /\ BatchLinked(Links(r), Start(r, w), AllocBatch(b, S, i))
         /\ FreeInv(r, {}, AllocBatch(b, S, i))
<1> DEFINE F == Unheld(b, {}, S)
           n == b.ui32FreeHandCount
<1>1. /\ i \in Index /\ i \in Entries(b) /\ i \notin S /\ ~Live(b, i)
      /\ b.psHandleArray[i].eType = NONE
      /\ Entries(r) = Entries(b) /\ r \in Base
      /\ \A j \in Index : Live(r, j) <=> j = i \/ Live(b, j)
  BY AllocLive
<1>2. /\ BatchLinked(Links(b), b.ui32FirstBatchIndexPlusOne, S) /\ FreeInv(b, {}, S)
      /\ LoopInv(b, w)
  BY HeldNone DEF HBInv, Start
<1>3. \A j \in Index : j # i => Links(r)[j] = Links(b)[j]
  BY DEF AllocStep, Links
<1>4. Links(r)[i] = IF HandlesBatched(b) THEN b.ui32FirstBatchIndexPlusOne ELSE 0
  BY <1>1 DEF AllocStep, Links
<1>5. S \subseteq Index
  BY <1>2, BatchStart
<1>6. \A j \in S : Links(r)[j] = Links(b)[j]
  BY <1>1, <1>3, <1>5
<1>7. BatchLinked(Links(r), Start(r, w), AllocBatch(b, S, i))
  <2>1. CASE HandlesBatched(b)
    <3>1. Start(r, w) = i + 1 /\ AllocBatch(b, S, i) = S \cup {i}
      BY <2>1 DEF Start, AllocStep, AllocBatch
    <3>2. BatchLinked(Links(r), i + 1, S \cup {i})
      BY <1>1, <1>2, <1>4, <1>6, <2>1, BatchPush
    <3> QED BY <3>1, <3>2
  <2>2. CASE ~HandlesBatched(b)
    <3>1. Start(r, w) = b.ui32FirstBatchIndexPlusOne /\ AllocBatch(b, S, i) = S
      BY <2>2 DEF Start, AllocStep, AllocBatch
    <3>2. BatchLinked(Links(r), b.ui32FirstBatchIndexPlusOne, S)
      BY <1>2, <1>6, BatchSame
    <3> QED BY <3>1, <3>2
  <2> QED BY <2>1, <2>2
<1>8. Unheld(r, {}, AllocBatch(b, S, i)) = F \ {i}
  <2>1. \A j \in Entries(b) : r.psHandleArray[j].eType = NONE
                                <=> j # i /\ b.psHandleArray[j].eType = NONE
    BY <1>1, Sizes DEF Live
  <2> QED BY <1>1, <2>1 DEF Unheld, AllocBatch
<1>9. i \in F
  BY DEF MayAlloc
<1>10. /\ IsFiniteSet(F) /\ n = Cardinality(F) /\ n \in Nat
       /\ Cardinality(F \ {i}) = n - 1
  <2>1. IsFiniteSet(F) /\ n = Cardinality(F) /\ n \in Nat
    BY <1>2, UnheldFinite DEF FreeInv
  <2> HIDE DEF F
  <2> QED BY <1>9, <2>1, FS_RemoveElement
<1>11. r.ui32FreeHandCount = n - 1 /\ n # 0
  <2>1. n - 1 \in Nat
    <3> HIDE DEF F
    <3> QED BY <1>10, FS_RemoveElement, FS_CardinalityType
  <2> QED BY <1>10, <2>1 DEF AllocStep
<1>12. ASSUME ~r.bPurgingEnabled
       PROVE  FreeLinked(Links(r), r.ui32FirstFreeIndex, r.ui32LastFreeIndexPlusOne, n - 1, F \ {i})
  <2>1. ~b.bPurgingEnabled /\ i = b.ui32FirstFreeIndex
    BY <1>12 DEF AllocStep, MayAlloc, Whole
  <2>2. FreeLinked(Links(b), i, b.ui32LastFreeIndexPlusOne, n, F)
    BY <1>2, <2>1 DEF FreeInv
  <2>3. n # 1 => /\ r.ui32FirstFreeIndex = Follows(Links(b), i)
                 /\ r.ui32LastFreeIndexPlusOne = b.ui32LastFreeIndexPlusOne
    BY <1>10, <1>11, <2>1 DEF AllocStep
  <2>4. \A j \in F \ {i} : Links(r)[j] = Links(b)[j]
    BY <1>3, Sizes DEF Unheld
  <2> HIDE DEF F
  <2> QED BY <1>10, <1>11, <2>2, <2>3, <2>4, FreeTake
<1>13. FreeInv(r, {}, AllocBatch(b, S, i))
  <2> HIDE DEF F
  <2> QED BY <1>8, <1>10, <1>11, <1>12 DEF FreeInv
<1> QED BY <1>7, <1>13

\* The flags, the hash table and the tree after an allocation.
LEMMA AllocFlags_ ==
  ASSUME NEW b \in Base, NEW r, NEW w, NEW bef, NEW ow, NEW k, NEW S,
         HBInv(b, <<>>, w, bef, ow, k, S), w.loop = "none",
         NEW i, NEW d, NEW t, NEW f, NEW hParent,
         MayAlloc(b, k, S, i, d, t, f, hParent), AllocStep(b, r, i, d, t, f, hParent)
  PROVE  FlagInv(r, {}, AllocBatch(b, S, i)) /\ FreshInv(r)
<1>1. /\ i \in Index /\ i \in Entries(b) /\ i \notin S /\ ~Live(b, i)
      /\ b.psHandleArray[i].eType = NONE
      /\ Entries(r) = Entries(b) /\ r \in Base
      /\ \A j \in Index : Live(r, j) <=> j = i \/ Live(b, j)
  BY AllocLive
<1>2. FlagInv(b, {}, S) /\ FreshInv(b) /\ S \subseteq Entries(b) /\ Entries(b) \subseteq Index
  BY HeldNone, Sizes DEF HBInv, FlagInv
<1>3. \A j \in Index \ {i} :
        /\ Core(r.psHandleArray[j], b.psHandleArray[j])
        /\ r.psHandleArray[j].ui32NextIndexPlusOne = b.psHandleArray[j].ui32NextIndexPlusOne
  BY DEF AllocStep
<1>4. /\ r.psHandleArray[i].bBatched = HandlesBatched(b)
      /\ r.psHandleArray[i].bPartiallyFree = FALSE /\ r.psHandleArray[i].eType # NONE
      /\ ~HandlesBatched(b) => r.psHandleArray[i].ui32NextIndexPlusOne = 0
  BY NoneIsNoType DEF AllocStep, MayAlloc
<1>5. AllocBatch(b, S, i) \subseteq Entries(r)
  BY <1>1, <1>2 DEF AllocBatch
<1>6. \A j \in AllocBatch(b, S, i) :
        /\ r.psHandleArray[j].bBatched
        /\ r.psHandleArray[j].bPartiallyFree <=> r.psHandleArray[j].eType = NONE
  <2> TAKE j \in AllocBatch(b, S, i)
  <2>1. CASE j = i
    <3>1. HandlesBatched(b)
      BY <1>1, <2>1 DEF AllocBatch
    <3> QED BY <1>4, <2>1, <3>1
  <2>2. CASE j # i
    <3>1. j \in S /\ j \in Index \ {i}
      BY <1>2, <2>2 DEF AllocBatch
    <3> QED BY <1>2, <1>3, <3>1 DEF FlagInv, Core
  <2> QED BY <2>1, <2>2
<1>7. \A j \in Index : Live(r, j) /\ j \notin AllocBatch(b, S, i) =>
        /\ ~r.psHandleArray[j].bBatched /\ ~r.psHandleArray[j].bPartiallyFree
        /\ r.psHandleArray[j].ui32NextIndexPlusOne = 0
  <2> SUFFICES ASSUME NEW j \in Index, Live(r, j), j \notin AllocBatch(b, S, i)
               PROVE  /\ ~r.psHandleArray[j].bBatched /\ ~r.psHandleArray[j].bPartiallyFree
                      /\ r.psHandleArray[j].ui32NextIndexPlusOne = 0
    OBVIOUS
  <2>1. CASE j = i
    <3>1. ~HandlesBatched(b)
      BY <2>1 DEF AllocBatch
    <3> QED BY <1>4, <2>1, <3>1
  <2>2. CASE j # i
    <3>1. Live(b, j) /\ j \notin S
      BY <1>1, <2>2 DEF AllocBatch
    <3> QED BY <1>2, <1>3, <2>2, <3>1 DEF FlagInv, Core
  <2> QED BY <2>1, <2>2
<1>8. FlagInv(r, {}, AllocBatch(b, S, i))
  BY <1>5, <1>6, <1>7 DEF FlagInv
<1>9. FreshInv(r)
  BY <1>1, <1>2 DEF FreshInv, AllocStep
<1> QED BY <1>8, <1>9

LEMMA AllocHash ==
  ASSUME NEW b \in Base, NEW r, NEW w, NEW bef, NEW ow, NEW k, NEW S,
         HBInv(b, <<>>, w, bef, ow, k, S), w.loop = "none",
         NEW i, NEW d, NEW t, NEW f, NEW hParent,
         MayAlloc(b, k, S, i, d, t, f, hParent), AllocStep(b, r, i, d, t, f, hParent)
  PROVE  HashInv(r, {})
<1>1. /\ i \in Index /\ i \in Entries(b) /\ i \notin S /\ ~Live(b, i)
      /\ b.psHandleArray[i].eType = NONE
      /\ Entries(r) = Entries(b) /\ r \in Base
      /\ \A j \in Index : Live(r, j) <=> j = i \/ Live(b, j)
  BY AllocLive
<1>2. HashInv(b, {})
  BY HeldNone DEF HBInv
<1>3. PICK key : key = KeyFor(d, t, f, hParent)
  OBVIOUS
<1>4. \A j \in Index : Live(b, j) =>
        /\ j # i /\ r.psHandleArray[j].eFlag = b.psHandleArray[j].eFlag
        /\ r.psHandleArray[j].pvData = b.psHandleArray[j].pvData
        /\ KeyOf(r.psHandleArray[j]) = KeyOf(b.psHandleArray[j])
  BY <1>1 DEF AllocStep, Core, KeyOf, ParentIfPrivate
<1>5. KeyOf(r.psHandleArray[i]) = key /\ r.psHandleArray[i].eFlag = f /\ r.psHandleArray[i].pvData = d
  BY <1>3 DEF AllocStep, KeyOf, ParentIfPrivate, KeyFor
<1>6. key \in Keys
  BY <1>3, Sizes DEF KeyFor, MayAlloc, Keys
<1>7. \A x \in Keys : r.psHashTab[x] =
        IF "MULTI" \notin f /\ x = key THEN i + 1 ELSE b.psHashTab[x]
  BY <1>3 DEF AllocStep
<1>8. "MULTI" \notin f => b.psHashTab[key] = 0
  BY <1>3 DEF MayAlloc
<1>9. ASSUME NEW x \in Keys, r.psHashTab[x] # 0
      PROVE  LET j == r.psHashTab[x] - 1 IN
             /\ Live(r, j) /\ j \notin {}
             /\ "MULTI" \notin r.psHandleArray[j].eFlag
             /\ KeyOf(r.psHandleArray[j]) = x
  <2>1. CASE "MULTI" \notin f /\ x = key
    <3>1. r.psHashTab[x] = i + 1 /\ (i + 1) - 1 = i
      BY <1>1, <1>7, <2>1, Sizes
    <3>2. r.psHashTab[x] - 1 = i
      BY <3>1
    <3> QED BY <1>1, <1>5, <2>1, <3>2
  <2>2. CASE ~("MULTI" \notin f /\ x = key)
    <3>1. r.psHashTab[x] = b.psHashTab[x] /\ b.psHashTab[x] # 0
      BY <1>7, <1>9, <2>2
    <3>2. PICK j : j = b.psHashTab[x] - 1
      OBVIOUS
    <3>3. Live(b, j) /\ "MULTI" \notin b.psHandleArray[j].eFlag /\ KeyOf(b.psHandleArray[j]) = x
      BY <1>2, <3>1, <3>2, Zenon DEF HashInv
    <3>4. j \in Index
      BY <3>3, Sizes DEF Live
    <3>5. Live(r, j) /\ "MULTI" \notin r.psHandleArray[j].eFlag /\ KeyOf(r.psHandleArray[j]) = x
      BY <1>1, <1>4, <3>3, <3>4
    <3>6. r.psHashTab[x] - 1 = j
      BY <3>1, <3>2
    <3> QED BY <3>5, <3>6
  <2> QED BY <2>1, <2>2
<1>10. ASSUME NEW j \in Index, Live(r, j)
       PROVE  /\ r.psHandleArray[j].pvData \in Data \cup {DevCookie}
              /\ \/ "MULTI" \in r.psHandleArray[j].eFlag
                 \/ j \in {}
                 \/ r.psHashTab[KeyOf(r.psHandleArray[j])] = j + 1
  <2>1. CASE j = i
    BY <1>5, <1>6, <1>7, <2>1 DEF MayAlloc
  <2>2. CASE j # i
    <3>1. Live(b, j)
      BY <1>1, <1>10, <2>2
    <3>2. PICK x : x = KeyOf(b.psHandleArray[j])
      OBVIOUS
    <3>3. /\ b.psHandleArray[j].pvData \in Data \cup {DevCookie}
          /\ "MULTI" \in b.psHandleArray[j].eFlag \/ b.psHashTab[x] = j + 1
      BY <1>2, <3>1, <3>2 DEF HashInv
    <3>4. x \in Keys
      <4>1. /\ b.psHandleArray[j].eType \in AllTypes /\ b.psHandleArray[j].hParent \in Handles
        BY <3>1 DEF Base, Slot, Live
      <4> QED BY <3>2, <3>3, <4>1, Sizes DEF KeyOf, ParentIfPrivate, Keys
    <3>5. "MULTI" \in b.psHandleArray[j].eFlag \/ r.psHashTab[x] = j + 1
      <4>1. CASE b.psHashTab[x] = j + 1
        <5>1. b.psHashTab[x] # 0
          BY <4>1, HandleOfEntry
        <5>2. ~("MULTI" \notin f /\ x = key)
          BY <1>8, <5>1
        <5> QED BY <1>7, <3>4, <4>1, <5>2
      <4> QED BY <3>3, <4>1
    <3> QED BY <1>4, <3>1, <3>2, <3>3, <3>5
  <2> QED BY <2>1, <2>2
<1> QED BY <1>9, <1>10, Zenon DEF HashInv

LEMMA OneMore ==
  ASSUME NEW n \in Nat
  PROVE  \A x \in 1..(n + 1) : (x \in 1..n /\ x <= n) \/ (x = n + 1 /\ ~(x <= n))
OBVIOUS

\* The entries of a list after one more.
LEMMA AppendEntries ==
  ASSUME NEW c \in Seq(Index), NEW i \in Index
  PROVE  /\ Append(c, i) \in Seq(Index)
         /\ \A x \in DOMAIN Append(c, i) : \/ x \in DOMAIN c /\ Append(c, i)[x] = c[x]
                                           \/ x = Len(c) + 1 /\ Append(c, i)[x] = i
<1>1. Append(c, i) \in Seq(Index) /\ Len(Append(c, i)) = Len(c) + 1 /\ Len(c) \in Nat
  OBVIOUS
<1>2. DOMAIN Append(c, i) = 1..(Len(c) + 1) /\ DOMAIN c = 1..Len(c)
  BY <1>1
<1>3. \A x \in 1..(Len(c) + 1) : Append(c, i)[x] = IF x <= Len(c) THEN c[x] ELSE i
  OBVIOUS
<1>4. \A x \in 1..(Len(c) + 1) : \/ x \in 1..Len(c) /\ Append(c, i)[x] = c[x]
                                 \/ x = Len(c) + 1 /\ Append(c, i)[x] = i
  <2>1. PICK n \in Nat : n = Len(c)
    BY <1>1
  <2>2. \A x \in 1..(n + 1) : (x \in 1..n /\ x <= n) \/ (x = n + 1 /\ ~(x <= n))
    BY OneMore
  <2> QED BY <1>3, <2>1, <2>2
<1> QED BY <1>1, <1>2, <1>4, Zenon

\* The tree of an array, in both directions.
LEMMA TreeUse ==
  ASSUME NEW b, TreeInv(b)
  PROVE  /\ \A j \in Index : b.psHandleArray[j].eType = NONE => b.psHandleArray[j].hParent = 0 /\ b.psHandleArray[j].children = <<>>
         /\ \A j \in Index : Live(b, j) /\ b.psHandleArray[j].hParent # 0 =>
              /\ Live(b, b.psHandleArray[j].hParent - 1)
              /\ \E x \in DOMAIN b.psHandleArray[b.psHandleArray[j].hParent - 1].children : b.psHandleArray[b.psHandleArray[j].hParent - 1].children[x] = j
         /\ \A j \in Index : Live(b, j) =>
              /\ \A x \in DOMAIN b.psHandleArray[j].children :
                   Live(b, b.psHandleArray[j].children[x]) /\ b.psHandleArray[b.psHandleArray[j].children[x]].hParent = j + 1
              /\ \A x, y \in DOMAIN b.psHandleArray[j].children : b.psHandleArray[j].children[x] = b.psHandleArray[j].children[y] => x = y
BY Zenon DEF TreeInv

LEMMA TreeMake ==
  ASSUME NEW b,
         \A j \in Index : b.psHandleArray[j].eType = NONE => b.psHandleArray[j].hParent = 0 /\ b.psHandleArray[j].children = <<>>,
         \A j \in Index : Live(b, j) /\ b.psHandleArray[j].hParent # 0 =>
           /\ Live(b, b.psHandleArray[j].hParent - 1)
           /\ \E x \in DOMAIN b.psHandleArray[b.psHandleArray[j].hParent - 1].children : b.psHandleArray[b.psHandleArray[j].hParent - 1].children[x] = j,
         \A j \in Index : Live(b, j) =>
           /\ \A x \in DOMAIN b.psHandleArray[j].children :
                Live(b, b.psHandleArray[j].children[x]) /\ b.psHandleArray[b.psHandleArray[j].children[x]].hParent = j + 1
           /\ \A x, y \in DOMAIN b.psHandleArray[j].children : b.psHandleArray[j].children[x] = b.psHandleArray[j].children[y] => x = y
  PROVE  TreeInv(b)
BY Zenon DEF TreeInv

LEMMA AllocTree ==
  ASSUME NEW b \in Base, NEW r, NEW w, NEW bef, NEW ow, NEW k, NEW S,
         HBInv(b, <<>>, w, bef, ow, k, S), w.loop = "none",
         NEW i, NEW d, NEW t, NEW f, NEW hParent,
         MayAlloc(b, k, S, i, d, t, f, hParent), AllocStep(b, r, i, d, t, f, hParent)
  PROVE  TreeInv(r)
<1>1. /\ i \in Index /\ i \in Entries(b) /\ i \notin S /\ ~Live(b, i)
      /\ b.psHandleArray[i].eType = NONE
      /\ Entries(r) = Entries(b) /\ r \in Base
      /\ \A j \in Index : Live(r, j) <=> j = i \/ Live(b, j)
  BY AllocLive
<1>2. TreeInv(b)
  BY DEF HBInv
<1>31. PICK A : A = b.psHandleArray
  OBVIOUS
<1>32. PICK D : D = r.psHandleArray
  OBVIOUS
<1>3. A = b.psHandleArray /\ D = r.psHandleArray
  BY <1>31, <1>32
<1>4. /\ \A j \in Index : A[j].eType = NONE => A[j].hParent = 0 /\ A[j].children = <<>>
      /\ \A j \in Index : Live(b, j) /\ A[j].hParent # 0 =>
           /\ Live(b, A[j].hParent - 1)
           /\ \E x \in DOMAIN A[A[j].hParent - 1].children : A[A[j].hParent - 1].children[x] = j
      /\ \A j \in Index : Live(b, j) =>
           /\ \A x \in DOMAIN A[j].children :
                Live(b, A[j].children[x]) /\ A[A[j].children[x]].hParent = j + 1
           /\ \A x, y \in DOMAIN A[j].children : A[j].children[x] = A[j].children[y] => x = y
  BY <1>2, <1>3, Zenon DEF TreeInv
<1>5. /\ D[i].hParent = hParent /\ D[i].children = <<>> /\ D[i].eType # NONE
      /\ \A j \in Index : j # i =>
           /\ D[j].eType = A[j].eType /\ D[j].hParent = A[j].hParent
           /\ D[j].children = IF hParent # 0 /\ j = hParent - 1 THEN Append(A[j].children, i)
                              ELSE A[j].children
  BY <1>3, NoneIsNoType DEF AllocStep, Core, MayAlloc
<1>6. \A j \in Index : A[j].children \in Seq(Index) /\ A[j].hParent \in Handles
  BY <1>3 DEF Base, Slot
<1>7. hParent # 0 => Live(b, hParent - 1) /\ hParent - 1 \in Index /\ hParent - 1 # i /\ hParent \in Nat
  BY <1>1, Sizes DEF MayAlloc, Live
<1>8. \A j \in Index : Live(b, j) => j # i
  BY <1>1
<1>9. ASSUME NEW j \in Index, D[j].eType = NONE PROVE D[j].hParent = 0 /\ D[j].children = <<>>
  <2>1. j # i /\ A[j].eType = NONE
    BY <1>5, <1>9
  <2>2. ~(hParent # 0 /\ j = hParent - 1)
    BY <1>3, <1>7, <2>1 DEF Live
  <2> QED BY <1>4, <1>5, <2>1, <2>2
<1>10. ASSUME NEW j \in Index, Live(r, j), D[j].hParent # 0
       PROVE  /\ Live(r, D[j].hParent - 1)
              /\ \E x \in DOMAIN D[D[j].hParent - 1].children : D[D[j].hParent - 1].children[x] = j
  <2>1. CASE j = i
    <3>1. PICK p \in Index : p = hParent - 1 /\ hParent # 0
      BY <1>5, <1>7, <1>10, <2>1
    <3>2. D[p].children = Append(A[p].children, i) /\ Live(r, p) /\ D[j].hParent - 1 = p
      BY <1>1, <1>5, <1>7, <2>1, <3>1
    <3>3. Len(A[p].children) + 1 \in DOMAIN D[p].children
          /\ D[p].children[Len(A[p].children) + 1] = i
      BY <1>6, <3>2
    <3> QED BY <2>1, <3>2, <3>3
  <2>2. CASE j # i
    <3>1. Live(b, j) /\ A[j].hParent = D[j].hParent
      BY <1>1, <1>5, <1>10, <2>2
    <3>2. PICK p : p = D[j].hParent - 1
      OBVIOUS
    <3>3. Live(b, p) /\ \E x \in DOMAIN A[p].children : A[p].children[x] = j
      BY <1>4, <1>10, <3>1, <3>2
    <3>4. p \in Index /\ p # i /\ Live(r, p)
      BY <1>1, <3>3, Sizes DEF Live
    <3>5. PICK x \in DOMAIN A[p].children : A[p].children[x] = j
      BY <3>3
    <3>6. x \in DOMAIN D[p].children /\ D[p].children[x] = j
      <4>1. A[p].children \in Seq(Index)
        BY <1>6, <3>4
      <4>2. D[p].children = A[p].children \/ D[p].children = Append(A[p].children, i)
        BY <1>5, <3>4
      <4> QED BY <3>5, <4>1, <4>2
    <3> QED BY <3>2, <3>4, <3>6
  <2> QED BY <2>1, <2>2
<1>11. ASSUME NEW j \in Index, Live(r, j)
       PROVE  /\ \A x \in DOMAIN D[j].children :
                   Live(r, D[j].children[x]) /\ D[D[j].children[x]].hParent = j + 1
              /\ \A x, y \in DOMAIN D[j].children : D[j].children[x] = D[j].children[y] => x = y
  <2>1. CASE j = i
    BY <1>5, <2>1
  <2>2. CASE j # i
    <3>1. Live(b, j)
      BY <1>1, <1>11, <2>2
    <3>2. PICK c : c = A[j].children
      OBVIOUS
    <3>3. /\ c \in Seq(Index)
          /\ \A x \in DOMAIN c : Live(b, c[x]) /\ A[c[x]].hParent = j + 1
          /\ \A x, y \in DOMAIN c : c[x] = c[y] => x = y
      BY <1>4, <1>6, <3>1, <3>2
    <3>4. \A x \in DOMAIN c : c[x] \in Index /\ c[x] # i /\ Live(r, c[x]) /\ D[c[x]].hParent = j + 1
      BY <1>1, <1>5, <3>3
    <3>5. CASE hParent # 0 /\ j = hParent - 1
      <4>11. hParent = j + 1
        BY <1>7, <3>5
      <4>12. D[j].children = Append(A[j].children, i)
        BY <1>5, <2>2, <3>5
      <4>1. D[j].children = Append(c, i) /\ D[i].hParent = j + 1 /\ Live(r, i)
        BY <1>1, <1>5, <3>2, <4>11, <4>12
      <4>2. \A x \in DOMAIN Append(c, i) : \/ x \in DOMAIN c /\ Append(c, i)[x] = c[x]
                                           \/ x = Len(c) + 1 /\ Append(c, i)[x] = i
        BY <1>1, <3>3, AppendEntries
      <4>3. Len(c) + 1 \notin DOMAIN c
        BY <3>3
      <4>4. PICK e : e = Append(c, i)
        OBVIOUS
      <4>5. \A x \in DOMAIN e : (x \in DOMAIN c /\ e[x] = c[x]) \/ (x = Len(c) + 1 /\ e[x] = i)
        BY <4>2, <4>4
      <4>6. /\ \A x \in DOMAIN e : Live(r, e[x]) /\ D[e[x]].hParent = j + 1
            /\ \A x, y \in DOMAIN e : e[x] = e[y] => x = y
        BY <3>3, <3>4, <4>1, <4>3, <4>5
      <4> QED BY <4>1, <4>4, <4>6
    <3>6. CASE ~(hParent # 0 /\ j = hParent - 1)
      <4>1. D[j].children = c
        BY <1>5, <2>2, <3>2, <3>6
      <4> QED BY <3>3, <3>4, <4>1
    <3> QED BY <3>5, <3>6
  <2> QED BY <2>1, <2>2
<1>12. /\ \A j \in Index : D[j].eType = NONE => D[j].hParent = 0 /\ D[j].children = <<>>
       /\ \A j \in Index : Live(r, j) /\ D[j].hParent # 0 =>
            /\ Live(r, D[j].hParent - 1)
            /\ \E x \in DOMAIN D[D[j].hParent - 1].children : D[D[j].hParent - 1].children[x] = j
       /\ \A j \in Index : Live(r, j) =>
            /\ \A x \in DOMAIN D[j].children :
                 Live(r, D[j].children[x]) /\ D[D[j].children[x]].hParent = j + 1
            /\ \A x, y \in DOMAIN D[j].children : D[j].children[x] = D[j].children[y] => x = y
  BY <1>9, <1>10, <1>11, Zenon
<1>13. /\ \A j \in Index : r.psHandleArray[j].eType = NONE => r.psHandleArray[j].hParent = 0 /\ r.psHandleArray[j].children = <<>>
       /\ \A j \in Index : Live(r, j) /\ r.psHandleArray[j].hParent # 0 =>
            /\ Live(r, r.psHandleArray[j].hParent - 1)
            /\ \E x \in DOMAIN r.psHandleArray[r.psHandleArray[j].hParent - 1].children : r.psHandleArray[r.psHandleArray[j].hParent - 1].children[x] = j
       /\ \A j \in Index : Live(r, j) =>
            /\ \A x \in DOMAIN r.psHandleArray[j].children :
                 Live(r, r.psHandleArray[j].children[x]) /\ r.psHandleArray[r.psHandleArray[j].children[x]].hParent = j + 1
            /\ \A x, y \in DOMAIN r.psHandleArray[j].children : r.psHandleArray[j].children[x] = r.psHandleArray[j].children[y] => x = y
  BY <1>32, <1>12
<1> QED BY <1>13, TreeMake

LEMMA AllocRest ==
  ASSUME NEW b \in Base, NEW r, NEW w, NEW bef, NEW ow, NEW k, NEW S,
         HBInv(b, <<>>, w, bef, ow, k, S), w.loop = "none",
         NEW i, NEW d, NEW t, NEW f, NEW hParent,
         MayAlloc(b, k, S, i, d, t, f, hParent), AllocStep(b, r, i, d, t, f, hParent)
  PROVE  /\ KindInv(r, k, w, {}, AllocBatch(b, S, i))
         /\ LoopInv(r, w)
         /\ BatchInv(r, w, {}, AllocBatch(b, S, i), bef, ow)
<1>1. /\ i \in Index /\ i \in Entries(b) /\ i \notin S /\ ~Live(b, i)
      /\ b.psHandleArray[i].eType = NONE
      /\ Entries(r) = Entries(b) /\ r \in Base
      /\ \A j \in Index : Live(r, j) <=> j = i \/ Live(b, j)
      /\ HandlesInUse(r) = HandlesInUse(b) \cup {i + 1}
  BY AllocLive
<1>2. /\ KindInv(b, k, w, {}, S) /\ LoopInv(b, w) /\ BatchInv(b, w, {}, S, bef, ow)
  BY HeldNone DEF HBInv
<1>3. /\ \A j \in Index \ {i} : /\ Core(r.psHandleArray[j], b.psHandleArray[j])
                                /\ r.psHandleArray[j].hParent = b.psHandleArray[j].hParent
      /\ r.psHandleArray[i].bBatched = HandlesBatched(b)
      /\ r.psHandleArray[i].bPartiallyFree = FALSE
  BY DEF AllocStep
<1>4. /\ r.ui32HandBatchSize = b.ui32HandBatchSize /\ r.bPurgingEnabled = b.bPurgingEnabled
      /\ r.ui32TotalHandCount = b.ui32TotalHandCount
      /\ r.ui32FirstBatchIndexPlusOne =
           IF HandlesBatched(b) THEN i + 1 ELSE b.ui32FirstBatchIndexPlusOne
      /\ r.ui32LastFreeIndexPlusOne =
           IF ~b.bPurgingEnabled /\ r.ui32FreeHandCount = 0 THEN 0 ELSE b.ui32LastFreeIndexPlusOne
      /\ r.ui32FreeHandCount = 0 => r.ui32FirstFreeIndex = 0
  BY DEF AllocStep, Whole
<1>5. KindInv(r, k, w, {}, AllocBatch(b, S, i))
  <2>1. k = "kernel" => /\ r.ui32LastFreeIndexPlusOne = 0
                        /\ r.ui32HandBatchSize = 0
                        /\ \A j \in Index : /\ ~r.psHandleArray[j].bBatched
                                            /\ ~r.psHandleArray[j].bPartiallyFree
    <3> SUFFICES ASSUME k = "kernel"
                 PROVE  /\ r.ui32LastFreeIndexPlusOne = 0
                        /\ r.ui32HandBatchSize = 0
                        /\ \A j \in Index : /\ ~r.psHandleArray[j].bBatched
                                            /\ ~r.psHandleArray[j].bPartiallyFree
      OBVIOUS
    <3>1. /\ b.bPurgingEnabled /\ b.ui32LastFreeIndexPlusOne = 0 /\ b.ui32HandBatchSize = 0
          /\ \A j \in Index : ~b.psHandleArray[j].bBatched /\ ~b.psHandleArray[j].bPartiallyFree
      BY <1>2 DEF KindInv
    <3>2. ~HandlesBatched(b)
      BY <3>1 DEF HandlesBatched
    <3> QED BY <1>3, <1>4, <3>1, <3>2 DEF Core
  <2>2. k = "process" /\ w.loop # "all" =>
          /\ Live(r, 0) /\ r.psHandleArray[0].eType = DEV_NODE
          /\ r.psHandleArray[0].hParent = 0 /\ 0 \notin {} \cup AllocBatch(b, S, i)
    <3> SUFFICES ASSUME k = "process", w.loop # "all"
                 PROVE  /\ Live(r, 0) /\ r.psHandleArray[0].eType = DEV_NODE
                        /\ r.psHandleArray[0].hParent = 0 /\ 0 \notin {} \cup AllocBatch(b, S, i)
      OBVIOUS
    <3>1. /\ Live(b, 0) /\ b.psHandleArray[0].eType = DEV_NODE
          /\ b.psHandleArray[0].hParent = 0 /\ 0 \notin S
      BY <1>2 DEF KindInv
    <3>2. 0 # i /\ 0 \in Index
      BY <1>1, <3>1, Sizes
    <3> QED BY <1>1, <1>3, <3>1, <3>2 DEF Core, AllocBatch
  <2> QED BY <1>2, <1>4, <2>1, <2>2 DEF KindInv
<1>6. LoopInv(r, w)
  <2>1. i + 1 <= r.ui32TotalHandCount /\ 0 <= r.ui32TotalHandCount
    BY <1>1, <1>4, Sizes DEF Entries
  <2> QED BY <1>2, <1>4, <2>1 DEF LoopInv, HandlesBatched
<1>7. BatchInv(r, w, {}, AllocBatch(b, S, i), bef, ow)
  <2>1. i + 1 \notin HandlesInUse(b)
    BY <1>1, HandleOfEntry
  <2>2. /\ bef \subseteq HandlesInUse(r) /\ ow \subseteq Handles /\ i + 1 \notin bef
        /\ \A j \in AllocBatch(b, S, i) : j + 1 \notin bef
    BY <1>1, <1>2, <2>1 DEF BatchInv, AllocBatch
  <2>3. \A j \in Index : Live(r, j) /\ j + 1 \in bef => Live(b, j) /\ j # i
    BY <1>1, <2>2
  <2>4. \A j \in Index : Live(r, j) /\ j + 1 \in bef /\ r.psHandleArray[j].hParent # 0 =>
          r.psHandleArray[j].hParent \in bef
    BY <1>2, <1>3, <2>3 DEF BatchInv
  <2>5. r.ui32HandBatchSize # 0 =>
          \A j \in Index : Live(r, j) /\ j + 1 \notin bef => j \in AllocBatch(b, S, i)
    <3>1. r.ui32HandBatchSize # 0 => AllocBatch(b, S, i) = S \cup {i}
      BY <1>4 DEF AllocBatch, HandlesBatched
    <3> QED BY <1>1, <1>2, <1>4, <3>1 DEF BatchInv
  <2>6. w.loop # "batch"
    OBVIOUS
  <2> QED BY <2>2, <2>4, <2>5, <2>6 DEF BatchInv
<1> QED BY <1>5, <1>6, <1>7

\* An allocation keeps the invariant.
LEMMA AllocKeeps ==
  ASSUME NEW b \in Base, NEW r, NEW w, NEW bef, NEW ow, NEW k, NEW S,
         HBInv(b, <<>>, w, bef, ow, k, S), w.loop = "none",
         NEW i, NEW d, NEW t, NEW f, NEW hParent,
         MayAlloc(b, k, S, i, d, t, f, hParent), AllocStep(b, r, i, d, t, f, hParent)
  PROVE  FirstInv(r) /\ HBInv(r, <<>>, w, bef, ow, k, AllocBatch(b, S, i))
<1>1. r \in Base
  BY DEF AllocStep
<1>2. FlagInv(r, {}, AllocBatch(b, S, i)) /\ FreshInv(r)
  BY AllocFlags_
<1>3. HashInv(r, {})
  BY AllocHash
<1>4. TreeInv(r)
  BY AllocTree
<1>5. /\ BatchLinked(Links(r), Start(r, w), AllocBatch(b, S, i))
      /\ FreeInv(r, {}, AllocBatch(b, S, i))
  BY AllocLists
<1>6. /\ KindInv(r, k, w, {}, AllocBatch(b, S, i))
      /\ LoopInv(r, w)
      /\ BatchInv(r, w, {}, AllocBatch(b, S, i), bef, ow)
  BY AllocRest
<1>7. StackInv(r, <<>>)
  BY DEF StackInv, Held
<1>8. FirstInv(r)
  BY DEF FirstInv, AllocStep, Whole
<1> QED BY <1>1, <1>2, <1>3, <1>4, <1>5, <1>6, <1>7, <1>8, HeldNone DEF HBInv

-----------------------------------------------------------------------------
(***************************************************************************)
(* Steps that change no handle.                                            *)
(***************************************************************************)

\* The entries of r hold the same handles as those of b.
SameHandles(b, r) ==
  /\ r.psHashTab = b.psHashTab
  /\ \A j \in Index :
       /\ Live(r, j) <=> Live(b, j)
       /\ r.psHandleArray[j].eType = b.psHandleArray[j].eType
       /\ Live(b, j) => /\ r.psHandleArray[j].pvData = b.psHandleArray[j].pvData
                        /\ r.psHandleArray[j].eFlag = b.psHandleArray[j].eFlag
       /\ r.psHandleArray[j].hParent = b.psHandleArray[j].hParent
       /\ r.psHandleArray[j].children = b.psHandleArray[j].children

LEMMA SameKeeps ==
  ASSUME NEW b \in Base, NEW r \in Base, SameHandles(b, r),
         NEW T, HashInv(b, T), TreeInv(b)
  PROVE  HashInv(r, T) /\ TreeInv(r) /\ HandlesInUse(r) = HandlesInUse(b)
<1>1. \A j \in Index : Live(b, j) => KeyOf(r.psHandleArray[j]) = KeyOf(b.psHandleArray[j])
  BY DEF SameHandles, KeyOf, ParentIfPrivate
<1>2. HashInv(r, T)
  <2>1. ASSUME NEW x \in Keys, r.psHashTab[x] # 0
        PROVE  LET j == r.psHashTab[x] - 1 IN
               /\ Live(r, j) /\ j \notin T
               /\ "MULTI" \notin r.psHandleArray[j].eFlag
               /\ KeyOf(r.psHandleArray[j]) = x
    <3>1. PICK j : j = r.psHashTab[x] - 1
      OBVIOUS
    <3>2. j = b.psHashTab[x] - 1 /\ b.psHashTab[x] # 0
      BY <2>1, <3>1 DEF SameHandles
    <3>3. /\ Live(b, j) /\ j \notin T
          /\ "MULTI" \notin b.psHandleArray[j].eFlag /\ KeyOf(b.psHandleArray[j]) = x
      BY <3>2, Zenon DEF HashInv
    <3>4. j \in Index
      BY <3>3, Sizes DEF Live
    <3>5. /\ Live(r, j) /\ j \notin T
          /\ "MULTI" \notin r.psHandleArray[j].eFlag /\ KeyOf(r.psHandleArray[j]) = x
      BY <1>1, <3>3, <3>4 DEF SameHandles
    <3> QED BY <3>1, <3>5, Zenon
  <2>2. ASSUME NEW j \in Index, Live(r, j)
        PROVE  /\ r.psHandleArray[j].pvData \in Data \cup {DevCookie}
               /\ \/ "MULTI" \in r.psHandleArray[j].eFlag
                  \/ j \in T
                  \/ r.psHashTab[KeyOf(r.psHandleArray[j])] = j + 1
    <3>1. Live(b, j)
      BY <2>2 DEF SameHandles
    <3> QED BY <1>1, <3>1 DEF SameHandles, HashInv
  <2> QED BY <2>1, <2>2, Zenon DEF HashInv
<1>3. TreeInv(r)
  <2>1. /\ \A j \in Index : b.psHandleArray[j].eType = NONE =>
             b.psHandleArray[j].hParent = 0 /\ b.psHandleArray[j].children = <<>>
        /\ \A j \in Index : Live(b, j) /\ b.psHandleArray[j].hParent # 0 =>
             /\ Live(b, b.psHandleArray[j].hParent - 1)
             /\ \E x \in DOMAIN b.psHandleArray[b.psHandleArray[j].hParent - 1].children :
                  b.psHandleArray[b.psHandleArray[j].hParent - 1].children[x] = j
        /\ \A j \in Index : Live(b, j) =>
             /\ \A x \in DOMAIN b.psHandleArray[j].children :
                  /\ Live(b, b.psHandleArray[j].children[x])
                  /\ b.psHandleArray[b.psHandleArray[j].children[x]].hParent = j + 1
             /\ \A x, y \in DOMAIN b.psHandleArray[j].children :
                  b.psHandleArray[j].children[x] = b.psHandleArray[j].children[y] => x = y
    BY TreeUse
  <2>2. \A j : Live(b, j) => j \in Index /\ Live(r, j)
    BY Sizes DEF Live, SameHandles
  <2>3. \A j \in Index : r.psHandleArray[j].eType = NONE =>
          r.psHandleArray[j].hParent = 0 /\ r.psHandleArray[j].children = <<>>
    BY <2>1 DEF SameHandles
  <2>4. ASSUME NEW j \in Index, Live(r, j), r.psHandleArray[j].hParent # 0
        PROVE  /\ Live(r, r.psHandleArray[j].hParent - 1)
               /\ \E x \in DOMAIN r.psHandleArray[r.psHandleArray[j].hParent - 1].children :
                    r.psHandleArray[r.psHandleArray[j].hParent - 1].children[x] = j
    <3>1. Live(b, j) /\ b.psHandleArray[j].hParent = r.psHandleArray[j].hParent
      BY <2>4 DEF SameHandles
    <3>2. PICK p : p = r.psHandleArray[j].hParent - 1
      OBVIOUS
    <3>3. Live(b, p) /\ \E x \in DOMAIN b.psHandleArray[p].children : b.psHandleArray[p].children[x] = j
      BY <2>1, <2>4, <3>1, <3>2
    <3>4. Live(r, p) /\ r.psHandleArray[p].children = b.psHandleArray[p].children
      BY <2>2, <3>3 DEF SameHandles
    <3> QED BY <3>2, <3>3, <3>4
  <2>5. ASSUME NEW j \in Index, Live(r, j)
        PROVE  /\ \A x \in DOMAIN r.psHandleArray[j].children :
                    /\ Live(r, r.psHandleArray[j].children[x])
                    /\ r.psHandleArray[r.psHandleArray[j].children[x]].hParent = j + 1
               /\ \A x, y \in DOMAIN r.psHandleArray[j].children :
                    r.psHandleArray[j].children[x] = r.psHandleArray[j].children[y] => x = y
    <3>1. Live(b, j) /\ r.psHandleArray[j].children = b.psHandleArray[j].children
      BY <2>5 DEF SameHandles
    <3>2. \A x \in DOMAIN b.psHandleArray[j].children :
            /\ Live(b, b.psHandleArray[j].children[x])
            /\ b.psHandleArray[b.psHandleArray[j].children[x]].hParent = j + 1
      BY <2>1, <3>1
    <3>3. \A x, y \in DOMAIN b.psHandleArray[j].children :
            b.psHandleArray[j].children[x] = b.psHandleArray[j].children[y] => x = y
      BY <2>1, <3>1
    <3>4. \A x \in DOMAIN b.psHandleArray[j].children :
            /\ Live(r, b.psHandleArray[j].children[x])
            /\ r.psHandleArray[b.psHandleArray[j].children[x]].hParent = j + 1
      BY <2>2, <3>2 DEF SameHandles
    <3> QED BY <3>1, <3>3, <3>4, Zenon
  <2>6. /\ \A j \in Index : r.psHandleArray[j].eType = NONE =>
             r.psHandleArray[j].hParent = 0 /\ r.psHandleArray[j].children = <<>>
        /\ \A j \in Index : Live(r, j) /\ r.psHandleArray[j].hParent # 0 =>
             /\ Live(r, r.psHandleArray[j].hParent - 1)
             /\ \E x \in DOMAIN r.psHandleArray[r.psHandleArray[j].hParent - 1].children :
                  r.psHandleArray[r.psHandleArray[j].hParent - 1].children[x] = j
        /\ \A j \in Index : Live(r, j) =>
             /\ \A x \in DOMAIN r.psHandleArray[j].children :
                  /\ Live(r, r.psHandleArray[j].children[x])
                  /\ r.psHandleArray[r.psHandleArray[j].children[x]].hParent = j + 1
             /\ \A x, y \in DOMAIN r.psHandleArray[j].children :
                  r.psHandleArray[j].children[x] = r.psHandleArray[j].children[y] => x = y
    BY <2>3, <2>4, <2>5, Zenon
  <2> QED BY <2>6, TreeMake
<1>4. \A h : h \in HandlesInUse(r) <=> h \in HandlesInUse(b)
  <2> TAKE h
  <2>1. CASE h \in Handles /\ h # 0
    <3>1. PICK j \in Index : h = j + 1
      BY <2>1, Sizes DEF Handles, Index
    <3> QED BY <3>1, HandleOfEntry DEF SameHandles
  <2>2. CASE ~(h \in Handles /\ h # 0)
    BY <2>2 DEF HandlesInUse, InUse
  <2> QED BY <2>1, <2>2
<1>5. HandlesInUse(r) = HandlesInUse(b)
  BY <1>4, Zenon
<1> QED BY <1>2, <1>3, <1>5

\* The array grows to `total` entries.
GrowStep(b, r, total) ==
  /\ r \in Base
  /\ total \in Handles /\ b.ui32TotalHandCount < total /\ r.ui32TotalHandCount = total
  /\ r.bPurgingEnabled = b.bPurgingEnabled
  /\ r.ui32HandBatchSize = b.ui32HandBatchSize
  /\ r.ui32FirstBatchIndexPlusOne = b.ui32FirstBatchIndexPlusOne
  /\ r.ui32BatchHandAllocFailures = b.ui32BatchHandAllocFailures
  /\ r.psHashTab = b.psHashTab
  /\ r.ui32FreeHandCount = b.ui32FreeHandCount + (total - b.ui32TotalHandCount)
  /\ r.ui32FirstFreeIndex =
       IF b.ui32FreeHandCount = 0 THEN b.ui32TotalHandCount ELSE b.ui32FirstFreeIndex
  /\ r.ui32LastFreeIndexPlusOne =
       IF b.bPurgingEnabled THEN b.ui32LastFreeIndexPlusOne ELSE total
  /\ \A j \in Index :
       /\ Core(r.psHandleArray[j], b.psHandleArray[j])
       /\ r.psHandleArray[j].hParent = b.psHandleArray[j].hParent
       /\ r.psHandleArray[j].children = b.psHandleArray[j].children
       /\ r.psHandleArray[j].ui32NextIndexPlusOne =
            IF /\ ~b.bPurgingEnabled /\ b.ui32FreeHandCount # 0
               /\ j = b.ui32LastFreeIndexPlusOne - 1
            THEN b.ui32TotalHandCount + 1 ELSE b.psHandleArray[j].ui32NextIndexPlusOne
       /\ j \notin Entries(b) => r.psHandleArray[j] = b.psHandleArray[j]

LEMMA GrowLists ==
  ASSUME NEW b \in Base, NEW r, NEW w, NEW S, NEW total, GrowStep(b, r, total),
         BatchLinked(Links(b), Start(b, w), S), FreeInv(b, {}, S), FreshInv(b),
         S \subseteq Entries(b)
  PROVE  /\ BatchLinked(Links(r), Start(r, w), S) /\ FreeInv(r, {}, S)
         /\ \A j \in Index : j \notin Unheld(b, {}, S) => Links(r)[j] = Links(b)[j]
         /\ \A j \in Index : Live(r, j) <=> Live(b, j)
<1> DEFINE F == Unheld(b, {}, S)
           n == b.ui32FreeHandCount
           old == b.ui32TotalHandCount
<1>1. /\ r \in Base /\ total \in Handles /\ old < total /\ r.ui32TotalHandCount = total
      /\ r.ui32FreeHandCount = n + (total - old)
      /\ old \in Nat /\ total \in Nat /\ total <= MaxHandle /\ old \in Handles
      /\ r.bPurgingEnabled = b.bPurgingEnabled
  BY Sizes DEF GrowStep, Handles
<1>2. Entries(r) = Entries(b) \cup old..(total - 1) /\ Entries(b) \cap (old..(total - 1)) = {}
  BY <1>1 DEF Entries
<1>3. \A j \in Index : j \in old..(total - 1) => b.psHandleArray[j] = FreshSlot
  BY <1>2 DEF FreshInv
<1>4. old..(total - 1) \subseteq Index
  BY <1>1, Sizes DEF Index
<1>5. \A j \in Index : j \in old..(total - 1) =>
        b.psHandleArray[j].eType = NONE /\ Links(b)[j] = 0
  BY <1>3 DEF FreshSlot, Links
<1>6. \A j \in Index : r.psHandleArray[j].eType = b.psHandleArray[j].eType
  BY DEF GrowStep, Core
<1>7. \A j \in Index : Live(r, j) <=> Live(b, j)
  BY <1>2, <1>5, <1>6 DEF Live
<1>8. Unheld(r, {}, S) = F \cup old..(total - 1)
  <2>1. \A j : j \in Unheld(r, {}, S) <=> j \in F \cup old..(total - 1)
    BY <1>2, <1>4, <1>5, <1>6, Sizes DEF Unheld
  <2> QED BY <2>1, Zenon
<1>9. /\ IsFiniteSet(F) /\ n = Cardinality(F) /\ F \subseteq Entries(b) /\ n \in Nat
      /\ F \cap S = {}
  BY UnheldFinite, Sizes DEF FreeInv, Unheld
<1>10. Cardinality(F \cup old..(total - 1)) = n + (total - old)
  <2>1. PICK lo, hi : lo = old /\ hi = total - 1 /\ lo \in Int /\ hi \in Int
    BY <1>1
  <2>2. IsFiniteSet(lo..hi) /\ Cardinality(lo..hi) = total - old
    <3>1. IsFiniteSet(lo..hi) /\ Cardinality(lo..hi) = IF lo > hi THEN 0 ELSE hi - lo + 1
      BY <2>1, FS_Interval
    <3> QED BY <1>1, <2>1, <3>1
  <2>3. F \cap (lo..hi) = {}
    BY <1>2, <1>9, <2>1
  <2>4. Cardinality(F \cup (lo..hi)) = Cardinality(F) + Cardinality(lo..hi) - Cardinality(F \cap (lo..hi))
    BY <1>9, <2>2, FS_Union
  <2>5. Cardinality(F \cap (lo..hi)) = 0
    BY <2>3, FS_EmptySet
  <2> QED BY <1>1, <1>9, <2>1, <2>2, <2>4, <2>5
<1>11. ~b.bPurgingEnabled => FreeLinked(Links(b), b.ui32FirstFreeIndex, b.ui32LastFreeIndexPlusOne, n, F)
  BY DEF FreeInv
<1>12. ~b.bPurgingEnabled /\ n # 0 => b.ui32LastFreeIndexPlusOne - 1 \in F
  BY <1>9, <1>11, FreeEnds
<1>13. \A j \in Index : Links(r)[j] =
         IF ~b.bPurgingEnabled /\ n # 0 /\ j = b.ui32LastFreeIndexPlusOne - 1 THEN old + 1
         ELSE Links(b)[j]
  BY DEF GrowStep, Links
<1>14. \A j \in Index : j \notin F => Links(r)[j] = Links(b)[j]
  BY <1>12, <1>13
<1>15. BatchLinked(Links(r), Start(r, w), S)
  <2>1. \A j \in S : Links(r)[j] = Links(b)[j]
    BY <1>9, <1>14, Sizes
  <2>2. Start(r, w) = Start(b, w)
    BY DEF Start, GrowStep
  <2> QED BY <2>1, <2>2, BatchSame
<1>16. ASSUME ~b.bPurgingEnabled
       PROVE  FreeLinked(Links(r), r.ui32FirstFreeIndex, r.ui32LastFreeIndexPlusOne,
                         n + (total - old), F \cup old..(total - 1))
  <2>1. /\ r.ui32LastFreeIndexPlusOne = total
        /\ n = 0 => r.ui32FirstFreeIndex = old
        /\ n # 0 => r.ui32FirstFreeIndex = b.ui32FirstFreeIndex
    BY <1>16 DEF GrowStep
  <2>2. \A j \in F : j < old /\ j \in Index
    BY <1>1, <1>9, Sizes DEF Entries
  <2>3. \A j \in F : j # b.ui32LastFreeIndexPlusOne - 1 => Links(r)[j] = Links(b)[j]
    BY <1>13, <2>2
  <2>4. n # 0 => Links(r)[b.ui32LastFreeIndexPlusOne - 1] = old + 1
    BY <1>12, <1>13, <1>16, <2>2
  <2>5. \A j \in old..(total - 1) : Links(r)[j] = 0
    <3> TAKE j \in old..(total - 1)
    <3>1. j \in Index /\ j \notin F
      BY <1>2, <1>4, <1>9
    <3> QED BY <1>5, <1>14, <3>1
  <2>6. FreeLinked(Links(b), b.ui32FirstFreeIndex, b.ui32LastFreeIndexPlusOne, n, F)
    BY <1>11, <1>16
  <2>7. PICK F0, n0, old0, nx, ny, f0, l0, f1 :
          /\ F0 = F /\ n0 = n /\ old0 = old /\ nx = Links(b) /\ ny = Links(r)
          /\ f0 = b.ui32FirstFreeIndex /\ l0 = b.ui32LastFreeIndexPlusOne
          /\ f1 = r.ui32FirstFreeIndex
    OBVIOUS
  <2>8. /\ FreeLinked(nx, f0, l0, n0, F0) /\ n0 \in Nat /\ old0 \in Handles /\ old0 < total
        /\ total \in Handles
        /\ \A j \in F0 : j < old0
        /\ \A j \in old0..(total - 1) : ny[j] = 0
        /\ \A j \in F0 : j # l0 - 1 => ny[j] = nx[j]
        /\ n0 # 0 => ny[l0 - 1] = old0 + 1
        /\ n0 = 0 => f1 = old0
        /\ n0 # 0 => f1 = f0
    BY <1>1, <1>9, <2>1, <2>2, <2>3, <2>4, <2>5, <2>6, <2>7, Zenon
  <2>9. PICK q, G : q = n0 + (total - old0) /\ G = F0 \cup (old0..(total - 1))
    OBVIOUS
  <2>10. FreeLinked(ny, f1, total, q, G)
    BY ONLY <2>8, <2>9, FreeGrow
  <2> QED BY <2>1, <2>7, <2>9, <2>10, Zenon
<1>17. FreeInv(r, {}, S)
  BY <1>1, <1>8, <1>10, <1>16, Zenon DEF FreeInv
<1> QED BY <1>7, <1>14, <1>15, <1>17, Zenon

\* Growing keeps the invariant.
LEMMA GrowKeeps ==
  ASSUME NEW b \in Base, NEW r, NEW w, NEW bef, NEW ow, NEW k, NEW S,
         HBInv(b, <<>>, w, bef, ow, k, S), w.loop = "none",
         NEW total, GrowStep(b, r, total)
  PROVE  HBInv(r, <<>>, w, bef, ow, k, S)
<1>1. /\ BatchLinked(Links(b), Start(b, w), S) /\ FreeInv(b, {}, S) /\ FreshInv(b)
      /\ FlagInv(b, {}, S) /\ HashInv(b, {}) /\ TreeInv(b) /\ StackInv(b, <<>>)
      /\ BatchInv(b, w, {}, S, bef, ow) /\ KindInv(b, k, w, {}, S) /\ LoopInv(b, w)
      /\ S \subseteq Entries(b) /\ r \in Base
  BY HeldNone DEF HBInv, FlagInv, GrowStep
<1>2. /\ BatchLinked(Links(r), Start(r, w), S) /\ FreeInv(r, {}, S)
      /\ \A j \in Index : j \notin Unheld(b, {}, S) => Links(r)[j] = Links(b)[j]
      /\ \A j \in Index : Live(r, j) <=> Live(b, j)
  BY <1>1, GrowLists
<1>3. Entries(b) \subseteq Entries(r) /\ Entries(b) \subseteq Index
  BY Sizes DEF Entries, GrowStep, Handles
<1>4. FreshInv(r)
  BY <1>1, <1>3 DEF FreshInv, GrowStep
<1>5. SameHandles(b, r)
  BY <1>2 DEF SameHandles, GrowStep, Core
<1>6. HashInv(r, {}) /\ TreeInv(r) /\ HandlesInUse(r) = HandlesInUse(b)
  BY <1>1, <1>5, SameKeeps
<1>7. FlagInv(r, {}, S)
  <2>1. \A j \in Index : /\ r.psHandleArray[j].bBatched = b.psHandleArray[j].bBatched
                         /\ r.psHandleArray[j].bPartiallyFree = b.psHandleArray[j].bPartiallyFree
                         /\ r.psHandleArray[j].eType = b.psHandleArray[j].eType
    BY DEF GrowStep, Core
  <2>2. \A j \in S : /\ r.psHandleArray[j].bBatched
                     /\ r.psHandleArray[j].bPartiallyFree <=> r.psHandleArray[j].eType = NONE
    BY <1>1, <1>3, <2>1 DEF FlagInv
  <2>3. \A j \in Index : Live(r, j) /\ j \notin S =>
          /\ ~r.psHandleArray[j].bBatched /\ ~r.psHandleArray[j].bPartiallyFree
          /\ r.psHandleArray[j].ui32NextIndexPlusOne = 0
    <3>1. \A j \in Index : Live(r, j) => Live(b, j) /\ Links(r)[j] = Links(b)[j]
      BY <1>2 DEF Unheld, Live
    <3> QED BY <1>1, <2>1, <3>1 DEF FlagInv, Links
  <2> QED BY <1>1, <1>3, <2>2, <2>3 DEF FlagInv
<1>8. StackInv(r, <<>>)
  BY DEF StackInv, Held
<1>9. /\ r.ui32HandBatchSize = b.ui32HandBatchSize /\ r.bPurgingEnabled = b.bPurgingEnabled
      /\ r.ui32FirstBatchIndexPlusOne = b.ui32FirstBatchIndexPlusOne
      /\ b.ui32TotalHandCount < r.ui32TotalHandCount /\ r.ui32TotalHandCount \in Nat
      /\ r.ui32FreeHandCount # 0
      /\ r.ui32LastFreeIndexPlusOne =
           IF b.bPurgingEnabled THEN b.ui32LastFreeIndexPlusOne ELSE r.ui32TotalHandCount
  BY <1>1, Sizes DEF GrowStep
<1>10. KindInv(r, k, w, {}, S)
  <2>1. \A j \in Index : /\ r.psHandleArray[j].bBatched = b.psHandleArray[j].bBatched
                         /\ r.psHandleArray[j].bPartiallyFree = b.psHandleArray[j].bPartiallyFree
                         /\ r.psHandleArray[j].eType = b.psHandleArray[j].eType
                         /\ r.psHandleArray[j].hParent = b.psHandleArray[j].hParent
    BY DEF GrowStep, Core
  <2>2. 0 \in Index
    BY Sizes
  <2> QED BY <1>1, <1>2, <1>9, <2>1, <2>2 DEF KindInv
<1>11. LoopInv(r, w)
  <2>1. /\ b.ui32FirstBatchIndexPlusOne <= b.ui32TotalHandCount /\ b.ui32FirstBatchIndexPlusOne \in Nat
        /\ b.ui32LastFreeIndexPlusOne <= b.ui32TotalHandCount /\ b.ui32LastFreeIndexPlusOne \in Nat
        /\ b.ui32TotalHandCount \in Nat
    BY <1>1, Sizes DEF LoopInv, Base, Handles
  <2>2. /\ r.ui32FirstBatchIndexPlusOne <= r.ui32TotalHandCount
        /\ r.ui32LastFreeIndexPlusOne <= r.ui32TotalHandCount
    BY <1>9, <2>1
  <2> QED BY <1>1, <1>9, <2>2 DEF LoopInv
<1>12. BatchInv(r, w, {}, S, bef, ow)
  <2>1. \A j \in Index : r.psHandleArray[j].hParent = b.psHandleArray[j].hParent
    BY <1>5 DEF SameHandles
  <2> QED BY <1>1, <1>2, <1>6, <1>9, <2>1 DEF BatchInv
<1> QED BY <1>1, <1>2, <1>4, <1>6, <1>7, <1>8, <1>10, <1>11, <1>12, HeldNone DEF HBInv

\* The new size of the array.
LEMMA GrowSize ==
  ASSUME NEW b \in Base, NEW delta \in Nat \ {0}, CanIncrease(b, delta)
  PROVE  /\ NewTotalHandCount(b, delta) \in Handles
         /\ b.ui32TotalHandCount < NewTotalHandCount(b, delta)
         /\ NewTotalHandCount(b, delta) - b.ui32TotalHandCount >= delta
<1>1. PICK q \in Int : q = (delta + HANDLE_BLOCK_SIZE - 1) \div HANDLE_BLOCK_SIZE
  BY ConstantsAssumption
<1>2. PICK x \in Int : x = q * HANDLE_BLOCK_SIZE
  BY ConstantsAssumption
<1>3. x = RoundUpToBlock(delta)
  BY <1>1, <1>2 DEF RoundUpToBlock
<1>4. PICK total : total = NewTotalHandCount(b, delta)
  OBVIOUS
<1>5. b.ui32TotalHandCount \in Nat /\ MaxHandle \in Nat
  BY Sizes
<1>6. total \in Int /\ total <= MaxHandle
  BY <1>3, <1>4, <1>5 DEF NewTotalHandCount
<1>7. total - b.ui32TotalHandCount >= delta
  BY <1>4 DEF CanIncrease
<1> QED BY <1>4, <1>5, <1>6, <1>7 DEF Handles

\* When the free list is empty the first free index is 0, and only then.
LEMMA FirstIsZero ==
  ASSUME NEW b \in Base, NEW w, NEW bef, NEW ow, NEW k, NEW S,
         HBInv(b, <<>>, w, bef, ow, k, S), w.loop = "none", FirstInv(b),
         k = "kernel" => b.ui32FreeHandCount = 0
  PROVE  /\ b.ui32FirstFreeIndex = 0 <=> b.ui32FreeHandCount = 0
         /\ ~b.bPurgingEnabled /\ b.ui32FreeHandCount # 0 =>
              b.ui32LastFreeIndexPlusOne - 1 \in Unheld(b, {}, S)
<1>1. KindInv(b, k, w, {}, S) /\ FreeInv(b, {}, S)
  BY HeldNone DEF HBInv
<1>2. CASE k = "kernel"
  BY <1>1, <1>2 DEF FirstInv, KindInv
<1>3. CASE k # "kernel"
  <2>1. k = "process" /\ ~b.bPurgingEnabled
    BY <1>1, <1>3, ConstantsAssumption DEF KindInv
  <2>2. Live(b, 0) /\ (b.ui32FreeHandCount = 0 => b.ui32FirstFreeIndex = 0)
    BY <1>1, <2>1 DEF KindInv
  <2>3. b.ui32FreeHandCount # 0 =>
          b.ui32FirstFreeIndex \in Unheld(b, {}, S) /\ b.ui32LastFreeIndexPlusOne - 1 \in Unheld(b, {}, S)
    <3>1. b.ui32FreeHandCount \in Nat
      BY Sizes
    <3> QED BY <1>1, <2>1, <3>1, FreeEnds DEF FreeInv
  <2>4. 0 \notin Unheld(b, {}, S)
    BY <2>2 DEF Unheld, Live
  <2> QED BY <2>2, <2>3, <2>4
<1> QED BY <1>2, <1>3

LEMMA GrowFields ==
  ASSUME NEW b \in Base, NEW w, NEW bef, NEW ow, NEW k, NEW S,
         HBInv(b, <<>>, w, bef, ow, k, S), w.loop = "none", FirstInv(b),
         NEW delta \in Nat \ {0}, CanIncrease(b, delta),
         k = "kernel" => b.ui32FreeHandCount = 0
  PROVE  GrowStep(b, IncreaseHandleArraySize(b, delta), NewTotalHandCount(b, delta))
<1>1. PICK old, total : old = b.ui32TotalHandCount /\ total = NewTotalHandCount(b, delta)
  OBVIOUS
<1>2. old \in Nat /\ old \in Handles /\ total \in Handles /\ total \in Nat /\ old < total /\ total <= MaxHandle
  BY <1>1, GrowSize, Sizes DEF Handles, Base
<1>3. /\ b.ui32FirstFreeIndex = 0 <=> b.ui32FreeHandCount = 0
      /\ ~b.bPurgingEnabled /\ b.ui32FreeHandCount # 0 =>
           b.ui32LastFreeIndexPlusOne - 1 \in Unheld(b, {}, S)
  BY FirstIsZero
<1>4. PICK A : A = b.psHandleArray
  OBVIOUS
<1>5. A \in [Index -> Slot]
  BY <1>4 DEF Base
<1>6. [i \in Index |-> IF i >= old /\ i < total THEN FreshSlot ELSE A[i]] = A
  <2>1. \A i \in Index : i >= old => A[i] = FreshSlot
    BY <1>1, <1>2, <1>4, Sizes DEF HBInv, FreshInv, Entries, Index
  <2> QED BY <1>5, <2>1
<1>7. PICK l : l = b.ui32LastFreeIndexPlusOne - 1
  OBVIOUS
<1>8. PICK D : D = IF b.ui32FirstFreeIndex # 0 /\ ~b.bPurgingEnabled
                   THEN [A EXCEPT ![l].ui32NextIndexPlusOne = old + 1] ELSE A
  OBVIOUS
<1>9. \A i \in Index : A[i] \in Slot
  BY <1>5
<1>10. old + 1 \in Handles
  BY <1>2, Sizes DEF Handles
<1>11. ~b.bPurgingEnabled /\ b.ui32FreeHandCount # 0 => l \in Index /\ l \in Entries(b)
  BY <1>3, <1>7, Sizes DEF Unheld
<1>12. D \in [Index -> Slot]
  <2>1. CASE b.ui32FirstFreeIndex # 0 /\ ~b.bPurgingEnabled
    <3>1. PICK s : s = [A[l] EXCEPT !.ui32NextIndexPlusOne = old + 1]
      OBVIOUS
    <3>2. l \in Index /\ A[l] \in Slot
      BY <1>3, <1>9, <1>11, <2>1
    <3>3. s \in Slot
      BY <1>10, <3>1, <3>2 DEF Slot
    <3>4. D = [A EXCEPT ![l] = s]
      BY <1>8, <2>1, <3>1
    <3> QED BY <1>5, <3>2, <3>3, <3>4
  <2>2. CASE ~(b.ui32FirstFreeIndex # 0 /\ ~b.bPurgingEnabled)
    BY <1>5, <1>8, <2>2
  <2> QED BY <2>1, <2>2
<1>13. \A j \in Index :
         /\ Core(D[j], A[j]) /\ D[j].hParent = A[j].hParent /\ D[j].children = A[j].children
         /\ D[j].ui32NextIndexPlusOne =
              IF ~b.bPurgingEnabled /\ b.ui32FreeHandCount # 0 /\ j = l THEN old + 1
              ELSE A[j].ui32NextIndexPlusOne
         /\ j \notin Entries(b) => D[j] = A[j]
  BY <1>3, <1>5, <1>8, <1>9, <1>11 DEF Slot, Core
<1>14. PICK fc, ff, fl :
         /\ fc = b.ui32FreeHandCount + (total - old)
         /\ ff = IF b.ui32FreeHandCount = 0 THEN old ELSE b.ui32FirstFreeIndex
         /\ fl = IF b.bPurgingEnabled THEN b.ui32LastFreeIndexPlusOne ELSE total
  OBVIOUS
<1>15. fc \in Handles /\ ff \in Index /\ fl \in Handles
  <2>1. b.ui32FreeHandCount \in Nat /\ b.ui32FreeHandCount <= old
    BY <1>1, HeldNone, UnheldFinite, Sizes DEF HBInv, FreeInv
  <2>2. MaxHandle \in Nat /\ b.ui32FirstFreeIndex \in Index /\ b.ui32LastFreeIndexPlusOne \in Handles
    BY Sizes DEF Base
  <2> QED BY <1>2, <1>14, <2>1, <2>2 DEF Handles, Index
<1>16. PICK r : r = [b EXCEPT !.psHandleArray = D, !.ui32FreeHandCount = fc,
                              !.ui32FirstFreeIndex = ff, !.ui32LastFreeIndexPlusOne = fl,
                              !.ui32TotalHandCount = total]
  OBVIOUS
<1>17. IncreaseHandleArraySize(b, delta) = r
  <2>1. IncreaseHandleArraySize(b, delta) =
          [b EXCEPT !.psHandleArray = D, !.ui32FreeHandCount = @ + (total - old),
                    !.ui32FirstFreeIndex = IF @ = 0 THEN old ELSE @,
                    !.ui32LastFreeIndexPlusOne = IF b.bPurgingEnabled THEN @ ELSE total,
                    !.ui32TotalHandCount = total]
    <3>1. PICK G : G = [i \in Index |-> IF i >= b.ui32TotalHandCount /\ i < NewTotalHandCount(b, delta)
                                       THEN FreshSlot ELSE b.psHandleArray[i]]
      OBVIOUS
    <3>2. G = A
      BY <1>1, <1>4, <1>6, <3>1
    <3>3. IncreaseHandleArraySize(b, delta) =
            [b EXCEPT !.psHandleArray = IF b.ui32FirstFreeIndex # 0 /\ ~b.bPurgingEnabled
                        THEN [G EXCEPT ![b.ui32LastFreeIndexPlusOne - 1].ui32NextIndexPlusOne
                                         = b.ui32TotalHandCount + 1]
                        ELSE G,
                      !.ui32FreeHandCount = @ + (NewTotalHandCount(b, delta) - b.ui32TotalHandCount),
                      !.ui32FirstFreeIndex = IF @ = 0 THEN b.ui32TotalHandCount ELSE @,
                      !.ui32LastFreeIndexPlusOne =
                         IF b.bPurgingEnabled THEN @ ELSE NewTotalHandCount(b, delta),
                      !.ui32TotalHandCount = NewTotalHandCount(b, delta)]
      BY <3>1 DEF IncreaseHandleArraySize
    <3> QED BY <1>1, <1>7, <1>8, <3>2, <3>3
  <2> QED BY <1>3, <1>14, <1>16, <2>1
<1>18. /\ r \in Base
       /\ r.psHandleArray = D /\ r.ui32FreeHandCount = fc /\ r.ui32FirstFreeIndex = ff
       /\ r.ui32LastFreeIndexPlusOne = fl /\ r.ui32TotalHandCount = total
       /\ r.bPurgingEnabled = b.bPurgingEnabled /\ r.ui32HandBatchSize = b.ui32HandBatchSize
       /\ r.ui32FirstBatchIndexPlusOne = b.ui32FirstBatchIndexPlusOne
       /\ r.ui32BatchHandAllocFailures = b.ui32BatchHandAllocFailures
       /\ r.psHashTab = b.psHashTab
  BY <1>2, <1>12, <1>15, <1>16 DEF Base
<1>19. GrowStep(b, r, total)
  BY <1>1, <1>2, <1>4, <1>7, <1>13, <1>14, <1>18 DEF GrowStep
<1> QED BY <1>1, <1>17, <1>19

\* Making room keeps the invariant and the handles.
LEMMA EnsureKeeps ==
  ASSUME NEW b \in Base, NEW w, NEW bef, NEW ow, NEW k, NEW S,
         HBInv(b, <<>>, w, bef, ow, k, S), w.loop = "none", FirstInv(b),
         NEW n \in Nat, CanEnsure(b, n), k = "kernel" => n = 1,
         NEW r, r = EnsureFreeHandles(b, n)
  PROVE  /\ r \in Base /\ HBInv(r, <<>>, w, bef, ow, k, S) /\ SameHandles(b, r)
         /\ n <= r.ui32FreeHandCount
         /\ r.bPurgingEnabled = b.bPurgingEnabled /\ r.ui32HandBatchSize = b.ui32HandBatchSize
         /\ r.ui32BatchHandAllocFailures = b.ui32BatchHandAllocFailures
         /\ \A j \in Index : Live(r, j) => r.psHandleArray[j].hParent = b.psHandleArray[j].hParent
         /\ k = "kernel" => \A i \in Unheld(r, {}, S) : r.ui32FirstFreeIndex <= i
<1>0. b.ui32FreeHandCount \in Nat /\ b.ui32TotalHandCount \in Nat
  BY Sizes
<1>1. CASE ~(n > b.ui32FreeHandCount)
  <2>1. r = b
    BY <1>1 DEF EnsureFreeHandles
  <2>2. SameHandles(b, b)
    BY DEF SameHandles
  <2>3. k = "kernel" => \A i \in Unheld(b, {}, S) : b.ui32FirstFreeIndex <= i
    <3>1. k = "kernel" => b.ui32FirstFreeIndex = 0
      BY DEF HBInv, KindInv, FirstInv
    <3>2. \A i \in Unheld(b, {}, S) : i \in Nat
      BY UnheldFinite, Sizes
    <3> QED BY <3>1, <3>2
  <2> QED BY <1>0, <1>1, <2>1, <2>2, <2>3
<1>2. CASE n > b.ui32FreeHandCount
  <2>1. PICK delta \in Nat \ {0} : delta = n - b.ui32FreeHandCount
    BY <1>0, <1>2
  <2>2. r = IncreaseHandleArraySize(b, delta) /\ CanIncrease(b, delta)
    BY <1>2, <2>1 DEF EnsureFreeHandles, CanEnsure
  <2>3. k = "kernel" => b.ui32FreeHandCount = 0
    BY <1>0, <1>2
  <2>4. PICK total : total = NewTotalHandCount(b, delta)
    OBVIOUS
  <2>5. GrowStep(b, r, total) /\ total - b.ui32TotalHandCount >= delta /\ total \in Handles
    BY <2>2, <2>3, <2>4, GrowFields, GrowSize
  <2>6. HBInv(r, <<>>, w, bef, ow, k, S)
    BY <2>5, GrowKeeps
  <2>7. \A j \in Index : Live(r, j) <=> Live(b, j)
    <3>1. /\ BatchLinked(Links(b), Start(b, w), S) /\ FreeInv(b, {}, S) /\ FreshInv(b)
          /\ S \subseteq Entries(b)
      BY HeldNone DEF HBInv, FlagInv
    <3> QED BY <2>5, <3>1, GrowLists
  <2>8. SameHandles(b, r)
    BY <2>5, <2>7 DEF SameHandles, GrowStep, Core
  <2>9. n <= r.ui32FreeHandCount
    BY <1>0, <2>1, <2>5, Sizes DEF GrowStep
  <2>10. k = "kernel" => \A i \in Unheld(r, {}, S) : r.ui32FirstFreeIndex <= i
    <3> SUFFICES ASSUME k = "kernel", NEW i \in Unheld(r, {}, S) PROVE r.ui32FirstFreeIndex <= i
      OBVIOUS
    <3>1. r.ui32FirstFreeIndex = b.ui32TotalHandCount
      BY <2>3, <2>5 DEF GrowStep
    <3>2. Unheld(b, {}, S) = {}
      <4>1. Cardinality(Unheld(b, {}, S)) = 0 /\ IsFiniteSet(Unheld(b, {}, S))
        BY <2>3, HeldNone, UnheldFinite DEF HBInv, FreeInv
      <4> QED BY <4>1, FS_EmptySet
    <3>3. i \in Index /\ i \in Nat /\ r.psHandleArray[i].eType = NONE /\ i \notin S
      <4>1. r \in Base
        BY <2>5 DEF GrowStep
      <4> QED BY <4>1, UnheldFinite, Sizes DEF Unheld
    <3>4. b.psHandleArray[i].eType = NONE
      BY <2>8, <3>3 DEF SameHandles
    <3>5. i \notin Entries(b)
      BY <3>2, <3>3, <3>4 DEF Unheld
    <3> QED BY <1>0, <3>1, <3>3, <3>5 DEF Entries
  <2> QED BY <2>5, <2>6, <2>8, <2>9, <2>10 DEF GrowStep, SameHandles
<1> QED BY <1>1, <1>2

\* There is no batch in the base of the kernel.
LEMMA NoBatch ==
  ASSUME NEW b, NEW st, NEW w, NEW bef, NEW ow, NEW k, NEW S,
         HBInv(b, st, w, bef, ow, k, S), b.ui32HandBatchSize = 0
  PROVE  S = {} /\ b.ui32FirstBatchIndexPlusOne = 0 /\ w.loop # "batch"
<1>1. w.loop # "batch" /\ b.ui32FirstBatchIndexPlusOne = 0
  BY DEF HBInv, LoopInv
<1>2. Start(b, w) = 0
  BY <1>1 DEF Start
<1>3. BatchLinked(Links(b), 0, S)
  BY <1>2 DEF HBInv
<1> QED BY <1>1, <1>3, BatchStart

\* The entry that AllocHandle takes is free.
LEMMA NewIndexFree ==
  ASSUME NEW b \in Base, NEW w, NEW bef, NEW ow, NEW k, NEW S,
         HBInv(b, <<>>, w, bef, ow, k, S), 1 <= b.ui32FreeHandCount,
         k = "kernel" => \A i \in Unheld(b, {}, S) : b.ui32FirstFreeIndex <= i
  PROVE  /\ NewIndex(b) \in Unheld(b, {}, S)
         /\ ~b.bPurgingEnabled => NewIndex(b) = b.ui32FirstFreeIndex
<1>1. FreeInv(b, {}, S) /\ KindInv(b, k, w, {}, S)
  BY HeldNone DEF HBInv
<1>2. CASE ~b.bPurgingEnabled
  <2>1. NewIndex(b) = b.ui32FirstFreeIndex
    BY <1>2 DEF NewIndex
  <2>2. b.ui32FreeHandCount \in Nat /\ b.ui32FreeHandCount # 0
    BY Sizes
  <2>3. b.ui32FirstFreeIndex \in Unheld(b, {}, S)
    BY <1>1, <1>2, <2>2, FreeEnds DEF FreeInv
  <2> QED BY <2>1, <2>3
<1>3. CASE b.bPurgingEnabled
  <2>1. /\ k = "kernel" /\ b.ui32HandBatchSize = 0
        /\ \A i \in Index : ~b.psHandleArray[i].bBatched /\ ~b.psHandleArray[i].bPartiallyFree
    BY <1>1, <1>3 DEF KindInv
  <2>2. S = {}
    BY <2>1, NoBatch
  <2>3. PICK free : free = {i \in b.ui32FirstFreeIndex..(b.ui32TotalHandCount - 1) :
                              StructIsFree(b.psHandleArray[i])}
    OBVIOUS
  <2>4. b.ui32TotalHandCount \in Nat /\ b.ui32FirstFreeIndex \in Nat /\ Entries(b) \subseteq Index
        /\ Index \subseteq Nat
    BY Sizes DEF Base
  <2>5. \A i : i \in free <=> i \in Unheld(b, {}, S)
    <3> TAKE i
    <3>1. ASSUME i \in free PROVE i \in Unheld(b, {}, S)
      <4>1. i \in Entries(b) /\ StructIsFree(b.psHandleArray[i])
        BY <2>3, <2>4, <3>1 DEF Entries
      <4> QED BY <2>2, <4>1 DEF Unheld, StructIsFree
    <3>2. ASSUME i \in Unheld(b, {}, S) PROVE i \in free
      <4>1. i \in Entries(b) /\ b.psHandleArray[i].eType = NONE /\ b.ui32FirstFreeIndex <= i
        BY <2>1, <3>2 DEF Unheld
      <4>2. StructIsFree(b.psHandleArray[i])
        BY <2>1, <2>4, <4>1 DEF StructIsFree
      <4>3. i \in b.ui32FirstFreeIndex..(b.ui32TotalHandCount - 1)
        BY <2>4, <4>1 DEF Entries
      <4> QED BY <2>3, <4>2, <4>3
    <3> QED BY <3>1, <3>2
  <2>6. free = Unheld(b, {}, S) /\ free # {} /\ free \subseteq Nat
    <3>1. free = Unheld(b, {}, S)
      BY <2>5, Zenon
    <3>2. Cardinality(Unheld(b, {}, S)) # 0
      BY <1>1 DEF FreeInv
    <3>3. Unheld(b, {}, S) # {}
      BY <3>2, FS_EmptySet
    <3>4. Unheld(b, {}, S) \subseteq Entries(b)
      BY UnheldFinite
    <3> QED BY <2>4, <3>1, <3>3, <3>4
  <2>7. NewIndex(b) = CHOOSE i \in free : \A j \in free : i <= j
    BY <1>3, <2>3, <2>6 DEF NewIndex
  <2>8. \E i \in free : \A j \in free : i <= j
    BY <2>6, LeastNumber
  <2>9. NewIndex(b) \in free
    BY <2>7, <2>8
  <2> QED BY <1>3, <2>6, <2>9
<1> QED BY <1>2, <1>3

\* The index after the one that AllocHandle takes.
LEMMA NextIsIndex ==
  ASSUME NEW b \in Base, NEW S, FreeInv(b, {}, S), NEW i, i \in Unheld(b, {}, S),
         ~b.bPurgingEnabled => i = b.ui32FirstFreeIndex
  PROVE  /\ i \in Index /\ i \in Entries(b)
         /\ NextFree(b, i) = Follows(Links(b), i)
         /\ ~b.bPurgingEnabled /\ b.ui32FreeHandCount - 1 # 0 => Follows(Links(b), i) \in Index
         /\ b.ui32FreeHandCount - 1 \in Handles
<1>1. i \in Entries(b) /\ i \in Index
  BY UnheldFinite, Sizes
<1>2. NextFree(b, i) = Follows(Links(b), i)
  BY <1>1 DEF NextFree, Follows, Links
<1>3. PICK n \in Nat : n = b.ui32FreeHandCount
  BY Sizes
<1>4. n # 0
  <2>1. Unheld(b, {}, S) # {} /\ IsFiniteSet(Unheld(b, {}, S))
    BY UnheldFinite
  <2>2. Cardinality(Unheld(b, {}, S)) # 0
    BY <2>1, FS_EmptySet
  <2> QED BY <1>3, <2>2 DEF FreeInv
<1>5. ASSUME ~b.bPurgingEnabled, n # 1 PROVE Follows(Links(b), i) \in Index
  <2>1. FreeLinked(Links(b), i, b.ui32LastFreeIndexPlusOne, n, Unheld(b, {}, S))
    BY <1>3, <1>5 DEF FreeInv
  <2>2. PICK F, nx, l, f : /\ F = Unheld(b, {}, S) /\ nx = Links(b)
                           /\ l = b.ui32LastFreeIndexPlusOne /\ f = Follows(Links(b), i)
    OBVIOUS
  <2>3. /\ FreeLinked(nx, i, l, n, F) /\ n # 0 /\ \A j \in F \ {i} : nx[j] = nx[j]
        /\ n # 1 => f = Follows(nx, i) /\ l = l
        /\ n \in Nat
    BY <1>4, <2>1, <2>2
  <2>4. FreeLinked(nx, f, l, n - 1, F \ {i}) /\ (n # 1 => f \in F \ {i})
    BY ONLY <2>3, FreeTake
  <2> QED BY <1>5, <2>2, <2>4, UnheldFinite, Sizes
<1>6. b.ui32FreeHandCount - 1 \in Handles
  BY <1>3, <1>4, Sizes DEF Base, Handles
<1> QED BY <1>1, <1>2, <1>3, <1>5, <1>6

LEMMA FreshFields ==
  /\ FreshSlot \in Slot
  /\ FreshSlot.eType = NONE /\ FreshSlot.hParent = 0 /\ FreshSlot.children = <<>>
  /\ FreshSlot.bPartiallyFree = FALSE /\ FreshSlot.bBatched = FALSE
  /\ FreshSlot.ui32NextIndexPlusOne = 0
<1>1. 0 \in Handles /\ <<>> \in Seq(Index)
  BY ConstantsAssumption DEF Handles
<1> QED BY <1>1 DEF FreshSlot, Slot

\* Entry i gets a handle; the key of the hash table has h for the parent.
PutStep(b, r, i, d, t, f, h) ==
  /\ r \in Base /\ Whole(b, r)
  /\ r.ui32FreeHandCount = b.ui32FreeHandCount - 1
  /\ r.ui32FirstFreeIndex =
       IF b.bPurgingEnabled \/ r.ui32FreeHandCount = 0 THEN 0 ELSE Follows(Links(b), i)
  /\ r.ui32LastFreeIndexPlusOne =
       IF ~b.bPurgingEnabled /\ r.ui32FreeHandCount = 0 THEN 0 ELSE b.ui32LastFreeIndexPlusOne
  /\ r.ui32FirstBatchIndexPlusOne =
       IF HandlesBatched(b) THEN i + 1 ELSE b.ui32FirstBatchIndexPlusOne
  /\ \A k \in Keys : r.psHashTab[k] =
       IF "MULTI" \notin f /\ k = <<d, t, h>> THEN i + 1 ELSE b.psHashTab[k]
  /\ r.psHandleArray[i].eType = t /\ r.psHandleArray[i].pvData = d
  /\ r.psHandleArray[i].eFlag = f /\ r.psHandleArray[i].bBatched = HandlesBatched(b)
  /\ r.psHandleArray[i].bPartiallyFree = FALSE
  /\ r.psHandleArray[i].ui32NextIndexPlusOne =
       IF HandlesBatched(b) THEN b.ui32FirstBatchIndexPlusOne ELSE 0
  /\ r.psHandleArray[i].hParent = 0 /\ r.psHandleArray[i].children = <<>>
  /\ \A j \in Index \ {i} : r.psHandleArray[j] = b.psHandleArray[j]

\* What AllocHandle writes.
LEMMA AllocFields ==
  ASSUME NEW b \in Base, NEW S, FreeInv(b, {}, S), NEW i, i = NewIndex(b), i \in Unheld(b, {}, S),
         ~b.bPurgingEnabled => i = b.ui32FirstFreeIndex,
         NEW d \in Data \cup {DevCookie}, NEW t \in AllTypes,
         NEW f \in SUBSET {"SHARED", "MULTI", "PRIVATE"}, NEW h \in Handles,
         NEW r, r = AllocHandle(b, d, t, f, h)
  PROVE  PutStep(b, r, i, d, t, f, h)
<1>1. /\ i \in Index /\ i \in Entries(b)
      /\ NextFree(b, i) = Follows(Links(b), i)
      /\ ~b.bPurgingEnabled /\ b.ui32FreeHandCount - 1 # 0 => Follows(Links(b), i) \in Index
      /\ b.ui32FreeHandCount - 1 \in Handles
  BY NextIsIndex
<1>2. i + 1 \in Handles /\ 0 \in Handles /\ 0 \in Index
  BY <1>1, HandleOfEntry, Sizes
<1>3. PICK left : left = b.ui32FreeHandCount - 1
  OBVIOUS
<1>4. PICK H : H = IF "MULTI" \in f THEN b.psHashTab ELSE [b.psHashTab EXCEPT ![<<d, t, h>>] = i + 1]
  OBVIOUS
<1>5. b.psHashTab \in [Keys -> Handles] /\ b.psHandleArray \in [Index -> Slot] /\ <<d, t, h>> \in Keys
  BY DEF Base, Keys
<1>6. H \in [Keys -> Handles]
  BY <1>2, <1>4, <1>5
<1>7. \A k \in Keys : H[k] = IF "MULTI" \notin f /\ k = <<d, t, h>> THEN i + 1 ELSE b.psHashTab[k]
  BY <1>4, <1>5
<1>8. PICK x \in BOOLEAN : x = HandlesBatched(b)
  BY DEF HandlesBatched
<1>9. PICK y : y = IF x THEN b.ui32FirstBatchIndexPlusOne ELSE 0
  OBVIOUS
<1>10. y \in Handles
  BY <1>2, <1>9 DEF Base
<1>11. PICK s : s = [FreshSlot EXCEPT !.eType = t, !.pvData = d, !.eFlag = f,
                                      !.bBatched = x, !.ui32NextIndexPlusOne = y]
  OBVIOUS
<1>12. /\ s \in Slot
       /\ s.eType = t /\ s.pvData = d /\ s.eFlag = f /\ s.bBatched = x
       /\ s.bPartiallyFree = FALSE
       /\ s.ui32NextIndexPlusOne = y /\ s.hParent = 0 /\ s.children = <<>>
  BY <1>10, <1>11, FreshFields DEF Slot
<1>13. PICK ff, fl, fb :
         /\ ff = IF b.bPurgingEnabled \/ left = 0 THEN 0 ELSE NextFree(b, i)
         /\ fl = IF ~b.bPurgingEnabled /\ left = 0 THEN 0 ELSE b.ui32LastFreeIndexPlusOne
         /\ fb = IF x THEN i + 1 ELSE b.ui32FirstBatchIndexPlusOne
  OBVIOUS
<1>14. left \in Handles /\ ff \in Index /\ fl \in Handles /\ fb \in Handles
  BY <1>1, <1>2, <1>3, <1>13 DEF Base
<1>15. PICK q : q = [b EXCEPT !.psHashTab = H, !.ui32FreeHandCount = left, !.ui32FirstFreeIndex = ff,
                              !.ui32LastFreeIndexPlusOne = fl, !.psHandleArray[i] = s,
                              !.ui32FirstBatchIndexPlusOne = fb]
  OBVIOUS
<1>16. r = q
  BY <1>3, <1>4, <1>8, <1>9, <1>11, <1>13, <1>15 DEF AllocHandle
<1>17. PICK D : D = [b.psHandleArray EXCEPT ![i] = s]
  OBVIOUS
<1>18. D \in [Index -> Slot] /\ D[i] = s /\ \A j \in Index \ {i} : D[j] = b.psHandleArray[j]
  BY <1>1, <1>5, <1>12, <1>17
<1>19. q = [b EXCEPT !.psHashTab = H, !.ui32FreeHandCount = left, !.ui32FirstFreeIndex = ff,
                     !.ui32LastFreeIndexPlusOne = fl, !.psHandleArray = D,
                     !.ui32FirstBatchIndexPlusOne = fb]
  BY <1>15, <1>17 DEF Base
<1>20. /\ q \in Base
       /\ q.psHandleArray = D /\ q.psHashTab = H /\ q.ui32FreeHandCount = left
       /\ q.ui32FirstFreeIndex = ff /\ q.ui32LastFreeIndexPlusOne = fl
       /\ q.ui32FirstBatchIndexPlusOne = fb /\ Whole(b, q)
  BY <1>6, <1>14, <1>18, <1>19 DEF Base, Whole
<1>21. r.psHandleArray[i] = s /\ \A j \in Index \ {i} : r.psHandleArray[j] = b.psHandleArray[j]
  BY <1>16, <1>18, <1>20
<1>22. \A k \in Keys : r.psHashTab[k] =
         IF "MULTI" \notin f /\ k = <<d, t, h>> THEN i + 1 ELSE b.psHashTab[k]
  BY <1>7, <1>16, <1>20
<1>23. /\ r \in Base /\ Whole(b, r) /\ r.ui32FreeHandCount = left /\ r.ui32FirstFreeIndex = ff
       /\ r.ui32LastFreeIndexPlusOne = fl /\ r.ui32FirstBatchIndexPlusOne = fb
  BY <1>16, <1>20
<1> QED BY <1>1, <1>3, <1>8, <1>9, <1>12, <1>13, <1>21, <1>22, <1>23 DEF PutStep

LEMMA AllocTopStep ==
  ASSUME NEW b \in Base, NEW S, FreeInv(b, {}, S), NEW i, i = NewIndex(b), i \in Unheld(b, {}, S),
         ~b.bPurgingEnabled => i = b.ui32FirstFreeIndex,
         NEW d \in Data \cup {DevCookie}, NEW t \in AllTypes,
         NEW f \in SUBSET {"SHARED", "MULTI", "PRIVATE"},
         NEW r, r = AllocHandle(b, d, t, f, 0)
  PROVE  AllocStep(b, r, i, d, t, f, 0)
<1>0. 0 \in Handles /\ i \in Index /\ i \in Entries(b)
  BY UnheldFinite, Sizes
<1>10. PutStep(b, r, i, d, t, f, 0)
  BY <1>0, AllocFields
<1>1. /\ r \in Base /\ Whole(b, r)
      /\ r.ui32FreeHandCount = b.ui32FreeHandCount - 1
      /\ r.ui32FirstFreeIndex =
           IF b.bPurgingEnabled \/ r.ui32FreeHandCount = 0 THEN 0 ELSE Follows(Links(b), i)
      /\ r.ui32LastFreeIndexPlusOne =
           IF ~b.bPurgingEnabled /\ r.ui32FreeHandCount = 0 THEN 0 ELSE b.ui32LastFreeIndexPlusOne
      /\ r.ui32FirstBatchIndexPlusOne =
           IF HandlesBatched(b) THEN i + 1 ELSE b.ui32FirstBatchIndexPlusOne
      /\ \A k \in Keys : r.psHashTab[k] =
           IF "MULTI" \notin f /\ k = <<d, t, 0>> THEN i + 1 ELSE b.psHashTab[k]
      /\ r.psHandleArray[i].eType = t /\ r.psHandleArray[i].pvData = d
      /\ r.psHandleArray[i].eFlag = f /\ r.psHandleArray[i].bBatched = HandlesBatched(b)
      /\ r.psHandleArray[i].bPartiallyFree = FALSE
      /\ r.psHandleArray[i].ui32NextIndexPlusOne =
           IF HandlesBatched(b) THEN b.ui32FirstBatchIndexPlusOne ELSE 0
      /\ r.psHandleArray[i].hParent = 0 /\ r.psHandleArray[i].children = <<>>
      /\ \A j \in Index \ {i} : r.psHandleArray[j] = b.psHandleArray[j]
  BY <1>10 DEF PutStep
<1>2. KeyFor(d, t, f, 0) = <<d, t, 0>>
  BY DEF KeyFor
<1> QED BY <1>0, <1>1, <1>2 DEF AllocStep, Core

LEMMA AllocSubStep ==
  ASSUME NEW b \in Base, NEW S, FreeInv(b, {}, S), NEW i, i = NewIndex(b), i \in Unheld(b, {}, S),
         ~b.bPurgingEnabled => i = b.ui32FirstFreeIndex,
         NEW d \in Data \cup {DevCookie}, NEW t \in AllTypes,
         NEW f \in SUBSET {"SHARED", "MULTI", "PRIVATE"},
         NEW p \in Handles, p # 0, Live(b, p - 1), NEW h, h = IF "PRIVATE" \in f THEN p ELSE 0,
         NEW r, r = AdoptChild(AllocHandle(b, d, t, f, h), p, i)
  PROVE  AllocStep(b, r, i, d, t, f, p)
<1>0. 0 \in Handles /\ i \in Index /\ i \in Entries(b) /\ h \in Handles
  BY UnheldFinite, Sizes
<1>1. PICK q : q = AllocHandle(b, d, t, f, h)
  OBVIOUS
<1>20. PutStep(b, q, i, d, t, f, h)
  BY <1>0, <1>1, AllocFields
<1>2. /\ q \in Base /\ Whole(b, q)
      /\ q.ui32FreeHandCount = b.ui32FreeHandCount - 1
      /\ q.ui32FirstFreeIndex =
           IF b.bPurgingEnabled \/ q.ui32FreeHandCount = 0 THEN 0 ELSE Follows(Links(b), i)
      /\ q.ui32LastFreeIndexPlusOne =
           IF ~b.bPurgingEnabled /\ q.ui32FreeHandCount = 0 THEN 0 ELSE b.ui32LastFreeIndexPlusOne
      /\ q.ui32FirstBatchIndexPlusOne =
           IF HandlesBatched(b) THEN i + 1 ELSE b.ui32FirstBatchIndexPlusOne
      /\ \A k \in Keys : q.psHashTab[k] =
           IF "MULTI" \notin f /\ k = <<d, t, h>> THEN i + 1 ELSE b.psHashTab[k]
      /\ q.psHandleArray[i].eType = t /\ q.psHandleArray[i].pvData = d
      /\ q.psHandleArray[i].eFlag = f /\ q.psHandleArray[i].bBatched = HandlesBatched(b)
      /\ q.psHandleArray[i].bPartiallyFree = FALSE
      /\ q.psHandleArray[i].ui32NextIndexPlusOne =
           IF HandlesBatched(b) THEN b.ui32FirstBatchIndexPlusOne ELSE 0
      /\ q.psHandleArray[i].hParent = 0 /\ q.psHandleArray[i].children = <<>>
      /\ \A j \in Index \ {i} : q.psHandleArray[j] = b.psHandleArray[j]
  BY <1>20 DEF PutStep
<1>3. KeyFor(d, t, f, p) = <<d, t, h>>
  BY DEF KeyFor
<1>4. PICK m : m = p - 1
  OBVIOUS
<1>5. m \in Index /\ m # i /\ m \in Entries(b)
  BY <1>4, Sizes DEF Live, Unheld
<1>6. PICK Q : Q = q.psHandleArray
  OBVIOUS
<1>7. Q \in [Index -> Slot] /\ Q[i] \in Slot /\ Q[m] \in Slot
  BY <1>0, <1>2, <1>5, <1>6 DEF Base
<1>8. PICK s : s = [Q[i] EXCEPT !.hParent = p]
  OBVIOUS
<1>9. PICK u : u = [Q[m] EXCEPT !.children = Append(Q[m].children, i)]
  OBVIOUS
<1>10. /\ s \in Slot /\ Core(s, Q[i]) /\ s.hParent = p /\ s.children = Q[i].children
       /\ s.ui32NextIndexPlusOne = Q[i].ui32NextIndexPlusOne
  BY <1>7, <1>8 DEF Slot, Core
<1>11. /\ u \in Slot /\ Core(u, Q[m]) /\ u.hParent = Q[m].hParent
       /\ u.children = Append(Q[m].children, i)
       /\ u.ui32NextIndexPlusOne = Q[m].ui32NextIndexPlusOne
  <2>1. Append(Q[m].children, i) \in Seq(Index)
    <3>1. Q[m].children \in Seq(Index)
      BY <1>7 DEF Slot
    <3> QED BY <1>0, <3>1
  <2> QED BY <1>7, <1>9, <2>1 DEF Slot, Core
<1>12. PICK D : D = [[Q EXCEPT ![i] = s] EXCEPT ![m] = u]
  OBVIOUS
<1>13. D \in [Index -> Slot] /\ D[i] = s /\ D[m] = u /\ \A j \in Index : j # i /\ j # m => D[j] = Q[j]
  BY <1>0, <1>5, <1>7, <1>10, <1>11, <1>12
<1>14. r = [q EXCEPT !.psHandleArray = D]
  <2>1. PICK q1 : q1 = [q EXCEPT !.psHandleArray[i].hParent = p]
    OBVIOUS
  <2>2. r = [q1 EXCEPT !.psHandleArray[m].children = Append(q.psHandleArray[m].children, i)]
    <3>1. PICK v : v = Append(q.psHandleArray[m].children, i)
      OBVIOUS
    <3>2. r = [q EXCEPT !.psHandleArray[i].hParent = p, !.psHandleArray[m].children = v]
      BY <1>1, <1>4, <3>1 DEF AdoptChild
    <3>3. r = [q1 EXCEPT !.psHandleArray[m].children = v]
      BY <2>1, <3>2, Zenon
    <3> QED BY <3>1, <3>3
  <2>3. PICK D1 : D1 = [Q EXCEPT ![i] = s]
    OBVIOUS
  <2>4. q1 = [q EXCEPT !.psHandleArray = D1]
    BY <1>2, <1>6, <1>8, <2>1, <2>3 DEF Base
  <2>5. D1[m] = Q[m] /\ D = [D1 EXCEPT ![m] = u] /\ q1.psHandleArray = D1
    BY <1>2, <1>5, <1>7, <1>12, <2>3, <2>4 DEF Base
  <2>6. r = [q1 EXCEPT !.psHandleArray = [D1 EXCEPT ![m] = u]]
    BY <1>6, <1>9, <2>2, <2>5
  <2>7. r = [q1 EXCEPT !.psHandleArray = D]
    BY <2>5, <2>6
  <2> QED BY <1>2, <2>4, <2>7 DEF Base
<1>15. /\ r \in Base /\ r.psHandleArray = D /\ Whole(q, r) /\ r.psHashTab = q.psHashTab
       /\ r.ui32FreeHandCount = q.ui32FreeHandCount /\ r.ui32FirstFreeIndex = q.ui32FirstFreeIndex
       /\ r.ui32LastFreeIndexPlusOne = q.ui32LastFreeIndexPlusOne
       /\ r.ui32FirstBatchIndexPlusOne = q.ui32FirstBatchIndexPlusOne
  BY <1>2, <1>13, <1>14 DEF Base, Whole
<1>16. /\ r.psHandleArray[i].eType = t /\ r.psHandleArray[i].pvData = d
       /\ r.psHandleArray[i].eFlag = f /\ r.psHandleArray[i].bBatched = HandlesBatched(b)
       /\ r.psHandleArray[i].bPartiallyFree = FALSE
       /\ r.psHandleArray[i].ui32NextIndexPlusOne =
            IF HandlesBatched(b) THEN b.ui32FirstBatchIndexPlusOne ELSE 0
       /\ r.psHandleArray[i].hParent = p /\ r.psHandleArray[i].children = <<>>
  BY <1>2, <1>6, <1>10, <1>13, <1>15 DEF Core
<1>17. \A j \in Index \ {i} :
         /\ Core(r.psHandleArray[j], b.psHandleArray[j])
         /\ r.psHandleArray[j].ui32NextIndexPlusOne = b.psHandleArray[j].ui32NextIndexPlusOne
         /\ r.psHandleArray[j].hParent = b.psHandleArray[j].hParent
         /\ r.psHandleArray[j].children =
              IF p # 0 /\ j = p - 1 THEN Append(b.psHandleArray[j].children, i)
              ELSE b.psHandleArray[j].children
  <2> TAKE j \in Index \ {i}
  <2>1. Q[j] = b.psHandleArray[j]
    BY <1>2, <1>6
  <2>2. CASE j = m
    BY <1>4, <1>11, <1>13, <1>15, <2>1, <2>2
  <2>3. CASE j # m
    BY <1>4, <1>13, <1>15, <2>1, <2>3 DEF Core
  <2> QED BY <2>2, <2>3
<1>18. \A j \in Index : j \notin Entries(b) => r.psHandleArray[j] = b.psHandleArray[j]
  BY <1>0, <1>2, <1>5, <1>6, <1>13, <1>15
<1>19. Whole(b, r)
  BY <1>2, <1>15 DEF Whole
<1>21. /\ r.ui32FreeHandCount = b.ui32FreeHandCount - 1
       /\ r.ui32FirstFreeIndex =
            IF b.bPurgingEnabled \/ r.ui32FreeHandCount = 0 THEN 0 ELSE Follows(Links(b), i)
       /\ r.ui32LastFreeIndexPlusOne =
            IF ~b.bPurgingEnabled /\ r.ui32FreeHandCount = 0 THEN 0 ELSE b.ui32LastFreeIndexPlusOne
       /\ r.ui32FirstBatchIndexPlusOne =
            IF HandlesBatched(b) THEN i + 1 ELSE b.ui32FirstBatchIndexPlusOne
  BY <1>2, <1>15
<1>22. \A k \in Keys : r.psHashTab[k] =
         IF "MULTI" \notin f /\ k = KeyFor(d, t, f, p) THEN i + 1 ELSE b.psHashTab[k]
  BY <1>2, <1>3, <1>15
<1>23. r \in Base
  BY <1>15
<1> QED BY <1>16, <1>17, <1>18, <1>19, <1>21, <1>22, <1>23, Zenon DEF AllocStep

\* The invariant of a base, whatever its batch.
Good(b, st, w, bef, ow, k) ==
  FirstInv(b) /\ \E S \in SUBSET Index : HBInv(b, st, w, bef, ow, k, S)

LEMMA GoodIf ==
  ASSUME NEW b, NEW st, NEW w, NEW bef, NEW ow, NEW k, NEW S,
         HBInv(b, st, w, bef, ow, k, S), FirstInv(b)
  PROVE  Good(b, st, w, bef, ow, k)
<1>1. S \in SUBSET Index
  BY BatchStart DEF HBInv
<1> QED BY <1>1 DEF Good

\* AllocHandle from the search for room on.
LEMMA TopKeeps ==
  ASSUME NEW b \in Base, NEW w, NEW bef, NEW ow, NEW k, NEW S,
         HBInv(b, <<>>, w, bef, ow, k, S), w.loop = "none", FirstInv(b), CanEnsure(b, 1),
         NEW d \in Data \cup {DevCookie}, NEW t \in AllTypes,
         NEW f \in SUBSET {"SHARED", "MULTI", "PRIVATE"}, "PRIVATE" \notin f,
         "MULTI" \notin f => b.psHashTab[<<d, t, 0>>] = 0
  PROVE  /\ Good(AllocHandle(EnsureFreeHandles(b, 1), d, t, f, 0), <<>>, w, bef, ow, k)
         /\ SameObjects(b, AllocHandle(EnsureFreeHandles(b, 1), d, t, f, 0))
<1>1. PICK m : m = EnsureFreeHandles(b, 1)
  OBVIOUS
<1>2. /\ m \in Base /\ HBInv(m, <<>>, w, bef, ow, k, S) /\ SameHandles(b, m)
      /\ 1 <= m.ui32FreeHandCount
      /\ k = "kernel" => \A i \in Unheld(m, {}, S) : m.ui32FirstFreeIndex <= i
  BY <1>1, EnsureKeeps
<1>3. PICK i : i = NewIndex(m)
  OBVIOUS
<1>4. i \in Unheld(m, {}, S) /\ (~m.bPurgingEnabled => i = m.ui32FirstFreeIndex)
  BY <1>2, <1>3, NewIndexFree
<1>5. PICK r : r = AllocHandle(m, d, t, f, 0)
  OBVIOUS
<1>6. FreeInv(m, {}, S)
  BY <1>2, HeldNone DEF HBInv
<1>7. AllocStep(m, r, i, d, t, f, 0)
  BY <1>2, <1>3, <1>4, <1>5, <1>6, AllocTopStep
<1>8. MayAlloc(m, k, S, i, d, t, f, 0)
  <2>1. m.psHashTab = b.psHashTab
    BY <1>2 DEF SameHandles
  <2>2. KeyFor(d, t, f, 0) = <<d, t, 0>> /\ 0 \in Handles
    BY Sizes DEF KeyFor
  <2> QED BY <1>4, <2>1, <2>2 DEF MayAlloc
<1>9. FirstInv(r) /\ HBInv(r, <<>>, w, bef, ow, k, AllocBatch(m, S, i))
  BY <1>2, <1>7, <1>8, AllocKeeps
<1>10. Good(r, <<>>, w, bef, ow, k)
  BY <1>9, GoodIf
<1>11. SameObjects(b, r)
  <2>1. ~Live(m, i)
    BY <1>2, <1>7, <1>8, AllocLive
  <2> QED BY <1>2, <1>7, <2>1 DEF SameObjects, SameHandles, AllocStep, Core
<1> QED BY <1>1, <1>5, <1>10, <1>11

LEMMA SubKeeps ==
  ASSUME NEW b \in Base, NEW w, NEW bef, NEW ow, NEW k, NEW S,
         HBInv(b, <<>>, w, bef, ow, k, S), w.loop = "none", FirstInv(b), CanEnsure(b, 1),
         NEW d \in Data \cup {DevCookie}, NEW t \in AllTypes,
         NEW f \in SUBSET {"SHARED", "MULTI", "PRIVATE"},
         NEW p \in Handles, InUse(b, p), NEW h, h = IF "PRIVATE" \in f THEN p ELSE 0,
         "MULTI" \notin f => b.psHashTab[<<d, t, h>>] = 0,
         NEW m, m = EnsureFreeHandles(b, 1)
  PROVE  /\ Good(AdoptChild(AllocHandle(m, d, t, f, h), p, NewIndex(m)), <<>>, w, bef, ow, k)
         /\ SameObjects(b, AdoptChild(AllocHandle(m, d, t, f, h), p, NewIndex(m)))
<1>2. /\ m \in Base /\ HBInv(m, <<>>, w, bef, ow, k, S) /\ SameHandles(b, m)
      /\ 1 <= m.ui32FreeHandCount
      /\ k = "kernel" => \A i \in Unheld(m, {}, S) : m.ui32FirstFreeIndex <= i
  BY EnsureKeeps
<1>3. PICK i : i = NewIndex(m)
  OBVIOUS
<1>4. i \in Unheld(m, {}, S) /\ (~m.bPurgingEnabled => i = m.ui32FirstFreeIndex)
  BY <1>2, <1>3, NewIndexFree
<1>5. PICK r : r = AdoptChild(AllocHandle(m, d, t, f, h), p, i)
  OBVIOUS
<1>6. FreeInv(m, {}, S)
  BY <1>2, HeldNone DEF HBInv
<1>61. p # 0 /\ Live(m, p - 1)
  <2>1. p # 0 /\ p - 1 \in Index /\ Live(b, p - 1)
    BY HandleOfEntry DEF InUse
  <2> QED BY <1>2, <2>1 DEF SameHandles
<1>7. AllocStep(m, r, i, d, t, f, p)
  BY <1>2, <1>3, <1>4, <1>5, <1>6, <1>61, AllocSubStep
<1>8. MayAlloc(m, k, S, i, d, t, f, p)
  <2>1. m.psHashTab = b.psHashTab
    BY <1>2 DEF SameHandles
  <2>2. KeyFor(d, t, f, p) = <<d, t, h>>
    BY DEF KeyFor
  <2> QED BY <1>4, <1>61, <2>1, <2>2 DEF MayAlloc
<1>9. FirstInv(r) /\ HBInv(r, <<>>, w, bef, ow, k, AllocBatch(m, S, i))
  BY <1>2, <1>7, <1>8, AllocKeeps
<1>10. Good(r, <<>>, w, bef, ow, k)
  BY <1>9, GoodIf
<1>11. SameObjects(b, r)
  <2>1. ~Live(m, i)
    BY <1>2, <1>7, <1>8, AllocLive
  <2> QED BY <1>2, <1>7, <2>1 DEF SameObjects, SameHandles, AllocStep, Core
<1> QED BY <1>3, <1>5, <1>10, <1>11

\* Steps that change no more than the count of the failures and where the
\* kernel's search starts.
LEMMA CountersKeep ==
  ASSUME NEW b \in Base, NEW r \in Base, NEW st, NEW w, NEW bef, NEW ow, NEW k, NEW S,
         HBInv(b, st, w, bef, ow, k, S),
         r.psHandleArray = b.psHandleArray, r.psHashTab = b.psHashTab,
         Whole(b, r), r.ui32FreeHandCount = b.ui32FreeHandCount,
         r.ui32LastFreeIndexPlusOne = b.ui32LastFreeIndexPlusOne,
         r.ui32FirstBatchIndexPlusOne = b.ui32FirstBatchIndexPlusOne,
         ~b.bPurgingEnabled => r.ui32FirstFreeIndex = b.ui32FirstFreeIndex
  PROVE  HBInv(r, st, w, bef, ow, k, S)
<1>1. /\ Entries(r) = Entries(b) /\ Links(r) = Links(b) /\ Start(r, w) = Start(b, w)
      /\ \A j : Live(r, j) <=> Live(b, j)
      /\ r.bPurgingEnabled = b.bPurgingEnabled /\ r.ui32HandBatchSize = b.ui32HandBatchSize
      /\ r.ui32TotalHandCount = b.ui32TotalHandCount
  BY DEF Whole, Entries, Live, Links, Start
<1>2. PICK T : T = Held(st)
  OBVIOUS
<1>3. /\ KindInv(b, k, w, T, S) /\ LoopInv(b, w) /\ FreshInv(b)
      /\ BatchLinked(Links(b), Start(b, w), S)
      /\ FreeInv(b, T, S) /\ FlagInv(b, T, S) /\ HashInv(b, T) /\ TreeInv(b) /\ StackInv(b, st)
      /\ BatchInv(b, w, T, S, bef, ow)
  BY <1>2 DEF HBInv
<1>4. SameHandles(b, r)
  BY <1>1 DEF SameHandles
<1>5. HashInv(r, T) /\ TreeInv(r) /\ HandlesInUse(r) = HandlesInUse(b)
  BY <1>3, <1>4, SameKeeps
<1>6. KindInv(r, k, w, T, S)
  <2>1. k = "process" => ~b.bPurgingEnabled
    BY <1>3 DEF KindInv
  <2> QED BY <1>1, <1>3, <2>1 DEF KindInv
<1>7. LoopInv(r, w) /\ FreshInv(r)
  BY <1>1, <1>3 DEF LoopInv, FreshInv
<1>8. BatchLinked(Links(r), Start(r, w), S)
  BY <1>1, <1>3
<1>9. FreeInv(r, T, S)
  <2>1. Unheld(r, T, S) = Unheld(b, T, S)
    BY <1>1 DEF Unheld
  <2> QED BY <1>1, <1>3, <2>1 DEF FreeInv
<1>10. FlagInv(r, T, S)
  BY <1>1, <1>3 DEF FlagInv
<1>11. StackInv(r, st)
  BY <1>1, <1>3 DEF StackInv
<1>12. BatchInv(r, w, T, S, bef, ow)
  BY <1>1, <1>3, <1>5 DEF BatchInv
<1> QED BY <1>2, <1>5, <1>6, <1>7, <1>8, <1>9, <1>10, <1>11, <1>12 DEF HBInv

-----------------------------------------------------------------------------
(***************************************************************************)
(* The calls that allocate.                                                *)
(***************************************************************************)

LEMMA HInvIs ==
  /\ HInv <=> Good(psBase, todo, walk, before, owed, kind)
  /\ HInv' <=> Good(psBase', todo', walk', before', owed', kind')
BY DEF HInv, Good

\* A failure is counted.
LEMMA FailKeeps ==
  ASSUME NEW b \in Base, NEW st, NEW w, NEW bef, NEW ow, NEW k, Good(b, st, w, bef, ow, k),
         HandlesBatched(b) => b.ui32BatchHandAllocFailures < MaxFailures
  PROVE  Good(AllocFails(b), st, w, bef, ow, k)
<1>1. CASE ~HandlesBatched(b)
  BY <1>1 DEF AllocFails
<1>2. CASE HandlesBatched(b)
  <2>1. PICK n : n = b.ui32BatchHandAllocFailures + 1
    OBVIOUS
  <2>2. n \in 0..MaxFailures
    BY <1>2, <2>1, ConstantsAssumption DEF Base
  <2>3. PICK r : r = [b EXCEPT !.ui32BatchHandAllocFailures = n]
    OBVIOUS
  <2>4. AllocFails(b) = r
    BY <1>2, <2>1, <2>3 DEF AllocFails
  <2>5. /\ r \in Base /\ r.psHandleArray = b.psHandleArray /\ r.psHashTab = b.psHashTab
        /\ Whole(b, r) /\ r.ui32FreeHandCount = b.ui32FreeHandCount
        /\ r.ui32LastFreeIndexPlusOne = b.ui32LastFreeIndexPlusOne
        /\ r.ui32FirstBatchIndexPlusOne = b.ui32FirstBatchIndexPlusOne
        /\ r.ui32FirstFreeIndex = b.ui32FirstFreeIndex
    BY <2>2, <2>3 DEF Base, Whole
  <2>6. PICK S \in SUBSET Index : HBInv(b, st, w, bef, ow, k, S)
    BY DEF Good
  <2>7. HBInv(r, st, w, bef, ow, k, S)
    BY <2>5, <2>6, CountersKeep
  <2>8. FirstInv(r)
    BY <2>5 DEF Good, FirstInv, Whole
  <2> QED BY <2>4, <2>7, <2>8, GoodIf
<1> QED BY <1>1, <1>2

LEMMA FailFields ==
  ASSUME NEW b \in Base
  PROVE  AllocFails(b).psHandleArray = b.psHandleArray /\ SameObjects(b, AllocFails(b))
<1>1. AllocFails(b).psHandleArray = b.psHandleArray
  BY DEF AllocFails, Base
<1> QED BY <1>1 DEF SameObjects

\* The array has grown, but the hash table has no memory.
LEMMA LateFailKeeps ==
  ASSUME NEW b \in Base, NEW w, NEW bef, NEW ow, NEW k, NEW S,
         HBInv(b, <<>>, w, bef, ow, k, S), w.loop = "none", FirstInv(b), CanEnsure(b, 1),
         HandlesBatched(b) => b.ui32BatchHandAllocFailures < MaxFailures,
         NEW g, g = AllocFails([EnsureFreeHandles(b, 1) EXCEPT
                                  !.ui32FirstFreeIndex = IF b.bPurgingEnabled THEN 0 ELSE @])
  PROVE  Good(g, <<>>, w, bef, ow, k) /\ SameObjects(b, g)
<1>1. PICK m : m = EnsureFreeHandles(b, 1)
  OBVIOUS
<1>2. /\ m \in Base /\ HBInv(m, <<>>, w, bef, ow, k, S) /\ SameHandles(b, m)
      /\ m.bPurgingEnabled = b.bPurgingEnabled /\ m.ui32HandBatchSize = b.ui32HandBatchSize
      /\ m.ui32BatchHandAllocFailures = b.ui32BatchHandAllocFailures
  BY <1>1, EnsureKeeps
<1>3. PICK x : x = IF b.bPurgingEnabled THEN 0 ELSE m.ui32FirstFreeIndex
  OBVIOUS
<1>4. x \in Index
  BY <1>2, <1>3, Sizes DEF Base
<1>5. PICK r : r = [m EXCEPT !.ui32FirstFreeIndex = x]
  OBVIOUS
<1>6. r = [EnsureFreeHandles(b, 1) EXCEPT !.ui32FirstFreeIndex = IF b.bPurgingEnabled THEN 0 ELSE @]
  BY <1>1, <1>3, <1>5
<1>7. /\ r \in Base /\ r.psHandleArray = m.psHandleArray /\ r.psHashTab = m.psHashTab
      /\ Whole(m, r) /\ r.ui32FreeHandCount = m.ui32FreeHandCount
      /\ r.ui32LastFreeIndexPlusOne = m.ui32LastFreeIndexPlusOne
      /\ r.ui32FirstBatchIndexPlusOne = m.ui32FirstBatchIndexPlusOne
      /\ r.ui32FirstFreeIndex = x
      /\ r.ui32BatchHandAllocFailures = m.ui32BatchHandAllocFailures
  BY <1>2, <1>4, <1>5 DEF Base, Whole
<1>8. HBInv(r, <<>>, w, bef, ow, k, S)
  <2>1. ~m.bPurgingEnabled => r.ui32FirstFreeIndex = m.ui32FirstFreeIndex
    BY <1>2, <1>3, <1>7
  <2> QED BY <1>2, <1>7, <2>1, CountersKeep
<1>9. FirstInv(r)
  BY <1>2, <1>3, <1>7 DEF FirstInv, Whole
<1>10. Good(r, <<>>, w, bef, ow, k)
  BY <1>8, <1>9, GoodIf
<1>11. HandlesBatched(r) => r.ui32BatchHandAllocFailures < MaxFailures
  BY <1>2, <1>7 DEF HandlesBatched, Whole
<1>12. Good(AllocFails(r), <<>>, w, bef, ow, k)
  BY <1>7, <1>10, <1>11, FailKeeps
<1>13. SameObjects(b, AllocFails(r))
  <2>1. AllocFails(r).psHandleArray = m.psHandleArray
    BY <1>7, FailFields
  <2> QED BY <1>2, <2>1 DEF SameObjects, SameHandles
<1> QED BY <1>6, <1>12, <1>13

LEMMA FailsKeep ==
  ASSUME HInv, Idle, NEW f, AllocHandleFails(f), UNCHANGED <<todo, walk, before, owed, kind>>
  PROVE  HInv' /\ SameObjects(psBase, psBase')
<1>1. PICK S \in SUBSET Index : HBInv(psBase, <<>>, walk, before, owed, kind, S)
  BY DEF HInv, Idle
<1>2. psBase \in Base /\ FirstInv(psBase) /\ walk.loop = "none" /\ todo = <<>>
  BY <1>1 DEF HBInv, HInv, Idle
<1>3. HandlesBatched(psBase) => psBase.ui32BatchHandAllocFailures < MaxFailures
  BY DEF AllocHandleFails, MayFail
<1>4. Good(psBase', <<>>, walk, before, owed, kind) /\ SameObjects(psBase, psBase')
  <2>1. CASE psBase' = AllocFails(psBase)
    <3>1. Good(psBase, <<>>, walk, before, owed, kind)
      BY <1>1, <1>2, GoodIf
    <3> QED BY <1>2, <1>3, <2>1, <3>1, FailKeeps, FailFields
  <2>2. CASE /\ CanEnsure(psBase, 1)
             /\ psBase' = AllocFails([EnsureFreeHandles(psBase, 1) EXCEPT
                                       !.ui32FirstFreeIndex = IF psBase.bPurgingEnabled THEN 0 ELSE @])
    BY <1>1, <1>2, <1>3, <2>2, LateFailKeeps
  <2> QED BY <2>1, <2>2 DEF AllocHandleFails
<1> QED BY <1>2, <1>4, HInvIs

LEMMA FailHere ==
  ASSUME HInv, Idle, MayFail, psBase' = AllocFails(psBase), UNCHANGED <<todo, walk, before, owed, kind>>
  PROVE  HInv' /\ SameObjects(psBase, psBase')
<1>1. Good(psBase, todo, walk, before, owed, kind) /\ psBase \in Base
  BY HInvIs DEF Good, HBInv
<1>2. Good(psBase', todo, walk, before, owed, kind)
  BY <1>1, FailKeeps DEF MayFail
<1> QED BY <1>1, <1>2, HInvIs, FailFields

\* PVRSRVAllocHandle keeps the invariant.
LEMMA KeepsAllocHandle ==
  ASSUME HInv, NEW d \in Data \cup {DevCookie}, NEW t \in AllTypes,
         NEW f \in SUBSET {"SHARED", "MULTI", "PRIVATE"}, "PRIVATE" \notin f,
         PVRSRVAllocHandle(d, t, f)
  PROVE  HInv' /\ SameObjects(psBase, psBase')
<1>1. PICK S \in SUBSET Index : HBInv(psBase, <<>>, walk, before, owed, kind, S)
  BY DEF HInv, PVRSRVAllocHandle, Idle
<1>2. psBase \in Base /\ FirstInv(psBase) /\ walk.loop = "none" /\ todo = <<>> /\ Idle
  BY <1>1 DEF HBInv, HInv, PVRSRVAllocHandle, Idle
<1>3. UNCHANGED <<todo, walk, before, owed, kind>>
  BY DEF PVRSRVAllocHandle
<1>4. PICK found : found = IF "MULTI" \in f THEN 0 ELSE FindHandle(psBase, d, t, 0)
  OBVIOUS
<1>5. \/ UNCHANGED psBase
      \/ MayFail /\ psBase' = AllocFails(psBase)
      \/ /\ found = 0 /\ CanEnsure(psBase, 1)
         /\ psBase' = AllocHandle(EnsureFreeHandles(psBase, 1), d, t, f, 0)
      \/ AllocHandleFails(f)
  BY <1>4 DEF PVRSRVAllocHandle
<1>6. CASE UNCHANGED psBase
  BY <1>3, <1>6, HInvIs DEF SameObjects
<1>7. CASE MayFail /\ psBase' = AllocFails(psBase)
  BY <1>2, <1>3, <1>7, FailHere
<1>8. CASE /\ found = 0 /\ CanEnsure(psBase, 1)
           /\ psBase' = AllocHandle(EnsureFreeHandles(psBase, 1), d, t, f, 0)
  <2>1. "MULTI" \notin f => psBase.psHashTab[<<d, t, 0>>] = 0
    BY <1>4, <1>8 DEF FindHandle
  <2>2. /\ Good(AllocHandle(EnsureFreeHandles(psBase, 1), d, t, f, 0), <<>>, walk, before, owed, kind)
        /\ SameObjects(psBase, AllocHandle(EnsureFreeHandles(psBase, 1), d, t, f, 0))
    BY <1>1, <1>2, <1>8, <2>1, TopKeeps
  <2> QED BY <1>2, <1>3, <1>8, <2>2, HInvIs
<1>9. CASE AllocHandleFails(f)
  BY <1>2, <1>3, <1>9, FailsKeep
<1> QED BY <1>5, <1>6, <1>7, <1>8, <1>9

\* PVRSRVAllocSubHandle keeps the invariant.
LEMMA KeepsAllocSubHandle ==
  ASSUME HInv, NEW d \in Data, NEW t \in Types, NEW f \in SubAllocFlags, NEW hParent \in Handles,
         PVRSRVAllocSubHandle(d, t, f, hParent)
  PROVE  HInv' /\ SameObjects(psBase, psBase')
<1>1. PICK S \in SUBSET Index : HBInv(psBase, <<>>, walk, before, owed, kind, S)
  BY DEF HInv, PVRSRVAllocSubHandle, Idle
<1>2. psBase \in Base /\ FirstInv(psBase) /\ walk.loop = "none" /\ todo = <<>> /\ Idle
  BY <1>1 DEF HBInv, HInv, PVRSRVAllocSubHandle, Idle
<1>3. UNCHANGED <<todo, walk, before, owed, kind>>
  BY DEF PVRSRVAllocSubHandle
<1>4. PICK h : h = IF "PRIVATE" \in f THEN hParent ELSE 0
  OBVIOUS
<1>5. PICK found : found = IF "MULTI" \in f THEN 0 ELSE FindHandle(psBase, d, t, h)
  OBVIOUS
<1>6. \/ UNCHANGED psBase
      \/ MayFail /\ psBase' = AllocFails(psBase)
      \/ /\ InUse(psBase, hParent) /\ found = 0 /\ CanEnsure(psBase, 1)
         /\ psBase' = AdoptChild(AllocHandle(EnsureFreeHandles(psBase, 1), d, t, f, h), hParent,
                                 NewIndex(EnsureFreeHandles(psBase, 1)))
      \/ AllocHandleFails(f)
  BY <1>4, <1>5 DEF PVRSRVAllocSubHandle
<1>7. CASE UNCHANGED psBase
  BY <1>3, <1>7, HInvIs DEF SameObjects
<1>8. CASE MayFail /\ psBase' = AllocFails(psBase)
  BY <1>2, <1>3, <1>8, FailHere
<1>9. CASE /\ InUse(psBase, hParent) /\ found = 0 /\ CanEnsure(psBase, 1)
           /\ psBase' = AdoptChild(AllocHandle(EnsureFreeHandles(psBase, 1), d, t, f, h), hParent,
                                   NewIndex(EnsureFreeHandles(psBase, 1)))
  <2>1. "MULTI" \notin f => psBase.psHashTab[<<d, t, h>>] = 0
    BY <1>5, <1>9 DEF FindHandle
  <2>2. /\ d \in Data \cup {DevCookie} /\ t \in AllTypes
        /\ f \in SUBSET {"SHARED", "MULTI", "PRIVATE"}
    BY DEF SubAllocFlags, AllTypes
  <2>3. PICK m : m = EnsureFreeHandles(psBase, 1)
    OBVIOUS
  <2>4. /\ Good(AdoptChild(AllocHandle(m, d, t, f, h), hParent, NewIndex(m)), <<>>,
                walk, before, owed, kind)
        /\ SameObjects(psBase, AdoptChild(AllocHandle(m, d, t, f, h), hParent, NewIndex(m)))
    BY <1>1, <1>2, <1>4, <1>9, <2>1, <2>2, <2>3, SubKeeps
  <2> QED BY <1>2, <1>3, <1>9, <2>3, <2>4, HInvIs
<1>10. CASE AllocHandleFails(f)
  BY <1>2, <1>3, <1>10, FailsKeep
<1> QED BY <1>6, <1>7, <1>8, <1>9, <1>10

-----------------------------------------------------------------------------
(***************************************************************************)
(* Release: FreeHandle up to the loop over the children.                   *)
(***************************************************************************)

\* The invariant without the batch as a whole.
HBCore(b, st, w, k, S) ==
  /\ b \in Base
  /\ KindInv(b, k, w, Held(st), S)
  /\ LoopInv(b, w)
  /\ FreshInv(b)
  /\ BatchLinked(Links(b), Start(b, w), S)
  /\ FreeInv(b, Held(st), S)
  /\ FlagInv(b, Held(st), S)
  /\ HashInv(b, Held(st))
  /\ TreeInv(b)
  /\ StackInv(b, st)

LEMMA CoreAndBatch ==
  ASSUME NEW b, NEW st, NEW w, NEW bef, NEW ow, NEW k, NEW S
  PROVE  HBInv(b, st, w, bef, ow, k, S)
           <=> HBCore(b, st, w, k, S) /\ BatchInv(b, w, Held(st), S, bef, ow)
BY DEF HBInv, HBCore

\* The list of children without one of them.
LEMMA Removed ==
  ASSUME NEW c \in Seq(Index), \A x, y \in DOMAIN c : c[x] = c[y] => x = y,
         NEW at \in DOMAIN c, NEW i, i = c[at], NEW e, e = HandleListRemove(c, i)
  PROVE  /\ e \in Seq(Index)
         /\ \A x \in DOMAIN e : \E y \in DOMAIN c : e[x] = c[y] /\ e[x] # i
         /\ \A y \in DOMAIN c : c[y] # i => \E x \in DOMAIN e : e[x] = c[y]
         /\ \A x, y \in DOMAIN e : e[x] = e[y] => x = y
<1>1. PICK n \in Nat : n = Len(c)
  OBVIOUS
<1>2. DOMAIN c = 1..n /\ at \in 1..n /\ \A x \in 1..n : c[x] \in Index
  BY <1>1
<1>3. (CHOOSE k \in DOMAIN c : c[k] = i) = at
  <2>1. PICK k : k = CHOOSE z \in DOMAIN c : c[z] = i
    OBVIOUS
  <2>2. k \in DOMAIN c /\ c[k] = i
    BY <2>1
  <2> QED BY <2>1, <2>2
<1>4. e = [k \in 1..(n - 1) |-> IF k < at THEN c[k] ELSE c[k + 1]]
  BY <1>1, <1>3 DEF HandleListRemove
<1>5. DOMAIN e = 1..(n - 1)
  BY <1>4
<1>6. \A x \in 1..(n - 1) : /\ x \in 1..n /\ x + 1 \in 1..n
                            /\ x < at => e[x] = c[x]
                            /\ ~(x < at) => e[x] = c[x + 1]
  BY <1>2, <1>4
<1>7. \A x \in 1..(n - 1) : e[x] \in Index
  BY <1>2, <1>6
<1>8. e \in Seq(Index)
  <2>1. n - 1 \in Nat
    BY <1>2
  <2>2. e \in [1..(n - 1) -> Index]
    BY <1>4, <1>7
  <2> QED BY <2>1, <2>2
<1>9. ASSUME NEW x \in DOMAIN e PROVE \E y \in DOMAIN c : e[x] = c[y] /\ e[x] # i
  <2>1. CASE x < at
    BY <1>2, <1>5, <1>6, <2>1
  <2>2. CASE ~(x < at)
    <3>1. x + 1 \in 1..n /\ x + 1 # at /\ e[x] = c[x + 1]
      BY <1>2, <1>5, <1>6, <2>2
    <3> QED BY <1>2, <3>1
  <2> QED BY <2>1, <2>2
<1>10. ASSUME NEW y \in DOMAIN c, c[y] # i PROVE \E x \in DOMAIN e : e[x] = c[y]
  <2>1. y \in 1..n /\ y # at
    BY <1>2, <1>10
  <2>2. CASE y < at
    <3>1. y \in 1..(n - 1) /\ e[y] = c[y]
      BY <1>2, <1>6, <2>1, <2>2
    <3> QED BY <1>5, <3>1
  <2>3. CASE y > at
    <3>0. PICK x : x = y - 1
      OBVIOUS
    <3>1. x \in 1..(n - 1) /\ y = x + 1 /\ ~(x < at)
      BY <1>2, <2>1, <2>3, <3>0
    <3>2. e[x] = c[y]
      BY <1>6, <3>1
    <3> QED BY <1>5, <3>1, <3>2
  <2> QED BY <1>2, <2>1, <2>2, <2>3
<1>11. ASSUME NEW x \in DOMAIN e, NEW y \in DOMAIN e, e[x] = e[y] PROVE x = y
  <2>1. x \in 1..(n - 1) /\ y \in 1..(n - 1)
    BY <1>5
  <2>2. CASE x < at /\ y < at
    BY <1>2, <1>6, <1>11, <2>1, <2>2
  <2>3. CASE ~(x < at) /\ ~(y < at)
    <3>1. c[x + 1] = c[y + 1] /\ x + 1 \in DOMAIN c /\ y + 1 \in DOMAIN c
      BY <1>2, <1>6, <1>11, <2>1, <2>3
    <3>2. x + 1 = y + 1
      BY <3>1
    <3> QED BY <2>1, <3>2
  <2>4. CASE x < at /\ ~(y < at)
    <3>1. c[x] = c[y + 1] /\ x \in DOMAIN c /\ y + 1 \in DOMAIN c
      BY <1>2, <1>6, <1>11, <2>1, <2>4
    <3>2. x = y + 1
      BY <3>1
    <3> QED BY <1>2, <2>1, <2>4, <3>2
  <2>5. CASE ~(x < at) /\ y < at
    <3>1. c[x + 1] = c[y] /\ x + 1 \in DOMAIN c /\ y \in DOMAIN c
      BY <1>2, <1>6, <1>11, <2>1, <2>5
    <3>2. x + 1 = y
      BY <3>1
    <3> QED BY <1>2, <2>1, <2>5, <3>2
  <2> QED BY <2>2, <2>3, <2>4, <2>5
<1> QED BY <1>8, <1>9, <1>10, <1>11

\* Entry i leaves the hash table and the list of its parent.
EnterStep(b, r, i) ==
  /\ r \in Base /\ Whole(b, r)
  /\ r.ui32FreeHandCount = b.ui32FreeHandCount
  /\ r.ui32FirstFreeIndex = b.ui32FirstFreeIndex
  /\ r.ui32LastFreeIndexPlusOne = b.ui32LastFreeIndexPlusOne
  /\ r.ui32FirstBatchIndexPlusOne = b.ui32FirstBatchIndexPlusOne
  /\ \A k \in Keys : r.psHashTab[k] =
       IF "MULTI" \notin b.psHandleArray[i].eFlag /\ k = KeyOf(b.psHandleArray[i]) THEN 0
       ELSE b.psHashTab[k]
  /\ \A j \in Index :
       /\ Core(r.psHandleArray[j], b.psHandleArray[j])
       /\ r.psHandleArray[j].ui32NextIndexPlusOne = b.psHandleArray[j].ui32NextIndexPlusOne
       /\ r.psHandleArray[j].hParent = IF j = i THEN 0 ELSE b.psHandleArray[j].hParent
       /\ r.psHandleArray[j].children =
            IF b.psHandleArray[i].hParent # 0 /\ j = b.psHandleArray[i].hParent - 1
            THEN HandleListRemove(b.psHandleArray[j].children, i) ELSE b.psHandleArray[j].children
       /\ j \notin Entries(b) => r.psHandleArray[j] = b.psHandleArray[j]

LEMMA EnterLive ==
  ASSUME NEW b \in Base, NEW r, NEW i, EnterStep(b, r, i)
  PROVE  /\ r \in Base /\ Entries(r) = Entries(b) /\ Links(r) = Links(b)
         /\ \A j : Live(r, j) <=> Live(b, j)
         /\ HandlesInUse(r) = HandlesInUse(b)
<1>1. r \in Base /\ Entries(r) = Entries(b)
  BY DEF EnterStep, Whole, Entries
<1>2. Links(r) = Links(b)
  BY DEF Links, EnterStep
<1>3. \A j : Live(r, j) <=> Live(b, j)
  BY <1>1, Sizes DEF Live, EnterStep, Core
<1>4. \A h : h \in HandlesInUse(r) <=> h \in HandlesInUse(b)
  <2> TAKE h
  <2>1. CASE h \in Handles /\ h # 0
    <3>1. PICK j \in Index : h = j + 1
      BY <2>1, Sizes DEF Handles, Index
    <3> QED BY <1>1, <1>3, <3>1, HandleOfEntry
  <2>2. CASE ~(h \in Handles /\ h # 0)
    BY <2>2 DEF HandlesInUse, InUse
  <2> QED BY <2>1, <2>2
<1>5. HandlesInUse(r) = HandlesInUse(b)
  BY <1>4, Zenon
<1> QED BY <1>1, <1>2, <1>3, <1>5

LEMMA EnterHash ==
  ASSUME NEW b \in Base, NEW r, NEW i \in Index, EnterStep(b, r, i), Live(b, i),
         NEW T, i \notin T, HashInv(b, T)
  PROVE  HashInv(r, T \cup {i})
<1>1. r \in Base /\ \A j : Live(r, j) <=> Live(b, j)
  BY EnterLive
<1>2. PICK key : key = KeyOf(b.psHandleArray[i])
  OBVIOUS
<1>3. \A x \in Keys : r.psHashTab[x] =
        IF "MULTI" \notin b.psHandleArray[i].eFlag /\ x = key THEN 0 ELSE b.psHashTab[x]
  BY <1>2 DEF EnterStep
<1>4. \A j \in Index : j # i =>
        /\ r.psHandleArray[j].eFlag = b.psHandleArray[j].eFlag
        /\ KeyOf(r.psHandleArray[j]) = KeyOf(b.psHandleArray[j])
  BY DEF EnterStep, Core, KeyOf, ParentIfPrivate
<1>5. \A j \in Index : r.psHandleArray[j].pvData = b.psHandleArray[j].pvData
  BY DEF EnterStep, Core
<1>6. "MULTI" \notin b.psHandleArray[i].eFlag => b.psHashTab[key] = i + 1
  BY <1>2 DEF HashInv
<1>7. ASSUME NEW x \in Keys, r.psHashTab[x] # 0
      PROVE  LET j == r.psHashTab[x] - 1 IN
             /\ Live(r, j) /\ j \notin T \cup {i}
             /\ "MULTI" \notin r.psHandleArray[j].eFlag
             /\ KeyOf(r.psHandleArray[j]) = x
  <2>1. r.psHashTab[x] = b.psHashTab[x] /\ b.psHashTab[x] # 0
        /\ ~("MULTI" \notin b.psHandleArray[i].eFlag /\ x = key)
    BY <1>3, <1>7
  <2>2. PICK j : j = b.psHashTab[x] - 1
    OBVIOUS
  <2>3. /\ Live(b, j) /\ j \notin T /\ "MULTI" \notin b.psHandleArray[j].eFlag
        /\ KeyOf(b.psHandleArray[j]) = x
    BY <2>1, <2>2, Zenon DEF HashInv
  <2>4. j \in Index /\ j # i
    BY <1>2, <2>1, <2>3, Sizes DEF Live
  <2>5. /\ Live(r, j) /\ j \notin T \cup {i} /\ "MULTI" \notin r.psHandleArray[j].eFlag
        /\ KeyOf(r.psHandleArray[j]) = x
    BY <1>1, <1>4, <2>3, <2>4
  <2>6. r.psHashTab[x] - 1 = j
    BY <2>1, <2>2
  <2> QED BY <2>5, <2>6
<1>8. ASSUME NEW j \in Index, Live(r, j)
      PROVE  /\ r.psHandleArray[j].pvData \in Data \cup {DevCookie}
             /\ \/ "MULTI" \in r.psHandleArray[j].eFlag
                \/ j \in T \cup {i}
                \/ r.psHashTab[KeyOf(r.psHandleArray[j])] = j + 1
  <2>1. Live(b, j)
    BY <1>1, <1>8
  <2>2. PICK x : x = KeyOf(b.psHandleArray[j])
    OBVIOUS
  <2>3. /\ b.psHandleArray[j].pvData \in Data \cup {DevCookie}
        /\ "MULTI" \in b.psHandleArray[j].eFlag \/ j \in T \/ b.psHashTab[x] = j + 1
    BY <2>1, <2>2 DEF HashInv
  <2>4. CASE j = i
    BY <1>5, <2>3, <2>4
  <2>5. CASE j # i
    <3>1. x \in Keys
      <4>1. /\ b.psHandleArray[j].eType \in AllTypes /\ b.psHandleArray[j].hParent \in Handles
        BY <2>1 DEF Base, Slot, Live
      <4> QED BY <2>2, <2>3, <4>1, Sizes DEF KeyOf, ParentIfPrivate, Keys
    <3>2. b.psHashTab[x] = j + 1 => ~("MULTI" \notin b.psHandleArray[i].eFlag /\ x = key)
      <4>1. i + 1 # j + 1
        BY <2>5, Sizes
      <4> QED BY <1>6, <4>1
    <3>3. b.psHashTab[x] = j + 1 => r.psHashTab[x] = j + 1
      BY <1>3, <3>1, <3>2
    <3> QED BY <1>4, <1>5, <2>2, <2>3, <2>5, <3>3
  <2> QED BY <2>4, <2>5
<1> QED BY <1>7, <1>8, Zenon DEF HashInv

LEMMA EnterTree ==
  ASSUME NEW b \in Base, NEW r, NEW i \in Index, EnterStep(b, r, i), Live(b, i), TreeInv(b)
  PROVE  TreeInv(r)
<1>1. r \in Base /\ \A j : Live(r, j) <=> Live(b, j)
  BY EnterLive
<1>31. PICK A : A = b.psHandleArray
  OBVIOUS
<1>32. PICK D : D = r.psHandleArray
  OBVIOUS
<1>3. A = b.psHandleArray /\ D = r.psHandleArray
  BY <1>31, <1>32
<1>4. /\ \A j \in Index : A[j].eType = NONE => A[j].hParent = 0 /\ A[j].children = <<>>
      /\ \A j \in Index : Live(b, j) /\ A[j].hParent # 0 =>
           /\ Live(b, A[j].hParent - 1)
           /\ \E x \in DOMAIN A[A[j].hParent - 1].children : A[A[j].hParent - 1].children[x] = j
      /\ \A j \in Index : Live(b, j) =>
           /\ \A x \in DOMAIN A[j].children :
                Live(b, A[j].children[x]) /\ A[A[j].children[x]].hParent = j + 1
           /\ \A x, y \in DOMAIN A[j].children : A[j].children[x] = A[j].children[y] => x = y
  BY <1>3, Zenon DEF TreeInv
<1>5. PICK p : p = A[i].hParent - 1
  OBVIOUS
<1>6. \A j \in Index :
        /\ D[j].eType = A[j].eType
        /\ D[j].hParent = IF j = i THEN 0 ELSE A[j].hParent
        /\ D[j].children = IF A[i].hParent # 0 /\ j = p
                           THEN HandleListRemove(A[j].children, i) ELSE A[j].children
  BY <1>3, <1>5 DEF EnterStep, Core
<1>7. \A j \in Index : A[j].children \in Seq(Index) /\ A[j].hParent \in Handles
  BY <1>3 DEF Base, Slot
<1>8. \A j : Live(b, j) => j \in Index
  BY Sizes DEF Live
<1>9. A[i].hParent # 0 => /\ p \in Index /\ Live(b, p)
                          /\ \E x \in DOMAIN A[p].children : A[p].children[x] = i
  BY <1>4, <1>5, <1>8
<1>10. ASSUME A[i].hParent # 0
       PROVE  /\ \A x \in DOMAIN D[p].children :
                   \E y \in DOMAIN A[p].children : D[p].children[x] = A[p].children[y] /\ D[p].children[x] # i
              /\ \A y \in DOMAIN A[p].children : A[p].children[y] # i =>
                   \E x \in DOMAIN D[p].children : D[p].children[x] = A[p].children[y]
              /\ \A x, y \in DOMAIN D[p].children : D[p].children[x] = D[p].children[y] => x = y
  <2>1. PICK c, e : c = A[p].children /\ e = D[p].children
    OBVIOUS
  <2>2. e = HandleListRemove(c, i)
    BY <1>6, <1>9, <1>10, <2>1
  <2>3. PICK at \in DOMAIN c : i = c[at]
    BY <1>9, <1>10, <2>1
  <2>4. c \in Seq(Index) /\ \A x, y \in DOMAIN c : c[x] = c[y] => x = y
    BY <1>4, <1>7, <1>9, <1>10, <2>1
  <2>5. /\ \A x \in DOMAIN e : \E y \in DOMAIN c : e[x] = c[y] /\ e[x] # i
        /\ \A y \in DOMAIN c : c[y] # i => \E x \in DOMAIN e : e[x] = c[y]
        /\ \A x, y \in DOMAIN e : e[x] = e[y] => x = y
    BY <2>2, <2>3, <2>4, Removed
  <2> QED BY <2>1, <2>5, Zenon
<1>11. ASSUME NEW j \in Index, D[j].eType = NONE PROVE D[j].hParent = 0 /\ D[j].children = <<>>
  <2>1. A[j].eType = NONE
    BY <1>6, <1>11
  <2>2. ~(A[i].hParent # 0 /\ j = p)
    BY <1>3, <1>9, <2>1 DEF Live
  <2> QED BY <1>4, <1>6, <2>1, <2>2
<1>12. ASSUME NEW j \in Index, Live(r, j), D[j].hParent # 0
       PROVE  /\ Live(r, D[j].hParent - 1)
              /\ \E x \in DOMAIN D[D[j].hParent - 1].children : D[D[j].hParent - 1].children[x] = j
  <2>1. j # i /\ D[j].hParent = A[j].hParent /\ Live(b, j)
    BY <1>1, <1>6, <1>12
  <2>2. PICK q : q = A[j].hParent - 1
    OBVIOUS
  <2>3. Live(b, q) /\ q \in Index /\ \E x \in DOMAIN A[q].children : A[q].children[x] = j
    BY <1>4, <1>8, <1>12, <2>1, <2>2
  <2>4. \E x \in DOMAIN D[q].children : D[q].children[x] = j
    <3>1. CASE A[i].hParent # 0 /\ q = p
      <4>1. PICK y \in DOMAIN A[p].children : A[p].children[y] = j
        BY <2>3, <3>1
      <4>2. A[p].children[y] # i
        BY <2>1, <4>1
      <4>3. PICK x \in DOMAIN D[p].children : D[p].children[x] = A[p].children[y]
        BY <1>10, <3>1, <4>1, <4>2
      <4> QED BY <3>1, <4>1, <4>3
    <3>2. CASE ~(A[i].hParent # 0 /\ q = p)
      <4>1. D[q].children = A[q].children
        BY <1>6, <2>3, <3>2
      <4> QED BY <2>3, <4>1
    <3> QED BY <3>1, <3>2
  <2> QED BY <1>1, <2>1, <2>2, <2>3, <2>4
<1>13. ASSUME NEW j \in Index, Live(r, j)
       PROVE  /\ \A x \in DOMAIN D[j].children :
                   Live(r, D[j].children[x]) /\ D[D[j].children[x]].hParent = j + 1
              /\ \A x, y \in DOMAIN D[j].children : D[j].children[x] = D[j].children[y] => x = y
  <2>1. Live(b, j)
    BY <1>1, <1>13
  <2>2. /\ \A x \in DOMAIN A[j].children :
             Live(b, A[j].children[x]) /\ A[A[j].children[x]].hParent = j + 1
        /\ \A x, y \in DOMAIN A[j].children : A[j].children[x] = A[j].children[y] => x = y
    BY <1>4, <2>1
  <2>3. \A x \in DOMAIN A[j].children : A[j].children[x] # i =>
          Live(r, A[j].children[x]) /\ D[A[j].children[x]].hParent = j + 1
    BY <1>1, <1>6, <1>8, <2>2
  <2>4. CASE A[i].hParent # 0 /\ j = p
    <3>1. \A x \in DOMAIN D[j].children :
            \E y \in DOMAIN A[j].children : D[j].children[x] = A[j].children[y] /\ D[j].children[x] # i
      BY <1>10, <2>4
    <3>2. \A x, y \in DOMAIN D[j].children : D[j].children[x] = D[j].children[y] => x = y
      BY <1>10, <2>4
    <3>3. ASSUME NEW x \in DOMAIN D[j].children
          PROVE  Live(r, D[j].children[x]) /\ D[D[j].children[x]].hParent = j + 1
      <4>1. PICK y \in DOMAIN A[j].children : D[j].children[x] = A[j].children[y] /\ D[j].children[x] # i
        BY <3>1
      <4> QED BY <2>3, <4>1
    <3> QED BY <3>2, <3>3
  <2>5. CASE ~(A[i].hParent # 0 /\ j = p)
    <3>1. D[j].children = A[j].children
      BY <1>6, <2>5
    <3>2. \A x \in DOMAIN A[j].children : A[j].children[x] # i
      <4> SUFFICES ASSUME NEW x \in DOMAIN A[j].children, A[j].children[x] = i PROVE FALSE
        OBVIOUS
      <4>1. A[i].hParent = j + 1
        BY <2>2
      <4>2. A[i].hParent # 0 /\ p = j
        BY <1>5, <4>1, Sizes
      <4> QED BY <2>5, <4>2
    <3> QED BY <2>2, <2>3, <3>1, <3>2
  <2> QED BY <2>4, <2>5
<1>14. /\ \A j \in Index : D[j].eType = NONE => D[j].hParent = 0 /\ D[j].children = <<>>
       /\ \A j \in Index : Live(r, j) /\ D[j].hParent # 0 =>
            /\ Live(r, D[j].hParent - 1)
            /\ \E x \in DOMAIN D[D[j].hParent - 1].children : D[D[j].hParent - 1].children[x] = j
       /\ \A j \in Index : Live(r, j) =>
            /\ \A x \in DOMAIN D[j].children :
                 Live(r, D[j].children[x]) /\ D[D[j].children[x]].hParent = j + 1
            /\ \A x, y \in DOMAIN D[j].children : D[j].children[x] = D[j].children[y] => x = y
  BY <1>11, <1>12, <1>13, Zenon
<1>15. /\ \A j \in Index : r.psHandleArray[j].eType = NONE =>
            r.psHandleArray[j].hParent = 0 /\ r.psHandleArray[j].children = <<>>
       /\ \A j \in Index : Live(r, j) /\ r.psHandleArray[j].hParent # 0 =>
            /\ Live(r, r.psHandleArray[j].hParent - 1)
            /\ \E x \in DOMAIN r.psHandleArray[r.psHandleArray[j].hParent - 1].children :
                 r.psHandleArray[r.psHandleArray[j].hParent - 1].children[x] = j
       /\ \A j \in Index : Live(r, j) =>
            /\ \A x \in DOMAIN r.psHandleArray[j].children :
                 /\ Live(r, r.psHandleArray[j].children[x])
                 /\ r.psHandleArray[r.psHandleArray[j].children[x]].hParent = j + 1
            /\ \A x, y \in DOMAIN r.psHandleArray[j].children :
                 r.psHandleArray[j].children[x] = r.psHandleArray[j].children[y] => x = y
  BY <1>32, <1>14
<1> QED BY <1>15, TreeMake

\* A handle is pushed on the stack.
LEMMA Pushed ==
  ASSUME NEW st \in Seq(Index), NEW i \in Index, \A j, k \in DOMAIN st : st[j] = st[k] => j = k,
         i \notin Held(st), NEW s2, s2 = Append(st, i)
  PROVE  /\ s2 \in Seq(Index) /\ Held(s2) = Held(st) \cup {i}
         /\ \A j, k \in DOMAIN s2 : s2[j] = s2[k] => j = k
         /\ s2 # <<>> /\ s2[Len(s2)] = i
<1>1. PICK n \in Nat : n = Len(st)
  OBVIOUS
<1>2. /\ s2 \in Seq(Index) /\ Len(s2) = n + 1 /\ DOMAIN s2 = 1..(n + 1) /\ DOMAIN st = 1..n
      /\ s2[n + 1] = i
  BY <1>1
<1>3. \A x \in 1..n : s2[x] = st[x] /\ x \in 1..(n + 1)
  BY <1>1
<1>4. \A x \in 1..(n + 1) : x \in 1..n \/ x = n + 1
  OBVIOUS
<1>5. \A x \in 1..n : st[x] \in Held(st) /\ st[x] # i
  BY <1>2 DEF Held
<1>6. \A x : x \in Held(s2) <=> x \in Held(st) \cup {i}
  BY <1>2, <1>3, <1>4 DEF Held
<1>7. \A j, k \in DOMAIN s2 : s2[j] = s2[k] => j = k
  <2> SUFFICES ASSUME NEW j \in 1..(n + 1), NEW k \in 1..(n + 1), s2[j] = s2[k] PROVE j = k
    BY <1>2
  <2>1. CASE j \in 1..n /\ k \in 1..n
    BY <1>2, <1>3, <2>1
  <2>2. CASE j = n + 1 /\ k \in 1..n
    BY <1>2, <1>3, <1>5, <2>2
  <2>3. CASE j \in 1..n /\ k = n + 1
    BY <1>2, <1>3, <1>5, <2>3
  <2> QED BY <1>4, <2>1, <2>2, <2>3
<1>8. Held(s2) = Held(st) \cup {i}
  BY <1>6, Zenon
<1>9. s2 # <<>> /\ s2[Len(s2)] = i
  BY <1>2
<1> QED BY <1>2, <1>7, <1>8, <1>9

\* The invariant holds after entry i was put on the stack.
AfterEnter(r, st, s2, w, k, S, i) == HBCore(r, s2, w, k, S) /\ Held(s2) = Held(st) \cup {i}

LEMMA EnterKeeps ==
  ASSUME NEW b \in Base, NEW st, NEW w, NEW k, NEW S, HBCore(b, st, w, k, S),
         NEW i \in Index, Live(b, i), i \notin Held(st), k = "process" /\ w.loop # "all" => i # 0,
         NEW r, EnterStep(b, r, i), NEW s2, s2 = Append(st, i)
  PROVE  AfterEnter(r, st, s2, w, k, S, i)
<1>1. /\ r \in Base /\ Entries(r) = Entries(b) /\ Links(r) = Links(b)
      /\ \A j : Live(r, j) <=> Live(b, j)
  BY EnterLive
<1>2. PICK T : T = Held(st)
  OBVIOUS
<1>3. /\ KindInv(b, k, w, T, S) /\ LoopInv(b, w) /\ FreshInv(b)
      /\ BatchLinked(Links(b), Start(b, w), S)
      /\ FreeInv(b, T, S) /\ FlagInv(b, T, S) /\ HashInv(b, T) /\ TreeInv(b) /\ StackInv(b, st)
  BY <1>2 DEF HBCore
<1>4. /\ s2 \in Seq(Index) /\ Held(s2) = T \cup {i}
      /\ \A j, m \in DOMAIN s2 : s2[j] = s2[m] => j = m
  BY <1>2, <1>3, Pushed DEF StackInv
<1>5. HashInv(r, T \cup {i})
  BY <1>2, <1>3, EnterHash
<1>6. TreeInv(r)
  BY <1>3, EnterTree
<1>7. /\ r.bPurgingEnabled = b.bPurgingEnabled /\ r.ui32HandBatchSize = b.ui32HandBatchSize
      /\ r.ui32TotalHandCount = b.ui32TotalHandCount
      /\ r.ui32FreeHandCount = b.ui32FreeHandCount
      /\ r.ui32FirstFreeIndex = b.ui32FirstFreeIndex
      /\ r.ui32LastFreeIndexPlusOne = b.ui32LastFreeIndexPlusOne
      /\ r.ui32FirstBatchIndexPlusOne = b.ui32FirstBatchIndexPlusOne
  BY DEF EnterStep, Whole
<1>8. \A j \in Index : /\ r.psHandleArray[j].bBatched = b.psHandleArray[j].bBatched
                       /\ r.psHandleArray[j].bPartiallyFree = b.psHandleArray[j].bPartiallyFree
                       /\ r.psHandleArray[j].eType = b.psHandleArray[j].eType
                       /\ r.psHandleArray[j].ui32NextIndexPlusOne = b.psHandleArray[j].ui32NextIndexPlusOne
                       /\ r.psHandleArray[j].hParent = IF j = i THEN 0 ELSE b.psHandleArray[j].hParent
  BY DEF EnterStep, Core
<1>9. KindInv(r, k, w, T \cup {i}, S)
  <2>1. 0 \in Index
    BY Sizes
  <2>2. k = "kernel" => /\ r.ui32LastFreeIndexPlusOne = 0
                        /\ r.ui32HandBatchSize = 0
                        /\ \A j \in Index : /\ ~r.psHandleArray[j].bBatched
                                            /\ ~r.psHandleArray[j].bPartiallyFree
    BY <1>3, <1>7, <1>8 DEF KindInv
  <2>3. k = "process" /\ w.loop # "all" =>
          /\ Live(r, 0) /\ r.psHandleArray[0].eType = DEV_NODE
          /\ r.psHandleArray[0].hParent = 0 /\ 0 \notin (T \cup {i}) \cup S
    BY <1>1, <1>3, <1>8, <2>1 DEF KindInv
  <2> QED BY <1>3, <1>7, <2>2, <2>3 DEF KindInv
<1>10. LoopInv(r, w)
  BY <1>3, <1>7 DEF LoopInv
<1>11. FreshInv(r)
  BY <1>1, <1>3 DEF FreshInv, EnterStep
<1>12. BatchLinked(Links(r), Start(r, w), S)
  BY <1>1, <1>3, <1>7 DEF Start
<1>13. FreeInv(r, T \cup {i}, S)
  <2>1. \A j : j \in Unheld(r, T \cup {i}, S) <=> j \in Unheld(b, T, S)
    BY <1>1, <1>8, Sizes DEF Unheld, Live
  <2>2. Unheld(r, T \cup {i}, S) = Unheld(b, T, S)
    BY <2>1, Zenon
  <2> QED BY <1>1, <1>3, <1>7, <2>2 DEF FreeInv
<1>14. FlagInv(r, T \cup {i}, S)
  <2>1. S \subseteq Entries(r) /\ Entries(r) \subseteq Index
    BY <1>1, <1>3, Sizes DEF FlagInv
  <2>2. \A j \in S : /\ r.psHandleArray[j].bBatched
                     /\ r.psHandleArray[j].bPartiallyFree <=> r.psHandleArray[j].eType = NONE
    BY <1>3, <1>8, <2>1 DEF FlagInv
  <2>3. \A j \in S \cap (T \cup {i}) : Live(r, j)
    BY <1>1, <1>3 DEF FlagInv
  <2>4. \A j \in Index : Live(r, j) /\ j \notin S =>
          /\ ~r.psHandleArray[j].bBatched /\ ~r.psHandleArray[j].bPartiallyFree
          /\ r.psHandleArray[j].ui32NextIndexPlusOne = 0
    BY <1>1, <1>3, <1>8 DEF FlagInv
  <2>5. \A j \in T \cup {i} : ~Live(r, j) =>
          r.psHandleArray[j].bPartiallyFree /\ r.psHandleArray[j].ui32NextIndexPlusOne = 0
    <3> SUFFICES ASSUME NEW j \in T \cup {i}, ~Live(r, j)
                 PROVE  r.psHandleArray[j].bPartiallyFree /\ r.psHandleArray[j].ui32NextIndexPlusOne = 0
      OBVIOUS
    <3>1. j \in T /\ ~Live(b, j)
      BY <1>1
    <3>2. j \in Index
      BY <1>2, <1>3, <3>1, Sizes DEF StackInv
    <3> QED BY <1>3, <1>8, <3>1, <3>2 DEF FlagInv
  <2> QED BY <2>1, <2>2, <2>3, <2>4, <2>5 DEF FlagInv
<1>15. StackInv(r, s2)
  <2>1. \A j \in Held(s2) : j \in Entries(r) /\ r.psHandleArray[j].hParent = 0
    <3> TAKE j \in Held(s2)
    <3>1. CASE j = i
      BY <1>1, <1>8, <3>1 DEF Live
    <3>2. CASE j # i
      <4>1. j \in T /\ j \in Entries(b) /\ b.psHandleArray[j].hParent = 0 /\ j \in Index
        BY <1>2, <1>3, <1>4, <3>2, Sizes DEF StackInv
      <4> QED BY <1>1, <1>8, <4>1
    <3> QED BY <3>1, <3>2
  <2> QED BY <1>4, <2>1 DEF StackInv
<1>16. HBCore(r, s2, w, k, S)
  BY <1>1, <1>4, <1>5, <1>6, <1>9, <1>10, <1>11, <1>12, <1>13, <1>14, <1>15 DEF HBCore
<1> QED BY <1>2, <1>4, <1>16 DEF AfterEnter

LEMMA EnterFields ==
  ASSUME NEW b \in Base, NEW i \in Index, Live(b, i), ~b.psHandleArray[i].bPartiallyFree,
         TreeInv(b), NEW T, HashInv(b, T)
  PROVE  EnterStep(b, FreeHandleEnter(b, i), i)
<1>1. PICK A : A = b.psHandleArray
  OBVIOUS
<1>2. A \in [Index -> Slot] /\ b.psHashTab \in [Keys -> Handles] /\ A[i] \in Slot /\ 0 \in Handles
  BY <1>1, Sizes DEF Base
<1>3. PICK key : key = KeyOf(A[i])
  OBVIOUS
<1>4. key \in Keys
  <2>1. /\ A[i].eType \in AllTypes /\ A[i].hParent \in Handles
    BY <1>1, <1>2 DEF Slot, Live
  <2>2. A[i].pvData \in Data \cup {DevCookie}
    BY <1>1 DEF HashInv
  <2> QED BY <1>2, <1>3, <2>1, <2>2 DEF KeyOf, ParentIfPrivate, Keys
<1>5. PICK H : H = IF "MULTI" \notin A[i].eFlag THEN [b.psHashTab EXCEPT ![key] = 0] ELSE b.psHashTab
  OBVIOUS
<1>6. H \in [Keys -> Handles]
  BY <1>2, <1>5
<1>7. \A x \in Keys : H[x] = IF "MULTI" \notin A[i].eFlag /\ x = key THEN 0 ELSE b.psHashTab[x]
  BY <1>2, <1>4, <1>5
<1>8. PICK q : q = [b EXCEPT !.psHashTab = H]
  OBVIOUS
<1>9. /\ q \in Base /\ q.psHashTab = H /\ q.psHandleArray = A /\ Whole(b, q)
      /\ q.ui32FreeHandCount = b.ui32FreeHandCount
      /\ q.ui32FirstFreeIndex = b.ui32FirstFreeIndex
      /\ q.ui32LastFreeIndexPlusOne = b.ui32LastFreeIndexPlusOne
      /\ q.ui32FirstBatchIndexPlusOne = b.ui32FirstBatchIndexPlusOne
  BY <1>1, <1>6, <1>8 DEF Base, Whole
<1>10. FreeHandleEnter(b, i) = UnlinkFromParent(q, i)
  <2>1. ~A[i].bPartiallyFree
    BY <1>1
  <2> QED BY <1>1, <1>3, <1>5, <1>8, <2>1 DEF FreeHandleEnter
<1>11. CASE A[i].hParent = 0
  <2>1. FreeHandleEnter(b, i) = q
    BY <1>9, <1>10, <1>11 DEF UnlinkFromParent
  <2>2. EnterStep(b, q, i)
    BY <1>1, <1>3, <1>7, <1>9, <1>11 DEF EnterStep, Core
  <2> QED BY <2>1, <2>2
<1>12. CASE A[i].hParent # 0
  <2>1. PICK p : p = A[i].hParent - 1
    OBVIOUS
  <2>2. PICK c : c = A[p].children
    OBVIOUS
  <2>3. /\ Live(b, p) /\ \E x \in DOMAIN A[p].children : A[p].children[x] = i
        /\ \A x, y \in DOMAIN A[p].children : A[p].children[x] = A[p].children[y] => x = y
    <3>1. Live(b, p) /\ \E x \in DOMAIN A[p].children : A[p].children[x] = i
      BY <1>1, <1>12, <2>1, Zenon DEF TreeInv
    <3>2. p \in Index
      BY <3>1, Sizes DEF Live
    <3>3. \A x, y \in DOMAIN A[p].children : A[p].children[x] = A[p].children[y] => x = y
      BY <1>1, <3>1, <3>2, Zenon DEF TreeInv
    <3> QED BY <3>1, <3>3
  <2>4. p \in Index /\ p \in Entries(b) /\ c \in Seq(Index) /\ A[p] \in Slot
    BY <1>2, <2>2, <2>3, Sizes DEF Live, Slot
  <2>5. PICK e : e = HandleListRemove(c, i)
    OBVIOUS
  <2>6. e \in Seq(Index)
    <3>1. PICK at \in DOMAIN c : i = c[at]
      BY <2>2, <2>3
    <3>2. \A x, y \in DOMAIN c : c[x] = c[y] => x = y
      BY <2>2, <2>3
    <3> QED BY <2>4, <2>5, <3>1, <3>2, Removed
  <2>7. PICK s : s = [A[i] EXCEPT !.hParent = 0]
    OBVIOUS
  <2>8. PICK D1 : D1 = [A EXCEPT ![i] = s]
    OBVIOUS
  <2>9. /\ s \in Slot /\ Core(s, A[i]) /\ s.hParent = 0 /\ s.children = A[i].children
        /\ s.ui32NextIndexPlusOne = A[i].ui32NextIndexPlusOne
    BY <1>2, <2>7 DEF Slot, Core
  <2>10. D1 \in [Index -> Slot] /\ D1[i] = s /\ \A j \in Index : j # i => D1[j] = A[j]
    BY <1>2, <2>8, <2>9
  <2>11. D1[p] \in Slot /\ D1[p].children = c
    BY <2>2, <2>4, <2>9, <2>10
  <2>12. PICK u : u = [D1[p] EXCEPT !.children = e]
    OBVIOUS
  <2>13. /\ u \in Slot /\ Core(u, D1[p]) /\ u.hParent = D1[p].hParent /\ u.children = e
         /\ u.ui32NextIndexPlusOne = D1[p].ui32NextIndexPlusOne
    BY <2>6, <2>11, <2>12 DEF Slot, Core
  <2>14. PICK D : D = [D1 EXCEPT ![p] = u]
    OBVIOUS
  <2>15. D \in [Index -> Slot] /\ D[p] = u /\ \A j \in Index : j # p => D[j] = D1[j]
    BY <2>4, <2>10, <2>13, <2>14
  <2>16. PICK r : r = [q EXCEPT !.psHandleArray = D]
    OBVIOUS
  <2>17. UnlinkFromParent(q, i) = r
    <3>1. PICK q1 : q1 = [q EXCEPT !.psHandleArray[i].hParent = 0]
      OBVIOUS
    <3>2. UnlinkFromParent(q, i) = [q EXCEPT !.psHandleArray[i].hParent = 0,
                                             !.psHandleArray[p].children = HandleListRemove(@, i)]
      BY <1>9, <1>12, <2>1 DEF UnlinkFromParent
    <3>3. q1 = [q EXCEPT !.psHandleArray = D1]
      BY <1>9, <2>7, <2>8, <3>1 DEF Base
    <3>4. q1.psHandleArray = D1 /\ q1 \in Base
      BY <1>9, <2>10, <3>3 DEF Base
    <3>5. [q EXCEPT !.psHandleArray[i].hParent = 0,
                    !.psHandleArray[p].children = HandleListRemove(@, i)]
            = [q1 EXCEPT !.psHandleArray[p].children = e]
      <4>1. [q EXCEPT !.psHandleArray[i].hParent = 0, !.psHandleArray[p].children = e]
              = [q1 EXCEPT !.psHandleArray[p].children = e]
        BY <3>1, Zenon
      <4>2. [q EXCEPT !.psHandleArray[i].hParent = 0,
                      !.psHandleArray[p].children = HandleListRemove(@, i)]
              = [q EXCEPT !.psHandleArray[i].hParent = 0, !.psHandleArray[p].children = e]
        BY <1>9, <2>2, <2>5, Zenon
      <4> QED BY <4>1, <4>2
    <3>6. [q1 EXCEPT !.psHandleArray[p].children = e] = [q1 EXCEPT !.psHandleArray = D]
      BY <2>12, <2>14, <3>4
    <3>7. [q1 EXCEPT !.psHandleArray = D] = r
      BY <1>9, <2>16, <3>3 DEF Base
    <3> QED BY <3>2, <3>5, <3>6, <3>7
  <2>18. /\ r \in Base /\ r.psHashTab = H /\ r.psHandleArray = D /\ Whole(b, r)
         /\ r.ui32FreeHandCount = b.ui32FreeHandCount
         /\ r.ui32FirstFreeIndex = b.ui32FirstFreeIndex
         /\ r.ui32LastFreeIndexPlusOne = b.ui32LastFreeIndexPlusOne
         /\ r.ui32FirstBatchIndexPlusOne = b.ui32FirstBatchIndexPlusOne
    BY <1>9, <2>15, <2>16 DEF Base, Whole
  <2>19. \A j \in Index :
           /\ Core(D[j], A[j])
           /\ D[j].ui32NextIndexPlusOne = A[j].ui32NextIndexPlusOne
           /\ D[j].hParent = IF j = i THEN 0 ELSE A[j].hParent
           /\ D[j].children = IF A[i].hParent # 0 /\ j = A[i].hParent - 1
                              THEN HandleListRemove(A[j].children, i) ELSE A[j].children
           /\ j \notin Entries(b) => D[j] = A[j]
    <3> TAKE j \in Index
    <3>1. CASE j = p
      BY <1>12, <2>1, <2>2, <2>4, <2>5, <2>9, <2>10, <2>13, <2>15, <3>1 DEF Core
    <3>2. CASE j # p
      <4>1. D[j] = D1[j] /\ j # A[i].hParent - 1
        BY <2>1, <2>15, <3>2
      <4>2. j = i => j \in Entries(b)
        BY DEF Live
      <4> QED BY <2>9, <2>10, <4>1, <4>2 DEF Core
    <3> QED BY <3>1, <3>2
  <2>20. EnterStep(b, r, i)
    <3>1. \A x \in Keys : r.psHashTab[x] =
            IF "MULTI" \notin b.psHandleArray[i].eFlag /\ x = KeyOf(b.psHandleArray[i]) THEN 0
            ELSE b.psHashTab[x]
      BY <1>1, <1>3, <1>7, <2>18
    <3>2. \A j \in Index :
            /\ Core(r.psHandleArray[j], b.psHandleArray[j])
            /\ r.psHandleArray[j].ui32NextIndexPlusOne = b.psHandleArray[j].ui32NextIndexPlusOne
            /\ r.psHandleArray[j].hParent = IF j = i THEN 0 ELSE b.psHandleArray[j].hParent
            /\ r.psHandleArray[j].children =
                 IF b.psHandleArray[i].hParent # 0 /\ j = b.psHandleArray[i].hParent - 1
                 THEN HandleListRemove(b.psHandleArray[j].children, i) ELSE b.psHandleArray[j].children
            /\ j \notin Entries(b) => r.psHandleArray[j] = b.psHandleArray[j]
      BY <1>1, <2>18, <2>19
    <3> QED BY <2>18, <3>1, <3>2, Zenon DEF EnterStep
  <2> QED BY <1>10, <2>17, <2>20
<1> QED BY <1>11, <1>12

-----------------------------------------------------------------------------
(***************************************************************************)
(* FreeHandle after the loop over the children.                            *)
(***************************************************************************)

\* The handle of the open batch that is freed stays on the batch's list.
KeptForBatch(b, i) == b.psHandleArray[i].bBatched /\ ~b.psHandleArray[i].bPartiallyFree

\* Entry i is freed, and put on the free list unless it is kept for the batch.
LeaveStep(b, r, i) ==
  /\ r \in Base /\ Whole(b, r) /\ r.psHashTab = b.psHashTab
  /\ r.ui32FirstBatchIndexPlusOne = b.ui32FirstBatchIndexPlusOne
  /\ r.ui32FreeHandCount = IF KeptForBatch(b, i) THEN b.ui32FreeHandCount ELSE b.ui32FreeHandCount + 1
  /\ r.ui32FirstFreeIndex =
       IF ~KeptForBatch(b, i) /\ ~b.bPurgingEnabled /\ b.ui32FreeHandCount = 0 THEN i
       ELSE b.ui32FirstFreeIndex
  /\ r.ui32LastFreeIndexPlusOne =
       IF ~KeptForBatch(b, i) /\ ~b.bPurgingEnabled THEN i + 1 ELSE b.ui32LastFreeIndexPlusOne
  /\ r.psHandleArray[i].eType = NONE
  /\ r.psHandleArray[i].bBatched = b.psHandleArray[i].bBatched
  /\ KeptForBatch(b, i) => r.psHandleArray[i].bPartiallyFree
  /\ ~KeptForBatch(b, i) => r.psHandleArray[i].bPartiallyFree = b.psHandleArray[i].bPartiallyFree
  /\ r.psHandleArray[i].hParent = b.psHandleArray[i].hParent
  /\ r.psHandleArray[i].children = b.psHandleArray[i].children
  /\ r.psHandleArray[i].ui32NextIndexPlusOne = b.psHandleArray[i].ui32NextIndexPlusOne
  /\ \A j \in Index : j # i =>
       /\ Core(r.psHandleArray[j], b.psHandleArray[j])
       /\ r.psHandleArray[j].hParent = b.psHandleArray[j].hParent
       /\ r.psHandleArray[j].children = b.psHandleArray[j].children
       /\ r.psHandleArray[j].ui32NextIndexPlusOne =
            IF /\ ~KeptForBatch(b, i) /\ ~b.bPurgingEnabled /\ b.ui32FreeHandCount # 0
               /\ j = b.ui32LastFreeIndexPlusOne - 1
            THEN i + 1 ELSE b.psHandleArray[j].ui32NextIndexPlusOne
       /\ j \notin Entries(b) => r.psHandleArray[j] = b.psHandleArray[j]

LEMMA LeaveLive ==
  ASSUME NEW b \in Base, NEW r, NEW i \in Index, i \in Entries(b), LeaveStep(b, r, i)
  PROVE  /\ r \in Base /\ Entries(r) = Entries(b)
         /\ \A j : Live(r, j) <=> Live(b, j) /\ j # i
         /\ HandlesInUse(r) = HandlesInUse(b) \ {i + 1}
<1>1. r \in Base /\ Entries(r) = Entries(b)
  BY DEF LeaveStep, Whole, Entries
<1>2. \A j : Live(r, j) <=> Live(b, j) /\ j # i
  BY <1>1, Sizes DEF Live, LeaveStep, Core
<1>3. \A h : h \in HandlesInUse(r) <=> h \in HandlesInUse(b) \ {i + 1}
  <2> TAKE h
  <2>1. CASE h \in Handles /\ h # 0
    <3>1. PICK j \in Index : h = j + 1
      BY <2>1, Sizes DEF Handles, Index
    <3>2. (h \in HandlesInUse(r) <=> Live(r, j)) /\ (h \in HandlesInUse(b) <=> Live(b, j))
      BY <1>1, <3>1, HandleOfEntry
    <3>3. h = i + 1 <=> j = i
      BY <3>1, Sizes
    <3> QED BY <1>2, <3>2, <3>3
  <2>2. CASE ~(h \in Handles /\ h # 0)
    BY <2>2 DEF HandlesInUse, InUse
  <2> QED BY <2>1, <2>2
<1>4. HandlesInUse(r) = HandlesInUse(b) \ {i + 1}
  BY <1>3, Zenon
<1> QED BY <1>1, <1>2, <1>4

\* Which entries FreeHandle keeps for the batch.
LEMMA WhichKept ==
  ASSUME NEW b \in Base, NEW T, NEW S, FlagInv(b, T, S), NEW i \in Index, i \in T, i \in Entries(b)
  PROVE  /\ KeptForBatch(b, i) <=> i \in S
         /\ i \notin S => b.psHandleArray[i].ui32NextIndexPlusOne = 0
<1>1. CASE i \in S
  <2>1. Live(b, i) /\ b.psHandleArray[i].bBatched
        /\ (b.psHandleArray[i].bPartiallyFree <=> b.psHandleArray[i].eType = NONE)
    BY <1>1 DEF FlagInv
  <2> QED BY <1>1, <2>1 DEF KeptForBatch, Live
<1>2. CASE i \notin S /\ Live(b, i)
  BY <1>2 DEF FlagInv, KeptForBatch
<1>3. CASE i \notin S /\ ~Live(b, i)
  BY <1>3 DEF FlagInv, KeptForBatch
<1> QED BY <1>1, <1>2, <1>3

\* The entries outside F have the links they had.
LinksKept(b, r, F) == \A j \in Index : j \notin F => Links(r)[j] = Links(b)[j]

LEMMA LeaveLists ==
  ASSUME NEW b \in Base, NEW r, NEW w, NEW S, NEW T, NEW i \in Index, i \in T, i \in Entries(b),
         LeaveStep(b, r, i), BatchLinked(Links(b), Start(b, w), S),
         FreeInv(b, T, S), FlagInv(b, T, S)
  PROVE  /\ BatchLinked(Links(r), Start(r, w), S) /\ FreeInv(r, T \ {i}, S)
         /\ LinksKept(b, r, Unheld(b, T, S))
<1> DEFINE F == Unheld(b, T, S)
           n == b.ui32FreeHandCount
<1>1. /\ r \in Base /\ Entries(r) = Entries(b)
      /\ \A j : Live(r, j) <=> Live(b, j) /\ j # i
  BY LeaveLive
<1>2. /\ KeptForBatch(b, i) <=> i \in S
      /\ i \notin S => b.psHandleArray[i].ui32NextIndexPlusOne = 0
  BY WhichKept
<1>3. /\ IsFiniteSet(F) /\ n = Cardinality(F) /\ F \subseteq Entries(b) /\ n \in Nat
      /\ F \cap S = {} /\ i \notin F /\ F \subseteq Index
  BY UnheldFinite, Sizes DEF FreeInv, Unheld
<1>4. ~b.bPurgingEnabled => FreeLinked(Links(b), b.ui32FirstFreeIndex, b.ui32LastFreeIndexPlusOne, n, F)
  BY DEF FreeInv
<1>5. ~b.bPurgingEnabled /\ n # 0 => b.ui32LastFreeIndexPlusOne - 1 \in F
  BY <1>3, <1>4, FreeEnds
<1>6. \A j \in Index : j # i => Links(r)[j] =
        IF ~KeptForBatch(b, i) /\ ~b.bPurgingEnabled /\ n # 0 /\ j = b.ui32LastFreeIndexPlusOne - 1
        THEN i + 1 ELSE Links(b)[j]
  BY DEF LeaveStep, Links
<1>7. Links(r)[i] = Links(b)[i]
  BY DEF LeaveStep, Links
<1>8. \A j \in Index : j \notin F => Links(r)[j] = Links(b)[j]
  BY <1>5, <1>6, <1>7
<1>9. BatchLinked(Links(r), Start(r, w), S)
  <2>1. S \subseteq Index
    BY BatchStart
  <2>2. \A j \in S : Links(r)[j] = Links(b)[j]
    BY <1>3, <1>8, <2>1
  <2>3. Start(r, w) = Start(b, w)
    BY DEF Start, LeaveStep
  <2> QED BY <2>2, <2>3, BatchSame
<1>10. \A j \in Index : r.psHandleArray[j].eType = NONE <=> j = i \/ b.psHandleArray[j].eType = NONE
  BY DEF LeaveStep, Core
<1>11. r.bPurgingEnabled = b.bPurgingEnabled
  BY DEF LeaveStep, Whole
<1>12. CASE i \in S
  <2>1. \A j : j \in Unheld(r, T \ {i}, S) <=> j \in F
    BY <1>1, <1>10, <1>12, Sizes DEF Unheld
  <2>2. Unheld(r, T \ {i}, S) = F
    BY <2>1, Zenon
  <2>3. /\ r.ui32FreeHandCount = n /\ r.ui32FirstFreeIndex = b.ui32FirstFreeIndex
        /\ r.ui32LastFreeIndexPlusOne = b.ui32LastFreeIndexPlusOne
    BY <1>2, <1>12 DEF LeaveStep
  <2>4. \A j \in F : Links(r)[j] = Links(b)[j]
    BY <1>2, <1>3, <1>6, <1>12
  <2>5. ~b.bPurgingEnabled => FreeLinked(Links(r), b.ui32FirstFreeIndex, b.ui32LastFreeIndexPlusOne, n, F)
    BY <1>3, <1>4, <2>4, FreeSame
  <2>6. FreeInv(r, T \ {i}, S)
    BY <1>3, <1>11, <2>2, <2>3, <2>5 DEF FreeInv
  <2> QED BY <1>8, <1>9, <2>6 DEF LinksKept
<1>13. CASE i \notin S
  <2>1. \A j : j \in Unheld(r, T \ {i}, S) <=> j \in F \cup {i}
    BY <1>1, <1>10, <1>13, Sizes DEF Unheld
  <2>2. Unheld(r, T \ {i}, S) = F \cup {i}
    BY <2>1, Zenon
  <2>3. r.ui32FreeHandCount = n + 1
    BY <1>2, <1>13 DEF LeaveStep
  <2>4. Cardinality(F \cup {i}) = n + 1
    BY <1>3, FS_AddElement
  <2>5. ASSUME ~b.bPurgingEnabled
        PROVE  FreeLinked(Links(r), r.ui32FirstFreeIndex, r.ui32LastFreeIndexPlusOne, n + 1, F \cup {i})
    <3>1. /\ r.ui32LastFreeIndexPlusOne = i + 1
          /\ n = 0 => r.ui32FirstFreeIndex = i
          /\ n # 0 => r.ui32FirstFreeIndex = b.ui32FirstFreeIndex
      BY <1>2, <1>13, <2>5 DEF LeaveStep
    <3>2. Links(r)[i] = 0
      BY <1>2, <1>7, <1>13 DEF Links
    <3>3. \A j \in F : j # b.ui32LastFreeIndexPlusOne - 1 => Links(r)[j] = Links(b)[j]
      BY <1>3, <1>6
    <3>4. n # 0 => Links(r)[b.ui32LastFreeIndexPlusOne - 1] = i + 1
      BY <1>2, <1>3, <1>5, <1>6, <1>13, <2>5
    <3>5. FreeLinked(Links(b), b.ui32FirstFreeIndex, b.ui32LastFreeIndexPlusOne, n, F)
      BY <1>4, <2>5
    <3>6. PICK F0, n0, nx, ny, f0, l0, f1, l1 :
            /\ F0 = F /\ n0 = n /\ nx = Links(b) /\ ny = Links(r)
            /\ f0 = b.ui32FirstFreeIndex /\ l0 = b.ui32LastFreeIndexPlusOne
            /\ f1 = r.ui32FirstFreeIndex /\ l1 = r.ui32LastFreeIndexPlusOne
      OBVIOUS
    <3>7. /\ FreeLinked(nx, f0, l0, n0, F0) /\ n0 \in Nat
          /\ i \in Index /\ i \notin F0 /\ ny[i] = 0
          /\ \A j \in F0 : j # l0 - 1 => ny[j] = nx[j]
          /\ n0 # 0 => ny[l0 - 1] = i + 1
          /\ n0 = 0 => f1 = i
          /\ n0 # 0 => f1 = f0
          /\ l1 = i + 1
      BY <1>3, <3>1, <3>2, <3>3, <3>4, <3>5, <3>6, Zenon
    <3>8. PICK q, G : q = n0 + 1 /\ G = F0 \cup {i}
      OBVIOUS
    <3>9. FreeLinked(ny, f1, l1, q, G)
      BY ONLY <3>7, <3>8, FreeAppend
    <3> QED BY <3>6, <3>8, <3>9, Zenon
  <2>6. FreeInv(r, T \ {i}, S)
    BY <1>11, <2>2, <2>3, <2>4, <2>5, Zenon DEF FreeInv
  <2> QED BY <1>8, <1>9, <2>6 DEF LinksKept
<1> QED BY <1>12, <1>13

LEMMA LeaveHash ==
  ASSUME NEW b \in Base, NEW r, NEW T, NEW i \in Index, i \in T, i \in Entries(b),
         LeaveStep(b, r, i), HashInv(b, T)
  PROVE  HashInv(r, T \ {i})
<1>1. r \in Base /\ \A j : Live(r, j) <=> Live(b, j) /\ j # i
  BY LeaveLive
<1>2. \A j \in Index : j # i =>
        /\ r.psHandleArray[j].eFlag = b.psHandleArray[j].eFlag
        /\ r.psHandleArray[j].pvData = b.psHandleArray[j].pvData
        /\ KeyOf(r.psHandleArray[j]) = KeyOf(b.psHandleArray[j])
  BY DEF LeaveStep, Core, KeyOf, ParentIfPrivate
<1>3. r.psHashTab = b.psHashTab
  BY DEF LeaveStep
<1>4. ASSUME NEW x \in Keys, r.psHashTab[x] # 0
      PROVE  LET j == r.psHashTab[x] - 1 IN
             /\ Live(r, j) /\ j \notin T \ {i}
             /\ "MULTI" \notin r.psHandleArray[j].eFlag
             /\ KeyOf(r.psHandleArray[j]) = x
  <2>1. b.psHashTab[x] # 0
    BY <1>3, <1>4
  <2>2. PICK j : j = b.psHashTab[x] - 1
    OBVIOUS
  <2>3. /\ Live(b, j) /\ j \notin T /\ "MULTI" \notin b.psHandleArray[j].eFlag
        /\ KeyOf(b.psHandleArray[j]) = x
    BY <2>1, <2>2, Zenon DEF HashInv
  <2>4. j \in Index /\ j # i
    BY <2>3, Sizes DEF Live
  <2>5. /\ Live(r, j) /\ j \notin T \ {i} /\ "MULTI" \notin r.psHandleArray[j].eFlag
        /\ KeyOf(r.psHandleArray[j]) = x
    BY <1>1, <1>2, <2>3, <2>4
  <2>6. r.psHashTab[x] - 1 = j
    BY <1>3, <2>2
  <2> QED BY <2>5, <2>6
<1>5. ASSUME NEW j \in Index, Live(r, j)
      PROVE  /\ r.psHandleArray[j].pvData \in Data \cup {DevCookie}
             /\ \/ "MULTI" \in r.psHandleArray[j].eFlag
                \/ j \in T \ {i}
                \/ r.psHashTab[KeyOf(r.psHandleArray[j])] = j + 1
  <2>1. Live(b, j) /\ j # i
    BY <1>1, <1>5
  <2>2. /\ b.psHandleArray[j].pvData \in Data \cup {DevCookie}
        /\ "MULTI" \in b.psHandleArray[j].eFlag \/ j \in T
           \/ b.psHashTab[KeyOf(b.psHandleArray[j])] = j + 1
    BY <2>1 DEF HashInv
  <2> QED BY <1>2, <1>3, <2>1, <2>2
<1> QED BY <1>4, <1>5, Zenon DEF HashInv

LEMMA LeaveTree ==
  ASSUME NEW b \in Base, NEW r, NEW i \in Index, i \in Entries(b), LeaveStep(b, r, i), TreeInv(b),
         b.psHandleArray[i].hParent = 0, b.psHandleArray[i].children = <<>>
  PROVE  TreeInv(r)
<1>1. r \in Base /\ \A j : Live(r, j) <=> Live(b, j) /\ j # i
  BY LeaveLive
<1>31. PICK A : A = b.psHandleArray
  OBVIOUS
<1>32. PICK D : D = r.psHandleArray
  OBVIOUS
<1>3. A = b.psHandleArray /\ D = r.psHandleArray
  BY <1>31, <1>32
<1>30. TreeInv(b)
  OBVIOUS
<1>4. /\ \A j \in Index : A[j].eType = NONE => A[j].hParent = 0 /\ A[j].children = <<>>
      /\ \A j \in Index : Live(b, j) /\ A[j].hParent # 0 =>
           /\ Live(b, A[j].hParent - 1)
           /\ \E x \in DOMAIN A[A[j].hParent - 1].children : A[A[j].hParent - 1].children[x] = j
      /\ \A j \in Index : Live(b, j) =>
           /\ \A x \in DOMAIN A[j].children :
                Live(b, A[j].children[x]) /\ A[A[j].children[x]].hParent = j + 1
           /\ \A x, y \in DOMAIN A[j].children : A[j].children[x] = A[j].children[y] => x = y
  BY ONLY <1>3, <1>30, Zenon DEF TreeInv
<1>5. \A j \in Index : D[j].hParent = A[j].hParent /\ D[j].children = A[j].children
                       /\ (j # i => D[j].eType = A[j].eType)
  BY <1>3 DEF LeaveStep, Core
<1>6. \A j : Live(b, j) => j \in Index
  BY Sizes DEF Live
<1>7. A[i].hParent = 0 /\ A[i].children = <<>>
  BY <1>3
<1>11. ASSUME NEW j \in Index, D[j].eType = NONE PROVE D[j].hParent = 0 /\ D[j].children = <<>>
  BY <1>4, <1>5, <1>7, <1>11
<1>12. ASSUME NEW j \in Index, Live(r, j), D[j].hParent # 0
       PROVE  /\ Live(r, D[j].hParent - 1)
              /\ \E x \in DOMAIN D[D[j].hParent - 1].children : D[D[j].hParent - 1].children[x] = j
  <2>1. D[j].hParent = A[j].hParent /\ Live(b, j)
    BY <1>1, <1>5, <1>12
  <2>2. PICK q : q = A[j].hParent - 1
    OBVIOUS
  <2>3. Live(b, q) /\ q \in Index /\ \E x \in DOMAIN A[q].children : A[q].children[x] = j
    BY <1>4, <1>6, <1>12, <2>1, <2>2
  <2>4. q # i
    BY <1>7, <2>3
  <2>5. D[q].children = A[q].children
    BY <1>5, <2>3
  <2> QED BY <1>1, <2>1, <2>2, <2>3, <2>4, <2>5
<1>13. ASSUME NEW j \in Index, Live(r, j)
       PROVE  /\ \A x \in DOMAIN D[j].children :
                   Live(r, D[j].children[x]) /\ D[D[j].children[x]].hParent = j + 1
              /\ \A x, y \in DOMAIN D[j].children : D[j].children[x] = D[j].children[y] => x = y
  <2>1. Live(b, j) /\ D[j].children = A[j].children
    BY <1>1, <1>5, <1>13
  <2>2. /\ \A x \in DOMAIN A[j].children :
             Live(b, A[j].children[x]) /\ A[A[j].children[x]].hParent = j + 1
        /\ \A x, y \in DOMAIN A[j].children : A[j].children[x] = A[j].children[y] => x = y
    BY <1>4, <2>1
  <2>3. j + 1 # 0
    BY Sizes
  <2>4. \A x \in DOMAIN A[j].children : A[j].children[x] # i /\ A[j].children[x] \in Index
    BY <1>6, <1>7, <2>2, <2>3
  <2>5. \A x \in DOMAIN A[j].children :
          Live(r, A[j].children[x]) /\ D[A[j].children[x]].hParent = j + 1
    BY <1>1, <1>5, <2>2, <2>4
  <2> QED BY <2>1, <2>2, <2>5
<1>14. /\ \A j \in Index : D[j].eType = NONE => D[j].hParent = 0 /\ D[j].children = <<>>
       /\ \A j \in Index : Live(r, j) /\ D[j].hParent # 0 =>
            /\ Live(r, D[j].hParent - 1)
            /\ \E x \in DOMAIN D[D[j].hParent - 1].children : D[D[j].hParent - 1].children[x] = j
       /\ \A j \in Index : Live(r, j) =>
            /\ \A x \in DOMAIN D[j].children :
                 Live(r, D[j].children[x]) /\ D[D[j].children[x]].hParent = j + 1
            /\ \A x, y \in DOMAIN D[j].children : D[j].children[x] = D[j].children[y] => x = y
  BY <1>11, <1>12, <1>13, Zenon
<1>15. /\ \A j \in Index : r.psHandleArray[j].eType = NONE =>
            r.psHandleArray[j].hParent = 0 /\ r.psHandleArray[j].children = <<>>
       /\ \A j \in Index : Live(r, j) /\ r.psHandleArray[j].hParent # 0 =>
            /\ Live(r, r.psHandleArray[j].hParent - 1)
            /\ \E x \in DOMAIN r.psHandleArray[r.psHandleArray[j].hParent - 1].children :
                 r.psHandleArray[r.psHandleArray[j].hParent - 1].children[x] = j
       /\ \A j \in Index : Live(r, j) =>
            /\ \A x \in DOMAIN r.psHandleArray[j].children :
                 /\ Live(r, r.psHandleArray[j].children[x])
                 /\ r.psHandleArray[r.psHandleArray[j].children[x]].hParent = j + 1
            /\ \A x, y \in DOMAIN r.psHandleArray[j].children :
                 r.psHandleArray[j].children[x] = r.psHandleArray[j].children[y] => x = y
  BY <1>32, <1>14
<1> QED BY <1>15, TreeMake

\* s2 is the stack without its top i.
PoppedTo(st, i, s2) ==
  /\ s2 \in Seq(Index) /\ Held(s2) = Held(st) \ {i} /\ i \in Held(st) /\ i \in Index
  /\ \A j, k \in DOMAIN s2 : s2[j] = s2[k] => j = k

\* The top of the stack is popped.
LEMMA Popped ==
  ASSUME NEW b, NEW st, st # <<>>, StackInv(b, st),
         NEW i, i = st[Len(st)], NEW s2, s2 = SubSeq(st, 1, Len(st) - 1)
  PROVE  PoppedTo(st, i, s2)
<1>0. st \in Seq(Index) /\ \A j, k \in DOMAIN st : st[j] = st[k] => j = k
  BY DEF StackInv
<1>1. PICK n \in Nat : n = Len(st)
  BY <1>0
<1>2. n # 0 /\ DOMAIN st = 1..n /\ n \in 1..n /\ st[n] = i
  BY <1>0, <1>1
<1>3. s2 \in Seq(Index) /\ Len(s2) = n - 1 /\ \A x \in 1..(n - 1) : s2[x] = st[x]
  BY <1>0, <1>1, <1>2
<1>4. DOMAIN s2 = 1..(n - 1)
  BY <1>2, <1>3
<1>5. \A x \in 1..(n - 1) : x \in 1..n /\ x # n
  OBVIOUS
<1>6. \A x \in 1..n : x = n \/ x \in 1..(n - 1)
  OBVIOUS
<1>7. \A x \in 1..n : x # n => st[x] # i
  BY <1>0, <1>2
<1>8. \A x : x \in Held(s2) <=> x \in Held(st) \ {i}
  <2> TAKE x
  <2>1. ASSUME x \in Held(s2) PROVE x \in Held(st) \ {i}
    <3>1. PICK y \in 1..(n - 1) : x = s2[y]
      BY <1>4, <2>1 DEF Held
    <3> QED BY <1>2, <1>3, <1>5, <1>7, <3>1 DEF Held
  <2>2. ASSUME x \in Held(st) \ {i} PROVE x \in Held(s2)
    <3>1. PICK y \in 1..n : x = st[y]
      BY <1>2, <2>2 DEF Held
    <3>2. y \in 1..(n - 1)
      BY <1>2, <1>6, <2>2, <3>1
    <3> QED BY <1>3, <1>4, <3>1, <3>2 DEF Held
  <2> QED BY <2>1, <2>2
<1>9. Held(s2) = Held(st) \ {i}
  BY <1>8, Zenon
<1>10. \A j, k \in DOMAIN s2 : s2[j] = s2[k] => j = k
  BY <1>0, <1>2, <1>3, <1>4, <1>5
<1>11. i \in Held(st) /\ i \in Index
  BY <1>0, <1>1, <1>2 DEF Held
<1> QED BY <1>3, <1>9, <1>10, <1>11 DEF PoppedTo

\* The invariant holds after entry i was taken from the stack.
AfterLeave(r, st, s2, w, k, S, i) == HBCore(r, s2, w, k, S) /\ Held(s2) = Held(st) \ {i}

LEMMA LeaveKeeps ==
  ASSUME NEW b \in Base, NEW st, NEW w, NEW k, NEW S, HBCore(b, st, w, k, S),
         st # <<>>, NEW i, i = st[Len(st)], b.psHandleArray[i].children = <<>>,
         NEW r, LeaveStep(b, r, i), NEW s2, s2 = SubSeq(st, 1, Len(st) - 1)
  PROVE  AfterLeave(r, st, s2, w, k, S, i)
<1>2. PICK T : T = Held(st)
  OBVIOUS
<1>3. /\ KindInv(b, k, w, T, S) /\ LoopInv(b, w) /\ FreshInv(b)
      /\ BatchLinked(Links(b), Start(b, w), S)
      /\ FreeInv(b, T, S) /\ FlagInv(b, T, S) /\ HashInv(b, T) /\ TreeInv(b) /\ StackInv(b, st)
  BY <1>2 DEF HBCore
<1>4. /\ s2 \in Seq(Index) /\ Held(s2) = T \ {i} /\ i \in T /\ i \in Index
      /\ \A j, m \in DOMAIN s2 : s2[j] = s2[m] => j = m
  <2>1. PoppedTo(st, i, s2)
    BY <1>3, Popped
  <2> QED BY <1>2, <2>1 DEF PoppedTo
<1>5. i \in Entries(b) /\ b.psHandleArray[i].hParent = 0
  BY <1>2, <1>3, <1>4 DEF StackInv
<1>1. /\ r \in Base /\ Entries(r) = Entries(b)
      /\ \A j : Live(r, j) <=> Live(b, j) /\ j # i
  BY <1>4, <1>5, LeaveLive
<1>6. /\ KeptForBatch(b, i) <=> i \in S
      /\ i \notin S => b.psHandleArray[i].ui32NextIndexPlusOne = 0
  BY <1>3, <1>4, <1>5, WhichKept
<1>7. /\ BatchLinked(Links(r), Start(r, w), S) /\ FreeInv(r, T \ {i}, S)
      /\ LinksKept(b, r, Unheld(b, T, S))
  BY <1>3, <1>4, <1>5, LeaveLists
<1>8. HashInv(r, T \ {i})
  BY <1>3, <1>4, <1>5, LeaveHash
<1>9. TreeInv(r)
  BY <1>3, <1>4, <1>5, LeaveTree
<1>10. /\ r.bPurgingEnabled = b.bPurgingEnabled /\ r.ui32HandBatchSize = b.ui32HandBatchSize
       /\ r.ui32TotalHandCount = b.ui32TotalHandCount
       /\ r.ui32FirstBatchIndexPlusOne = b.ui32FirstBatchIndexPlusOne
       /\ r.ui32LastFreeIndexPlusOne =
            IF ~KeptForBatch(b, i) /\ ~b.bPurgingEnabled THEN i + 1 ELSE b.ui32LastFreeIndexPlusOne
       /\ r.ui32FreeHandCount =
            IF KeptForBatch(b, i) THEN b.ui32FreeHandCount ELSE b.ui32FreeHandCount + 1
       /\ r.ui32FirstFreeIndex =
            IF ~KeptForBatch(b, i) /\ ~b.bPurgingEnabled /\ b.ui32FreeHandCount = 0 THEN i
            ELSE b.ui32FirstFreeIndex
  BY DEF LeaveStep, Whole
<1>11. \A j \in Index : j # i =>
         /\ r.psHandleArray[j].bBatched = b.psHandleArray[j].bBatched
         /\ r.psHandleArray[j].bPartiallyFree = b.psHandleArray[j].bPartiallyFree
         /\ r.psHandleArray[j].eType = b.psHandleArray[j].eType
         /\ r.psHandleArray[j].hParent = b.psHandleArray[j].hParent
  BY DEF LeaveStep, Core
<1>12. /\ r.psHandleArray[i].eType = NONE
       /\ r.psHandleArray[i].bBatched = b.psHandleArray[i].bBatched
       /\ i \in S => r.psHandleArray[i].bPartiallyFree
       /\ i \notin S => r.psHandleArray[i].bPartiallyFree = b.psHandleArray[i].bPartiallyFree
  BY <1>6 DEF LeaveStep
<1>13. KindInv(r, k, w, T \ {i}, S)
  <2>1. 0 \in Index
    BY Sizes
  <2>2. k = "kernel" => /\ r.ui32LastFreeIndexPlusOne = 0
                        /\ r.ui32HandBatchSize = 0
                        /\ \A j \in Index : /\ ~r.psHandleArray[j].bBatched
                                            /\ ~r.psHandleArray[j].bPartiallyFree
    <3> SUFFICES ASSUME k = "kernel"
                 PROVE  /\ r.ui32LastFreeIndexPlusOne = 0
                        /\ r.ui32HandBatchSize = 0
                        /\ \A j \in Index : /\ ~r.psHandleArray[j].bBatched
                                            /\ ~r.psHandleArray[j].bPartiallyFree
      OBVIOUS
    <3>1. /\ b.bPurgingEnabled /\ b.ui32LastFreeIndexPlusOne = 0 /\ b.ui32HandBatchSize = 0
          /\ \A j \in Index : ~b.psHandleArray[j].bBatched /\ ~b.psHandleArray[j].bPartiallyFree
      BY <1>3 DEF KindInv
    <3>2. i \notin S
      BY <1>4, <1>6, <3>1 DEF KeptForBatch
    <3> QED BY <1>4, <1>10, <1>11, <1>12, <3>1, <3>2
  <2>3. k = "process" /\ w.loop # "all" =>
          /\ Live(r, 0) /\ r.psHandleArray[0].eType = DEV_NODE
          /\ r.psHandleArray[0].hParent = 0 /\ 0 \notin (T \ {i}) \cup S
    <3>1. k = "process" /\ w.loop # "all" => 0 # i
      BY <1>3, <1>4 DEF KindInv
    <3> QED BY <1>1, <1>3, <1>11, <2>1, <3>1 DEF KindInv
  <2>4. k = "process" /\ w.loop # "all" /\ r.ui32FreeHandCount = 0 => r.ui32FirstFreeIndex = 0
    <3>1. b.ui32FreeHandCount + 1 # 0
      BY Sizes
    <3> QED BY <1>3, <1>10, <3>1 DEF KindInv
  <2> QED BY <1>3, <1>10, <2>2, <2>3, <2>4 DEF KindInv
<1>14. LoopInv(r, w)
  <2>1. i + 1 <= b.ui32TotalHandCount
    BY <1>5, Sizes DEF Entries
  <2> QED BY <1>3, <1>10, <2>1 DEF LoopInv
<1>15. FreshInv(r)
  BY <1>1, <1>3, <1>5 DEF FreshInv, LeaveStep
<1>16. FlagInv(r, T \ {i}, S)
  <2>1. S \subseteq Entries(r) /\ Entries(r) \subseteq Index
    BY <1>1, <1>3, Sizes DEF FlagInv
  <2>2. \A j \in S : /\ r.psHandleArray[j].bBatched
                     /\ r.psHandleArray[j].bPartiallyFree <=> r.psHandleArray[j].eType = NONE
    BY <1>3, <1>11, <1>12, <2>1 DEF FlagInv
  <2>3. \A j \in S \cap (T \ {i}) : Live(r, j)
    BY <1>1, <1>3 DEF FlagInv
  <2>4. \A j \in Index : Live(r, j) /\ j \notin S =>
          /\ ~r.psHandleArray[j].bBatched /\ ~r.psHandleArray[j].bPartiallyFree
          /\ r.psHandleArray[j].ui32NextIndexPlusOne = 0
    <3>1. \A j \in Index : Live(r, j) => Live(b, j) /\ j # i /\ Links(r)[j] = Links(b)[j]
      BY <1>1, <1>7 DEF LinksKept, Unheld, Live
    <3> QED BY <1>3, <1>11, <3>1 DEF FlagInv, Links
  <2>5. \A j \in T \ {i} : ~Live(r, j) =>
          r.psHandleArray[j].bPartiallyFree /\ r.psHandleArray[j].ui32NextIndexPlusOne = 0
    <3> SUFFICES ASSUME NEW j \in T \ {i}, ~Live(r, j)
                 PROVE  r.psHandleArray[j].bPartiallyFree /\ r.psHandleArray[j].ui32NextIndexPlusOne = 0
      OBVIOUS
    <3>1. ~Live(b, j) /\ j \in Index
      BY <1>1, <1>2, <1>3, Sizes DEF StackInv
    <3>2. Links(r)[j] = Links(b)[j]
      BY <1>7, <3>1 DEF LinksKept, Unheld
    <3> QED BY <1>3, <1>11, <3>1, <3>2 DEF FlagInv, Links
  <2> QED BY <2>1, <2>2, <2>3, <2>4, <2>5 DEF FlagInv
<1>17. StackInv(r, s2)
  <2>1. \A j \in Held(s2) : j \in Entries(r) /\ r.psHandleArray[j].hParent = 0
    BY <1>1, <1>2, <1>3, <1>4, <1>11, Sizes DEF StackInv
  <2> QED BY <1>4, <2>1 DEF StackInv
<1>18. HBCore(r, s2, w, k, S)
  BY <1>1, <1>4, <1>7, <1>8, <1>9, <1>13, <1>14, <1>15, <1>16, <1>17 DEF HBCore
<1> QED BY <1>2, <1>4, <1>18 DEF AfterLeave

\* An entry on the stack is not counted as free.
LEMMA RoomToFree ==
  ASSUME NEW b \in Base, NEW T, NEW S, FreeInv(b, T, S), NEW i \in T, i \in Entries(b)
  PROVE  b.ui32FreeHandCount + 1 \in Handles
<1>1. /\ IsFiniteSet(Unheld(b, T, S)) /\ Unheld(b, T, S) \subseteq Entries(b) /\ i \notin Unheld(b, T, S)
      /\ b.ui32FreeHandCount = Cardinality(Unheld(b, T, S))
  BY UnheldFinite DEF Unheld, FreeInv
<1>2. PICK G : G = Unheld(b, T, S) \cup {i}
  OBVIOUS
<1>3. Cardinality(G) = b.ui32FreeHandCount + 1 /\ G \subseteq Entries(b)
  BY <1>1, <1>2, FS_AddElement
<1>4. Cardinality(G) <= b.ui32TotalHandCount
  BY <1>3, Sizes, FS_Subset
<1> QED BY <1>3, <1>4, Sizes DEF Handles

LEMMA LeaveFields ==
  ASSUME NEW b \in Base, NEW T, NEW S, FreeInv(b, T, S), NEW i \in Index, i \in T, i \in Entries(b)
  PROVE  LeaveStep(b, FreeHandleLeave(b, i), i)
<1>1. PICK A : A = b.psHandleArray
  OBVIOUS
<1>2. A \in [Index -> Slot] /\ A[i] \in Slot
  BY <1>1 DEF Base
<1>0. PICK no : no = {}
  OBVIOUS
<1>3. no = {} /\ no \in SUBSET {"SHARED", "MULTI", "PRIVATE"}
  BY <1>0
<1>4. PICK s : s = [A[i] EXCEPT !.eType = NONE, !.pvData = NONE, !.eFlag = no]
  OBVIOUS
<1>5. /\ s \in Slot /\ s.eType = NONE /\ s.bBatched = A[i].bBatched
      /\ s.bPartiallyFree = A[i].bPartiallyFree /\ s.hParent = A[i].hParent
      /\ s.children = A[i].children /\ s.ui32NextIndexPlusOne = A[i].ui32NextIndexPlusOne
  BY <1>2, <1>3, <1>4 DEF Slot
<1>6. PICK D : D = [A EXCEPT ![i] = s]
  OBVIOUS
<1>7. D \in [Index -> Slot] /\ D[i] = s /\ \A j \in Index : j # i => D[j] = A[j]
  BY <1>2, <1>5, <1>6
<1>8. PICK q : q = [b EXCEPT !.psHandleArray = D]
  OBVIOUS
<1>9. /\ q \in Base /\ q.psHandleArray = D /\ q.psHashTab = b.psHashTab /\ Whole(b, q)
      /\ q.ui32FreeHandCount = b.ui32FreeHandCount
      /\ q.ui32FirstFreeIndex = b.ui32FirstFreeIndex
      /\ q.ui32LastFreeIndexPlusOne = b.ui32LastFreeIndexPlusOne
      /\ q.ui32FirstBatchIndexPlusOne = b.ui32FirstBatchIndexPlusOne
  BY <1>7, <1>8 DEF Base, Whole
<1>10. [b EXCEPT !.psHandleArray[i] = [@ EXCEPT !.eType = NONE, !.pvData = NONE, !.eFlag = {}]] = q
  <2>1. [b EXCEPT !.psHandleArray[i] = [@ EXCEPT !.eType = NONE, !.pvData = NONE, !.eFlag = {}]]
          = [b EXCEPT !.psHandleArray[i] = s]
    BY <1>1, <1>3, <1>4, Zenon
  <2>2. [b EXCEPT !.psHandleArray[i] = s] = [b EXCEPT !.psHandleArray = D]
    BY <1>1, <1>6, Zenon
  <2> QED BY <1>8, <2>1, <2>2
<1>11. \A j \in Index : Core(A[j], A[j])
  BY DEF Core
<1>12. FreeHandleLeave(b, i) =
         IF A[i].bBatched /\ ~A[i].bPartiallyFree
         THEN [q EXCEPT !.psHandleArray[i].bPartiallyFree = TRUE]
         ELSE IF b.bPurgingEnabled
         THEN [q EXCEPT !.ui32FreeHandCount = @ + 1]
         ELSE [q EXCEPT
                 !.psHandleArray =
                    IF b.ui32FreeHandCount = 0 THEN @
                    ELSE [@ EXCEPT ![b.ui32LastFreeIndexPlusOne - 1].ui32NextIndexPlusOne = i + 1],
                 !.ui32FirstFreeIndex = IF b.ui32FreeHandCount = 0 THEN i ELSE @,
                 !.ui32LastFreeIndexPlusOne = i + 1,
                 !.ui32FreeHandCount = @ + 1]
  <2>1. PICK q1 : q1 = [b EXCEPT !.psHandleArray[i] =
                         [@ EXCEPT !.eType = NONE, !.pvData = NONE, !.eFlag = {}]]
    OBVIOUS
  <2>2. FreeHandleLeave(b, i) =
         IF b.psHandleArray[i].bBatched /\ ~b.psHandleArray[i].bPartiallyFree
         THEN [q1 EXCEPT !.psHandleArray[i].bPartiallyFree = TRUE]
         ELSE IF b.bPurgingEnabled
         THEN [q1 EXCEPT !.ui32FreeHandCount = @ + 1]
         ELSE [q1 EXCEPT
                 !.psHandleArray =
                    IF b.ui32FreeHandCount = 0 THEN @
                    ELSE [@ EXCEPT ![b.ui32LastFreeIndexPlusOne - 1].ui32NextIndexPlusOne = i + 1],
                 !.ui32FirstFreeIndex = IF b.ui32FreeHandCount = 0 THEN i ELSE @,
                 !.ui32LastFreeIndexPlusOne = i + 1,
                 !.ui32FreeHandCount = @ + 1]
    BY <2>1 DEF FreeHandleLeave
  <2>3. q1 = q
    BY <1>10, <2>1, Zenon
  <2> QED BY <1>1, <2>2, <2>3
<1>13. CASE KeptForBatch(b, i)
  <2>1. PICK t : t = TRUE
    OBVIOUS
  <2>2. PICK u : u = [s EXCEPT !.bPartiallyFree = t]
    OBVIOUS
  <2>3. /\ u \in Slot /\ u.eType = NONE /\ u.bBatched = A[i].bBatched
        /\ u.bPartiallyFree = t /\ u.hParent = A[i].hParent
        /\ u.children = A[i].children /\ u.ui32NextIndexPlusOne = A[i].ui32NextIndexPlusOne
    BY <1>5, <2>1, <2>2 DEF Slot
  <2>4. PICK E : E = [D EXCEPT ![i] = u]
    OBVIOUS
  <2>5. E \in [Index -> Slot] /\ E[i] = u /\ \A j \in Index : j # i => E[j] = A[j]
    BY <1>7, <2>3, <2>4
  <2>6. PICK r : r = [q EXCEPT !.psHandleArray = E]
    OBVIOUS
  <2>7. FreeHandleLeave(b, i) = r
    <3>1. FreeHandleLeave(b, i) = [q EXCEPT !.psHandleArray[i].bPartiallyFree = t]
      BY <1>1, <1>12, <1>13, <2>1, Zenon DEF KeptForBatch
    <3> QED BY <1>7, <1>9, <2>2, <2>4, <2>6, <3>1
  <2>8. /\ r \in Base /\ r.psHandleArray = E /\ r.psHashTab = b.psHashTab /\ Whole(b, r)
        /\ r.ui32FreeHandCount = b.ui32FreeHandCount
        /\ r.ui32FirstFreeIndex = b.ui32FirstFreeIndex
        /\ r.ui32LastFreeIndexPlusOne = b.ui32LastFreeIndexPlusOne
        /\ r.ui32FirstBatchIndexPlusOne = b.ui32FirstBatchIndexPlusOne
    BY <1>9, <2>5, <2>6 DEF Base, Whole
  <2>9. LeaveStep(b, r, i)
    BY <1>1, <1>11, <1>13, <2>1, <2>3, <2>5, <2>8 DEF LeaveStep
  <2> QED BY <2>7, <2>9
<1>14. CASE ~KeptForBatch(b, i) /\ b.bPurgingEnabled
  <2>1. PICK n : n = b.ui32FreeHandCount + 1
    OBVIOUS
  <2>2. n \in Handles
    BY <2>1, RoomToFree
  <2>3. PICK r : r = [q EXCEPT !.ui32FreeHandCount = n]
    OBVIOUS
  <2>4. FreeHandleLeave(b, i) = r
    BY <1>1, <1>9, <1>12, <1>14, <2>1, <2>3 DEF KeptForBatch
  <2>5. /\ r \in Base /\ r.psHandleArray = D /\ r.psHashTab = b.psHashTab /\ Whole(b, r)
        /\ r.ui32FreeHandCount = n
        /\ r.ui32FirstFreeIndex = b.ui32FirstFreeIndex
        /\ r.ui32LastFreeIndexPlusOne = b.ui32LastFreeIndexPlusOne
        /\ r.ui32FirstBatchIndexPlusOne = b.ui32FirstBatchIndexPlusOne
    BY <1>9, <2>2, <2>3 DEF Base, Whole
  <2>6. LeaveStep(b, r, i)
    BY <1>1, <1>5, <1>7, <1>11, <1>14, <2>1, <2>5 DEF LeaveStep
  <2> QED BY <2>4, <2>6
<1>15. CASE ~KeptForBatch(b, i) /\ ~b.bPurgingEnabled
  <2>1. PICK n : n = b.ui32FreeHandCount + 1
    OBVIOUS
  <2>2. n \in Handles
    BY <2>1, RoomToFree
  <2>3. PICK e : e = i + 1
    OBVIOUS
  <2>4. e \in Handles
    BY <2>3, HandleOfEntry
  <2>5. PICK last : last = b.ui32LastFreeIndexPlusOne - 1
    OBVIOUS
  <2>6. b.ui32FreeHandCount # 0 => last \in Index /\ last \in Entries(b) /\ last # i
    <3>1. b.ui32FreeHandCount # 0 => last \in Unheld(b, T, S)
      <4>1. FreeLinked(Links(b), b.ui32FirstFreeIndex, b.ui32LastFreeIndexPlusOne,
                       b.ui32FreeHandCount, Unheld(b, T, S))
        BY <1>15 DEF FreeInv
      <4>2. b.ui32FreeHandCount \in Nat
        BY Sizes
      <4> QED BY <2>5, <4>1, <4>2, FreeEnds
    <3> QED BY <3>1, Sizes DEF Unheld
  <2>7. PICK E : E = IF b.ui32FreeHandCount = 0 THEN D
                     ELSE [D EXCEPT ![last].ui32NextIndexPlusOne = e]
    OBVIOUS
  <2>8. /\ E \in [Index -> Slot] /\ E[i] = s
        /\ \A j \in Index : j # i =>
             /\ Core(E[j], A[j]) /\ E[j].hParent = A[j].hParent /\ E[j].children = A[j].children
             /\ E[j].ui32NextIndexPlusOne =
                  IF b.ui32FreeHandCount # 0 /\ j = last THEN e ELSE A[j].ui32NextIndexPlusOne
             /\ j \notin Entries(b) => E[j] = A[j]
    <3>1. CASE b.ui32FreeHandCount = 0
      BY <1>7, <1>11, <2>7, <3>1
    <3>2. CASE b.ui32FreeHandCount # 0
      <4>1. PICK u : u = [A[last] EXCEPT !.ui32NextIndexPlusOne = e]
        OBVIOUS
      <4>2. /\ u \in Slot /\ Core(u, A[last]) /\ u.hParent = A[last].hParent
            /\ u.children = A[last].children /\ u.ui32NextIndexPlusOne = e
        BY <1>2, <2>4, <2>6, <3>2, <4>1 DEF Slot, Core
      <4>3. D[last] = A[last]
        BY <1>7, <2>6, <3>2
      <4>4. E = [D EXCEPT ![last] = u]
        BY <2>7, <3>2, <4>1, <4>3
      <4>5. E \in [Index -> Slot] /\ E[last] = u /\ \A j \in Index : j # last => E[j] = D[j]
        BY <1>7, <2>6, <3>2, <4>2, <4>4
      <4> QED BY <1>7, <1>11, <2>6, <3>2, <4>2, <4>5
    <3> QED BY <3>1, <3>2
  <2>9. PICK f : f = IF b.ui32FreeHandCount = 0 THEN i ELSE b.ui32FirstFreeIndex
    OBVIOUS
  <2>10. f \in Index
    BY <2>9 DEF Base
  <2>11. PICK r : r = [q EXCEPT !.psHandleArray = E, !.ui32FirstFreeIndex = f,
                                !.ui32LastFreeIndexPlusOne = e, !.ui32FreeHandCount = n]
    OBVIOUS
  <2>12. FreeHandleLeave(b, i) = r
    <3>1. FreeHandleLeave(b, i) =
            [q EXCEPT
               !.psHandleArray =
                  IF b.ui32FreeHandCount = 0 THEN @
                  ELSE [@ EXCEPT ![b.ui32LastFreeIndexPlusOne - 1].ui32NextIndexPlusOne = i + 1],
               !.ui32FirstFreeIndex = IF b.ui32FreeHandCount = 0 THEN i ELSE @,
               !.ui32LastFreeIndexPlusOne = i + 1,
               !.ui32FreeHandCount = @ + 1]
      BY <1>1, <1>12, <1>15, Zenon DEF KeptForBatch
    <3>2. E = IF b.ui32FreeHandCount = 0 THEN q.psHandleArray
              ELSE [q.psHandleArray EXCEPT ![b.ui32LastFreeIndexPlusOne - 1].ui32NextIndexPlusOne = i + 1]
      BY <1>9, <2>3, <2>5, <2>7, Zenon
    <3>3. f = IF b.ui32FreeHandCount = 0 THEN i ELSE q.ui32FirstFreeIndex
      BY <1>9, <2>9
    <3>4. n = q.ui32FreeHandCount + 1
      BY <1>9, <2>1
    <3> QED BY <2>3, <2>11, <3>1, <3>2, <3>3, <3>4, Zenon
  <2>13. /\ r \in Base /\ r.psHandleArray = E /\ r.psHashTab = b.psHashTab /\ Whole(b, r)
         /\ r.ui32FreeHandCount = n /\ r.ui32FirstFreeIndex = f
         /\ r.ui32LastFreeIndexPlusOne = e
         /\ r.ui32FirstBatchIndexPlusOne = b.ui32FirstBatchIndexPlusOne
    BY <1>9, <2>2, <2>4, <2>8, <2>10, <2>11 DEF Base, Whole
  <2>14. LeaveStep(b, r, i)
    <3>1. /\ ~KeptForBatch(b, i) /\ ~b.bPurgingEnabled
      BY <1>15
    <3> QED BY <1>1, <1>5, <2>1, <2>3, <2>5, <2>8, <2>9, <2>13, <3>1 DEF LeaveStep
  <2> QED BY <2>12, <2>14
<1> QED BY <1>13, <1>14, <1>15

\* The batch as a whole after the first part of FreeHandle: nothing of a batch
\* that is committed, and nothing older than one that is given back.
LEMMA EnterBatch ==
  ASSUME NEW b \in Base, NEW r, NEW i \in Index, EnterStep(b, r, i),
         NEW w, NEW T, NEW S, NEW bef, NEW ow, BatchInv(b, w, T, S, bef, ow),
         w.loop = "batch" => ~w.commit /\ i + 1 \notin bef,
         NEW U, U = T \cup {i}
  PROVE  BatchInv(r, w, U, S, bef, ow)
<1>1. /\ \A j : Live(r, j) <=> Live(b, j)
      /\ HandlesInUse(r) = HandlesInUse(b)
      /\ r.ui32HandBatchSize = b.ui32HandBatchSize
      /\ \A j \in Index : r.psHandleArray[j].hParent = IF j = i THEN 0 ELSE b.psHandleArray[j].hParent
  BY EnterLive DEF EnterStep, Whole
<1>2. /\ bef \subseteq HandlesInUse(r) /\ ow \subseteq Handles
      /\ \A j \in S : j + 1 \notin bef
  BY <1>1 DEF BatchInv
<1>3. \A j \in Index : Live(r, j) /\ j + 1 \in bef /\ r.psHandleArray[j].hParent # 0 =>
        r.psHandleArray[j].hParent \in bef
  BY <1>1 DEF BatchInv
<1>4. r.ui32HandBatchSize # 0 /\ ~(w.loop = "batch" /\ w.commit) =>
        \A j \in Index : Live(r, j) /\ j + 1 \notin bef => j \in S \cup U
  BY <1>1 DEF BatchInv
<1>5. r.ui32HandBatchSize # 0 /\ w.loop = "none" =>
        \A j \in Index : Live(r, j) /\ j + 1 \notin bef => j \in S
  BY <1>1 DEF BatchInv
<1>6. w.loop = "batch" /\ w.commit => HandlesInUse(r) = ow /\ \A j \in U : ~Live(r, j)
  OBVIOUS
<1>7. w.loop = "batch" /\ ~w.commit =>
        HandlesInUse(r) \cap bef = ow /\ \A j \in U : j + 1 \notin bef
  BY <1>1 DEF BatchInv
<1> QED BY <1>2, <1>3, <1>4, <1>5, <1>6, <1>7, Zenon DEF BatchInv

LEMMA LeaveBatch ==
  ASSUME NEW b \in Base, NEW r, NEW i \in Index, LeaveStep(b, r, i), i \in Entries(b),
         NEW w, NEW T, NEW S, NEW bef, NEW ow, BatchInv(b, w, T, S, bef, ow), i \in T,
         TreeInv(b), b.psHandleArray[i].children = <<>>,
         NEW U, U = T \ {i}, NEW bf, bf = bef \ {i + 1}
  PROVE  BatchInv(r, w, U, S, bf, ow)
<1>1. /\ \A j : Live(r, j) <=> Live(b, j) /\ j # i
      /\ HandlesInUse(r) = HandlesInUse(b) \ {i + 1}
  BY LeaveLive
<1>2. /\ r.ui32HandBatchSize = b.ui32HandBatchSize
      /\ \A j \in Index : r.psHandleArray[j].hParent = b.psHandleArray[j].hParent
  BY DEF LeaveStep, Whole
<1>3. \A j \in Index : j # i => j + 1 # i + 1
  BY Sizes
<1>4. /\ bf \subseteq HandlesInUse(r) /\ ow \subseteq Handles
      /\ \A j \in S : j + 1 \notin bf
  BY <1>1 DEF BatchInv
<1>5. ASSUME NEW j \in Index, Live(r, j), j + 1 \in bf, r.psHandleArray[j].hParent # 0
      PROVE  r.psHandleArray[j].hParent \in bf
  <2>1. PICK p : p = b.psHandleArray[j].hParent
    OBVIOUS
  <2>2. Live(b, j) /\ j + 1 \in bef /\ p # 0 /\ r.psHandleArray[j].hParent = p
    BY <1>1, <1>2, <1>5, <2>1
  <2>3. p \in bef
    BY <2>1, <2>2 DEF BatchInv
  <2>4. \E x \in DOMAIN b.psHandleArray[p - 1].children : b.psHandleArray[p - 1].children[x] = j
    BY <2>1, <2>2, TreeUse
  <2>5. p # i + 1
    <3>1. CASE p = i + 1
      <4>1. p - 1 = i
        BY <3>1, Sizes
      <4> QED BY <2>4, <4>1
    <3> QED BY <3>1
  <2> QED BY <2>2, <2>3, <2>5
<1>6. r.ui32HandBatchSize # 0 /\ ~(w.loop = "batch" /\ w.commit) =>
        \A j \in Index : Live(r, j) /\ j + 1 \notin bf => j \in S \cup U
  BY <1>1, <1>2, <1>3 DEF BatchInv
<1>7. r.ui32HandBatchSize # 0 /\ w.loop = "none" =>
        \A j \in Index : Live(r, j) /\ j + 1 \notin bf => j \in S
  BY <1>1, <1>2, <1>3 DEF BatchInv
<1>8. ASSUME w.loop = "batch", w.commit
      PROVE  HandlesInUse(r) = ow /\ \A j \in U : ~Live(r, j)
  <2>1. HandlesInUse(b) = ow /\ \A j \in T : ~Live(b, j)
    BY <1>8 DEF BatchInv
  <2>2. i + 1 \notin HandlesInUse(b)
    BY <2>1, HandleOfEntry
  <2> QED BY <1>1, <2>1, <2>2
<1>9. ASSUME w.loop = "batch", ~w.commit
      PROVE  HandlesInUse(r) \cap bf = ow /\ \A j \in U : j + 1 \notin bf
  <2>1. HandlesInUse(b) \cap bef = ow /\ \A j \in T : j + 1 \notin bef
    BY <1>9 DEF BatchInv
  <2>2. i + 1 \notin bef
    BY <2>1
  <2>3. bf = bef
    BY <2>2
  <2>4. HandlesInUse(r) \cap bef = HandlesInUse(b) \cap bef
    BY <1>1, <2>2
  <2> QED BY <2>1, <2>3, <2>4
<1> QED BY <1>4, <1>5, <1>6, <1>7, <1>8, <1>9, Zenon DEF BatchInv

\* A turn of the recursion keeps the invariant.
LEMMA TurnDown ==
  ASSUME NEW b, NEW st, NEW w, NEW bef, NEW ow, NEW k, Good(b, st, w, bef, ow, k),
         NEW i, i = st[Len(st)], st # <<>>, NEW c, c = b.psHandleArray[i].children, c # <<>>,
         NEW j, j = Head(c)
  PROVE  /\ Good(FreeHandleEnter(b, j), Append(st, j), w, bef, ow, k)
         /\ SameObjects(b, FreeHandleEnter(b, j))
<1>1. PICK S \in SUBSET Index : HBInv(b, st, w, bef, ow, k, S)
  BY DEF Good
<1>2. HBCore(b, st, w, k, S) /\ BatchInv(b, w, Held(st), S, bef, ow)
  BY <1>1, CoreAndBatch
<1>3. b \in Base /\ StackInv(b, st) /\ TreeInv(b) /\ HashInv(b, Held(st)) /\ FlagInv(b, Held(st), S)
      /\ KindInv(b, k, w, Held(st), S)
  BY <1>2 DEF HBCore
<1>4. st \in Seq(Index) /\ i \in Held(st)
  BY <1>3 DEF StackInv, Held
<1>5. i \in Entries(b) /\ i \in Index /\ b.psHandleArray[i].hParent = 0
  BY <1>3, <1>4, Sizes DEF StackInv
<1>6. Live(b, i)
  BY <1>3, <1>5, TreeUse DEF Live
<1>7. c \in Seq(Index)
  BY <1>3, <1>5 DEF Base, Slot
<1>8. 1 \in DOMAIN c /\ j = c[1]
  BY <1>7
<1>9. Live(b, j) /\ b.psHandleArray[j].hParent = i + 1
  BY <1>3, <1>5, <1>6, <1>8, TreeUse
<1>10. j \in Index /\ i + 1 # 0
  BY <1>3, <1>5, <1>9, Sizes DEF Live
<1>11. j \notin Held(st)
  BY <1>3, <1>9, <1>10 DEF StackInv
<1>12. k = "process" /\ w.loop # "all" => j # 0
  BY <1>3, <1>9, <1>10 DEF KindInv
<1>13. ~b.psHandleArray[j].bPartiallyFree
  BY <1>3, <1>9, <1>10 DEF FlagInv, Live
<1>14. PICK r : r = FreeHandleEnter(b, j)
  OBVIOUS
<1>15. EnterStep(b, r, j)
  BY <1>3, <1>9, <1>10, <1>13, <1>14, EnterFields
<1>16. PICK s2 : s2 = Append(st, j)
  OBVIOUS
<1>17. HBCore(r, s2, w, k, S) /\ Held(s2) = Held(st) \cup {j}
  <2>1. /\ b \in Base /\ HBCore(b, st, w, k, S) /\ j \in Index /\ Live(b, j) /\ j \notin Held(st)
        /\ (k = "process" /\ w.loop # "all" => j # 0) /\ EnterStep(b, r, j) /\ s2 = Append(st, j)
    BY <1>2, <1>3, <1>9, <1>10, <1>11, <1>12, <1>15, <1>16
  <2>2. AfterEnter(r, st, s2, w, k, S, j)
    BY ONLY <2>1, EnterKeeps
  <2> QED BY <2>2 DEF AfterEnter
<1>18. w.loop = "batch" => ~w.commit /\ j + 1 \notin bef
  <2> SUFFICES ASSUME w.loop = "batch" PROVE ~w.commit /\ j + 1 \notin bef
    OBVIOUS
  <2>1. ~w.commit
    BY <1>2, <1>4, <1>6 DEF BatchInv
  <2>2. i + 1 \notin bef
    BY <1>2, <1>4, <2>1 DEF BatchInv
  <2> QED BY <1>2, <1>9, <1>10, <2>1, <2>2 DEF BatchInv
<1>19. BatchInv(r, w, Held(s2), S, bef, ow)
  BY <1>2, <1>3, <1>10, <1>15, <1>17, <1>18, EnterBatch
<1>20. HBInv(r, s2, w, bef, ow, k, S)
  BY <1>17, <1>19, CoreAndBatch
<1>21. FirstInv(r)
  BY <1>15 DEF Good, FirstInv, EnterStep, Whole
<1>22. SameObjects(b, r)
  BY <1>15 DEF SameObjects, EnterStep, Core
<1> QED BY <1>14, <1>16, <1>20, <1>21, <1>22, GoodIf

LEMMA TurnBack ==
  ASSUME NEW b, NEW st, NEW w, NEW bef, NEW ow, NEW k, Good(b, st, w, bef, ow, k),
         NEW i, i = st[Len(st)], st # <<>>, b.psHandleArray[i].children = <<>>
  PROVE  /\ Good(FreeHandleLeave(b, i), SubSeq(st, 1, Len(st) - 1), w, bef \ {i + 1}, ow, k)
         /\ SameObjects(b, FreeHandleLeave(b, i))
<1>1. PICK S \in SUBSET Index : HBInv(b, st, w, bef, ow, k, S)
  BY DEF Good
<1>2. HBCore(b, st, w, k, S) /\ BatchInv(b, w, Held(st), S, bef, ow)
  BY <1>1, CoreAndBatch
<1>3. b \in Base /\ StackInv(b, st) /\ TreeInv(b) /\ FreeInv(b, Held(st), S)
  BY <1>2 DEF HBCore
<1>4. st \in Seq(Index) /\ i \in Held(st)
  BY <1>3 DEF StackInv, Held
<1>5. i \in Entries(b) /\ i \in Index
  BY <1>3, <1>4, Sizes DEF StackInv
<1>6. PICK r : r = FreeHandleLeave(b, i)
  OBVIOUS
<1>7. LeaveStep(b, r, i)
  BY <1>3, <1>4, <1>5, <1>6, LeaveFields
<1>8. PICK s2 : s2 = SubSeq(st, 1, Len(st) - 1)
  OBVIOUS
<1>9. HBCore(r, s2, w, k, S) /\ Held(s2) = Held(st) \ {i}
  <2>1. /\ b \in Base /\ HBCore(b, st, w, k, S) /\ st # <<>> /\ i = st[Len(st)]
        /\ b.psHandleArray[i].children = <<>> /\ LeaveStep(b, r, i)
        /\ s2 = SubSeq(st, 1, Len(st) - 1)
    BY <1>2, <1>3, <1>7, <1>8
  <2>2. AfterLeave(r, st, s2, w, k, S, i)
    BY ONLY <2>1, LeaveKeeps
  <2> QED BY <2>2 DEF AfterLeave
<1>10. PICK bf : bf = bef \ {i + 1}
  OBVIOUS
<1>11. BatchInv(r, w, Held(s2), S, bf, ow)
  BY <1>2, <1>3, <1>4, <1>5, <1>7, <1>9, <1>10, LeaveBatch
<1>12. HBInv(r, s2, w, bf, ow, k, S)
  BY <1>9, <1>11, CoreAndBatch
<1>13. FirstInv(r)
  BY <1>7 DEF Good, FirstInv, LeaveStep, Whole
<1>14. SameObjects(b, r)
  <2>1. ~Live(r, i)
    BY <1>7 DEF Live, LeaveStep
  <2> QED BY <1>7, <2>1 DEF SameObjects, LeaveStep, Core
<1> QED BY <1>6, <1>8, <1>10, <1>12, <1>13, <1>14, GoodIf

\* FreeHandle keeps the invariant.
LEMMA KeepsFreeHandle == ASSUME HInv, FreeHandle PROVE HInv' /\ SameObjects(psBase, psBase')
<1>1. Good(psBase, todo, walk, before, owed, kind)
  BY HInvIs
<1>2. PICK i : i = todo[Len(todo)]
  OBVIOUS
<1>3. PICK c : c = psBase.psHandleArray[i].children
  OBVIOUS
<1>4. todo # <<>> /\ UNCHANGED <<walk, owed, kind>>
  BY DEF FreeHandle
<1>5. CASE c # <<>>
  <2>1. /\ psBase' = FreeHandleEnter(psBase, Head(c)) /\ todo' = Append(todo, Head(c))
        /\ UNCHANGED before
    BY <1>2, <1>3, <1>5 DEF FreeHandle
  <2>2. Good(psBase', todo', walk, before, owed, kind) /\ SameObjects(psBase, psBase')
    BY <1>1, <1>2, <1>3, <1>4, <1>5, <2>1, TurnDown
  <2> QED BY <1>4, <2>1, <2>2, HInvIs
<1>6. CASE c = <<>>
  <2>1. /\ psBase' = FreeHandleLeave(psBase, i) /\ todo' = SubSeq(todo, 1, Len(todo) - 1)
        /\ before' = before \ {i + 1}
    BY <1>2, <1>3, <1>6 DEF FreeHandle
  <2>2. Good(psBase', todo', walk, before', owed, kind) /\ SameObjects(psBase, psBase')
    BY <1>1, <1>2, <1>3, <1>4, <1>6, <2>1, TurnBack
  <2> QED BY <1>4, <2>1, <2>2, HInvIs
<1> QED BY <1>5, <1>6

-----------------------------------------------------------------------------
(***************************************************************************)
(* The calls that release, and those that open and close batches.          *)
(***************************************************************************)

LEMMA HeldOne == ASSUME NEW i PROVE Held(<<i>>) = {i} /\ Append(<<>>, i) = <<i>>
<1>1. \A x : x \in Held(<<i>>) <=> x \in {i}
  BY DEF Held
<1>2. Held(<<i>>) = {i}
  BY <1>1, Zenon
<1> QED BY <1>2

\* FreeHandle is called for a handle in use.
LEMMA EnterCore ==
  ASSUME NEW b, NEW w, NEW k, NEW S, HBCore(b, <<>>, w, k, S),
         NEW i \in Index, Live(b, i), k = "process" /\ w.loop # "all" => i # 0,
         NEW r, r = FreeHandleEnter(b, i)
  PROVE  EnterStep(b, r, i) /\ HBCore(r, <<i>>, w, k, S)
<1>1. b \in Base /\ TreeInv(b) /\ HashInv(b, {}) /\ FlagInv(b, {}, S)
  BY HeldNone DEF HBCore
<1>2. ~b.psHandleArray[i].bPartiallyFree
  BY <1>1 DEF FlagInv, Live
<1>3. EnterStep(b, r, i)
  BY <1>1, <1>2, EnterFields
<1>4. PICK st : st = <<>>
  OBVIOUS
<1>5. PICK s2 : s2 = <<i>>
  OBVIOUS
<1>6. /\ b \in Base /\ HBCore(b, st, w, k, S) /\ i \in Index /\ Live(b, i) /\ i \notin Held(st)
      /\ (k = "process" /\ w.loop # "all" => i # 0) /\ EnterStep(b, r, i) /\ s2 = Append(st, i)
  BY <1>1, <1>3, <1>4, <1>5, HeldNone, HeldOne
<1>7. AfterEnter(r, st, s2, w, k, S, i)
  BY ONLY <1>6, EnterKeeps
<1> QED BY <1>3, <1>5, <1>7 DEF AfterEnter

\* PVRSRVReleaseHandle keeps the invariant.
LEMMA KeepsReleaseHandle ==
  ASSUME HInv, NEW h \in Handles, NEW t \in Types, PVRSRVReleaseHandle(h, t)
  PROVE  HInv' /\ SameObjects(psBase, psBase')
<1>1. /\ todo = <<>> /\ walk.loop = "none" /\ InUse(psBase, h)
      /\ psBase.psHandleArray[h - 1].eType = t /\ t # DEV_NODE
      /\ UNCHANGED <<walk, before, owed, kind>>
  BY DEF PVRSRVReleaseHandle, Idle, GetHandleStructure
<1>2. PICK S \in SUBSET Index : HBInv(psBase, <<>>, walk, before, owed, kind, S)
  BY <1>1 DEF HInv
<1>3. /\ HBCore(psBase, <<>>, walk, kind, S) /\ BatchInv(psBase, walk, {}, S, before, owed)
      /\ psBase \in Base /\ KindInv(psBase, kind, walk, {}, S)
  BY <1>2, CoreAndBatch, HeldNone DEF HBInv
<1>4. PICK i : i = h - 1
  OBVIOUS
<1>5. i \in Index /\ Live(psBase, i) /\ psBase.psHandleArray[i].eType # DEV_NODE
  BY <1>1, <1>3, <1>4, HandleOfEntry
<1>6. kind = "process" /\ walk.loop # "all" => i # 0
  BY <1>3, <1>5 DEF KindInv
<1>7. psBase' = FreeHandleEnter(psBase, i) /\ todo' = <<i>>
  BY <1>4 DEF PVRSRVReleaseHandle
<1>8. EnterStep(psBase, psBase', i) /\ HBCore(psBase', <<i>>, walk, kind, S)
  BY <1>3, <1>5, <1>6, <1>7, EnterCore
<1>9. BatchInv(psBase', walk, {i}, S, before, owed)
  BY <1>1, <1>3, <1>5, <1>8, EnterBatch
<1>10. HBInv(psBase', <<i>>, walk, before, owed, kind, S)
  BY <1>8, <1>9, HeldOne, CoreAndBatch
<1>11. FirstInv(psBase')
  BY <1>8 DEF HInv, FirstInv, EnterStep, Whole
<1>12. Good(psBase', <<i>>, walk, before, owed, kind)
  BY <1>10, <1>11, GoodIf
<1>13. SameObjects(psBase, psBase')
  BY <1>8 DEF SameObjects, EnterStep, Core
<1> QED BY <1>1, <1>7, <1>12, <1>13, HInvIs

\* Steps that leave the array and the free list alone.
LEMMA CoreSame ==
  ASSUME NEW b \in Base, NEW r \in Base, NEW st, NEW w, NEW v, NEW k, NEW S, HBCore(b, st, w, k, S),
         r.psHandleArray = b.psHandleArray, r.psHashTab = b.psHashTab,
         r.ui32TotalHandCount = b.ui32TotalHandCount, r.bPurgingEnabled = b.bPurgingEnabled,
         r.ui32FreeHandCount = b.ui32FreeHandCount,
         r.ui32FirstFreeIndex = b.ui32FirstFreeIndex,
         r.ui32LastFreeIndexPlusOne = b.ui32LastFreeIndexPlusOne,
         v.loop = "all" \/ w.loop # "all", k = "kernel" => r.ui32HandBatchSize = 0,
         LoopInv(r, v), BatchLinked(Links(r), Start(r, v), S)
  PROVE  /\ HBCore(r, st, v, k, S) /\ HandlesInUse(r) = HandlesInUse(b)
         /\ \A j : Live(r, j) <=> Live(b, j)
<1>1. Entries(r) = Entries(b) /\ Links(r) = Links(b) /\ \A j : Live(r, j) <=> Live(b, j)
  BY DEF Entries, Live, Links
<1>2. PICK T : T = Held(st)
  OBVIOUS
<1>3. /\ KindInv(b, k, w, T, S) /\ FreshInv(b)
      /\ FreeInv(b, T, S) /\ FlagInv(b, T, S) /\ HashInv(b, T) /\ TreeInv(b) /\ StackInv(b, st)
  BY <1>2 DEF HBCore
<1>4. SameHandles(b, r)
  BY <1>1 DEF SameHandles
<1>5. HashInv(r, T) /\ TreeInv(r) /\ HandlesInUse(r) = HandlesInUse(b)
  BY <1>3, <1>4, SameKeeps
<1>6. KindInv(r, k, v, T, S)
  BY <1>1, <1>3 DEF KindInv
<1>7. FreshInv(r) /\ FlagInv(r, T, S) /\ StackInv(r, st)
  BY <1>1, <1>3 DEF FreshInv, FlagInv, StackInv
<1>8. FreeInv(r, T, S)
  <2>1. Unheld(r, T, S) = Unheld(b, T, S)
    BY <1>1 DEF Unheld
  <2> QED BY <1>1, <1>3, <2>1 DEF FreeInv
<1> QED BY <1>1, <1>2, <1>5, <1>6, <1>7, <1>8 DEF HBCore

\* PVRSRVNewHandleBatch keeps the invariant.
LEMMA KeepsNewHandleBatch ==
  ASSUME HInv, NEW n \in BatchSizes, PVRSRVNewHandleBatch(n)
  PROVE  HInv' /\ SameObjects(psBase, psBase')
<1>1. /\ todo = <<>> /\ walk.loop = "none" /\ kind # "kernel" /\ psBase.ui32HandBatchSize = 0
      /\ CanEnsure(psBase, n) /\ before' = HandlesInUse(psBase)
      /\ UNCHANGED <<todo, walk, owed, kind>>
  BY DEF PVRSRVNewHandleBatch, Idle, HandlesBatched
<1>2. PICK S \in SUBSET Index : HBInv(psBase, <<>>, walk, before, owed, kind, S)
  BY <1>1 DEF HInv
<1>3. psBase \in Base /\ FirstInv(psBase) /\ n \in Nat /\ n # 0
  BY <1>2, ConstantsAssumption DEF HInv, HBInv
<1>4. S = {}
  BY <1>1, <1>2, NoBatch
<1>5. PICK m : m = EnsureFreeHandles(psBase, n)
  OBVIOUS
<1>6. /\ m \in Base /\ HBInv(m, <<>>, walk, before, owed, kind, S) /\ SameHandles(psBase, m)
      /\ m.bPurgingEnabled = psBase.bPurgingEnabled /\ m.ui32HandBatchSize = psBase.ui32HandBatchSize
  BY <1>1, <1>2, <1>3, <1>5, EnsureKeeps
<1>7. PICK r : r = [m EXCEPT !.ui32HandBatchSize = n]
  OBVIOUS
<1>8. /\ r \in Base /\ r.psHandleArray = m.psHandleArray /\ r.psHashTab = m.psHashTab
      /\ r.ui32TotalHandCount = m.ui32TotalHandCount /\ r.bPurgingEnabled = m.bPurgingEnabled
      /\ r.ui32FreeHandCount = m.ui32FreeHandCount
      /\ r.ui32FirstFreeIndex = m.ui32FirstFreeIndex
      /\ r.ui32LastFreeIndexPlusOne = m.ui32LastFreeIndexPlusOne
      /\ r.ui32FirstBatchIndexPlusOne = m.ui32FirstBatchIndexPlusOne
      /\ r.ui32HandBatchSize = n
  BY <1>6, <1>7 DEF Base
<1>9. HBCore(m, <<>>, walk, kind, S) /\ LoopInv(m, walk) /\ BatchLinked(Links(m), Start(m, walk), S)
      /\ KindInv(m, kind, walk, {}, S) /\ owed \subseteq Handles
  <2>1. HBCore(m, <<>>, walk, kind, S) /\ BatchInv(m, walk, {}, S, before, owed)
    BY <1>6, CoreAndBatch, HeldNone
  <2>2. owed \subseteq Handles
    BY <2>1 DEF BatchInv
  <2> QED BY <2>1, <2>2, HeldNone DEF HBCore
<1>10. LoopInv(r, walk)
  BY <1>1, <1>3, <1>8, <1>9 DEF LoopInv
<1>11. BatchLinked(Links(r), Start(r, walk), S)
  <2>1. Links(r) = Links(m) /\ Start(r, walk) = Start(m, walk)
    BY <1>8 DEF Links, Start
  <2> QED BY <1>9, <2>1
<1>12. /\ HBCore(r, <<>>, walk, kind, S) /\ HandlesInUse(r) = HandlesInUse(m)
       /\ \A j : Live(r, j) <=> Live(m, j)
  BY <1>1, <1>6, <1>8, <1>9, <1>10, <1>11, CoreSame
<1>13. HandlesInUse(m) = HandlesInUse(psBase)
  <2>1. HashInv(psBase, {}) /\ TreeInv(psBase)
    BY <1>2, HeldNone DEF HBInv
  <2> QED BY <1>3, <1>6, <2>1, SameKeeps
<1>14. PICK bf : bf = HandlesInUse(r)
  OBVIOUS
<1>15. BatchInv(r, walk, {}, S, bf, owed)
  <2>1. \A j \in Index : Live(r, j) => j + 1 \in bf
    BY <1>8, <1>14, HandleOfEntry
  <2>2. ASSUME NEW j \in Index, Live(r, j), r.psHandleArray[j].hParent # 0
        PROVE  r.psHandleArray[j].hParent \in bf
    <3>1. PICK p : p = r.psHandleArray[j].hParent
      OBVIOUS
    <3>2. TreeInv(r)
      BY <1>12 DEF HBCore
    <3>3. Live(r, p - 1)
      BY <2>2, <3>1, <3>2, TreeUse
    <3>4. p \in Handles /\ p - 1 \in Index
      BY <1>8, <3>1, <3>3, Sizes DEF Live, Base, Slot
    <3>5. (p - 1) + 1 = p
      BY <1>8, <3>4, Sizes
    <3> QED BY <2>1, <3>1, <3>3, <3>4, <3>5
  <2> QED BY <1>1, <1>4, <1>9, <1>14, <2>1, <2>2 DEF BatchInv
<1>16. HBInv(r, <<>>, walk, bf, owed, kind, S)
  BY <1>12, <1>15, CoreAndBatch, HeldNone
<1>17. FirstInv(r)
  BY <1>1, <1>8, <1>9 DEF FirstInv, KindInv
<1>18. Good(r, <<>>, walk, bf, owed, kind)
  BY <1>16, <1>17, GoodIf
<1>19. psBase' = r /\ before' = bf
  BY <1>1, <1>5, <1>7, <1>12, <1>13, <1>14 DEF PVRSRVNewHandleBatch
<1>20. SameObjects(psBase, psBase')
  BY <1>6, <1>8, <1>19 DEF SameObjects, SameHandles
<1> QED BY <1>1, <1>18, <1>19, <1>20, HInvIs

\* PVRSRVHandleBatchCommitOrRelease keeps the invariant.
LEMMA KeepsCommitOrRelease ==
  ASSUME HInv, NEW commit \in BOOLEAN, PVRSRVHandleBatchCommitOrRelease(commit)
  PROVE  HInv'
<1>1. /\ todo = <<>> /\ walk.loop = "none" /\ psBase.ui32HandBatchSize # 0
      /\ UNCHANGED <<psBase, todo, before, kind>>
  BY DEF PVRSRVHandleBatchCommitOrRelease, Idle, HandlesBatched
<1>2. PICK S \in SUBSET Index : HBInv(psBase, <<>>, walk, before, owed, kind, S)
  BY <1>1 DEF HInv
<1>3. /\ HBCore(psBase, <<>>, walk, kind, S) /\ BatchInv(psBase, walk, {}, S, before, owed)
      /\ psBase \in Base /\ KindInv(psBase, kind, walk, {}, S) /\ LoopInv(psBase, walk)
      /\ BatchLinked(Links(psBase), Start(psBase, walk), S)
  BY <1>2, CoreAndBatch, HeldNone DEF HBInv
<1>4. PICK c \in BOOLEAN : c = CommitsBatch(commit)
  BY DEF CommitsBatch
<1>5. PICK v : v = [loop |-> "batch", next |-> psBase.ui32FirstBatchIndexPlusOne, commit |-> c]
  OBVIOUS
<1>6. walk' = v
  BY <1>4, <1>5 DEF PVRSRVHandleBatchCommitOrRelease
<1>7. /\ v.loop = "batch" /\ v.next = psBase.ui32FirstBatchIndexPlusOne /\ v.commit = c
      /\ v \in [loop : {"none", "batch", "all"}, next : Handles, commit : BOOLEAN]
  BY <1>3, <1>5 DEF Base
<1>8. PICK ow : ow = IF c THEN HandlesInUse(psBase) ELSE HandlesInUse(psBase) \cap before
  OBVIOUS
<1>9. owed' = ow
  BY <1>4, <1>8 DEF PVRSRVHandleBatchCommitOrRelease, CommitsBatch
<1>10. LoopInv(psBase, v)
  BY <1>1, <1>3, <1>7 DEF LoopInv
<1>11. Start(psBase, v) = Start(psBase, walk)
  BY <1>1, <1>7 DEF Start
<1>12. HBCore(psBase, <<>>, v, kind, S)
  <2>1. kind # "kernel"
    BY <1>1, <1>3 DEF KindInv
  <2>2. v.loop # "all" /\ walk.loop # "all"
    BY <1>1, <1>7
  <2>3. BatchLinked(Links(psBase), Start(psBase, v), S)
    BY <1>3, <1>11
  <2> QED BY <1>3, <1>10, <2>1, <2>2, <2>3, CoreSame
<1>13. BatchInv(psBase, v, {}, S, before, ow)
  <2>1. HandlesInUse(psBase) \subseteq Handles
    BY DEF HandlesInUse
  <2>2. before \subseteq HandlesInUse(psBase) /\ ow \subseteq Handles
    BY <1>3, <1>8, <2>1 DEF BatchInv
  <2>3. ~v.commit => \A i \in Index : Live(psBase, i) /\ i + 1 \notin before => i \in S \cup {}
    BY <1>1, <1>3 DEF BatchInv
  <2>4. /\ v.commit => HandlesInUse(psBase) = ow
        /\ ~v.commit => HandlesInUse(psBase) \cap before = ow
    BY <1>7, <1>8
  <2> QED BY <1>3, <1>7, <2>2, <2>3, <2>4 DEF BatchInv
<1>14. HBInv(psBase, <<>>, v, before, ow, kind, S)
  BY <1>12, <1>13, CoreAndBatch, HeldNone
<1>15. Good(psBase, <<>>, v, before, ow, kind)
  BY <1>14, GoodIf DEF HInv
<1> QED BY <1>1, <1>6, <1>9, <1>15, HInvIs

\* The end of PVRSRVHandleBatchCommitOrRelease keeps the invariant.
LEMMA KeepsEndBatch == ASSUME HInv, EndBatch PROVE HInv' /\ SameObjects(psBase, psBase')
<1>1. /\ todo = <<>> /\ walk.loop = "batch" /\ walk.next = 0
      /\ before' = {} /\ owed' = {} /\ walk' = NoWalk /\ UNCHANGED <<todo, kind>>
  BY DEF EndBatch
<1>2. PICK S \in SUBSET Index : HBInv(psBase, <<>>, walk, before, owed, kind, S)
  BY <1>1 DEF HInv
<1>3. HBCore(psBase, <<>>, walk, kind, S)
  BY <1>2, CoreAndBatch
<1>4. /\ psBase \in Base /\ LoopInv(psBase, walk) /\ BatchLinked(Links(psBase), Start(psBase, walk), S)
  BY <1>3 DEF HBCore
<1>5. S = {}
  <2>1. Start(psBase, walk) = 0
    BY <1>1 DEF Start
  <2> QED BY <1>4, <2>1, BatchStart
<1>6. 0 \in Handles /\ 0 \in 0..MaxFailures
  BY <1>4, Sizes, ConstantsAssumption
<1>7. PICK r : r = [psBase EXCEPT !.ui32HandBatchSize = 0, !.ui32FirstBatchIndexPlusOne = 0,
                                  !.ui32BatchHandAllocFailures = 0]
  OBVIOUS
<1>8. /\ r \in Base /\ r.psHandleArray = psBase.psHandleArray /\ r.psHashTab = psBase.psHashTab
      /\ r.ui32TotalHandCount = psBase.ui32TotalHandCount /\ r.bPurgingEnabled = psBase.bPurgingEnabled
      /\ r.ui32FreeHandCount = psBase.ui32FreeHandCount
      /\ r.ui32FirstFreeIndex = psBase.ui32FirstFreeIndex
      /\ r.ui32LastFreeIndexPlusOne = psBase.ui32LastFreeIndexPlusOne
      /\ r.ui32FirstBatchIndexPlusOne = 0 /\ r.ui32HandBatchSize = 0
  BY <1>4, <1>6, <1>7 DEF Base
<1>9. PICK v : v = NoWalk
  OBVIOUS
<1>10. /\ v.loop = "none" /\ v.next = 0
       /\ v \in [loop : {"none", "batch", "all"}, next : Handles, commit : BOOLEAN]
  <2>1. PICK w : w = FALSE
    OBVIOUS
  <2>2. v = [loop |-> "none", next |-> 0, commit |-> w]
    BY <1>9, <2>1 DEF NoWalk
  <2>3. w \in BOOLEAN
    BY <2>1
  <2> QED BY <1>6, <2>2, <2>3
<1>11. LoopInv(r, v)
  <2>1. 0 <= r.ui32TotalHandCount
    BY <1>8, Sizes
  <2> QED BY <1>4, <1>8, <1>10, <2>1 DEF LoopInv
<1>12. BatchLinked(Links(r), Start(r, v), S)
  <2>1. Start(r, v) = 0
    BY <1>8, <1>10 DEF Start
  <2> QED BY <1>5, <2>1, BatchEmpty
<1>13. v.loop # "all" /\ walk.loop # "all"
  BY <1>1, <1>10
<1>14. HBCore(r, <<>>, v, kind, S)
  BY <1>3, <1>4, <1>8, <1>11, <1>12, <1>13, CoreSame
<1>15. BatchInv(r, v, {}, S, {}, {})
  BY <1>5, <1>8, <1>10 DEF BatchInv
<1>16. HBInv(r, <<>>, v, {}, {}, kind, S)
  BY <1>14, <1>15, CoreAndBatch, HeldNone
<1>17. FirstInv(r)
  BY <1>8 DEF HInv, FirstInv
<1>18. Good(r, <<>>, v, {}, {}, kind)
  BY <1>16, <1>17, GoodIf
<1>19. psBase' = r
  BY <1>7 DEF EndBatch
<1>20. SameObjects(psBase, psBase')
  BY <1>8, <1>19 DEF SameObjects
<1> QED BY <1>1, <1>9, <1>18, <1>19, <1>20, HInvIs

\* The call of FreeAllHandles keeps the invariant.
LEMMA KeepsFreeHandleBase == ASSUME HInv, FreeHandleBase PROVE HInv'
<1>1. /\ todo = <<>> /\ walk.loop = "none" /\ psBase.ui32HandBatchSize = 0
      /\ UNCHANGED <<psBase, todo, before, owed, kind>>
  BY DEF FreeHandleBase, Idle, HandlesBatched
<1>2. PICK S \in SUBSET Index : HBInv(psBase, <<>>, walk, before, owed, kind, S)
  BY <1>1 DEF HInv
<1>3. HBCore(psBase, <<>>, walk, kind, S) /\ BatchInv(psBase, walk, {}, S, before, owed)
  BY <1>2, CoreAndBatch, HeldNone
<1>4. /\ psBase \in Base /\ LoopInv(psBase, walk) /\ BatchLinked(Links(psBase), Start(psBase, walk), S)
  BY <1>3 DEF HBCore
<1>5. PICK v : v = [NoWalk EXCEPT !.loop = "all"]
  OBVIOUS
<1>6. /\ v.loop = "all"
      /\ v \in [loop : {"none", "batch", "all"}, next : Handles, commit : BOOLEAN]
  <2>1. PICK w : w = FALSE
    OBVIOUS
  <2>2. v = [loop |-> "all", next |-> 0, commit |-> w]
    BY <1>5, <2>1 DEF NoWalk
  <2>3. w \in BOOLEAN /\ 0 \in Handles
    BY <1>4, <2>1, Sizes
  <2> QED BY <2>2, <2>3
<1>7. LoopInv(psBase, v)
  BY <1>1, <1>4, <1>6 DEF LoopInv
<1>8. BatchLinked(Links(psBase), Start(psBase, v), S)
  <2>1. Start(psBase, v) = Start(psBase, walk)
    BY <1>1, <1>6 DEF Start
  <2> QED BY <1>4, <2>1
<1>9. HBCore(psBase, <<>>, v, kind, S)
  BY <1>1, <1>3, <1>4, <1>6, <1>7, <1>8, CoreSame
<1>10. BatchInv(psBase, v, {}, S, before, owed)
  BY <1>1, <1>3, <1>6 DEF BatchInv
<1>11. HBInv(psBase, <<>>, v, before, owed, kind, S)
  BY <1>9, <1>10, CoreAndBatch, HeldNone
<1>12. Good(psBase, <<>>, v, before, owed, kind)
  BY <1>11, GoodIf DEF HInv
<1>13. walk' = v
  BY <1>5 DEF FreeHandleBase
<1> QED BY <1>1, <1>12, <1>13, HInvIs

\* A step of FreeAllHandles keeps the invariant.
LEMMA KeepsWalkAll == ASSUME HInv, WalkAll PROVE HInv'
<1>1. /\ todo = <<>> /\ walk.loop = "all" /\ walk.next < psBase.ui32TotalHandCount
      /\ UNCHANGED <<before, owed, kind>>
  BY DEF WalkAll
<1>2. PICK S \in SUBSET Index : HBInv(psBase, <<>>, walk, before, owed, kind, S)
  BY <1>1 DEF HInv
<1>3. HBCore(psBase, <<>>, walk, kind, S) /\ BatchInv(psBase, walk, {}, S, before, owed)
  BY <1>2, CoreAndBatch, HeldNone
<1>4. /\ psBase \in Base /\ LoopInv(psBase, walk) /\ BatchLinked(Links(psBase), Start(psBase, walk), S)
  BY <1>3 DEF HBCore
<1>5. walk \in [loop : {"none", "batch", "all"}, next : Handles, commit : BOOLEAN]
      /\ psBase.ui32HandBatchSize = 0
  BY <1>1, <1>4 DEF LoopInv
<1>6. PICK i : i = walk.next
  OBVIOUS
<1>7. i \in Index /\ i + 1 \in Handles /\ i \in Entries(psBase)
  BY <1>1, <1>4, <1>5, <1>6, Sizes DEF Handles, Index, Entries
<1>8. PICK v : v = [walk EXCEPT !.next = i + 1]
  OBVIOUS
<1>9. walk' = v
  BY <1>6, <1>8 DEF WalkAll
<1>10. v.loop = "all" /\ v \in [loop : {"none", "batch", "all"}, next : Handles, commit : BOOLEAN]
  BY <1>1, <1>5, <1>7, <1>8
<1>11. LoopInv(psBase, v)
  BY <1>4, <1>5, <1>10 DEF LoopInv
<1>12. BatchLinked(Links(psBase), Start(psBase, v), S)
  <2>1. Start(psBase, v) = Start(psBase, walk)
    BY <1>1, <1>10 DEF Start
  <2> QED BY <1>4, <2>1
<1>13. HBCore(psBase, <<>>, v, kind, S)
  <2>1. kind = "kernel" => psBase.ui32HandBatchSize = 0
    BY <1>5
  <2> QED BY <1>3, <1>4, <1>10, <1>11, <1>12, <2>1, CoreSame
<1>14. BatchInv(psBase, v, {}, S, before, owed)
  BY <1>3, <1>5, <1>10 DEF BatchInv
<1>15. CASE psBase.psHandleArray[i].eType # NONE
  <2>1. psBase' = FreeHandleEnter(psBase, i) /\ todo' = <<i>>
    BY <1>6, <1>15 DEF WalkAll
  <2>2. Live(psBase, i)
    BY <1>7, <1>15 DEF Live
  <2>3. EnterStep(psBase, psBase', i) /\ HBCore(psBase', <<i>>, v, kind, S)
    BY <1>7, <1>10, <1>13, <2>1, <2>2, EnterCore
  <2>4. BatchInv(psBase', v, {i}, S, before, owed)
    BY <1>4, <1>7, <1>10, <1>14, <2>3, EnterBatch
  <2>5. HBInv(psBase', <<i>>, v, before, owed, kind, S)
    BY <2>3, <2>4, HeldOne, CoreAndBatch
  <2>6. FirstInv(psBase')
    BY <2>3 DEF HInv, FirstInv, EnterStep, Whole
  <2>7. Good(psBase', <<i>>, v, before, owed, kind)
    BY <2>5, <2>6, GoodIf
  <2> QED BY <1>1, <1>9, <2>1, <2>7, HInvIs
<1>16. CASE psBase.psHandleArray[i].eType = NONE
  <2>1. UNCHANGED <<psBase, todo>>
    BY <1>6, <1>16 DEF WalkAll
  <2>2. HBInv(psBase, <<>>, v, before, owed, kind, S)
    BY <1>13, <1>14, CoreAndBatch, HeldNone
  <2>3. Good(psBase, <<>>, v, before, owed, kind)
    BY <2>2, GoodIf DEF HInv
  <2> QED BY <1>1, <1>9, <2>1, <2>3, HInvIs
<1> QED BY <1>15, <1>16

-----------------------------------------------------------------------------
(***************************************************************************)
(* The walk along a batch.                                                 *)
(***************************************************************************)

\* Entry i is taken from the head of the batch.
PopStep(b, q, i) ==
  /\ q \in Base /\ Whole(b, q) /\ q.psHashTab = b.psHashTab
  /\ q.ui32FreeHandCount = b.ui32FreeHandCount
  /\ q.ui32FirstFreeIndex = b.ui32FirstFreeIndex
  /\ q.ui32LastFreeIndexPlusOne = b.ui32LastFreeIndexPlusOne
  /\ q.ui32FirstBatchIndexPlusOne = b.ui32FirstBatchIndexPlusOne
  /\ \A j \in Index : j # i => q.psHandleArray[j] = b.psHandleArray[j]
  /\ q.psHandleArray[i].ui32NextIndexPlusOne = 0
  /\ q.psHandleArray[i].bBatched = b.psHandleArray[i].bPartiallyFree
  /\ q.psHandleArray[i].bPartiallyFree = b.psHandleArray[i].bPartiallyFree
  /\ q.psHandleArray[i].eType = b.psHandleArray[i].eType
  /\ q.psHandleArray[i].pvData = b.psHandleArray[i].pvData
  /\ q.psHandleArray[i].eFlag = b.psHandleArray[i].eFlag
  /\ q.psHandleArray[i].hParent = b.psHandleArray[i].hParent
  /\ q.psHandleArray[i].children = b.psHandleArray[i].children

LEMMA PopFields ==
  ASSUME NEW b \in Base, NEW i \in Index, NEW q,
         q = [b EXCEPT !.psHandleArray[i].ui32NextIndexPlusOne = 0,
                       !.psHandleArray[i].bBatched = b.psHandleArray[i].bPartiallyFree]
  PROVE  PopStep(b, q, i)
<1>1. PICK A : A = b.psHandleArray
  OBVIOUS
<1>2. A \in [Index -> Slot] /\ A[i] \in Slot /\ 0 \in Handles
  BY <1>1, Sizes DEF Base
<1>3. PICK f : f = A[i].bPartiallyFree
  OBVIOUS
<1>4. f \in BOOLEAN
  BY <1>2, <1>3 DEF Slot
<1>5. PICK s : s = [A[i] EXCEPT !.ui32NextIndexPlusOne = 0]
  OBVIOUS
<1>6. /\ s \in Slot /\ s.ui32NextIndexPlusOne = 0 /\ s.bPartiallyFree = A[i].bPartiallyFree
      /\ s.eType = A[i].eType /\ s.pvData = A[i].pvData /\ s.eFlag = A[i].eFlag
      /\ s.hParent = A[i].hParent /\ s.children = A[i].children
  BY <1>2, <1>5 DEF Slot
<1>7. PICK u : u = [s EXCEPT !.bBatched = f]
  OBVIOUS
<1>8. /\ u \in Slot /\ u.ui32NextIndexPlusOne = 0 /\ u.bPartiallyFree = A[i].bPartiallyFree
      /\ u.eType = A[i].eType /\ u.pvData = A[i].pvData /\ u.eFlag = A[i].eFlag
      /\ u.hParent = A[i].hParent /\ u.children = A[i].children /\ u.bBatched = f
  BY <1>4, <1>6, <1>7 DEF Slot
<1>9. PICK D : D = [A EXCEPT ![i] = s]
  OBVIOUS
<1>10. D \in [Index -> Slot] /\ D[i] = s /\ \A j \in Index : j # i => D[j] = A[j]
  BY <1>2, <1>6, <1>9
<1>11. PICK E : E = [D EXCEPT ![i] = u]
  OBVIOUS
<1>12. E \in [Index -> Slot] /\ E[i] = u /\ \A j \in Index : j # i => E[j] = A[j]
  BY <1>8, <1>10, <1>11
<1>13. PICK q1 : q1 = [b EXCEPT !.psHandleArray[i].ui32NextIndexPlusOne = 0]
  OBVIOUS
<1>14. q1 = [b EXCEPT !.psHandleArray = D]
  BY <1>1, <1>2, <1>5, <1>9, <1>13
<1>15. q1 \in Base /\ q1.psHandleArray = D
  BY <1>10, <1>14 DEF Base
<1>16. q = [q1 EXCEPT !.psHandleArray[i].bBatched = f]
  BY <1>1, <1>3, <1>13, Zenon
<1>17. q = [q1 EXCEPT !.psHandleArray = E]
  BY <1>7, <1>10, <1>11, <1>15, <1>16
<1>18. q = [b EXCEPT !.psHandleArray = E]
  BY <1>14, <1>17 DEF Base
<1>19. /\ q \in Base /\ q.psHandleArray = E /\ q.psHashTab = b.psHashTab /\ Whole(b, q)
       /\ q.ui32FreeHandCount = b.ui32FreeHandCount
       /\ q.ui32FirstFreeIndex = b.ui32FirstFreeIndex
       /\ q.ui32LastFreeIndexPlusOne = b.ui32LastFreeIndexPlusOne
       /\ q.ui32FirstBatchIndexPlusOne = b.ui32FirstBatchIndexPlusOne
  BY <1>12, <1>18 DEF Base, Whole
<1> QED BY <1>1, <1>3, <1>8, <1>12, <1>19 DEF PopStep

\* A handle that is in use leaves the batch; one that was freed meanwhile is on
\* its way to the free list.
LEMMA PopCore ==
  ASSUME NEW b \in Base, NEW w, NEW k, NEW S, HBCore(b, <<>>, w, k, S),
         w.loop = "batch", NEW i, i \in S, w.next = i + 1, w.next - 1 = i, NEW q, PopStep(b, q, i),
         NEW v, v \in [loop : {"none", "batch", "all"}, next : Handles, commit : BOOLEAN],
         v.loop = "batch", v.next = b.psHandleArray[i].ui32NextIndexPlusOne,
         NEW st, (Live(b, i) /\ st = <<>>) \/ (~Live(b, i) /\ st = <<i>>),
         NEW S2, S2 = S \ {i}
  PROVE  HBCore(q, st, v, k, S2)
<1>1. /\ KindInv(b, k, w, {}, S) /\ LoopInv(b, w) /\ FreshInv(b)
      /\ BatchLinked(Links(b), Start(b, w), S)
      /\ FreeInv(b, {}, S) /\ FlagInv(b, {}, S) /\ HashInv(b, {}) /\ TreeInv(b)
  BY HeldNone DEF HBCore
<1>2. /\ i \in Entries(b) /\ i \in Index /\ b.psHandleArray[i].bBatched
      /\ b.psHandleArray[i].bPartiallyFree <=> b.psHandleArray[i].eType = NONE
      /\ S \subseteq Entries(b) /\ Entries(b) \subseteq Index
  BY <1>1, Sizes DEF FlagInv
<1>3. /\ q \in Base /\ Entries(q) = Entries(b) /\ \A j : Live(q, j) <=> Live(b, j)
  <2>1. q \in Base /\ Entries(q) = Entries(b)
    BY DEF PopStep, Whole, Entries
  <2>2. \A j \in Index : q.psHandleArray[j].eType = b.psHandleArray[j].eType
    BY DEF PopStep
  <2> QED BY <1>2, <2>1, <2>2 DEF Live
<1>4. SameHandles(b, q)
  BY <1>3 DEF SameHandles, PopStep
<1>5. HashInv(q, {}) /\ TreeInv(q)
  BY <1>1, <1>3, <1>4, SameKeeps
<1>6. PICK T : T = Held(st)
  OBVIOUS
<1>7. (Live(b, i) /\ T = {}) \/ (~Live(b, i) /\ T = {i})
  BY <1>6, HeldNone, HeldOne
<1>8. /\ q.bPurgingEnabled = b.bPurgingEnabled /\ q.ui32HandBatchSize = b.ui32HandBatchSize
      /\ q.ui32TotalHandCount = b.ui32TotalHandCount
      /\ q.ui32FreeHandCount = b.ui32FreeHandCount
      /\ q.ui32FirstFreeIndex = b.ui32FirstFreeIndex
      /\ q.ui32LastFreeIndexPlusOne = b.ui32LastFreeIndexPlusOne
      /\ q.ui32FirstBatchIndexPlusOne = b.ui32FirstBatchIndexPlusOne
      /\ \A j \in Index : j # i => q.psHandleArray[j] = b.psHandleArray[j]
  BY DEF PopStep, Whole
<1>9. k # "kernel" /\ b.ui32HandBatchSize # 0
  BY <1>1 DEF KindInv, LoopInv
<1>10. KindInv(q, k, v, T, S2)
  <2>1. 0 \in Index
    BY Sizes
  <2>2. k = "process" /\ v.loop # "all" =>
          /\ Live(q, 0) /\ q.psHandleArray[0].eType = DEV_NODE
          /\ q.psHandleArray[0].hParent = 0 /\ 0 \notin T \cup S2
    <3>1. k = "process" => /\ Live(b, 0) /\ b.psHandleArray[0].eType = DEV_NODE
                           /\ b.psHandleArray[0].hParent = 0 /\ 0 \notin S
      BY <1>1 DEF KindInv
    <3> QED BY <1>3, <1>7, <1>8, <2>1, <3>1
  <2>3. k = "process" /\ v.loop # "all" /\ q.ui32FreeHandCount = 0 => q.ui32FirstFreeIndex = 0
    BY <1>1, <1>8 DEF KindInv
  <2> QED BY <1>1, <1>8, <1>9, <2>2, <2>3 DEF KindInv
<1>11. LoopInv(q, v)
  BY <1>1, <1>8, <1>9 DEF LoopInv
<1>12. FreshInv(q)
  BY <1>1, <1>2, <1>3, <1>8 DEF FreshInv
<1>13. BatchLinked(Links(q), Start(q, v), S2)
  <2>1. Start(b, w) = w.next /\ Start(q, v) = Links(b)[i]
    BY <1>2 DEF Start, Links
  <2>2. PICK nx, ny, z : nx = Links(b) /\ ny = Links(q) /\ z = w.next
    OBVIOUS
  <2>3. \A j \in S \ {i} : ny[j] = nx[j]
    BY <1>2, <1>8, <2>2 DEF Links
  <2>4. z # 0
    <3>1. i + 1 # 0
      BY <1>2, Sizes
    <3> QED BY <2>2, <3>1
  <2>5. BatchLinked(nx, z, S) /\ i = z - 1
    BY <1>1, <2>1, <2>2
  <2>6. BatchLinked(ny, nx[i], S \ {i})
    BY ONLY <2>3, <2>4, <2>5, BatchPop
  <2> QED BY <2>1, <2>2, <2>6
<1>14. FreeInv(q, T, S2)
  <2>1. \A j \in Index : q.psHandleArray[j].eType = b.psHandleArray[j].eType
    BY <1>4 DEF SameHandles
  <2>2. \A j : j \in Unheld(q, T, S2) <=> j \in Unheld(b, {}, S)
    <3> TAKE j
    <3>1. CASE j = i
      BY <1>3, <1>7, <2>1, <1>2, <3>1 DEF Unheld, Live
    <3>2. CASE j # i
      BY <1>2, <1>3, <1>7, <2>1, <3>2 DEF Unheld
    <3> QED BY <3>1, <3>2
  <2>3. Unheld(q, T, S2) = Unheld(b, {}, S)
    BY <2>2, Zenon
  <2>4. PICK F : F = Unheld(b, {}, S)
    OBVIOUS
  <2>5. \A j \in F : Links(q)[j] = Links(b)[j]
    BY <1>2, <1>8, <2>4 DEF Unheld, Links
  <2>6. b.ui32FreeHandCount \in Nat /\ b.ui32FreeHandCount = Cardinality(F)
    BY <1>1, <2>4, Sizes DEF FreeInv
  <2>7. ~b.bPurgingEnabled =>
          FreeLinked(Links(b), b.ui32FirstFreeIndex, b.ui32LastFreeIndexPlusOne, b.ui32FreeHandCount, F)
    BY <1>1, <2>4 DEF FreeInv
  <2>8. ~b.bPurgingEnabled =>
          FreeLinked(Links(q), b.ui32FirstFreeIndex, b.ui32LastFreeIndexPlusOne, b.ui32FreeHandCount, F)
    BY <2>5, <2>6, <2>7, FreeSame
  <2> QED BY <1>8, <2>3, <2>4, <2>6, <2>8 DEF FreeInv
<1>15. FlagInv(q, T, S2)
  <2>1. S2 \subseteq Entries(q)
    BY <1>2, <1>3
  <2>2. \A j \in S2 : /\ q.psHandleArray[j].bBatched
                      /\ q.psHandleArray[j].bPartiallyFree <=> q.psHandleArray[j].eType = NONE
    BY <1>1, <1>2, <1>8 DEF FlagInv
  <2>3. \A j \in S2 \cap T : Live(q, j)
    BY <1>7
  <2>4. \A j \in Index : Live(q, j) /\ j \notin S2 =>
          /\ ~q.psHandleArray[j].bBatched /\ ~q.psHandleArray[j].bPartiallyFree
          /\ q.psHandleArray[j].ui32NextIndexPlusOne = 0
    <3> TAKE j \in Index
    <3>1. CASE j = i
      BY <1>2, <1>3, <3>1 DEF PopStep, Live
    <3>2. CASE j # i
      BY <1>1, <1>3, <1>8, <3>2 DEF FlagInv
    <3> QED BY <3>1, <3>2
  <2>5. \A j \in T : ~Live(q, j) =>
          q.psHandleArray[j].bPartiallyFree /\ q.psHandleArray[j].ui32NextIndexPlusOne = 0
    BY <1>2, <1>7 DEF PopStep, Live
  <2> QED BY <2>1, <2>2, <2>3, <2>4, <2>5 DEF FlagInv
<1>16. HashInv(q, T)
  <2>1. CASE T = {}
    BY <1>5, <2>1
  <2>2. CASE T = {i} /\ ~Live(q, i)
    <3>1. ASSUME NEW x \in Keys, q.psHashTab[x] # 0
          PROVE  LET j == q.psHashTab[x] - 1 IN
                 /\ Live(q, j) /\ j \notin T
                 /\ "MULTI" \notin q.psHandleArray[j].eFlag
                 /\ KeyOf(q.psHandleArray[j]) = x
      <4>1. PICK j : j = q.psHashTab[x] - 1
        OBVIOUS
      <4>2. /\ Live(q, j) /\ "MULTI" \notin q.psHandleArray[j].eFlag
            /\ KeyOf(q.psHandleArray[j]) = x
        BY <1>5, <3>1, <4>1, Zenon DEF HashInv
      <4>3. j \notin T
        BY <2>2, <4>2
      <4> QED BY <4>1, <4>2, <4>3
    <3>2. \A j \in Index : Live(q, j) =>
            /\ q.psHandleArray[j].pvData \in Data \cup {DevCookie}
            /\ \/ "MULTI" \in q.psHandleArray[j].eFlag
               \/ j \in T
               \/ q.psHashTab[KeyOf(q.psHandleArray[j])] = j + 1
      BY <1>5 DEF HashInv
    <3> QED BY <3>1, <3>2, Zenon DEF HashInv
  <2> QED BY <1>3, <1>7, <2>1, <2>2
<1>17. StackInv(q, st)
  <2>1. CASE st = <<>>
    <3>1. st \in Seq(Index) /\ DOMAIN st = {}
      BY <2>1
    <3> QED BY <2>1, <3>1, HeldNone DEF StackInv
  <2>2. CASE ~Live(b, i) /\ st = <<i>>
    <3>1. b.psHandleArray[i].eType = NONE
      BY <1>2, <2>2 DEF Live
    <3>2. b.psHandleArray[i].hParent = 0
      BY <1>1, <1>2, <3>1, TreeUse
    <3>3. q.psHandleArray[i].hParent = 0
      BY <3>2 DEF PopStep
    <3>4. st \in Seq(Index) /\ \A x, y \in DOMAIN st : st[x] = st[y] => x = y
      BY <1>2, <2>2
    <3> QED BY <1>2, <1>3, <2>2, <3>3, <3>4, HeldOne DEF StackInv
  <2> QED BY <2>1, <2>2
<1> QED BY <1>3, <1>5, <1>6, <1>10, <1>11, <1>12, <1>13, <1>14, <1>15, <1>16, <1>17 DEF HBCore

\* The batch as a whole after one entry was taken from it.
LEMMA PopBatch ==
  ASSUME NEW b \in Base, NEW r, NEW w, NEW v, NEW S, NEW bef, NEW ow,
         BatchInv(b, w, {}, S, bef, ow), NEW i, i \in S,
         w.loop = "batch", v.loop = "batch", v.commit = w.commit,
         HandlesInUse(r) = HandlesInUse(b), \A j : Live(r, j) <=> Live(b, j),
         r.ui32HandBatchSize = b.ui32HandBatchSize,
         \A j \in Index : r.psHandleArray[j].hParent \in {0, b.psHandleArray[j].hParent},
         NEW T, T \subseteq {i}, w.commit => \A j \in T : ~Live(b, j), ~w.commit => T = {i},
         NEW S2, S2 = S \ {i}
  PROVE  BatchInv(r, v, T, S2, bef, ow)
<1>1. /\ bef \subseteq HandlesInUse(r) /\ ow \subseteq Handles
      /\ \A j \in S2 : j + 1 \notin bef
  BY DEF BatchInv
<1>2. \A j \in Index : Live(r, j) /\ j + 1 \in bef /\ r.psHandleArray[j].hParent # 0 =>
        r.psHandleArray[j].hParent \in bef
  BY DEF BatchInv
<1>3. r.ui32HandBatchSize # 0 /\ ~(v.loop = "batch" /\ v.commit) =>
        \A j \in Index : Live(r, j) /\ j + 1 \notin bef => j \in S2 \cup T
  BY DEF BatchInv
<1>4. v.loop = "batch" /\ v.commit => HandlesInUse(r) = ow /\ \A j \in T : ~Live(r, j)
  BY DEF BatchInv
<1>5. v.loop = "batch" /\ ~v.commit =>
        HandlesInUse(r) \cap bef = ow /\ \A j \in T : j + 1 \notin bef
  BY DEF BatchInv
<1>6. v.loop # "none"
  OBVIOUS
<1> QED BY <1>1, <1>2, <1>3, <1>4, <1>5, <1>6, Zenon DEF BatchInv

\* A handle of the batch that was freed has nothing to leave: FreeHandle changes
\* nothing before it puts the entry on the free list.
LEMMA EnterFreed ==
  ASSUME NEW q \in Base, NEW i \in Index, q.psHandleArray[i].bPartiallyFree,
         q.psHandleArray[i].hParent = 0
  PROVE  FreeHandleEnter(q, i) = q
<1>1. [q EXCEPT !.psHashTab = q.psHashTab] = q
  BY DEF Base
<1>2. FreeHandleEnter(q, i) = UnlinkFromParent([q EXCEPT !.psHashTab = q.psHashTab], i)
  BY DEF FreeHandleEnter
<1> QED BY <1>1, <1>2 DEF UnlinkFromParent

\* A step of the walk along the batch keeps the invariant.
LEMMA KeepsWalkBatch == ASSUME HInv, WalkBatch PROVE HInv' /\ SameObjects(psBase, psBase')
<1>1. /\ todo = <<>> /\ walk.loop = "batch" /\ walk.next # 0
      /\ UNCHANGED <<before, owed, kind>>
  BY DEF WalkBatch
<1>2. PICK S \in SUBSET Index : HBInv(psBase, <<>>, walk, before, owed, kind, S)
  BY <1>1 DEF HInv
<1>3. HBCore(psBase, <<>>, walk, kind, S) /\ BatchInv(psBase, walk, {}, S, before, owed)
  BY <1>2, CoreAndBatch, HeldNone
<1>4. /\ psBase \in Base /\ LoopInv(psBase, walk) /\ BatchLinked(Links(psBase), Start(psBase, walk), S)
      /\ FlagInv(psBase, {}, S) /\ TreeInv(psBase) /\ KindInv(psBase, kind, walk, {}, S)
  BY <1>3, HeldNone DEF HBCore
<1>5. walk \in [loop : {"none", "batch", "all"}, next : Handles, commit : BOOLEAN]
  BY <1>4 DEF LoopInv
<1>6. PICK i : i = walk.next - 1
  OBVIOUS
<1>7. i \in S /\ i \in Index /\ walk.next = i + 1
  <2>1. Start(psBase, walk) = walk.next
    BY <1>1 DEF Start
  <2>2. i \in S /\ S \subseteq Index
    BY <1>1, <1>4, <1>6, <2>1, BatchStart
  <2>3. walk.next \in Nat
    BY <1>4, <1>5, Sizes
  <2> QED BY <1>6, <2>2, <2>3
<1>8. /\ psBase.psHandleArray[i].bPartiallyFree <=> psBase.psHandleArray[i].eType = NONE
      /\ i \in Entries(psBase)
  BY <1>4, <1>7 DEF FlagInv
<1>9. Live(psBase, i) <=> ~psBase.psHandleArray[i].bPartiallyFree
  BY <1>8 DEF Live
<1>10. PICK z : z = psBase.psHandleArray[i].ui32NextIndexPlusOne
  OBVIOUS
<1>11. z \in Handles
  BY <1>4, <1>7, <1>10 DEF Base, Slot
<1>12. PICK v : v = [walk EXCEPT !.next = z]
  OBVIOUS
<1>13. /\ v \in [loop : {"none", "batch", "all"}, next : Handles, commit : BOOLEAN]
       /\ v.loop = "batch" /\ v.next = z /\ v.commit = walk.commit
  BY <1>1, <1>5, <1>11, <1>12
<1>14. PICK q : q = [psBase EXCEPT
                       !.psHandleArray[i].ui32NextIndexPlusOne = 0,
                       !.psHandleArray[i].bBatched = psBase.psHandleArray[i].bPartiallyFree]
  OBVIOUS
<1>15. /\ walk' = v
       /\ IF ~walk.commit \/ psBase.psHandleArray[i].bPartiallyFree
          THEN psBase' = FreeHandleEnter(q, i) /\ todo' = <<i>>
          ELSE psBase' = q /\ UNCHANGED todo
  BY <1>6, <1>10, <1>12, <1>14 DEF WalkBatch
<1>16. PopStep(psBase, q, i)
  BY <1>4, <1>7, <1>14, PopFields
<1>17. PICK S2 : S2 = S \ {i}
  OBVIOUS
<1>18. ASSUME NEW st, (Live(psBase, i) /\ st = <<>>) \/ (~Live(psBase, i) /\ st = <<i>>)
       PROVE  HBCore(q, st, v, kind, S2)
  <2>1. walk.next - 1 = i
    BY <1>6
  <2> QED BY <1>1, <1>3, <1>4, <1>7, <1>10, <1>13, <1>16, <1>17, <1>18, <2>1, PopCore
<1>19. /\ q \in Base /\ HandlesInUse(q) = HandlesInUse(psBase)
       /\ \A j : Live(q, j) <=> Live(psBase, j)
       /\ q.ui32HandBatchSize = psBase.ui32HandBatchSize
       /\ \A j \in Index : q.psHandleArray[j].hParent = psBase.psHandleArray[j].hParent
       /\ q.psHandleArray[i].bPartiallyFree = psBase.psHandleArray[i].bPartiallyFree
       /\ FirstInv(q) /\ SameHandles(psBase, q)
  <2>1. q \in Base /\ Entries(q) = Entries(psBase)
    BY <1>16 DEF PopStep, Whole, Entries
  <2>2. \A j \in Index : q.psHandleArray[j].eType = psBase.psHandleArray[j].eType
    BY <1>16 DEF PopStep
  <2>3. \A j : Live(q, j) <=> Live(psBase, j)
    BY <1>4, <2>1, <2>2, Sizes DEF Live
  <2>4. SameHandles(psBase, q)
    BY <1>16, <2>3 DEF SameHandles, PopStep
  <2>5. HashInv(psBase, {})
    BY <1>3, HeldNone DEF HBCore
  <2>6. HandlesInUse(q) = HandlesInUse(psBase)
    BY <1>4, <2>1, <2>4, <2>5, SameKeeps
  <2> QED BY <1>16, <2>1, <2>3, <2>4, <2>6 DEF PopStep, Whole, FirstInv, HInv
<1>20. CASE Live(psBase, i) /\ walk.commit
  <2>1. psBase' = q /\ todo' = <<>>
    BY <1>1, <1>9, <1>15, <1>20
  <2>2. HBCore(q, <<>>, v, kind, S2)
    BY <1>18, <1>20
  <2>3. PICK T : T = {}
    OBVIOUS
  <2>4. BatchInv(q, v, T, S2, before, owed)
    BY <1>1, <1>3, <1>4, <1>7, <1>13, <1>17, <1>19, <1>20, <2>3, PopBatch
  <2>5. HBInv(q, <<>>, v, before, owed, kind, S2)
    BY <2>2, <2>3, <2>4, CoreAndBatch, HeldNone
  <2>6. Good(q, <<>>, v, before, owed, kind)
    BY <1>19, <2>5, GoodIf
  <2>7. SameObjects(psBase, psBase')
    BY <1>19, <2>1 DEF SameObjects, SameHandles
  <2> QED BY <1>1, <1>15, <2>1, <2>6, <2>7, HInvIs
<1>21. CASE ~Live(psBase, i)
  <2>1. psBase' = q /\ todo' = <<i>>
    <3>1. q.psHandleArray[i].hParent = 0
      BY <1>4, <1>7, <1>8, <1>9, <1>19, <1>21, TreeUse
    <3>2. FreeHandleEnter(q, i) = q
      BY <1>7, <1>9, <1>19, <1>21, <3>1, EnterFreed
    <3> QED BY <1>9, <1>15, <1>21, <3>2
  <2>2. HBCore(q, <<i>>, v, kind, S2)
    BY <1>18, <1>21
  <2>3. PICK T : T = {i}
    OBVIOUS
  <2>4. BatchInv(q, v, T, S2, before, owed)
    <3>1. \A j \in T : ~Live(psBase, j)
      BY <1>21, <2>3
    <3> QED BY <1>1, <1>3, <1>4, <1>7, <1>13, <1>17, <1>19, <2>3, <3>1, PopBatch
  <2>5. HBInv(q, <<i>>, v, before, owed, kind, S2)
    BY <2>2, <2>3, <2>4, CoreAndBatch, HeldOne
  <2>6. Good(q, <<i>>, v, before, owed, kind)
    BY <1>19, <2>5, GoodIf
  <2>7. SameObjects(psBase, psBase')
    BY <1>19, <2>1 DEF SameObjects, SameHandles
  <2> QED BY <1>1, <1>15, <2>1, <2>6, <2>7, HInvIs
<1>22. CASE Live(psBase, i) /\ ~walk.commit
  <2>1. PICK r : r = FreeHandleEnter(q, i)
    OBVIOUS
  <2>2. psBase' = r /\ todo' = <<i>>
    BY <1>15, <1>22, <2>1
  <2>3. HBCore(q, <<>>, v, kind, S2)
    BY <1>18, <1>22
  <2>4. kind = "process" /\ v.loop # "all" => i # 0
    BY <1>1, <1>4, <1>7 DEF KindInv
  <2>5. EnterStep(q, r, i) /\ HBCore(r, <<i>>, v, kind, S2)
    BY <1>7, <1>19, <1>22, <2>1, <2>3, <2>4, EnterCore
  <2>6. HandlesInUse(r) = HandlesInUse(q) /\ \A j : Live(r, j) <=> Live(q, j)
    BY <1>19, <2>5, EnterLive
  <2>7. /\ r.ui32HandBatchSize = psBase.ui32HandBatchSize
        /\ \A j \in Index : r.psHandleArray[j].hParent \in {0, psBase.psHandleArray[j].hParent}
    BY <1>19, <2>5 DEF EnterStep, Whole
  <2>8. PICK T : T = {i}
    OBVIOUS
  <2>9. BatchInv(r, v, T, S2, before, owed)
    BY <1>1, <1>3, <1>4, <1>7, <1>13, <1>17, <1>19, <1>22, <2>6, <2>7, <2>8, PopBatch
  <2>10. HBInv(r, <<i>>, v, before, owed, kind, S2)
    BY <2>5, <2>8, <2>9, CoreAndBatch, HeldOne
  <2>11. FirstInv(r)
    BY <1>19, <2>5 DEF FirstInv, EnterStep, Whole
  <2>12. Good(r, <<i>>, v, before, owed, kind)
    BY <2>10, <2>11, GoodIf
  <2>13. SameObjects(psBase, psBase')
    BY <1>19, <2>2, <2>5, <2>6 DEF SameObjects, SameHandles, EnterStep, Core
  <2> QED BY <1>1, <1>15, <2>2, <2>12, <2>13, HInvIs
<1> QED BY <1>20, <1>21, <1>22

-----------------------------------------------------------------------------
(***************************************************************************)
(* A new base.                                                             *)
(***************************************************************************)

\* A number is rounded up, never down.
LEMMA RoundUp ==
  ASSUME NEW n \in Nat
  PROVE  RoundUpToBlock(n) \in Int /\ RoundUpToBlock(n) >= n
<1>1. PICK h \in Nat \ {0} : h = HANDLE_BLOCK_SIZE
  BY ConstantsAssumption
<1>2. ((n + h - 1) \div h) * h >= n
  OBVIOUS
<1>3. PICK q \in Int : q = (n + h - 1) \div h
  BY <1>1
<1>4. q * h \in Int
  OBVIOUS
<1>5. RoundUpToBlock(n) = q * h
  BY <1>1, <1>3 DEF RoundUpToBlock
<1>6. q * h >= n
  BY <1>2, <1>3
<1> QED BY <1>4, <1>5, <1>6

LEMMA EmptyFields ==
  ASSUME NEW p \in BOOLEAN, NEW e, e = EmptyBase(p)
  PROVE  /\ e \in Base
         /\ e.psHandleArray = [i \in Index |-> FreshSlot] /\ e.psHashTab = [k \in Keys |-> 0]
         /\ e.ui32FreeHandCount = 0 /\ e.ui32FirstFreeIndex = 0
         /\ e.ui32TotalHandCount = 0 /\ e.ui32LastFreeIndexPlusOne = 0
         /\ e.ui32HandBatchSize = 0 /\ e.ui32FirstBatchIndexPlusOne = 0
         /\ e.ui32BatchHandAllocFailures = 0 /\ e.bPurgingEnabled = p
<1>1. /\ 0 \in Handles /\ 0 \in Index /\ 0 \in 0..MaxFailures /\ FreshSlot \in Slot
      /\ 0 \in BatchSizes \cup {0}
  BY FreshFields, ConstantsAssumption DEF Handles, Index
<1>2. PICK A \in [Index -> Slot] : A = [i \in Index |-> FreshSlot]
  BY <1>1
<1>3. PICK H \in [Keys -> Handles] : H = [k \in Keys |-> 0]
  BY <1>1
<1>4. e = [psHandleArray |-> A, psHashTab |-> H,
           ui32FreeHandCount |-> 0, ui32FirstFreeIndex |-> 0,
           ui32TotalHandCount |-> 0, ui32LastFreeIndexPlusOne |-> 0,
           ui32HandBatchSize |-> 0, ui32FirstBatchIndexPlusOne |-> 0,
           ui32BatchHandAllocFailures |-> 0, bPurgingEnabled |-> p]
  BY <1>2, <1>3 DEF EmptyBase
<1>5. e \in Base
  BY <1>1, <1>4 DEF Base
<1> QED BY <1>2, <1>3, <1>4, <1>5

LEMMA NoWalkIs ==
  /\ NoWalk.loop = "none" /\ NoWalk.next = 0
  /\ NoWalk \in [loop : {"none", "batch", "all"}, next : Handles, commit : BOOLEAN]
<1>1. PICK w : w = FALSE
  OBVIOUS
<1>2. NoWalk = [loop |-> "none", next |-> 0, commit |-> w]
  BY <1>1 DEF NoWalk
<1>3. w \in BOOLEAN
  BY <1>1
<1>4. 0 \in Handles
  BY ConstantsAssumption DEF Handles
<1> QED BY <1>2, <1>3, <1>4

\* With no handle but those of a base without batches, the batch as a whole.
LEMMA NoBatchYet ==
  ASSUME NEW b, b.ui32HandBatchSize = 0
  PROVE  BatchInv(b, NoWalk, {}, {}, {}, {})
BY NoWalkIs DEF BatchInv

LEMMA StackNone == ASSUME NEW b PROVE StackInv(b, <<>>)
<1>1. <<>> \in Seq(Index) /\ DOMAIN <<>> = {}
  OBVIOUS
<1> QED BY <1>1, HeldNone DEF StackInv

LEMMA NewKernel ==
  ASSUME "kernel" \in Bases
  PROVE  Good(EmptyBase(TRUE), <<>>, NoWalk, {}, {}, "kernel")
<1>1. PICK p : p = TRUE
  OBVIOUS
<1>2. PICK b : b = EmptyBase(p)
  OBVIOUS
<1>3. /\ b \in Base
      /\ b.psHandleArray = [i \in Index |-> FreshSlot] /\ b.psHashTab = [k \in Keys |-> 0]
      /\ b.ui32FreeHandCount = 0 /\ b.ui32FirstFreeIndex = 0
      /\ b.ui32TotalHandCount = 0 /\ b.ui32LastFreeIndexPlusOne = 0
      /\ b.ui32HandBatchSize = 0 /\ b.ui32FirstBatchIndexPlusOne = 0
      /\ b.bPurgingEnabled = p
  BY <1>1, <1>2, EmptyFields
<1>4. \A j \in Index : b.psHandleArray[j] = FreshSlot
  BY <1>3
<1>5. \A j : ~Live(b, j)
  BY <1>3 DEF Live, Entries
<1>6. Entries(b) = {}
  BY <1>3 DEF Entries
<1>7. Unheld(b, {}, {}) = {}
  BY <1>6 DEF Unheld
<1>8. KindInv(b, "kernel", NoWalk, {}, {})
  BY <1>1, <1>3, <1>4, FreshFields DEF KindInv
<1>9. LoopInv(b, NoWalk)
  BY <1>3, NoWalkIs DEF LoopInv
<1>10. FreshInv(b)
  BY <1>4 DEF FreshInv
<1>11. BatchLinked(Links(b), Start(b, NoWalk), {})
  <2>1. Start(b, NoWalk) = 0
    BY <1>3, NoWalkIs DEF Start
  <2> QED BY <2>1, BatchEmpty
<1>12. FreeInv(b, {}, {})
  BY <1>1, <1>3, <1>7, FS_EmptySet DEF FreeInv
<1>13. FlagInv(b, {}, {})
  BY <1>5 DEF FlagInv
<1>14. HashInv(b, {})
  BY <1>3, <1>5 DEF HashInv
<1>15. TreeInv(b)
  BY <1>4, <1>5, FreshFields DEF TreeInv
<1>16. HBCore(b, <<>>, NoWalk, "kernel", {})
  BY <1>3, <1>8, <1>9, <1>10, <1>11, <1>12, <1>13, <1>14, <1>15, StackNone, HeldNone DEF HBCore
<1>17. BatchInv(b, NoWalk, {}, {}, {}, {})
  BY <1>3, NoBatchYet
<1>18. HBInv(b, <<>>, NoWalk, {}, {}, "kernel", {})
  BY <1>16, <1>17, CoreAndBatch, HeldNone
<1>19. FirstInv(b)
  BY <1>3 DEF FirstInv
<1> QED BY <1>1, <1>2, <1>18, <1>19, GoodIf

\* The first entries of a process' base.
LEMMA FirstBlock ==
  ASSUME NEW m, m = EnsureFreeHandles(EmptyBase(FALSE), 1)
  PROVE  /\ m \in Base
         /\ m.psHandleArray = [i \in Index |-> FreshSlot] /\ m.psHashTab = [k \in Keys |-> 0]
         /\ m.ui32TotalHandCount >= 1 /\ m.ui32FreeHandCount = m.ui32TotalHandCount
         /\ m.ui32FirstFreeIndex = 0 /\ m.ui32LastFreeIndexPlusOne = m.ui32TotalHandCount
         /\ m.ui32HandBatchSize = 0 /\ m.ui32FirstBatchIndexPlusOne = 0
         /\ ~m.bPurgingEnabled
<1>1. PICK p : p = FALSE
  OBVIOUS
<1>2. p \in BOOLEAN
  BY <1>1
<1>3. PICK e : e = EmptyBase(p)
  OBVIOUS
<1>4. /\ e \in Base
      /\ e.psHandleArray = [i \in Index |-> FreshSlot] /\ e.psHashTab = [k \in Keys |-> 0]
      /\ e.ui32FreeHandCount = 0 /\ e.ui32FirstFreeIndex = 0
      /\ e.ui32TotalHandCount = 0 /\ e.ui32LastFreeIndexPlusOne = 0
      /\ e.ui32HandBatchSize = 0 /\ e.ui32FirstBatchIndexPlusOne = 0
      /\ e.ui32BatchHandAllocFailures = 0 /\ e.bPurgingEnabled = p
  BY <1>2, <1>3, EmptyFields
<1>5. m = IncreaseHandleArraySize(e, 1)
  <2>1. m = EnsureFreeHandles(e, 1)
    BY <1>1, <1>3
  <2>2. 1 > e.ui32FreeHandCount /\ 1 - e.ui32FreeHandCount = 1
    BY <1>4
  <2> QED BY <2>1, <2>2 DEF EnsureFreeHandles
<1>6. PICK total : total = NewTotalHandCount(e, 1)
  OBVIOUS
<1>7. total \in Nat /\ total >= 1 /\ total <= MaxHandle
  <2>1. PICK x \in Int : x = RoundUpToBlock(1) /\ x >= 1
    BY RoundUp
  <2>2. total = IF 0 + x > MaxHandle THEN MaxHandle ELSE 0 + x
    BY <1>4, <1>6, <2>1 DEF NewTotalHandCount
  <2> QED BY <2>1, <2>2, ConstantsAssumption
<1>8. total \in Handles /\ 0 \in Index
  BY <1>4, <1>7, Sizes DEF Handles
<1>9. PICK A : A = [i \in Index |-> FreshSlot]
  OBVIOUS
<1>10. A \in [Index -> Slot]
  BY <1>9, FreshFields
<1>11. [i \in Index |-> IF i >= 0 /\ i < total THEN FreshSlot ELSE e.psHandleArray[i]] = A
  BY <1>4, <1>9
<1>12. PICK r : r = [e EXCEPT !.psHandleArray = A, !.ui32FreeHandCount = total,
                              !.ui32FirstFreeIndex = 0, !.ui32LastFreeIndexPlusOne = total,
                              !.ui32TotalHandCount = total]
  OBVIOUS
<1>13. m = r
  <2>1. PICK G : G = [i \in Index |-> IF i >= e.ui32TotalHandCount /\ i < NewTotalHandCount(e, 1)
                                      THEN FreshSlot ELSE e.psHandleArray[i]]
    OBVIOUS
  <2>2. G = A
    BY <1>4, <1>6, <1>11, <2>1
  <2>3. m = [e EXCEPT !.psHandleArray = IF e.ui32FirstFreeIndex # 0 /\ ~e.bPurgingEnabled
                        THEN [G EXCEPT ![e.ui32LastFreeIndexPlusOne - 1].ui32NextIndexPlusOne
                                         = e.ui32TotalHandCount + 1]
                        ELSE G,
                      !.ui32FreeHandCount = @ + (NewTotalHandCount(e, 1) - e.ui32TotalHandCount),
                      !.ui32FirstFreeIndex = IF @ = 0 THEN e.ui32TotalHandCount ELSE @,
                      !.ui32LastFreeIndexPlusOne =
                         IF e.bPurgingEnabled THEN @ ELSE NewTotalHandCount(e, 1),
                      !.ui32TotalHandCount = NewTotalHandCount(e, 1)]
    BY <1>5, <2>1 DEF IncreaseHandleArraySize
  <2>4. e.ui32FreeHandCount + (total - e.ui32TotalHandCount) = total
    BY <1>4, <1>7
  <2> QED BY <1>1, <1>4, <1>6, <1>12, <2>2, <2>3, <2>4
<1>14. /\ r \in Base /\ r.psHandleArray = A /\ r.psHashTab = e.psHashTab
       /\ r.ui32TotalHandCount = total /\ r.ui32FreeHandCount = total
       /\ r.ui32FirstFreeIndex = 0 /\ r.ui32LastFreeIndexPlusOne = total
       /\ r.ui32HandBatchSize = 0 /\ r.ui32FirstBatchIndexPlusOne = 0
       /\ r.bPurgingEnabled = p
  BY <1>4, <1>8, <1>10, <1>12 DEF Base
<1> QED BY <1>1, <1>4, <1>7, <1>9, <1>13, <1>14

\* The array in the order of its indices.
LEMMA InOrder ==
  ASSUME NEW t \in Nat, t >= 1, t <= MaxHandle, NEW nx, \A j \in Index : nx[j] = 0
  PROVE  FreeLinked(nx, 0, t, t, 0..(t - 1))
<1>1. PICK L : L = [k \in 1..t |-> k - 1]
  OBVIOUS
<1>2. MaxHandle \in Nat
  BY ConstantsAssumption
<1>3. \A k \in 1..t : k - 1 \in Index /\ L[k] = k - 1
  BY <1>1, <1>2 DEF Index
<1>4. L \in [1..t -> Index]
  BY <1>1, <1>3
<1>5. \A j, k \in 1..t : L[j] = L[k] => j = k
  BY <1>3
<1>6. 0..(t - 1) \subseteq Index
  BY <1>2 DEF Index
<1>7. ASSUME NEW i \in Index PROVE i \in 0..(t - 1) <=> \E k \in 1..t : L[k] = i
  <2>1. ASSUME i \in 0..(t - 1) PROVE \E k \in 1..t : L[k] = i
    <3>1. PICK k : k = i + 1
      OBVIOUS
    <3>2. k \in 1..t /\ k - 1 = i
      BY <2>1, <3>1
    <3> QED BY <1>3, <3>2
  <2>2. ASSUME NEW k \in 1..t, L[k] = i PROVE i \in 0..(t - 1)
    BY <1>3, <2>2
  <2> QED BY <2>1, <2>2
<1>8. 0 = L[1] /\ t = L[t] + 1 /\ nx[L[t]] = 0
  BY <1>3
<1>9. ASSUME NEW k \in 1..(t - 1) PROVE L[k + 1] = Follows(nx, L[k])
  <2>1. k \in 1..t /\ k + 1 \in 1..t
    OBVIOUS
  <2>2. L[k] = k - 1 /\ L[k + 1] = k /\ nx[k - 1] = 0
    BY <1>3, <2>1
  <2>3. (k - 1) + 1 = k
    OBVIOUS
  <2> QED BY <2>2, <2>3 DEF Follows
<1>10. \A k \in 1..(t - 1) : L[k + 1] = Follows(nx, L[k])
  BY <1>9
<1>11. /\ \A j, k \in 1..t : L[j] = L[k] => j = k
       /\ 0..(t - 1) \subseteq Index
       /\ \A i \in Index : i \in 0..(t - 1) <=> \E k \in 1..t : L[k] = i
       /\ t # 0 => 0 = L[1] /\ t = L[t] + 1 /\ nx[L[t]] = 0
       /\ \A k \in 1..(t - 1) : L[k + 1] = Follows(nx, L[k])
  BY <1>5, <1>6, <1>7, <1>8, <1>10, Zenon
<1> QED BY <1>4, <1>11 DEF FreeLinked

LEMMA NewProcess ==
  ASSUME "process" \in Bases
  PROVE  Good(WithDevCookie, <<>>, NoWalk, {}, {}, "process")
<1>1. PICK m : m = EnsureFreeHandles(EmptyBase(FALSE), 1)
  OBVIOUS
<1>2. /\ m \in Base
      /\ m.psHandleArray = [i \in Index |-> FreshSlot] /\ m.psHashTab = [k \in Keys |-> 0]
      /\ m.ui32TotalHandCount >= 1 /\ m.ui32FreeHandCount = m.ui32TotalHandCount
      /\ m.ui32FirstFreeIndex = 0 /\ m.ui32LastFreeIndexPlusOne = m.ui32TotalHandCount
      /\ m.ui32HandBatchSize = 0 /\ m.ui32FirstBatchIndexPlusOne = 0
      /\ ~m.bPurgingEnabled
  BY <1>1, FirstBlock
<1>3. PICK t : t = m.ui32TotalHandCount
  OBVIOUS
<1>4. t \in Nat /\ t >= 1 /\ t <= MaxHandle /\ 0 \in Index /\ 0 \in Handles /\ Entries(m) = 0..(t - 1)
      /\ Entries(m) \subseteq Index
  BY <1>2, <1>3, Sizes DEF Entries
<1>5. \A j \in Index : m.psHandleArray[j] = FreshSlot
  BY <1>2
<1>6. \A j \in Index : Links(m)[j] = 0
  BY <1>5, FreshFields DEF Links
<1>7. Unheld(m, {}, {}) = 0..(t - 1)
  <2>1. \A j : j \in Unheld(m, {}, {}) <=> j \in 0..(t - 1)
    BY <1>4, <1>5, FreshFields DEF Unheld
  <2> QED BY <2>1, Zenon
<1>8. FreeLinked(Links(m), 0, t, t, 0..(t - 1))
  BY <1>4, <1>6, InOrder
<1>9. Cardinality(0..(t - 1)) = t
  <2>1. PICK u \in Int : u = t - 1
    BY <1>4
  <2>2. Cardinality(0..u) = IF 0 > u THEN 0 ELSE u - 0 + 1
    BY FS_Interval
  <2> QED BY <1>4, <2>1, <2>2
<1>10. FreeInv(m, {}, {})
  BY <1>2, <1>3, <1>7, <1>8, <1>9 DEF FreeInv
<1>11. 0 \in Unheld(m, {}, {})
  BY <1>4, <1>7
<1>12. PICK i : i = 0
  OBVIOUS
<1>13. i = NewIndex(m) /\ i \in Unheld(m, {}, {}) /\ (~m.bPurgingEnabled => i = m.ui32FirstFreeIndex)
  BY <1>2, <1>11, <1>12 DEF NewIndex
<1>14. PICK f : f = {"SHARED"}
  OBVIOUS
<1>15. f \in SUBSET {"SHARED", "MULTI", "PRIVATE"} /\ "MULTI" \notin f /\ "PRIVATE" \notin f
  BY <1>14
<1>16. PICK d, y, h : d = DevCookie /\ y = DEV_NODE /\ h = 0
  OBVIOUS
<1>17. d \in Data \cup {DevCookie} /\ y \in AllTypes /\ h \in Handles /\ y # NONE
  BY <1>4, <1>16, NoneIsNoType
<1>18. PICK r : r = AllocHandle(m, d, y, f, h)
  OBVIOUS
<1>19. PutStep(m, r, i, d, y, f, h)
  BY <1>2, <1>10, <1>13, <1>15, <1>17, <1>18, AllocFields
<1>20. /\ r \in Base /\ r.ui32TotalHandCount = t /\ ~r.bPurgingEnabled /\ r.ui32HandBatchSize = 0
       /\ r.ui32FreeHandCount = t - 1 /\ r.ui32FirstBatchIndexPlusOne = 0
       /\ r.ui32FirstFreeIndex = IF t - 1 = 0 THEN 0 ELSE Follows(Links(m), i)
       /\ r.ui32LastFreeIndexPlusOne = IF t - 1 = 0 THEN 0 ELSE t
       /\ \A k \in Keys : r.psHashTab[k] = IF k = <<d, y, h>> THEN i + 1 ELSE 0
       /\ r.psHandleArray[i].eType = y /\ r.psHandleArray[i].pvData = d
       /\ r.psHandleArray[i].eFlag = f /\ r.psHandleArray[i].bBatched = FALSE
       /\ r.psHandleArray[i].bPartiallyFree = FALSE
       /\ r.psHandleArray[i].ui32NextIndexPlusOne = 0
       /\ r.psHandleArray[i].hParent = 0 /\ r.psHandleArray[i].children = <<>>
       /\ \A j \in Index : j # i => r.psHandleArray[j] = FreshSlot
  BY <1>2, <1>3, <1>5, <1>15, <1>19 DEF PutStep, Whole, HandlesBatched
<1>21. Entries(r) = 0..(t - 1) /\ i \in Index /\ i \in Entries(r)
  BY <1>4, <1>12, <1>20 DEF Entries
<1>22. \A j : Live(r, j) <=> j = i
  <2>1. Entries(r) \subseteq Index
    BY <1>20, Sizes
  <2> QED BY <1>17, <1>20, <1>21, <2>1, FreshFields DEF Live
<1>23. KindInv(r, "process", NoWalk, {}, {})
  BY <1>12, <1>16, <1>20, <1>22 DEF KindInv
<1>24. LoopInv(r, NoWalk)
  <2>1. r.ui32LastFreeIndexPlusOne <= t /\ 0 <= t
    BY <1>4, <1>20
  <2> QED BY <1>20, <2>1, NoWalkIs DEF LoopInv
<1>25. FreshInv(r)
  BY <1>20, <1>21 DEF FreshInv
<1>26. BatchLinked(Links(r), Start(r, NoWalk), {})
  <2>1. Start(r, NoWalk) = 0
    BY <1>20, NoWalkIs DEF Start
  <2> QED BY <2>1, BatchEmpty
<1>27. FreeInv(r, {}, {})
  <2>1. \A j : j \in Unheld(r, {}, {}) <=> j \in (0..(t - 1)) \ {i}
    <3>1. Entries(r) \subseteq Index
      BY <1>20, Sizes
    <3> QED BY <1>17, <1>20, <1>21, <3>1, FreshFields DEF Unheld
  <2>2. Unheld(r, {}, {}) = (0..(t - 1)) \ {i}
    BY <2>1, Zenon
  <2>3. PICK F, nx, ny, g, l, q :
          /\ F = 0..(t - 1) /\ nx = Links(m) /\ ny = Links(r) /\ q = t - 1
          /\ g = r.ui32FirstFreeIndex /\ l = r.ui32LastFreeIndexPlusOne
    OBVIOUS
  <2>4. /\ FreeLinked(nx, i, t, t, F) /\ t # 0 /\ t \in Nat
        /\ \A j \in F \ {i} : ny[j] = nx[j]
        /\ t # 1 => g = Follows(nx, i) /\ l = t
    <3>1. FreeLinked(nx, i, t, t, F)
      BY <1>8, <1>12, <2>3
    <3>2. F \subseteq Index
      BY <1>4, <2>3
    <3>3. \A j \in F \ {i} : ny[j] = nx[j]
      BY <1>6, <1>20, <2>3, <3>2, FreshFields DEF Links
    <3>4. t # 1 => t - 1 # 0
      BY <1>4
    <3> QED BY <1>4, <1>20, <2>3, <3>1, <3>3, <3>4
  <2>5. FreeLinked(ny, g, l, t - 1, F \ {i}) /\ (t # 1 => g \in F \ {i})
    BY ONLY <2>4, FreeTake
  <2>6. Cardinality(F \ {i}) = t - 1
    <3>1. IsFiniteSet(F) /\ i \in F
      <4>1. IsFiniteSet(Entries(m))
        BY <1>2, Sizes
      <4> QED BY <1>4, <1>12, <2>3, <4>1
    <3> QED BY <1>9, <2>3, <3>1, FS_RemoveElement
  <2> QED BY <1>20, <2>2, <2>3, <2>5, <2>6 DEF FreeInv
<1>28. FlagInv(r, {}, {})
  BY <1>20, <1>22 DEF FlagInv
<1>29. KeyOf(r.psHandleArray[i]) = <<d, y, h>> /\ <<d, y, h>> \in Keys
  BY <1>15, <1>16, <1>17, <1>20 DEF KeyOf, ParentIfPrivate, Keys
<1>30. HashInv(r, {})
  <2>1. ASSUME NEW x \in Keys, r.psHashTab[x] # 0
        PROVE  LET j == r.psHashTab[x] - 1 IN
               /\ Live(r, j) /\ j \notin {}
               /\ "MULTI" \notin r.psHandleArray[j].eFlag
               /\ KeyOf(r.psHandleArray[j]) = x
    <3>1. x = <<d, y, h>> /\ r.psHashTab[x] = i + 1
      BY <1>20, <2>1
    <3>2. r.psHashTab[x] - 1 = i
      BY <1>12, <3>1
    <3> QED BY <1>15, <1>20, <1>22, <1>29, <3>1, <3>2
  <2>2. ASSUME NEW j \in Index, Live(r, j)
        PROVE  /\ r.psHandleArray[j].pvData \in Data \cup {DevCookie}
               /\ \/ "MULTI" \in r.psHandleArray[j].eFlag
                  \/ j \in {}
                  \/ r.psHashTab[KeyOf(r.psHandleArray[j])] = j + 1
    <3>1. j = i
      BY <1>22, <2>2
    <3> QED BY <1>17, <1>20, <1>29, <3>1
  <2> QED BY <2>1, <2>2, Zenon DEF HashInv
<1>31. TreeInv(r)
  <2>1. \A j \in Index : r.psHandleArray[j].hParent = 0 /\ r.psHandleArray[j].children = <<>>
    BY <1>20, FreshFields
  <2>2. DOMAIN <<>> = {}
    OBVIOUS
  <2> QED BY <2>1, <2>2, TreeMake
<1>32. HBCore(r, <<>>, NoWalk, "process", {})
  BY <1>20, <1>23, <1>24, <1>25, <1>26, <1>27, <1>28, <1>30, <1>31, StackNone, HeldNone DEF HBCore
<1>33. BatchInv(r, NoWalk, {}, {}, {}, {})
  BY <1>20, NoBatchYet
<1>34. HBInv(r, <<>>, NoWalk, {}, {}, "process", {})
  BY <1>32, <1>33, CoreAndBatch, HeldNone
<1>35. FirstInv(r)
  BY <1>20 DEF FirstInv
<1>36. WithDevCookie = r
  BY <1>1, <1>14, <1>16, <1>18 DEF WithDevCookie
<1> QED BY <1>34, <1>35, <1>36, GoodIf

-----------------------------------------------------------------------------
(***************************************************************************)
(* The kernel's base gives entries back.                                   *)
(***************************************************************************)

LEMMA GreatestNumber ==
  ASSUME NEW T, NEW n \in Nat, T \subseteq 1..n, T # {}
  PROVE  \E x \in T : \A y \in T : y <= x
<1>1. PICK U : U = {n - y : y \in T}
  OBVIOUS
<1>2. U \subseteq Nat /\ U # {}
  <2>1. \A y \in T : n - y \in Nat
    OBVIOUS
  <2>2. PICK y : y \in T
    OBVIOUS
  <2>3. n - y \in U
    BY <1>1, <2>2
  <2> QED BY <1>1, <2>1, <2>3
<1>3. PICK u \in U : \A y \in U : u <= y
  BY <1>2, LeastNumber
<1>4. PICK x \in T : u = n - x
  BY <1>1, <1>3
<1>5. ASSUME NEW y \in T PROVE y <= x
  <2>1. n - x <= n - y
    BY <1>1, <1>3, <1>4
  <2>2. x \in Int /\ y \in Int
    OBVIOUS
  <2> QED BY <2>1, <2>2
<1> QED BY <1>5

\* The entries from count on go, and none of them is in use.
PurgeStep(b, r, count) ==
  /\ r \in Base /\ r.psHashTab = b.psHashTab
  /\ r.bPurgingEnabled = b.bPurgingEnabled /\ r.ui32HandBatchSize = b.ui32HandBatchSize
  /\ r.ui32LastFreeIndexPlusOne = b.ui32LastFreeIndexPlusOne
  /\ r.ui32FirstBatchIndexPlusOne = b.ui32FirstBatchIndexPlusOne
  /\ r.ui32FirstFreeIndex = 0 /\ r.ui32TotalHandCount = count
  /\ r.ui32FreeHandCount = b.ui32FreeHandCount - (b.ui32TotalHandCount - count)
  /\ \A j \in Index : r.psHandleArray[j] = IF j < count THEN b.psHandleArray[j] ELSE FreshSlot

\* Nothing is in use from count on, and the count of the free entries stays one.
LEMMA UpperPart ==
  ASSUME NEW b \in Base, FreshInv(b), NEW count \in Nat, count <= b.ui32TotalHandCount,
         \A j \in Entries(b) : j >= count => b.psHandleArray[j].eType = NONE,
         b.ui32FreeHandCount = Cardinality(Unheld(b, {}, {}))
  PROVE  /\ \A j \in Index : j >= count => b.psHandleArray[j].eType = NONE
         /\ \A j : Live(b, j) => j < count /\ j \in 0..(count - 1)
         /\ {j \in 0..(count - 1) : b.psHandleArray[j].eType = NONE}
              = Unheld(b, {}, {}) \ (count..(b.ui32TotalHandCount - 1))
         /\ Cardinality({j \in 0..(count - 1) : b.psHandleArray[j].eType = NONE})
              = b.ui32FreeHandCount - (b.ui32TotalHandCount - count)
         /\ b.ui32FreeHandCount - (b.ui32TotalHandCount - count) \in Nat
         /\ b.ui32FreeHandCount - (b.ui32TotalHandCount - count) <= count
<1>1. PICK t \in Nat : t = b.ui32TotalHandCount
  BY Sizes
<1>2. Entries(b) = 0..(t - 1) /\ Entries(b) \subseteq Index /\ Index \subseteq Nat /\ count <= t
  BY <1>1, Sizes DEF Entries
<1>3. \A j \in Index : j >= count => b.psHandleArray[j].eType = NONE
  BY FreshFields DEF FreshInv
<1>4. \A j : Live(b, j) => j < count /\ j \in 0..(count - 1)
  BY <1>2 DEF Live
<1>5. PICK V : V = {j \in 0..(count - 1) : b.psHandleArray[j].eType = NONE}
  OBVIOUS
<1>6. PICK U : U = Unheld(b, {}, {})
  OBVIOUS
<1>7. PICK W : W = count..(t - 1)
  OBVIOUS
<1>8. \A j : j \in V <=> j \in U \ W
  <2>1. \A j : j \in U <=> j \in 0..(t - 1) /\ b.psHandleArray[j].eType = NONE
    BY <1>2, <1>6 DEF Unheld
  <2>2. \A j : j \in 0..(count - 1) <=> j \in 0..(t - 1) /\ j \notin W
    BY <1>2, <1>7
  <2> QED BY <1>5, <2>1, <2>2
<1>9. V = U \ W
  BY <1>8, Zenon
<1>10. U \cap W = W
  <2>1. \A j \in W : j \in Entries(b) /\ j >= count
    BY <1>2, <1>7
  <2>2. W \subseteq U
    BY <1>6, <2>1 DEF Unheld
  <2> QED BY <2>2
<1>11. IsFiniteSet(U) /\ Cardinality(U) = b.ui32FreeHandCount
  BY <1>6, UnheldFinite
<1>12. Cardinality(W) = t - count
  <2>1. PICK z \in Int : z = t - 1
    OBVIOUS
  <2>2. Cardinality(count..z) = IF count > z THEN 0 ELSE z - count + 1
    BY FS_Interval
  <2> QED BY <1>2, <1>7, <2>1, <2>2
<1>13. Cardinality(V) = b.ui32FreeHandCount - (t - count)
  <2>1. Cardinality(U \ W) = Cardinality(U) - Cardinality(U \cap W)
    BY <1>11, FS_Difference
  <2> QED BY <1>9, <1>10, <1>11, <1>12, <2>1
<1>14. Cardinality(V) \in Nat /\ Cardinality(V) <= count
  <2>1. PICK z \in Int : z = count - 1
    OBVIOUS
  <2>2. IsFiniteSet(0..z) /\ Cardinality(0..z) = IF 0 > z THEN 0 ELSE z - 0 + 1
    BY FS_Interval
  <2>3. V \in SUBSET (0..z)
    BY <1>5, <2>1
  <2>4. IsFiniteSet(V) /\ Cardinality(V) <= Cardinality(0..z)
    BY <2>2, <2>3, FS_Subset
  <2> QED BY <2>1, <2>2, <2>4, FS_CardinalityType
<1> QED BY <1>1, <1>3, <1>4, <1>5, <1>6, <1>7, <1>9, <1>13, <1>14

LEMMA PurgeKeeps ==
  ASSUME NEW b \in Base, NEW w, NEW bef, NEW ow, HBInv(b, <<>>, w, bef, ow, "kernel", {}),
         w.loop = "none", NEW count \in Nat, count <= b.ui32TotalHandCount,
         \A j \in Entries(b) : j >= count => b.psHandleArray[j].eType = NONE,
         NEW r, PurgeStep(b, r, count)
  PROVE  Good(r, <<>>, w, bef, ow, "kernel")
<1>1. /\ KindInv(b, "kernel", w, {}, {}) /\ LoopInv(b, w) /\ FreshInv(b)
      /\ FreeInv(b, {}, {}) /\ FlagInv(b, {}, {}) /\ HashInv(b, {}) /\ TreeInv(b)
      /\ BatchInv(b, w, {}, {}, bef, ow) /\ BatchLinked(Links(b), Start(b, w), {})
  BY HeldNone DEF HBInv
<1>2. PICK n : n = b.ui32FreeHandCount - (b.ui32TotalHandCount - count)
  OBVIOUS
<1>3. /\ \A j \in Index : j >= count => b.psHandleArray[j].eType = NONE
      /\ \A j : Live(b, j) => j < count /\ j \in 0..(count - 1)
      /\ Cardinality({j \in 0..(count - 1) : b.psHandleArray[j].eType = NONE}) = n
      /\ n \in Nat /\ n <= count
  <2>1. b.ui32FreeHandCount = Cardinality(Unheld(b, {}, {}))
    BY <1>1 DEF FreeInv
  <2> QED BY <1>1, <1>2, <2>1, UpperPart
<1>4. /\ r \in Base /\ r.psHashTab = b.psHashTab
      /\ r.bPurgingEnabled = b.bPurgingEnabled /\ r.ui32HandBatchSize = b.ui32HandBatchSize
      /\ r.ui32LastFreeIndexPlusOne = b.ui32LastFreeIndexPlusOne
      /\ r.ui32FirstBatchIndexPlusOne = b.ui32FirstBatchIndexPlusOne
      /\ r.ui32FirstFreeIndex = 0 /\ r.ui32TotalHandCount = count /\ r.ui32FreeHandCount = n
      /\ \A j \in Index : r.psHandleArray[j] = IF j < count THEN b.psHandleArray[j] ELSE FreshSlot
  BY <1>2 DEF PurgeStep
<1>5. /\ b.bPurgingEnabled /\ b.ui32LastFreeIndexPlusOne = 0 /\ b.ui32HandBatchSize = 0
      /\ "kernel" \in Bases
      /\ \A j \in Index : ~b.psHandleArray[j].bBatched /\ ~b.psHandleArray[j].bPartiallyFree
  BY <1>1 DEF KindInv
<1>6. b.ui32FirstBatchIndexPlusOne = 0
  BY <1>1, <1>5 DEF LoopInv
<1>7. Entries(r) = 0..(count - 1) /\ Entries(r) \subseteq Index /\ Index \subseteq Nat
      /\ Entries(r) \subseteq Entries(b)
  <2>1. Entries(r) = 0..(count - 1)
    BY <1>4 DEF Entries
  <2>2. Entries(b) = 0..(b.ui32TotalHandCount - 1) /\ b.ui32TotalHandCount \in Nat
    BY Sizes DEF Entries
  <2> QED BY <1>4, <2>1, <2>2, Sizes
<1>8. \A j \in Index : /\ r.psHandleArray[j].eType = b.psHandleArray[j].eType
                       /\ r.psHandleArray[j].hParent = b.psHandleArray[j].hParent
                       /\ r.psHandleArray[j].children = b.psHandleArray[j].children
  <2> TAKE j \in Index
  <2>1. CASE j < count
    BY <1>4, <2>1
  <2>2. CASE ~(j < count)
    <3>1. j >= count
      BY <1>7, <2>2
    <3>2. b.psHandleArray[j].eType = NONE
      BY <1>3, <3>1
    <3>3. b.psHandleArray[j].hParent = 0 /\ b.psHandleArray[j].children = <<>>
      BY <1>1, <3>2, TreeUse
    <3> QED BY <1>4, <2>2, <3>2, <3>3, FreshFields
  <2> QED BY <2>1, <2>2
<1>9. \A j : Live(r, j) <=> Live(b, j)
  BY <1>3, <1>7, <1>8 DEF Live
<1>10. \A j \in Index : Live(b, j) => r.psHandleArray[j] = b.psHandleArray[j]
  BY <1>3, <1>4
<1>11. SameHandles(b, r)
  BY <1>4, <1>8, <1>9, <1>10 DEF SameHandles
<1>12. HashInv(r, {}) /\ TreeInv(r) /\ HandlesInUse(r) = HandlesInUse(b)
  BY <1>1, <1>4, <1>11, SameKeeps
<1>13. KindInv(r, "kernel", w, {}, {})
  <2>1. \A j \in Index : ~r.psHandleArray[j].bBatched /\ ~r.psHandleArray[j].bPartiallyFree
    BY <1>4, <1>5, FreshFields
  <2> QED BY <1>4, <1>5, <2>1 DEF KindInv
<1>14. LoopInv(r, w)
  BY <1>1, <1>4, <1>5, <1>6 DEF LoopInv
<1>15. FreshInv(r)
  <2>1. \A j \in Index : j \notin Entries(r) => ~(j < count)
    BY <1>7
  <2> QED BY <1>4, <2>1 DEF FreshInv
<1>16. BatchLinked(Links(r), Start(r, w), {})
  <2>1. Start(r, w) = 0
    BY <1>4, <1>6 DEF Start
  <2> QED BY <2>1, BatchEmpty
<1>17. FreeInv(r, {}, {})
  <2>1. \A j : j \in Unheld(r, {}, {}) <=> j \in {x \in 0..(count - 1) : b.psHandleArray[x].eType = NONE}
    BY <1>7, <1>8 DEF Unheld
  <2>2. Unheld(r, {}, {}) = {x \in 0..(count - 1) : b.psHandleArray[x].eType = NONE}
    BY <2>1, Zenon
  <2> QED BY <1>3, <1>4, <1>5, <2>2 DEF FreeInv
<1>18. FlagInv(r, {}, {})
  BY <1>1, <1>9, <1>10 DEF FlagInv
<1>19. BatchInv(r, w, {}, {}, bef, ow)
  BY <1>1, <1>4, <1>5, <1>8, <1>9, <1>12 DEF BatchInv
<1>20. HBCore(r, <<>>, w, "kernel", {})
  BY <1>4, <1>12, <1>13, <1>14, <1>15, <1>16, <1>17, <1>18, StackNone, HeldNone DEF HBCore
<1>21. HBInv(r, <<>>, w, bef, ow, "kernel", {})
  BY <1>19, <1>20, CoreAndBatch, HeldNone
<1>22. FirstInv(r)
  BY <1>4 DEF FirstInv
<1> QED BY <1>21, <1>22, GoodIf

\* PVRSRVPurgeHandles cuts the array of the kernel after its last handle.
LEMMA KeepsPurge == ASSUME HInv, PVRSRVPurgeHandles PROVE HInv' /\ SameObjects(psBase, psBase')
<1>1. /\ todo = <<>> /\ walk.loop = "none" /\ psBase.bPurgingEnabled
      /\ UNCHANGED <<todo, walk, before, owed, kind>>
  BY DEF PVRSRVPurgeHandles, Idle
<1>2. PICK S \in SUBSET Index : HBInv(psBase, <<>>, walk, before, owed, kind, S)
  BY <1>1 DEF HInv
<1>3. psBase \in Base /\ KindInv(psBase, kind, walk, Held(<<>>), S) /\ FreshInv(psBase)
  BY <1>2 DEF HBInv
<1>4. /\ kind = "kernel" /\ psBase.ui32HandBatchSize = 0
      /\ \A j \in Index : ~psBase.psHandleArray[j].bBatched /\ ~psBase.psHandleArray[j].bPartiallyFree
  BY <1>1, <1>3 DEF KindInv
<1>5. S = {}
  BY <1>2, <1>4, NoBatch
<1>6. HBInv(psBase, <<>>, walk, before, owed, "kernel", {})
  BY <1>2, <1>4, <1>5
<1>7. PICK t \in Nat : t = psBase.ui32TotalHandCount
  BY <1>3, Sizes
<1>8. t <= MaxHandle /\ MaxHandle \in Nat /\ Entries(psBase) = 0..(t - 1)
      /\ Entries(psBase) \subseteq Index /\ Index = 0..(MaxHandle - 1) /\ Handles = 0..MaxHandle
  BY <1>3, <1>7, Sizes DEF Entries, Index, Handles
<1>9. PICK used : used = {h \in 1..t : ~StructIsFree(psBase.psHandleArray[h - 1])}
  OBVIOUS
<1>10. PICK last : last = IF used = {} THEN 0 ELSE CHOOSE h \in used : \A g \in used : g <= h
  OBVIOUS
<1>11. last \in Nat /\ \A g \in used : g <= last
  <2>1. CASE used = {}
    BY <1>10, <2>1
  <2>2. CASE used # {}
    <3>1. used \subseteq 1..t
      BY <1>9
    <3>2. \E h \in used : \A g \in used : g <= h
      BY <2>2, <3>1, GreatestNumber
    <3>3. last \in used /\ \A g \in used : g <= last
      BY <1>10, <2>2, <3>2
    <3> QED BY <3>1, <3>3
  <2> QED BY <2>1, <2>2
<1>12. PICK count : count = RoundUpToBlock(last)
  OBVIOUS
<1>13. /\ count <= t \div 2
       /\ psBase' = [psBase EXCEPT
                  !.psHandleArray = [i \in Index |-> IF i < count THEN @[i] ELSE FreshSlot],
                  !.ui32FreeHandCount = FreeAfterPurge(count),
                  !.ui32FirstFreeIndex = 0,
                  !.ui32TotalHandCount = count]
  BY <1>7, <1>9, <1>10, <1>12 DEF PVRSRVPurgeHandles
<1>14. count \in Nat /\ count >= last /\ count <= t
  <2>1. count \in Int /\ count >= last
    BY <1>11, <1>12, RoundUp
  <2> QED BY <1>11, <1>13, <2>1
<1>15. \A j \in Entries(psBase) : j >= count => psBase.psHandleArray[j].eType = NONE
  <2> SUFFICES ASSUME NEW j \in Entries(psBase), j >= count
               PROVE  psBase.psHandleArray[j].eType = NONE
    OBVIOUS
  <2>1. j + 1 \in 1..t /\ (j + 1) - 1 = j /\ ~(j + 1 <= last)
    BY <1>8, <1>11, <1>14
  <2>2. j + 1 \notin used
    BY <1>11, <2>1
  <2>3. StructIsFree(psBase.psHandleArray[j])
    BY <1>9, <2>1, <2>2
  <2> QED BY <2>3 DEF StructIsFree
<1>16. PICK n : n = psBase.ui32FreeHandCount - (psBase.ui32TotalHandCount - count)
  OBVIOUS
<1>17. n \in Nat /\ n <= count
  <2>1. psBase.ui32FreeHandCount = Cardinality(Unheld(psBase, {}, {}))
    BY <1>6, HeldNone DEF HBInv, FreeInv
  <2> QED BY <1>3, <1>7, <1>14, <1>15, <1>16, <2>1, UpperPart
<1>18. PICK arr : arr = [i \in Index |-> IF i < count THEN psBase.psHandleArray[i] ELSE FreshSlot]
  OBVIOUS
<1>19. arr \in [Index -> Slot]
  <2>1. FreshSlot \in Slot
    BY FreshFields
  <2>2. psBase.psHandleArray \in [Index -> Slot]
    BY <1>3 DEF Base
  <2> QED BY <1>18, <2>1, <2>2
<1>20. PICK r : r = [psBase EXCEPT !.psHandleArray = arr, !.ui32FreeHandCount = n,
                                   !.ui32FirstFreeIndex = 0, !.ui32TotalHandCount = count]
  OBVIOUS
<1>21. psBase' = r
  BY <1>13, <1>16, <1>18, <1>20 DEF FreeAfterPurge
<1>22. n \in Handles /\ count \in Handles /\ 0 \in Index
  BY <1>3, <1>8, <1>14, <1>17, Sizes
<1>23. PurgeStep(psBase, r, count)
  <2>1. /\ r \in Base /\ r.psHashTab = psBase.psHashTab
        /\ r.bPurgingEnabled = psBase.bPurgingEnabled
        /\ r.ui32HandBatchSize = psBase.ui32HandBatchSize
        /\ r.ui32LastFreeIndexPlusOne = psBase.ui32LastFreeIndexPlusOne
        /\ r.ui32FirstBatchIndexPlusOne = psBase.ui32FirstBatchIndexPlusOne
        /\ r.ui32FirstFreeIndex = 0 /\ r.ui32TotalHandCount = count
        /\ r.ui32FreeHandCount = n /\ r.psHandleArray = arr
    BY <1>3, <1>19, <1>20, <1>22 DEF Base
  <2>2. \A j \in Index : arr[j] = IF j < count THEN psBase.psHandleArray[j] ELSE FreshSlot
    BY <1>18
  <2> QED BY <1>16, <2>1, <2>2 DEF PurgeStep
<1>24. Good(r, <<>>, walk, before, owed, "kernel")
  BY <1>1, <1>3, <1>6, <1>7, <1>14, <1>15, <1>23, PurgeKeeps
<1>25. SameObjects(psBase, psBase')
  <2>1. \A j \in Index : Live(psBase, j) => j < count
    BY <1>8, <1>14, <1>15 DEF Live
  <2> QED BY <1>21, <1>23, <2>1 DEF SameObjects, PurgeStep
<1> QED BY <1>1, <1>4, <1>21, <1>24, <1>25, HInvIs

-----------------------------------------------------------------------------
(***************************************************************************)
(* The life of a base.                                                     *)
(***************************************************************************)

LEMMA NewIsGood ==
  ASSUME NEW k \in Bases, k # "anyclient"
  PROVE  Good(NewBase(k), <<>>, NoWalk, {}, {}, k)
<1>1. k = "kernel" \/ k = "process"
  BY ConstantsAssumption
<1>2. CASE k = "kernel"
  BY <1>2, NewKernel DEF NewBase
<1>3. CASE k = "process"
  BY <1>3, NewProcess DEF NewBase
<1> QED BY <1>1, <1>2, <1>3

LEMMA KeepsEndAll == ASSUME HInv, EndAll PROVE HInv'
<1>1. /\ todo = <<>> /\ psBase' = NewBase(kind) /\ walk' = NoWalk
      /\ before' = {} /\ owed' = {} /\ todo' = todo /\ kind' = kind
  BY DEF EndAll
<1>2. kind \in Bases /\ kind # "anyclient"
  BY DEF HInv, HBInv, KindInv
<1>3. Good(NewBase(kind), <<>>, NoWalk, {}, {}, kind)
  BY <1>2, NewIsGood
<1> QED BY <1>1, <1>3, HInvIs

LEMMA InitHolds == ASSUME Init, kind # "anyclient" PROVE HInv
<1>1. /\ kind \in Bases /\ psBase = NewBase(kind) /\ todo = <<>> /\ walk = NoWalk
      /\ before = {} /\ owed = {}
  BY DEF Init
<1>2. Good(NewBase(kind), <<>>, NoWalk, {}, {}, kind)
  BY <1>1, NewIsGood
<1> QED BY <1>1, <1>2, HInvIs

LEMMA NextKeeps == ASSUME HInv, [Next]_vars PROVE HInv' /\ (walk.loop # "all" => SameObjects(psBase, psBase'))
<1>1. ASSUME NEW d \in Data, NEW t \in Types, NEW f \in AllocFlags, PVRSRVAllocHandle(d, t, f)
      PROVE  HInv' /\ SameObjects(psBase, psBase')
  <2>1. f \in SUBSET {"SHARED", "MULTI", "PRIVATE"} /\ "PRIVATE" \notin f
    BY DEF AllocFlags
  <2>2. d \in Data \cup {DevCookie} /\ t \in AllTypes
    BY DEF AllTypes
  <2> QED BY <1>1, <2>1, <2>2, KeepsAllocHandle
<1>2. ASSUME PVRSRVAllocHandle(DevCookie, DEV_NODE, {"SHARED"}) PROVE HInv' /\ SameObjects(psBase, psBase')
  <2>1. PICK f : f = {"SHARED"}
    OBVIOUS
  <2>2. f \in SUBSET {"SHARED", "MULTI", "PRIVATE"} /\ "PRIVATE" \notin f
    BY <2>1
  <2>3. DevCookie \in Data \cup {DevCookie} /\ DEV_NODE \in AllTypes
    BY DEF AllTypes
  <2>4. PVRSRVAllocHandle(DevCookie, DEV_NODE, f)
    BY <1>2, <2>1
  <2> QED BY <2>2, <2>3, <2>4, KeepsAllocHandle
<1>3. ASSUME NEW d \in Data, NEW t \in Types, NEW f \in SubAllocFlags, NEW h \in Handles,
             PVRSRVAllocSubHandle(d, t, f, h)
      PROVE  HInv' /\ SameObjects(psBase, psBase')
  BY <1>3, KeepsAllocSubHandle
<1>4. ASSUME NEW h \in Handles, NEW t \in Types, PVRSRVReleaseHandle(h, t) PROVE HInv' /\ SameObjects(psBase, psBase')
  BY <1>4, KeepsReleaseHandle
<1>5. ASSUME NEW n \in BatchSizes, PVRSRVNewHandleBatch(n) PROVE HInv' /\ SameObjects(psBase, psBase')
  BY <1>5, KeepsNewHandleBatch
<1>6. ASSUME NEW commit \in BOOLEAN, PVRSRVHandleBatchCommitOrRelease(commit) PROVE HInv' /\ SameObjects(psBase, psBase')
  BY <1>6, KeepsCommitOrRelease DEF PVRSRVHandleBatchCommitOrRelease, SameObjects
<1>7. ASSUME FreeHandle \/ WalkBatch \/ EndBatch \/ PVRSRVPurgeHandles
      PROVE  HInv' /\ SameObjects(psBase, psBase')
  BY <1>7, KeepsFreeHandle, KeepsWalkBatch, KeepsEndBatch, KeepsPurge
<1>8. ASSUME FreeHandleBase PROVE HInv' /\ SameObjects(psBase, psBase')
  BY <1>8, KeepsFreeHandleBase DEF FreeHandleBase, SameObjects
<1>9. ASSUME WalkAll \/ EndAll PROVE HInv' /\ walk.loop = "all"
  BY <1>9, KeepsWalkAll, KeepsEndAll DEF WalkAll, EndAll
<1>10. ASSUME UNCHANGED vars PROVE HInv' /\ SameObjects(psBase, psBase')
  BY <1>10, HInvIs DEF vars, SameObjects
<1> QED BY <1>1, <1>2, <1>3, <1>4, <1>5, <1>6, <1>7, <1>8, <1>9, <1>10 DEF Next

\* No step turns one base into another.
LEMMA SameKind == ASSUME [Next]_vars PROVE kind' = kind
BY DEF Next, vars, PVRSRVAllocHandle, PVRSRVAllocSubHandle, PVRSRVReleaseHandle, FreeHandle,
   PVRSRVNewHandleBatch, PVRSRVHandleBatchCommitOrRelease, WalkBatch, EndBatch, FreeHandleBase,
   WalkAll, EndAll, PVRSRVPurgeHandles

-----------------------------------------------------------------------------
(***************************************************************************)
(* The theorems.                                                           *)
(***************************************************************************)

\* The invariant, for the bases it is about.
BaseInv == kind # "anyclient" => HInv

\* At every step of every call on a base, of a client that opens the device first
\* or of the kernel, there is a numbering of the free entries and one of the
\* batch that the links follow, and the flags, the hash table and the tree of
\* parents agree with them (handle.c as a whole).
THEOREM BaseInvariance == Spec => []BaseInv
<1>1. Init => BaseInv
  BY InitHolds DEF BaseInv
<1>2. BaseInv /\ [Next]_vars => BaseInv'
  BY NextKeeps, SameKind DEF BaseInv
<1> QED BY <1>1, <1>2, PTL DEF Spec

\* FreeHandle, AllocHandle and IncreaseHandleArraySize keep the free list, the hash
\* table and the tree of parents exact through the recursion of FreeHandle, and
\* FreeAllHandles, which stops as soon as the counts agree, leaves nothing.
THEOREM DatabaseStaysExact == Spec => [](kind # "anyclient" => DatabaseExact)
<1>1. BaseInv => (kind # "anyclient" => DatabaseExact)
  BY Consequences DEF BaseInv
<1> QED BY <1>1, BaseInvariance, PTL

\* When the loop of PVRSRVHandleBatchCommitOrRelease is over, every handle of the
\* batch that was not released meanwhile is in use, or, after a failed
\* allocation or without a commit, none is and the others are.
THEOREM BatchesAreAllOrNothing == Spec => [](kind # "anyclient" => BatchAllOrNothing)
<1>1. BaseInv => (kind # "anyclient" => BatchAllOrNothing)
  BY Consequences DEF BaseInv
<1> QED BY <1>1, BaseInvariance, PTL

\* The property in terms of the handles follows from that of the entries.
LEMMA ObjectsOfHandles ==
  ASSUME HInv, HInv', SameObjects(psBase, psBase'),
         NEW h \in HandlesInUse(psBase) \cap HandlesInUse(psBase')
  PROVE  /\ psBase.psHandleArray[h - 1].eType = psBase'.psHandleArray[h - 1].eType
         /\ psBase.psHandleArray[h - 1].pvData = psBase'.psHandleArray[h - 1].pvData
         /\ psBase.psHandleArray[h - 1].eFlag = psBase'.psHandleArray[h - 1].eFlag
<1>1. psBase \in Base /\ psBase' \in Base
  BY HInvIs DEF Good, HBInv
<1>2. h \in Handles /\ InUse(psBase, h) /\ InUse(psBase', h)
  BY DEF HandlesInUse
<1>3. h - 1 \in Index /\ Live(psBase, h - 1) /\ Live(psBase', h - 1)
  BY <1>1, <1>2, HandleOfEntry
<1> QED BY <1>3 DEF SameObjects

\* No call gives a handle that is in use to another object or type: AllocHandle
\* takes entries that are free, and neither growing nor purging the array nor
\* giving a batch back touches an entry in use.
THEOREM ObjectsAreKept == Spec /\ kind # "anyclient" => HandlesKeepTheirObject
<1> DEFINE Keep == walk.loop # "all" =>
             \A h \in HandlesInUse(psBase) \cap HandlesInUse(psBase') :
               LET s == psBase.psHandleArray[h - 1]
                   t == psBase'.psHandleArray[h - 1]
               IN s.eType = t.eType /\ s.pvData = t.pvData /\ s.eFlag = t.eFlag
<1>1. BaseInv /\ kind # "anyclient" /\ [Next]_vars => [Keep]_vars
  BY NextKeeps, ObjectsOfHandles DEF BaseInv
<1>2. kind # "anyclient" /\ [Next]_vars => (kind # "anyclient")'
  BY SameKind
<1> HIDE DEF Keep
<1>3. Spec /\ kind # "anyclient" => [][Keep]_vars
  BY <1>1, <1>2, BaseInvariance, PTL DEF Spec
<1> QED BY <1>3 DEF Keep, HandlesKeepTheirObject
=============================================================================
