---------------------------- MODULE UserMapProofs ----------------------------
(***************************************************************************)
(* UserMap for every number of processes, threads, areas, handles and      *)
(* frames.  The first part shows that a mapping always leads to a record   *)
(* and the record to an area, that the record counts the parts of its      *)
(* mapping, that a process that is gone leaves no record behind, and that  *)
(* a thread maps the memory it asked for (invariant MInv).  The second     *)
(* part adds up the references on page frames (invariant FInv).            *)
(***************************************************************************)
EXTENDS UserMap, FiniteSetTheorems, FunctionTheorems, SequenceTheorems, WellFoundedInduction,
        TLAPS

-----------------------------------------------------------------------------
(***************************************************************************)
(* Numbers, finite sets and lists.                                         *)
(***************************************************************************)

(* A set of numbers has a least one.                                       *)
LEMMA LeastNumber ==
  ASSUME NEW T, T \subseteq Nat, T # {}
  PROVE  \E x \in T : \A y \in T : x <= y
<1> DEFINE R == OpToRel(<, Nat)
<1>1. IsWellFoundedOn(R, Nat)
  BY NatLessThanWellFounded
<1>2. \A x, y \in Nat : x < y => <<x, y>> \in R
  BY DEF OpToRel
<1> HIDE DEF R
<1>3. PICK x \in T : \A y \in T : ~(<<y, x>> \in R)
  BY <1>1, WFMin
<1>4. \A y \in T : ~(y < x)
  BY <1>2, <1>3
<1> QED BY <1>4

(* Min of a set of numbers is in it.                                       *)
LEMMA MinIn ==
  ASSUME NEW T, T \subseteq Nat, T # {}
  PROVE  Min(T) \in T /\ \A y \in T : Min(T) <= y
<1>1. \E x \in T : \A y \in T : x <= y
  BY LeastNumber
<1> QED BY <1>1 DEF Min

(* The member of a set that a fold takes last.                             *)
Pick(t) == CHOOSE m \in t : TRUE

(* Induction over a finite set, one member at a time, for a set of subsets *)
(* instead of a property: the library's theorem has an operator as a       *)
(* parameter.                                                              *)
LEMMA SubsetInduction ==
  ASSUME NEW S, IsFiniteSet(S), NEW G, {} \in G,
         \A K \in SUBSET S : K # {} /\ K \ {Pick(K)} \in G => K \in G
  PROVE  S \in G
<1> DEFINE Bad == {K \in SUBSET S : K \notin G}
<1>1. SUFFICES ASSUME Bad # {} PROVE FALSE
  OBVIOUS
<1>2. \A K \in SUBSET S : IsFiniteSet(K)
  BY FS_Subset
<1>3. Bad \subseteq FiniteSubsetsOf(S)
  BY <1>2 DEF FiniteSubsetsOf
<1>4. IsWellFoundedOn(StrictSubsetOrdering(S), FiniteSubsetsOf(S))
  BY FS_StrictSubsetOrderingWellFounded
<1>5. PICK K \in Bad : \A L \in Bad : ~(<<L, K>> \in StrictSubsetOrdering(S))
  <2> HIDE DEF Bad
  <2> QED BY <1>1, <1>3, <1>4, WFMin
<1>6. K \in SUBSET S /\ K # {} /\ K \notin G
  OBVIOUS
<1>7. PICK x \in K : x = Pick(K)
  BY <1>6, Zenon DEF Pick
<1>8. K \ {x} \in SUBSET S /\ K \ {x} \subseteq K /\ K \ {x} # K
  BY <1>6, <1>7
<1>9. <<K \ {x}, K>> \in StrictSubsetOrdering(S)
  BY <1>6, <1>8 DEF StrictSubsetOrdering
<1>10. K \ {x} \in G
  BY <1>5, <1>8, <1>9
<1> QED BY <1>6, <1>7, <1>10

(* The subsets of S that are no larger than K.                             *)
Level(S, K) == {t \in SUBSET S : Cardinality(t) <= Cardinality(K)}

(* Taking a member away leads one level down.                              *)
LEMMA LevelFacts ==
  ASSUME NEW S, IsFiniteSet(S), NEW K \in SUBSET S
  PROVE  /\ Level(S, S) = SUBSET S /\ Level(S, {}) = {{}}
         /\ K # {} => \A t \in Level(S, K) :
              t # {} => Pick(t) \in t /\ t \ {Pick(t)} \in Level(S, K \ {Pick(K)})
<1>1. ASSUME NEW t \in SUBSET S
      PROVE  IsFiniteSet(t) /\ Cardinality(t) \in Nat /\ Cardinality(t) <= Cardinality(S)
  <2>1. IsFiniteSet(t) /\ Cardinality(t) <= Cardinality(S)
    BY FS_Subset
  <2> QED BY <2>1, FS_CardinalityType
<1>2. Cardinality(S) \in Nat
  BY FS_CardinalityType
<1>3. Level(S, S) = SUBSET S
  BY <1>1, <1>2 DEF Level
<1>4. Cardinality({}) = 0
  BY FS_EmptySet
<1>5. Level(S, {}) = {{}}
  <2>1. ASSUME NEW t \in SUBSET S, Cardinality(t) <= 0 PROVE t = {}
    <3>1. Cardinality(t) = 0
      BY <1>1, <2>1
    <3> QED BY <1>1, <3>1, FS_EmptySet
  <2>2. {} \in SUBSET S
    OBVIOUS
  <2> QED BY <1>4, <2>1, <2>2 DEF Level
<1>6. ASSUME K # {}, NEW t \in Level(S, K), t # {}
      PROVE  Pick(t) \in t /\ t \ {Pick(t)} \in Level(S, K \ {Pick(K)})
  <2>1. Pick(t) \in t /\ Pick(K) \in K
    BY <1>6, Zenon DEF Pick
  <2>2. t \in SUBSET S /\ Cardinality(t) <= Cardinality(K)
    BY DEF Level
  <2>3. IsFiniteSet(t) /\ Cardinality(t) \in Nat /\ IsFiniteSet(K) /\ Cardinality(K) \in Nat
    BY <1>1, <2>2
  <2>4. PICK y \in t : y = Pick(t)
    BY <2>1
  <2>5. PICK x \in K : x = Pick(K)
    BY <2>1
  <2>6. Cardinality(t \ {y}) = Cardinality(t) - 1
    BY <2>3, FS_RemoveElement
  <2>7. Cardinality(K \ {x}) = Cardinality(K) - 1
    BY <2>3, FS_RemoveElement
  <2>8. Cardinality(t \ {y}) <= Cardinality(K \ {x})
    BY <2>2, <2>3, <2>6, <2>7
  <2>9. t \ {y} \in Level(S, K \ {x})
    BY <2>2, <2>8 DEF Level
  <2> QED BY <2>1, <2>4, <2>5, <2>9
<1> QED BY <1>3, <1>5, <1>6

(* The states in which the members of subsets are freed one after the other. *)
Frees(it, s, D) ==
  \A t \in D : it[t] = IF t = {} THEN s ELSE FreeBuf(it[t \ {Pick(t)}], Pick(t))

(* FoldSet frees the members of a finite set one after the other: there is *)
(* a function from the subsets to the states on the way.                   *)
LEMMA FreeEachDef ==
  ASSUME NEW S, IsFiniteSet(S), NEW s
  PROVE  \E it : FreeEach(s, S) = it[S] /\ Frees(it, s, SUBSET S)
<1> DEFINE G == {K \in SUBSET S : \E it : Frees(it, s, Level(S, K))}
<1>1. {} \in G
  <2>1. Level(S, {}) = {{}}
    BY LevelFacts
  <2>2. Frees([t \in {{}} |-> s], s, Level(S, {}))
    BY <2>1 DEF Frees
  <2> QED BY <2>2
<1>2. ASSUME NEW K \in SUBSET S, K # {}, K \ {Pick(K)} \in G PROVE K \in G
  <2>1. PICK it : Frees(it, s, Level(S, K \ {Pick(K)}))
    BY <1>2
  <2> DEFINE new == [t \in Level(S, K) |-> IF t = {} THEN s
                        ELSE FreeBuf(it[t \ {Pick(t)}], Pick(t))]
  <2>2. \A t \in Level(S, K) : t # {} => t \ {Pick(t)} \in Level(S, K \ {Pick(K)})
    BY <1>2, LevelFacts
  <2>3. \A t \in Level(S, K \ {Pick(K)}) : t \in Level(S, K) => new[t] = it[t]
    BY <2>1 DEF Frees
  <2>4. Level(S, K \ {Pick(K)}) \subseteq Level(S, K)
    <3>1. PICK x \in K : x = Pick(K)
      BY <1>2, Zenon DEF Pick
    <3>2. IsFiniteSet(K)
      BY FS_Subset
    <3>3. Cardinality(K \ {x}) = Cardinality(K) - 1 /\ Cardinality(K) \in Nat
      BY <3>2, FS_RemoveElement, FS_CardinalityType
    <3>4. \A t \in SUBSET S : Cardinality(t) \in Nat
      <4> TAKE t \in SUBSET S
      <4>1. IsFiniteSet(t)
        BY FS_Subset
      <4> QED BY <4>1, FS_CardinalityType
    <3>5. Level(S, K \ {x}) \subseteq Level(S, K)
      BY <3>3, <3>4 DEF Level
    <3> QED BY <3>1, <3>5
  <2>5. Frees(new, s, Level(S, K))
    <3>1. ASSUME NEW t \in Level(S, K), t # {} PROVE new[t \ {Pick(t)}] = it[t \ {Pick(t)}]
      BY <2>2, <2>3, <2>4, <3>1
    <3>2. \A t \in Level(S, K) : new[t] = IF t = {} THEN s
                        ELSE FreeBuf(it[t \ {Pick(t)}], Pick(t))
      OBVIOUS
    <3> HIDE DEF new
    <3> QED BY <3>1, <3>2, Zenon DEF Frees
  <2> HIDE DEF new
  <2> QED BY <2>5
<1>3. S \in G
  <2> HIDE DEF G
  <2> QED BY <1>1, <1>2, SubsetInduction
<1>4. PICK it : Frees(it, s, SUBSET S)
  <2>1. Level(S, S) = SUBSET S
    BY LevelFacts
  <2> QED BY <1>3, <2>1
<1> DEFINE Eq(f) == f = [t \in SUBSET S |-> IF t = {} THEN s
                           ELSE FreeBuf(f[t \ {CHOOSE m \in t : TRUE}],
                                                  CHOOSE m \in t : TRUE)]
<1> DEFINE g == [t \in SUBSET S |-> it[t]]
<1>5. Eq(g)
  <2>1. \A t \in SUBSET S : g[t] = IF t = {} THEN s
                           ELSE FreeBuf(g[t \ {CHOOSE m \in t : TRUE}],
                                                  CHOOSE m \in t : TRUE)
    <3>1. \A t \in SUBSET S : g[t] = it[t] /\ t \ {CHOOSE m \in t : TRUE} \in SUBSET S
      OBVIOUS
    <3> HIDE DEF g
    <3> QED BY <1>4, <3>1, Zenon DEF Frees, Pick
  <2>2. g = [t \in SUBSET S |-> g[t]]
    OBVIOUS
  <2> HIDE DEF g
  <2> QED BY <2>1, <2>2
<1>6. PICK f : f = CHOOSE h : Eq(h)
  OBVIOUS
<1>7. Eq(f)
  <2> HIDE DEF Eq, g
  <2> QED BY <1>5, <1>6
<1>8. FreeEach(s, S) = f[S]
  BY <1>6, Zenon DEF FreeEach, FoldSet, MapThenFoldSet
<1>9. Frees(f, s, SUBSET S)
  BY <1>7 DEF Frees, Pick
<1> QED BY <1>8, <1>9

(* The same for the areas that are left when the module goes.              *)
Purges(it, s, D) ==
  \A t \in D : it[t] = IF t = {} THEN s ELSE PurgeArea(it[t \ {Pick(t)}], Pick(t))

(* FoldSet frees the members of a finite set one after the other: there is *)
(* a function from the subsets to the states on the way.                   *)
LEMMA PurgeEachDef ==
  ASSUME NEW S, IsFiniteSet(S), NEW s
  PROVE  \E it : PurgeEach(s, S) = it[S] /\ Purges(it, s, SUBSET S)
<1> DEFINE G == {K \in SUBSET S : \E it : Purges(it, s, Level(S, K))}
<1>1. {} \in G
  <2>1. Level(S, {}) = {{}}
    BY LevelFacts
  <2>2. Purges([t \in {{}} |-> s], s, Level(S, {}))
    BY <2>1 DEF Purges
  <2> QED BY <2>2
<1>2. ASSUME NEW K \in SUBSET S, K # {}, K \ {Pick(K)} \in G PROVE K \in G
  <2>1. PICK it : Purges(it, s, Level(S, K \ {Pick(K)}))
    BY <1>2
  <2> DEFINE new == [t \in Level(S, K) |-> IF t = {} THEN s
                        ELSE PurgeArea(it[t \ {Pick(t)}], Pick(t))]
  <2>2. \A t \in Level(S, K) : t # {} => t \ {Pick(t)} \in Level(S, K \ {Pick(K)})
    BY <1>2, LevelFacts
  <2>3. \A t \in Level(S, K \ {Pick(K)}) : t \in Level(S, K) => new[t] = it[t]
    BY <2>1 DEF Purges
  <2>4. Level(S, K \ {Pick(K)}) \subseteq Level(S, K)
    <3>1. PICK x \in K : x = Pick(K)
      BY <1>2, Zenon DEF Pick
    <3>2. IsFiniteSet(K)
      BY FS_Subset
    <3>3. Cardinality(K \ {x}) = Cardinality(K) - 1 /\ Cardinality(K) \in Nat
      BY <3>2, FS_RemoveElement, FS_CardinalityType
    <3>4. \A t \in SUBSET S : Cardinality(t) \in Nat
      <4> TAKE t \in SUBSET S
      <4>1. IsFiniteSet(t)
        BY FS_Subset
      <4> QED BY <4>1, FS_CardinalityType
    <3>5. Level(S, K \ {x}) \subseteq Level(S, K)
      BY <3>3, <3>4 DEF Level
    <3> QED BY <3>1, <3>5
  <2>5. Purges(new, s, Level(S, K))
    <3>1. ASSUME NEW t \in Level(S, K), t # {} PROVE new[t \ {Pick(t)}] = it[t \ {Pick(t)}]
      BY <2>2, <2>3, <2>4, <3>1
    <3>2. \A t \in Level(S, K) : new[t] = IF t = {} THEN s
                        ELSE PurgeArea(it[t \ {Pick(t)}], Pick(t))
      OBVIOUS
    <3> HIDE DEF new
    <3> QED BY <3>1, <3>2, Zenon DEF Purges
  <2> HIDE DEF new
  <2> QED BY <2>5
<1>3. S \in G
  <2> HIDE DEF G
  <2> QED BY <1>1, <1>2, SubsetInduction
<1>4. PICK it : Purges(it, s, SUBSET S)
  <2>1. Level(S, S) = SUBSET S
    BY LevelFacts
  <2> QED BY <1>3, <2>1
<1> DEFINE Eq(f) == f = [t \in SUBSET S |-> IF t = {} THEN s
                           ELSE PurgeArea(f[t \ {CHOOSE m \in t : TRUE}],
                                                  CHOOSE m \in t : TRUE)]
<1> DEFINE g == [t \in SUBSET S |-> it[t]]
<1>5. Eq(g)
  <2>1. \A t \in SUBSET S : g[t] = IF t = {} THEN s
                           ELSE PurgeArea(g[t \ {CHOOSE m \in t : TRUE}],
                                                  CHOOSE m \in t : TRUE)
    <3>1. \A t \in SUBSET S : g[t] = it[t] /\ t \ {CHOOSE m \in t : TRUE} \in SUBSET S
      OBVIOUS
    <3> HIDE DEF g
    <3> QED BY <1>4, <3>1, Zenon DEF Purges, Pick
  <2>2. g = [t \in SUBSET S |-> g[t]]
    OBVIOUS
  <2> HIDE DEF g
  <2> QED BY <2>1, <2>2
<1>6. PICK f : f = CHOOSE h : Eq(h)
  OBVIOUS
<1>7. Eq(f)
  <2> HIDE DEF Eq, g
  <2> QED BY <1>5, <1>6
<1>8. PurgeEach(s, S) = f[S]
  BY <1>6, Zenon DEF PurgeEach, FoldSet, MapThenFoldSet
<1>9. Purges(f, s, SUBSET S)
  BY <1>7 DEF Purges, Pick
<1> QED BY <1>8, <1>9

(* The places of a list, numbered in their order: every place has one      *)
(* number, and every number is that of one place.                          *)
LEMMA PlacesNumbered ==
  ASSUME NEW n \in Nat, NEW I \in SUBSET (1..n)
  PROVE  /\ IsFiniteSet(I) /\ Cardinality(I) \in Nat
         /\ \E e \in Bijection(1..Cardinality(I), I) :
              \A k \in 1..Cardinality(I) : e[k] = NthPlace(I, k)
<1>1. IsFiniteSet(I) /\ Cardinality(I) \in Nat
  <2>1. IsFiniteSet(1..n)
    BY FS_Interval
  <2>2. IsFiniteSet(I)
    BY <2>1, FS_Subset
  <2> QED BY <2>2, FS_CardinalityType
<1> DEFINE Below(i) == {j \in I : j <= i}
           N == 1..Cardinality(I)
           r == [i \in I |-> Cardinality(Below(i))]
<1>2. ASSUME NEW i \in I
      PROVE  IsFiniteSet(Below(i)) /\ Cardinality(Below(i)) \in N
  <2>1. Below(i) \in SUBSET I /\ i \in Below(i)
    OBVIOUS
  <2>2. IsFiniteSet(Below(i)) /\ Cardinality(Below(i)) <= Cardinality(I)
    BY <1>1, <2>1, FS_Subset
  <2>3. Cardinality(Below(i)) \in Nat /\ Cardinality(Below(i)) # 0
    BY <2>1, <2>2, FS_CardinalityType, FS_EmptySet
  <2> QED BY <1>1, <2>2, <2>3
<1>3. ASSUME NEW i \in I, NEW j \in I, i < j PROVE Cardinality(Below(i)) < Cardinality(Below(j))
  <2>1. Below(i) \in SUBSET Below(j) /\ j \in Below(j) /\ j \notin Below(i)
    <3>1. \A k \in I : k \in Int
      OBVIOUS
    <3>2. \A k \in I : k <= i => k <= j
      BY <1>3, <3>1
    <3>3. j <= j /\ ~(j <= i)
      BY <1>3, <3>1
    <3> QED BY <3>2, <3>3
  <2>2. Below(i) # Below(j)
    BY <2>1
  <2>3. Cardinality(Below(i)) <= Cardinality(Below(j)) /\ Cardinality(Below(i)) # Cardinality(Below(j))
    <3> HIDE DEF Below
    <3> QED BY <1>2, <2>1, <2>2, FS_Subset
  <2>4. Cardinality(Below(i)) \in Nat /\ Cardinality(Below(j)) \in Nat
    BY <1>1, <1>2
  <2> QED BY <2>3, <2>4
<1>4. r \in [I -> N]
  BY <1>2
<1>5. \A i, j \in I : r[i] = r[j] => i = j
  <2>1. SUFFICES ASSUME NEW i \in I, NEW j \in I, i # j PROVE r[i] # r[j]
    OBVIOUS
  <2>2. i \in Int /\ j \in Int /\ r[i] \in Int /\ r[j] \in Int
    BY <1>1, <1>4
  <2>3. CASE i < j
    BY <1>3, <2>2, <2>3
  <2>4. CASE j < i
    BY <1>3, <2>2, <2>4
  <2> QED BY <2>1, <2>2, <2>3, <2>4
<1>6. IsFiniteSet(N) /\ Cardinality(N) = Cardinality(I)
  <2>1. PICK c \in Nat : c = Cardinality(I)
    BY <1>1
  <2>2. IsFiniteSet(1..c) /\ Cardinality(1..c) = (IF 1 > c THEN 0 ELSE c - 1 + 1)
    BY FS_Interval
  <2> QED BY <2>1, <2>2
<1>7. r \in Surjection(I, N)
  <2> HIDE DEF r, N
  <2>1. r \in Injection(I, N)
    BY <1>4, <1>5, Fun_IsInj
  <2> QED BY <1>6, <2>1, FS_Injection
<1>8. \A k \in N : \E i \in I : r[i] = k
  <2> HIDE DEF r, N
  <2> QED BY <1>7 DEF Surjection
<1> DEFINE e == [k \in N |-> CHOOSE i \in I : Cardinality(Below(i)) = k]
<1>9. \A k \in N : e[k] \in I /\ r[e[k]] = k
  BY <1>8
<1>10. \A i \in I : r[i] \in N /\ e[r[i]] = i
  <2> HIDE DEF e
  <2> QED BY <1>4, <1>5, <1>9
<1>11. e \in Bijection(N, I)
  <2>1. e \in [N -> I]
    BY <1>9
  <2>2. \A k, l \in N : e[k] = e[l] => k = l
    <3> HIDE DEF e, r
    <3> QED BY <1>9
  <2>3. \A i \in I : \E k \in N : e[k] = i
    <3> HIDE DEF e, r
    <3> QED BY <1>10
  <2> HIDE DEF e
  <2> QED BY <2>1, <2>2, <2>3, Fun_IsBij
<1>12. \A k \in N : e[k] = NthPlace(I, k)
  BY Zenon DEF NthPlace
<1> HIDE DEF e
<1> QED BY <1>1, <1>11, <1>12

(***************************************************************************)
(* The invariant, over a state s = [frame, area, structs] and a set N of   *)
(* pairs <<process, area it has a handle to>>.                             *)
(***************************************************************************)

(* A state is a record; what its fields are is said below.                 *)
IsState(s) == s \in [frame : {s.frame}, area : {s.area}, structs : {s.structs}]

IsRecord(k) ==
  /\ k \in [id : {k.id}, area : {k.area}, off : {k.off}, size : {k.size}, pid : {k.pid},
            tid : {k.tid}, mapped : {k.mapped}, ref : {k.ref}, onList : {k.onList}, uva : {k.uva}]
  /\ k.id \in Nat /\ k.area \in Areas /\ k.pid \in Procs /\ k.mapped \in Nat /\ k.onList \in BOOLEAN

IsList(ss) == \E n \in Nat : DOMAIN ss = 1..n /\ ss = [k \in 1..n |-> ss[k]]

(* Records have numbers of their own, a process has one for an area, and   *)
(* one is listed exactly while nothing is mapped by it.                    *)
RecInv(ss) ==
  /\ IsList(ss)
  /\ \A i \in DOMAIN ss : IsRecord(ss[i]) /\ (ss[i].onList <=> ss[i].mapped = 0)
  /\ \A i, j \in DOMAIN ss : ss[i].id = ss[j].id => i = j
  /\ \A i, j \in DOMAIN ss : ss[i].area = ss[j].area /\ ss[i].pid = ss[j].pid => i = j

(* tt is what is left of ss when some records that are not mapped go.      *)
Shrinks(ss, tt) ==
  /\ IsList(tt)
  /\ \A k \in DOMAIN tt : \E i \in DOMAIN ss : tt[k] = ss[i]
  /\ \A k, l \in DOMAIN tt : tt[k].id = tt[l].id => k = l
  /\ \A i \in DOMAIN ss : ss[i].mapped # 0 => \E k \in DOMAIN tt : tt[k] = ss[i]

(* A mapping is the one of its record, which counts its parts.             *)
MapInv(vs, ss) ==
  /\ IsFiniteSet(vs)
  /\ \A v \in vs : v.id \in Nat /\ v.parts \in Nat \ {0}
  /\ \A v, w \in vs : v.id = w.id => v = w
  /\ \A v \in vs : \E i \in DOMAIN ss : ss[i].id = v.id /\ ss[i].pid = v.p /\ ss[i].mapped = v.parts
  /\ \A i \in DOMAIN ss : ss[i].mapped # 0 => \E v \in vs : v.id = ss[i].id

InUse == {"live", "lost", "kept"}

(* Its frames are a list, and those of device registers follow each other. *)
Framed(x) ==
  IsList(x.frames) /\ (x.type \in {"io", "ioremap"} => PagesAreContiguous(x.frames))

IsArea(x) ==
  /\ x \in [st : {x.st}, type : {x.type}, reg : {x.reg}, frames : {x.frames}, parent : {x.parent},
            src : {x.src}, wrap : {x.wrap}]
  /\ x.st \in {"unused", "freed"} \cup InUse
  /\ x.reg \in BOOLEAN /\ (x.reg <=> x.st \in InUse)
  /\ x.parent \in Areas \cup {NoArea}
  /\ x.type = "sub" => x.parent # NoArea
  /\ Framed(x)

Typed(s) == /\ IsState(s) /\ s.area \in [Areas -> {s.area[a] : a \in Areas}]
            /\ \A a \in Areas : IsArea(s.area[a])

(* Nothing lies in the area.                                               *)
Childless(s, a) == \A b \in Areas : s.area[b].parent # a

(* What a process is told of a list of frames.                             *)
Describes(off, size, fs) ==
  /\ off[1] \in {"pfn", "handle"}
  /\ off[1] = "pfn" => PagesAreContiguous(fs) /\ off[2] = fs[1] /\ size = Len(fs)

(* A sub area of frames that follow each other has all of them.            *)
Inside(x, r) == r.type \notin {"io", "ioremap"} /\ (r.type = "extkv" => x.frames = r.frames)

(* What a thread was told is true as long as the area is there.            *)
TrueOf(s, k) ==
  /\ k.area \in Areas /\ k.h \in Handles /\ s.area[k.area].st # "unused"
  /\ s.area[k.area].st # "freed" => Describes(k.off, k.size, s.area[k.area].frames)

(* The offsets of records, and those in Q that threads were told, lead to  *)
(* the frames of their areas.                                              *)
Shown(s, Q) ==
  /\ \A a \in Areas : s.area[a].type = "sub" => Inside(s.area[a], s.area[s.area[a].parent])
  /\ \A i \in DOMAIN s.structs : Describes(s.structs[i].off, s.structs[i].size,
                                         s.area[s.structs[i].area].frames)
  /\ \A k \in Q : TrueOf(s, k)

(* An area with a handle is alive and one with a record in use, neither    *)
(* has sub areas, and registered memory belongs to one process.            *)
AreaInv(s, N, Q) ==
  /\ Typed(s)
  /\ \A a \in Areas : s.area[a].parent # NoArea => s.area[s.area[a].parent].st # "unused"
  /\ \A n \in N : n[2] \in Areas /\ s.area[n[2]].st = "live" /\ Childless(s, n[2])
  /\ \A i \in DOMAIN s.structs : LET a == s.structs[i].area
                                 IN  a \in Areas /\ s.area[a].st \in InUse /\ Childless(s, a)
  /\ \A m, n \in N : m[2] = n[2] /\ s.area[n[2]].type = "extkv" => m[1] = n[1]
  /\ \A n \in N : \A i \in DOMAIN s.structs :
        s.structs[i].area = n[2] /\ s.area[n[2]].type = "extkv" => s.structs[i].pid = n[1]
  /\ Shown(s, Q)

(* Areas are used in their order.                                          *)
InOrder(s) == \A a, b \in Areas : a < b /\ s.area[a].st = "unused" => s.area[b].st = "unused"

Without(N, A) == {n \in N : n[2] \notin A}

(* The area did not change, or is gone.                                    *)
SameOrGone(x, y) ==
  \/ y.st = "freed" /\ y.type = "none"
  \/ /\ y.type = x.type /\ y.frames = x.frames /\ y.parent = x.parent
     /\ y.st = x.st \/ (x.st \in InUse /\ y.st \in InUse)

(* A record of the same area and offset.                                   *)
Alike(k, l) == k.area = l.area /\ k.off = l.off /\ k.size = l.size

(* What is shown stays true when areas go that have no record.             *)
LEMMA ShownLater ==
  ASSUME NEW s, NEW t, NEW Q, Shown(s, Q), \A a \in Areas : IsArea(s.area[a]),
         \A a \in Areas : SameOrGone(s.area[a], t.area[a]),
         \A k \in DOMAIN t.structs : /\ t.structs[k].area \in Areas
                                    /\ t.area[t.structs[k].area].st # "freed"
                                    /\ \E i \in DOMAIN s.structs : Alike(t.structs[k], s.structs[i])
  PROVE  Shown(t, Q)
<1>1. ASSUME NEW a \in Areas, t.area[a].type = "sub"
      PROVE  Inside(t.area[a], t.area[t.area[a].parent])
  <2>1. /\ s.area[a].type = "sub" /\ t.area[a].frames = s.area[a].frames
        /\ t.area[a].parent = s.area[a].parent
    BY <1>1 DEF SameOrGone
  <2>2. PICK r \in Areas : r = s.area[a].parent
    BY <2>1 DEF IsArea
  <2>3. Inside(s.area[a], s.area[r])
    BY <2>1, <2>2 DEF Shown
  <2>4. Inside(t.area[a], t.area[r])
    BY <2>1, <2>3 DEF Inside, SameOrGone
  <2> QED BY <2>1, <2>2, <2>4
<1>2. ASSUME NEW k \in DOMAIN t.structs
      PROVE  Describes(t.structs[k].off, t.structs[k].size, t.area[t.structs[k].area].frames)
  <2>1. PICK i \in DOMAIN s.structs : Alike(t.structs[k], s.structs[i])
    OBVIOUS
  <2>2. Describes(s.structs[i].off, s.structs[i].size, s.area[s.structs[i].area].frames)
    BY DEF Shown
  <2>3. t.area[t.structs[k].area].frames = s.area[t.structs[k].area].frames
    BY DEF SameOrGone
  <2> QED BY <2>1, <2>2, <2>3 DEF Alike
<1>3. ASSUME NEW k \in Q PROVE TrueOf(t, k)
  <2>1. TrueOf(s, k)
    BY DEF Shown
  <2>2. t.area[k.area].st # "unused"
    BY <2>1 DEF TrueOf, SameOrGone, InUse
  <2>3. t.area[k.area].st # "freed" => /\ s.area[k.area].st # "freed"
                                      /\ t.area[k.area].frames = s.area[k.area].frames
    BY <2>1 DEF TrueOf, SameOrGone, InUse
  <2> QED BY <2>1, <2>2, <2>3 DEF TrueOf
<1> QED BY <1>1, <1>2, <1>3 DEF Shown

(* One list of frames fits what is told.                                   *)
LEMMA DescribesOne ==
  ASSUME NEW off, NEW size, NEW fs, NEW gs, IsList(fs), IsList(gs), off[1] = "pfn",
         Describes(off, size, fs), Describes(off, size, gs)
  PROVE  fs = gs
<1>1. PICK n \in Nat : DOMAIN fs = 1..n /\ fs = [k \in 1..n |-> fs[k]]
  BY DEF IsList
<1>2. PICK m \in Nat : DOMAIN gs = 1..m /\ gs = [k \in 1..m |-> gs[k]]
  BY DEF IsList
<1>3. Len(fs) = n /\ Len(gs) = m
  BY <1>1, <1>2
<1>4. n = m /\ fs[1] = gs[1]
  BY <1>3 DEF Describes
<1>5. \A k \in 1..n : fs[k] = gs[k]
  BY <1>1, <1>2, <1>4 DEF Describes, PagesAreContiguous
<1> QED BY <1>1, <1>2, <1>4, <1>5

-----------------------------------------------------------------------------
(* Lists.                                                                  *)

(* A list of records shrinks to itself.                                    *)
LEMMA ShrinkRefl ==
  ASSUME NEW ss, RecInv(ss)
  PROVE  Shrinks(ss, ss)
BY DEF RecInv, Shrinks

(* Shrinking twice is shrinking.                                           *)
LEMMA ShrinkTrans ==
  ASSUME NEW ss, NEW tt, NEW uu, Shrinks(ss, tt), Shrinks(tt, uu)
  PROVE  Shrinks(ss, uu)
<1>1. IsList(uu) /\ \A k, l \in DOMAIN uu : uu[k].id = uu[l].id => k = l
  BY DEF Shrinks
<1>2. ASSUME NEW k \in DOMAIN uu PROVE \E i \in DOMAIN ss : uu[k] = ss[i]
  <2>1. PICK j \in DOMAIN tt : uu[k] = tt[j]
    BY DEF Shrinks
  <2> QED BY <2>1 DEF Shrinks
<1>3. ASSUME NEW i \in DOMAIN ss, ss[i].mapped # 0 PROVE \E k \in DOMAIN uu : uu[k] = ss[i]
  <2>1. PICK j \in DOMAIN tt : tt[j] = ss[i]
    BY <1>3 DEF Shrinks
  <2> QED BY <1>3, <2>1 DEF Shrinks
<1> QED BY <1>1, <1>2, <1>3 DEF Shrinks

(* A list that shrinks keeps what is true of the records.                  *)
LEMMA ShrinkRec ==
  ASSUME NEW ss, NEW tt, RecInv(ss), Shrinks(ss, tt)
  PROVE  RecInv(tt)
<1>1. IsList(tt) /\ \A k, l \in DOMAIN tt : tt[k].id = tt[l].id => k = l
  BY DEF Shrinks
<1>2. ASSUME NEW k \in DOMAIN tt PROVE IsRecord(tt[k]) /\ (tt[k].onList <=> tt[k].mapped = 0)
  <2>1. PICK i \in DOMAIN ss : tt[k] = ss[i]
    BY DEF Shrinks
  <2> QED BY <2>1 DEF RecInv
<1>3. ASSUME NEW k \in DOMAIN tt, NEW l \in DOMAIN tt,
             tt[k].area = tt[l].area /\ tt[k].pid = tt[l].pid
      PROVE  k = l
  <2>1. PICK i \in DOMAIN ss : tt[k] = ss[i]
    BY DEF Shrinks
  <2>2. PICK j \in DOMAIN ss : tt[l] = ss[j]
    BY DEF Shrinks
  <2>3. i = j
    BY <1>3, <2>1, <2>2 DEF RecInv
  <2> QED BY <1>1, <2>1, <2>2, <2>3
<1> QED BY <1>1, <1>2, <1>3 DEF RecInv

(* The mappings still find their records in a list that shrank.            *)
LEMMA ShrinkMap ==
  ASSUME NEW ss, NEW tt, NEW vs, RecInv(ss), MapInv(vs, ss), Shrinks(ss, tt)
  PROVE  MapInv(vs, tt)
<1>1. ASSUME NEW v \in vs
      PROVE  \E i \in DOMAIN tt : tt[i].id = v.id /\ tt[i].pid = v.p /\ tt[i].mapped = v.parts
  <2>1. PICK i \in DOMAIN ss : ss[i].id = v.id /\ ss[i].pid = v.p /\ ss[i].mapped = v.parts
    BY DEF MapInv
  <2>2. v.parts # 0
    BY DEF MapInv
  <2>3. PICK k \in DOMAIN tt : tt[k] = ss[i]
    BY <2>1, <2>2 DEF Shrinks
  <2> QED BY <2>1, <2>3
<1>2. ASSUME NEW k \in DOMAIN tt, tt[k].mapped # 0 PROVE \E v \in vs : v.id = tt[k].id
  <2>1. PICK i \in DOMAIN ss : tt[k] = ss[i]
    BY DEF Shrinks
  <2> QED BY <1>2, <2>1 DEF MapInv
<1> QED BY <1>1, <1>2 DEF MapInv

(* RecordsAt keeps the records at the places, and only those.              *)
LEMMA RecordsAtFacts ==
  ASSUME NEW ss, RecInv(ss), NEW I \in SUBSET DOMAIN ss
  PROVE  LET tt == RecordsAt(ss, I)
         IN  /\ IsList(tt)
             /\ \A k \in DOMAIN tt : \E i \in I : tt[k] = ss[i]
             /\ \A i \in I : \E k \in DOMAIN tt : tt[k] = ss[i]
             /\ \A k, l \in DOMAIN tt : tt[k].id = tt[l].id => k = l
<1> DEFINE c == Cardinality(I)
           tt == RecordsAt(ss, I)
<1>1. PICK n \in Nat : DOMAIN ss = 1..n
  BY DEF RecInv, IsList
<1>2. c \in Nat
  BY <1>1, PlacesNumbered
<1>3. PICK e \in Bijection(1..c, I) : \A k \in 1..c : e[k] = NthPlace(I, k)
  BY <1>1, PlacesNumbered
<1>4. tt = [k \in 1..c |-> ss[e[k]]]
  BY <1>3 DEF RecordsAt
<1>5. /\ e \in [1..c -> I]
      /\ (\A k, l \in 1..c : e[k] = e[l] => k = l) /\ \A i \in I : \E k \in 1..c : e[k] = i
  BY <1>3 DEF Bijection, Injection, Surjection, IsInjective
<1> HIDE DEF c, tt
<1>6. DOMAIN tt = 1..c /\ \A k \in 1..c : tt[k] = ss[e[k]] /\ e[k] \in I
  BY <1>4, <1>5
<1>7. IsList(tt)
  BY <1>2, <1>4 DEF IsList
<1>8. \A k \in DOMAIN tt : \E i \in I : tt[k] = ss[i]
  BY <1>6
<1>9. \A i \in I : \E k \in DOMAIN tt : tt[k] = ss[i]
  BY <1>5, <1>6
<1>10. ASSUME NEW k \in DOMAIN tt, NEW l \in DOMAIN tt, tt[k].id = tt[l].id PROVE k = l
  <2>1. e[k] \in DOMAIN ss /\ e[l] \in DOMAIN ss /\ ss[e[k]].id = ss[e[l]].id
    BY <1>6, <1>10
  <2>2. e[k] = e[l]
    BY <2>1 DEF RecInv
  <2> QED BY <1>5, <1>6, <2>2
<1> QED BY <1>7, <1>8, <1>9, <1>10 DEF tt

(* Destroying records that are not mapped.                                 *)
LEMMA DestroyFacts ==
  ASSUME NEW s, IsState(s), RecInv(s.structs), NEW I \in SUBSET DOMAIN s.structs
  PROVE  LET t == DestroyAll(s, I)
         IN  /\ IsState(t) /\ t.frame = s.frame /\ t.area = s.area /\ IsList(t.structs)
             /\ \A k, l \in DOMAIN t.structs : t.structs[k].id = t.structs[l].id => k = l
             /\ \A k \in DOMAIN t.structs : \E i \in DOMAIN s.structs \ I : t.structs[k] = s.structs[i]
             /\ \A i \in DOMAIN s.structs \ I : \E k \in DOMAIN t.structs : t.structs[k] = s.structs[i]
             /\ (\A i \in I : s.structs[i].mapped = 0) => Shrinks(s.structs, t.structs)
<1> DEFINE t == DestroyAll(s, I)
           J == DOMAIN s.structs \ I
           tt == RecordsAt(s.structs, J)
<1>1. IsState(t) /\ t.frame = s.frame /\ t.area = s.area /\ t.structs = tt
  <2> HIDE DEF tt
  <2>1. t = [s EXCEPT !.structs = tt]
    BY DEF DestroyAll, tt
  <2> HIDE DEF t
  <2> QED BY <2>1 DEF IsState
<1>2. /\ IsList(tt)
      /\ \A k \in DOMAIN tt : \E i \in J : tt[k] = s.structs[i]
      /\ \A i \in J : \E k \in DOMAIN tt : tt[k] = s.structs[i]
      /\ \A k, l \in DOMAIN tt : tt[k].id = tt[l].id => k = l
  <2>1. J \in SUBSET DOMAIN s.structs
    OBVIOUS
  <2> HIDE DEF J
  <2> QED BY <2>1, RecordsAtFacts
<1> HIDE DEF t, tt
<1>3. ASSUME \A i \in I : s.structs[i].mapped = 0 PROVE Shrinks(s.structs, tt)
  <2>1. \A i \in DOMAIN s.structs : s.structs[i].mapped # 0 => i \in J
    BY <1>3
  <2> QED BY <1>2, <2>1 DEF Shrinks
<1> QED BY <1>1, <1>2, <1>3 DEF t

-----------------------------------------------------------------------------
(* Giving an area up.                                                      *)

(* Taking and giving back references on frames changes neither areas nor   *)
(* records.                                                                *)
LEMMA PagesFacts ==
  ASSUME NEW s, IsState(s), NEW fs
  PROVE  /\ IsState(GetPages(s, fs)) /\ GetPages(s, fs).area = s.area
         /\ GetPages(s, fs).structs = s.structs
         /\ IsState(PutPages(s, fs)) /\ PutPages(s, fs).area = s.area
         /\ PutPages(s, fs).structs = s.structs
<1>1. \A x : LET t == [s EXCEPT !.frame = x]
             IN  IsState(t) /\ t.area = s.area /\ t.structs = s.structs
  BY DEF IsState
<1>2. GetPages(s, fs) = [s EXCEPT !.frame = [f \in Frames |-> s.frame[f] + Occurs(f, fs)]]
  BY DEF GetPages
<1>3. PutPages(s, fs) = [s EXCEPT !.frame = [f \in Frames |-> s.frame[f] - Occurs(f, fs)]]
  BY DEF PutPages
<1> QED BY <1>1, <1>2, <1>3

Gone == [NewArea EXCEPT !.st = "freed"]

(* LinuxMemAreaDeepFree changes the one area and no record.                *)
LEMMA DeepFreeFacts ==
  ASSUME NEW s, IsState(s), NEW a
  PROVE  LET t == LinuxMemAreaDeepFree(s, a)
         IN  IsState(t) /\ t.area = [s.area EXCEPT ![a] = Gone] /\ t.structs = s.structs
<1> DEFINE u == LinuxMemAreaStructFree(s, a)
<1>1. IsState(u) /\ u.area = [s.area EXCEPT ![a] = Gone] /\ u.structs = s.structs
  <2>1. u = [s EXCEPT !.area = [s.area EXCEPT ![a] = Gone]]
    BY DEF LinuxMemAreaStructFree, Gone
  <2> HIDE DEF u
  <2> QED BY <2>1 DEF IsState
<1>2. \/ LinuxMemAreaDeepFree(s, a) = u
      \/ LinuxMemAreaDeepFree(s, a) = PutPages(u, s.area[a].frames)
  BY DEF LinuxMemAreaDeepFree, FreeVMallocLinuxMemArea, FreeAllocPagesLinuxMemArea
<1> HIDE DEF u
<1> QED BY <1>1, <1>2, PagesFacts

(* PVRMMapRemoveRegisteredArea destroys no mapped record, and leaves the   *)
(* area alone or takes every record of it away.                            *)
LEMMA RemoveFacts ==
  ASSUME NEW s, IsState(s), RecInv(s.structs), NEW a \in Areas
  PROVE  LET t == PVRMMapRemoveRegisteredArea(s, a)
         IN  /\ IsState(t) /\ Shrinks(s.structs, t.structs)
             /\ RemoveRefused(s, a) => t.area = s.area
             /\ ~RemoveRefused(s, a) => /\ t.area = [s.area EXCEPT ![a].reg = FALSE]
                                        /\ \A k \in DOMAIN t.structs : t.structs[k].area # a
<1> DEFINE I == {i \in DOMAIN s.structs : s.structs[i].area = a}
           stop == {i \in I : s.structs[i].mapped # 0}
           B == {i \in I : i < Min(stop)}
<1>1. PVRMMapRemoveRegisteredArea(s, a) =
         IF stop = {} THEN [DestroyAll(s, I) EXCEPT !.area[a].reg = FALSE] ELSE DestroyAll(s, B)
  BY DEF PVRMMapRemoveRegisteredArea
<1>2. RemoveRefused(s, a) <=> stop # {}
  BY DEF RemoveRefused
<1>3. CASE stop = {}
  <2> DEFINE d == DestroyAll(s, I)
             t == [d EXCEPT !.area[a].reg = FALSE]
  <2>1. I \in SUBSET DOMAIN s.structs /\ \A i \in I : s.structs[i].mapped = 0
    BY <1>3
  <2>2. /\ IsState(d) /\ d.area = s.area /\ Shrinks(s.structs, d.structs)
        /\ \A k \in DOMAIN d.structs : \E i \in DOMAIN s.structs \ I : d.structs[k] = s.structs[i]
    <3> HIDE DEF I
    <3> QED BY <2>1, DestroyFacts
  <2>3. \A k \in DOMAIN d.structs : d.structs[k].area # a
    <3> HIDE DEF d
    <3> QED BY <2>2
  <2>4. IsState(t) /\ t.area = [d.area EXCEPT ![a].reg = FALSE] /\ t.structs = d.structs
    <3> HIDE DEF d
    <3> QED BY <2>2 DEF IsState
  <2>5. PVRMMapRemoveRegisteredArea(s, a) = t
    BY <1>1, <1>3
  <2> HIDE DEF d, t
  <2> QED BY <1>2, <1>3, <2>2, <2>3, <2>4, <2>5
<1>4. CASE stop # {}
  <2> DEFINE d == DestroyAll(s, B)
  <2>1. \A i \in DOMAIN s.structs : i \in Nat
    BY DEF RecInv, IsList
  <2>2. Min(stop) \in stop /\ \A i \in stop : Min(stop) <= i
    <3>1. stop \subseteq Nat
      BY <2>1
    <3> HIDE DEF stop
    <3> QED BY <1>4, <3>1, MinIn
  <2>3. \A i \in B : s.structs[i].mapped = 0
    <3>1. \A i \in B : i \in Nat /\ Min(stop) \in Nat /\ ~(Min(stop) <= i)
      BY <2>1, <2>2
    <3>2. \A i \in B : i \notin stop
      BY <2>2, <3>1
    <3> QED BY <3>2
  <2>4. B \in SUBSET DOMAIN s.structs
    OBVIOUS
  <2>5. IsState(d) /\ d.area = s.area /\ Shrinks(s.structs, d.structs)
    <3> HIDE DEF B
    <3> QED BY <2>3, <2>4, DestroyFacts
  <2> HIDE DEF d
  <2> QED BY <1>1, <1>2, <1>4, <2>5 DEF d
<1> QED BY <1>3, <1>4

(* The area is freed and has no record, or it stays behind.                *)
Ends(s, t, a) ==
  /\ IsState(t) /\ Shrinks(s.structs, t.structs)
  /\ \/ /\ t.area = [s.area EXCEPT ![a] = Gone]
        /\ \A k \in DOMAIN t.structs : t.structs[k].area # a
     \/ /\ s.area[a].st \in InUse
        /\ \E x \in {"lost", "kept"} : t.area = [s.area EXCEPT ![a].st = x]

(* An area that ends leaves the areas and records in order.                *)
LEMMA EndsKeeps ==
  ASSUME NEW Q, NEW s, NEW t, NEW N, NEW a \in Areas, AreaInv(s, N, Q), RecInv(s.structs), InOrder(s),
         s.area[a].st # "unused", Ends(s, t, a)
  PROVE  AreaInv(t, Without(N, {a}), Q) /\ RecInv(t.structs) /\ InOrder(t)
<1> DEFINE Same(x, y) == /\ y.parent \in {x.parent, NoArea}
                         /\ y.st = "unused" <=> x.st = "unused"
<1>1. a \in Nat /\ a # NoArea /\ NoArea \notin Areas
  BY NumbersAssumption DEF NoArea
<1>2. RecInv(t.structs)
  BY ShrinkRec DEF Ends
<1>3. s.area \in [Areas -> {s.area[b] : b \in Areas}] /\ DOMAIN s.area = Areas
  BY DEF AreaInv, Typed
<1>4. t.area = [b \in Areas |-> t.area[b]] /\ \A b \in Areas \ {a} : t.area[b] = s.area[b]
  BY <1>3 DEF Ends
<1>5. t.area[a] = Gone \/ \E x \in {"lost", "kept"} : t.area[a] = [s.area[a] EXCEPT !.st = x]
  BY <1>3 DEF Ends
<1>6. IsArea(s.area[a])
  BY DEF AreaInv, Typed
<1>7. /\ IsArea(t.area[a]) /\ t.area[a].st # "unused"
      /\ t.area[a].parent \in {s.area[a].parent, NoArea}
  <2>1. CASE t.area[a] = Gone
    <3>1. Gone.frames = <<>> /\ Gone.type = "none"
      BY DEF Gone, NewArea
    <3>2. Framed(Gone)
      BY <3>1 DEF Framed, IsList
    <3> QED BY <1>1, <2>1, <3>2 DEF Gone, NewArea, IsArea, InUse
  <2>2. ASSUME s.area[a].st \in InUse, NEW x \in {"lost", "kept"}, t.area[a] = [s.area[a] EXCEPT !.st = x]
        PROVE  IsArea(t.area[a]) /\ t.area[a].st # "unused" /\ t.area[a].parent = s.area[a].parent
    BY <1>6, <2>2 DEF IsArea, InUse, Framed
  <2> QED BY <1>3, <2>1, <2>2 DEF Ends
<1>8. Typed(t)
  <2>1. \A b \in Areas : IsArea(t.area[b])
    BY <1>4, <1>7 DEF AreaInv, Typed
  <2> QED BY <1>4, <2>1 DEF Typed, Ends
<1>9. \A b \in Areas : t.area[b].parent \in {s.area[b].parent, NoArea}
  BY <1>4, <1>7
<1>10. \A b \in Areas : t.area[b].st = "unused" <=> s.area[b].st = "unused"
  BY <1>4, <1>7
<1>11. \A b \in Areas : Childless(s, b) => Childless(t, b)
  BY <1>1, <1>9 DEF Childless
<1>12. ASSUME NEW b \in Areas, t.area[b].parent # NoArea PROVE t.area[t.area[b].parent].st # "unused"
  <2>1. t.area[b].parent = s.area[b].parent /\ t.area[b].parent \in Areas
    BY <1>8, <1>9, <1>12 DEF Typed, IsArea
  <2> QED BY <1>10, <1>12, <2>1 DEF AreaInv
<1>13. ASSUME NEW n \in Without(N, {a})
       PROVE  n \in N /\ n[2] \in Areas /\ n[2] # a /\ t.area[n[2]].st = "live" /\ Childless(t, n[2])
  BY <1>4, <1>11 DEF AreaInv, Without
<1>14. ASSUME NEW k \in DOMAIN t.structs
       PROVE  LET b == t.structs[k].area
              IN  b \in Areas /\ t.area[b].st \in InUse /\ Childless(t, b)
  <2>1. PICK i \in DOMAIN s.structs : t.structs[k] = s.structs[i]
    BY DEF Ends, Shrinks
  <2>2. PICK b : b = t.structs[k].area
    OBVIOUS
  <2>3. b \in Areas /\ s.area[b].st \in InUse /\ Childless(s, b)
    BY <2>1, <2>2 DEF AreaInv
  <2>4. t.area[b].st \in InUse
    <3>1. CASE b # a
      BY <1>4, <2>3, <3>1
    <3>2. CASE b = a
      <4>1. \E x \in {"lost", "kept"} : t.area[a] = [s.area[a] EXCEPT !.st = x]
        BY <1>3, <2>2, <3>2 DEF Ends
      <4> QED BY <1>6, <3>2, <4>1 DEF IsArea, InUse
    <3> QED BY <3>1, <3>2
  <2> QED BY <1>11, <2>2, <2>3, <2>4
<1>15. ASSUME NEW m \in Without(N, {a}), NEW n \in Without(N, {a}),
              m[2] = n[2] /\ t.area[n[2]].type = "extkv"
       PROVE  m[1] = n[1]
  BY <1>4, <1>13, <1>15 DEF AreaInv
<1>16. ASSUME NEW n \in Without(N, {a}), NEW k \in DOMAIN t.structs,
              t.structs[k].area = n[2] /\ t.area[n[2]].type = "extkv"
       PROVE  t.structs[k].pid = n[1]
  <2>1. PICK i \in DOMAIN s.structs : t.structs[k] = s.structs[i]
    BY DEF Ends, Shrinks
  <2>2. n \in N /\ s.structs[i].area = n[2] /\ s.area[n[2]].type = "extkv"
    BY <1>4, <1>13, <1>16, <2>1
  <2>3. s.structs[i].pid = n[1]
    BY <2>2 DEF AreaInv
  <2> QED BY <2>1, <2>3
<1>17. Shown(t, Q)
  <2>1. SameOrGone(s.area[a], t.area[a])
    <3>1. CASE t.area[a] = Gone
      BY <3>1 DEF SameOrGone, Gone, NewArea
    <3>2. ASSUME s.area[a].st \in InUse, NEW x \in {"lost", "kept"}, t.area[a] = [s.area[a] EXCEPT !.st = x]
          PROVE  SameOrGone(s.area[a], t.area[a])
      BY <1>6, <3>2 DEF SameOrGone, IsArea, InUse
    <3> QED BY <1>3, <3>1, <3>2 DEF Ends
  <2>2. \A b \in Areas : SameOrGone(s.area[b], t.area[b])
    BY <1>4, <2>1 DEF SameOrGone
  <2>3. \A k \in DOMAIN t.structs : /\ t.structs[k].area \in Areas
                                   /\ t.area[t.structs[k].area].st # "freed"
    BY <1>14 DEF InUse
  <2>4. \A k \in DOMAIN t.structs : \E i \in DOMAIN s.structs : Alike(t.structs[k], s.structs[i])
    BY DEF Ends, Shrinks, Alike
  <2>5. Shown(s, Q) /\ \A b \in Areas : IsArea(s.area[b])
    BY DEF AreaInv, Typed
  <2> QED BY <2>2, <2>3, <2>4, <2>5, ShownLater
<1>18. AreaInv(t, Without(N, {a}), Q)
  BY <1>8, <1>12, <1>13, <1>14, <1>15, <1>16, <1>17 DEF AreaInv
<1>19. InOrder(t)
  BY <1>10 DEF InOrder
<1> QED BY <1>2, <1>18, <1>19

(* OSFreePages, OSReleaseSubMemHandle and OSUnReservePhys end an area.     *)
LEMMA FreeUnlessMappedEnds ==
  ASSUME NEW Q, NEW s, NEW N, NEW a \in Areas, AreaInv(s, N, Q), RecInv(s.structs)
  PROVE  Ends(s, FreeUnlessMapped(s, a), a)
<1> DEFINE t == PVRMMapRemoveRegisteredArea(s, a)
           u == FreeUnlessMapped(s, a)
<1>1. /\ IsState(t) /\ Shrinks(s.structs, t.structs)
      /\ RemoveRefused(s, a) => t.area = s.area
      /\ ~RemoveRefused(s, a) => /\ t.area = [s.area EXCEPT ![a].reg = FALSE]
                                 /\ \A k \in DOMAIN t.structs : t.structs[k].area # a
  BY RemoveFacts DEF AreaInv, Typed
<1>2. DOMAIN s.area = Areas /\ IsArea(s.area[a])
  BY DEF AreaInv, Typed
<1>3. u = IF t.area[a].reg THEN Lose(t, a) ELSE LinuxMemAreaDeepFree(t, a)
  BY DEF FreeUnlessMapped
<1> HIDE DEF t
<1>4. CASE RemoveRefused(s, a)
  <2>1. s.area[a].st \in InUse
    BY <1>4 DEF RemoveRefused, AreaInv
  <2>2. u = Lose(t, a)
    BY <1>1, <1>2, <1>3, <1>4, <2>1 DEF IsArea
  <2>3. u = [t EXCEPT !.area = [t.area EXCEPT ![a].st = "lost"]]
    BY <2>2 DEF Lose
  <2>4. IsState(u) /\ u.structs = t.structs /\ u.area = [t.area EXCEPT ![a].st = "lost"]
    <3> HIDE DEF u
    <3> QED BY <1>1, <2>3 DEF IsState
  <2> HIDE DEF u
  <2>5. Ends(s, u, a)
    BY <1>1, <1>4, <2>1, <2>4 DEF Ends
  <2> QED BY <2>5 DEF u
<1>5. CASE ~RemoveRefused(s, a)
  <2>1. t.area[a].reg = FALSE
    BY <1>1, <1>2, <1>5 DEF IsArea
  <2>2. IsState(u) /\ u.area = [t.area EXCEPT ![a] = Gone] /\ u.structs = t.structs
    <3>1. u = LinuxMemAreaDeepFree(t, a)
      BY <1>3, <2>1
    <3> HIDE DEF u
    <3> QED BY <1>1, <3>1, DeepFreeFacts
  <2>3. u.area = [s.area EXCEPT ![a] = Gone]
    BY <1>1, <1>2, <1>5, <2>2
  <2> HIDE DEF u
  <2>4. Ends(s, u, a)
    BY <1>1, <1>5, <2>2, <2>3 DEF Ends
  <2> QED BY <2>4 DEF u
<1> QED BY <1>4, <1>5

(* Registered memory, and what is left when the module goes, is freed      *)
(* whether it is mapped or not.                                            *)
LEMMA UnRegisterEnds ==
  ASSUME NEW s, NEW a \in Areas, Typed(s), RecInv(s.structs), ~RemoveRefused(s, a)
  PROVE  Ends(s, OSUnRegisterMem(s, a), a) /\ Ends(s, PurgeArea(s, a), a)
<1> DEFINE t == PVRMMapRemoveRegisteredArea(s, a)
           u == LinuxMemAreaDeepFree(t, a)
<1>1. /\ IsState(t) /\ Shrinks(s.structs, t.structs) /\ t.area = [s.area EXCEPT ![a].reg = FALSE]
      /\ \A k \in DOMAIN t.structs : t.structs[k].area # a
  BY RemoveFacts DEF Typed
<1> HIDE DEF t
<1>2. IsState(u) /\ u.area = [t.area EXCEPT ![a] = Gone] /\ u.structs = t.structs
  BY <1>1, DeepFreeFacts
<1> HIDE DEF u
<1>3. u.area = [s.area EXCEPT ![a] = Gone]
  <2>1. DOMAIN s.area = Areas
    BY DEF Typed
  <2> QED BY <1>1, <1>2, <2>1
<1>4. Ends(s, u, a)
  BY <1>1, <1>2, <1>3 DEF Ends
<1> QED BY <1>4 DEF OSUnRegisterMem, PurgeArea, u, t

(* What FreeBuf calls for an area that lies in no other ends it.           *)
LEMMA FreeRootEnds ==
  ASSUME NEW Q, NEW s, NEW N, NEW a \in Areas, AreaInv(s, N, Q), RecInv(s.structs),
         s.area[a].type = "extkv" => ~RemoveRefused(s, a)
  PROVE  Ends(s, FreeRoot(s, a), a)
<1>1. CASE s.area[a].type = "extkv"
  <2> DEFINE u == OSUnRegisterMem(s, a)
             t == FreeRoot(s, a)
  <2>1. Ends(s, u, a)
    BY <1>1, UnRegisterEnds DEF AreaInv
  <2>2. t = u \/ t = PutPages(u, s.area[a].frames)
    BY <1>1 DEF FreeRoot, OSReleasePhysPageAddr
  <2> HIDE DEF u, t
  <2>3. IsState(u)
    BY <2>1 DEF Ends
  <2>4. IsState(t) /\ t.area = u.area /\ t.structs = u.structs
    BY <2>2, <2>3, PagesFacts
  <2>5. Ends(s, t, a)
    BY <2>1, <2>4 DEF Ends
  <2> QED BY <2>5 DEF t
<1>2. CASE s.area[a].type # "extkv"
  <2>1. FreeRoot(s, a) = FreeUnlessMapped(s, a)
    BY <1>2 DEF FreeRoot, OSUnReservePhys, OSFreePages
  <2> QED BY <2>1, FreeUnlessMappedEnds
<1> QED BY <1>1, <1>2

(* FreeBuf keeps the invariant of the areas without the handle that is     *)
(* gone.                                                                   *)
LEMMA FreeBufKeeps ==
  ASSUME NEW Q, NEW s, NEW N, NEW n \in N, AreaInv(s, N, Q), RecInv(s.structs), InOrder(s), ~Stops(s, n[2])
  PROVE  LET t == FreeBuf(s, n[2])
         IN  AreaInv(t, Without(N, {n[2]}), Q) /\ RecInv(t.structs) /\ InOrder(t)
             /\ Shrinks(s.structs, t.structs)
<1>1. PICK a \in Areas : a = n[2]
  BY DEF AreaInv
<1>2. s.area[a].st = "live" /\ Childless(s, a) /\ IsArea(s.area[a])
  BY <1>1 DEF AreaInv, Typed
<1> DEFINE t == FreeBuf(s, a)
           Good(u, M) == /\ AreaInv(u, M, Q) /\ RecInv(u.structs) /\ InOrder(u)
                         /\ Shrinks(s.structs, u.structs)
<1>3. ASSUME NEW u, Ends(s, u, a) PROVE Good(u, Without(N, {a}))
  BY <1>2, <1>3, EndsKeeps DEF Ends
<1>4. CASE Exported(s, a)
  <2>1. t = [s EXCEPT !.area = [s.area EXCEPT ![a].st = "kept"]]
    BY <1>4 DEF FreeBuf, Keep
  <2>2. IsState(t) /\ t.structs = s.structs /\ t.area = [s.area EXCEPT ![a].st = "kept"]
    <3> HIDE DEF t
    <3> QED BY <2>1 DEF IsState, AreaInv, Typed
  <2>3. Ends(s, t, a)
    <3> HIDE DEF t
    <3> QED BY <1>2, <2>2, ShrinkRefl DEF Ends, InUse
  <2> QED BY <1>1, <1>3, <2>3
<1>5. CASE ~Exported(s, a) /\ s.area[a].type = "sub"
  <2> DEFINE u == FreeUnlessMapped(s, a)
             r == s.area[a].parent
             w == FreeRoot(u, r)
  <2>1. t = u \/ t = w
    BY <1>5 DEF FreeBuf, OSReleaseSubMemHandle
  <2>2. Ends(s, u, a)
    BY FreeUnlessMappedEnds
  <2>3. Good(u, Without(N, {a}))
    BY <1>3, <2>2
  <2>4. r \in Areas /\ r # a /\ s.area[r].st # "unused"
    BY <1>2, <1>5 DEF IsArea, Childless, AreaInv
  <2>5. (\A m \in N : m[2] # r) /\ \A i \in DOMAIN s.structs : s.structs[i].area # r
    BY <2>4 DEF AreaInv, Childless
  <2> HIDE DEF u, r
  <2>6. \A i \in DOMAIN u.structs : u.structs[i].area # r
    BY <2>2, <2>5 DEF Ends, Shrinks
  <2>7. u.area[r] = s.area[r]
    BY <2>2, <2>4 DEF Ends, AreaInv, Typed
  <2>8. Ends(u, w, r)
    BY <2>3, <2>4, <2>6, FreeRootEnds DEF RemoveRefused
  <2> HIDE DEF w
  <2>9. AreaInv(w, Without(Without(N, {a}), {r}), Q) /\ RecInv(w.structs) /\ InOrder(w)
    BY <2>3, <2>4, <2>7, <2>8, EndsKeeps
  <2>10. Without(Without(N, {a}), {r}) = Without(N, {a})
    BY <2>5 DEF Without
  <2>11. Shrinks(s.structs, w.structs)
    BY <2>3, <2>8, ShrinkTrans DEF Ends
  <2> HIDE DEF t
  <2>12. Good(t, Without(N, {a}))
    BY <2>1, <2>3, <2>9, <2>10, <2>11
  <2> QED BY <1>1, <2>12 DEF t
<1>6. CASE ~Exported(s, a) /\ s.area[a].type # "sub"
  <2>1. t = FreeRoot(s, a)
    BY <1>6 DEF FreeBuf
  <2>2. Ends(s, t, a)
    BY <1>1, <2>1, FreeRootEnds DEF Stops
  <2> QED BY <1>1, <1>3, <2>2
<1> QED BY <1>4, <1>5, <1>6

-----------------------------------------------------------------------------
(* Freeing many areas, and making new ones.                                *)

(* The areas A are those of process p alone, which has nothing mapped.      *)
OnlyOf(s, N, A, p) ==
  /\ \A a \in A : \E n \in N : n[2] = a
  /\ \A n \in N : n[2] \in A => n[1] = p
  /\ \A i \in DOMAIN s.structs : s.structs[i].pid = p => s.structs[i].mapped = 0

(* So does freeing a set of areas one after the other.                     *)
LEMMA FreeEachKeeps ==
  ASSUME NEW Q, NEW s, NEW N, NEW A \in SUBSET Areas, NEW p, AreaInv(s, N, Q), RecInv(s.structs),
         InOrder(s),
         OnlyOf(s, N, A, p)
  PROVE  LET t == FreeEach(s, A)
         IN  AreaInv(t, Without(N, A), Q) /\ RecInv(t.structs) /\ InOrder(t)
             /\ Shrinks(s.structs, t.structs)
<1>1. IsFiniteSet(A)
  BY LoadsAssumption, FS_Subset
<1>2. PICK it : FreeEach(s, A) = it[A] /\ Frees(it, s, SUBSET A)
  BY <1>1, FreeEachDef
<1> DEFINE Good(u, M) == /\ AreaInv(u, M, Q) /\ RecInv(u.structs) /\ InOrder(u)
                         /\ Shrinks(s.structs, u.structs)
           G == {K \in SUBSET A : Good(it[K], Without(N, K))}
<1>3. {} \in G
  <2>1. it[{}] = s /\ Without(N, {}) = N
    BY <1>2 DEF Frees, Without
  <2> QED BY <2>1, ShrinkRefl
<1>4. ASSUME NEW K \in SUBSET A, K # {}, K \ {Pick(K)} \in G PROVE K \in G
  <2>1. PICK x \in K : x = Pick(K)
    BY <1>4, Zenon DEF Pick
  <2> DEFINE u == it[K \ {x}]
             M == Without(N, K \ {x})
  <2>2. Good(u, M)
    BY <1>4, <2>1
  <2>3. it[K] = FreeBuf(u, x)
    BY <1>2, <1>4, <2>1 DEF Frees
  <2>4. PICK n \in N : n[2] = x
    BY <2>1 DEF OnlyOf
  <2>5. n \in M /\ n[1] = p
    BY <2>1, <2>4 DEF Without, OnlyOf
  <2> HIDE DEF u, M
  <2>6. ~Stops(u, x)
    <3>1. SUFFICES ASSUME u.area[x].type = "extkv", NEW i \in DOMAIN u.structs,
                          u.structs[i].area = x, u.structs[i].mapped # 0
                   PROVE  FALSE
      BY DEF Stops, RemoveRefused
    <3>2. u.structs[i].pid = p
      BY <2>2, <2>4, <2>5, <3>1 DEF AreaInv
    <3>3. PICK j \in DOMAIN s.structs : u.structs[i] = s.structs[j]
      BY <2>2 DEF Shrinks
    <3> QED BY <3>1, <3>2, <3>3 DEF OnlyOf
  <2>7. /\ AreaInv(it[K], Without(M, {x}), Q) /\ RecInv(it[K].structs) /\ InOrder(it[K])
        /\ Shrinks(u.structs, it[K].structs)
    BY <2>2, <2>3, <2>4, <2>5, <2>6, FreeBufKeeps
  <2>8. Without(M, {x}) = Without(N, K)
    BY <2>1 DEF Without, M
  <2>9. Shrinks(s.structs, it[K].structs)
    BY <2>2, <2>7, ShrinkTrans
  <2> QED BY <2>7, <2>8, <2>9
<1>5. A \in G
  <2> HIDE DEF G
  <2> QED BY <1>1, <1>3, <1>4, SubsetInduction
<1> QED BY <1>2, <1>5

(* And freeing all areas of a process, those mapped from others first.     *)
LEMMA FreeAllKeeps ==
  ASSUME NEW Q, NEW s, NEW N, NEW A \in SUBSET Areas, NEW p, AreaInv(s, N, Q), RecInv(s.structs),
         InOrder(s),
         OnlyOf(s, N, A, p)
  PROVE  LET t == FreeAll(s, A)
         IN  AreaInv(t, Without(N, A), Q) /\ RecInv(t.structs) /\ InOrder(t)
             /\ Shrinks(s.structs, t.structs)
<1> DEFINE B == {a \in A : s.area[a].src # NoArea}
           C == A \ B
           u == FreeEach(s, B)
           M == Without(N, B)
           t == FreeEach(u, C)
<1>1. B \in SUBSET Areas /\ C \in SUBSET Areas /\ B \cup C = A /\ B \cap C = {}
  OBVIOUS
<1>2. FreeAll(s, A) = t
  BY DEF FreeAll
<1> HIDE DEF B, C
<1>3. OnlyOf(s, N, B, p)
  BY <1>1 DEF OnlyOf
<1>4. AreaInv(u, M, Q) /\ RecInv(u.structs) /\ InOrder(u) /\ Shrinks(s.structs, u.structs)
  BY <1>1, <1>3, FreeEachKeeps
<1> HIDE DEF u
<1>5. OnlyOf(u, M, C, p)
  <2>1. \A i \in DOMAIN u.structs : u.structs[i].pid = p => u.structs[i].mapped = 0
    BY <1>4 DEF Shrinks, OnlyOf
  <2> QED BY <1>1, <2>1 DEF Without, OnlyOf
<1>6. Without(M, C) = Without(N, A)
  BY <1>1 DEF Without
<1> HIDE DEF M
<1>7. AreaInv(t, Without(M, C), Q) /\ RecInv(t.structs) /\ InOrder(t) /\ Shrinks(u.structs, t.structs)
  BY <1>1, <1>4, <1>5, FreeEachKeeps
<1> HIDE DEF t
<1>8. Shrinks(s.structs, t.structs)
  BY <1>4, <1>7, ShrinkTrans
<1> QED BY <1>2, <1>6, <1>7, <1>8

(* When the module goes, every area is freed and no record of one is left. *)
LEMMA PurgeEachKeeps ==
  ASSUME NEW Q, NEW s, NEW A \in SUBSET Areas, AreaInv(s, {}, Q), RecInv(s.structs), InOrder(s),
         \A a \in A : s.area[a].st # "unused",
         \A i \in DOMAIN s.structs : s.structs[i].mapped = 0
  PROVE  LET t == PurgeEach(s, A)
         IN  /\ AreaInv(t, {}, Q) /\ RecInv(t.structs) /\ InOrder(t) /\ Shrinks(s.structs, t.structs)
             /\ \A i \in DOMAIN t.structs : t.structs[i].area \notin A
<1>1. IsFiniteSet(A)
  BY LoadsAssumption, FS_Subset
<1>2. PICK it : PurgeEach(s, A) = it[A] /\ Purges(it, s, SUBSET A)
  BY <1>1, PurgeEachDef
<1> DEFINE Good(u, K) == /\ AreaInv(u, {}, Q) /\ RecInv(u.structs) /\ InOrder(u)
                         /\ Shrinks(s.structs, u.structs)
                         /\ \A i \in DOMAIN u.structs : u.structs[i].area \notin K
                         /\ \A a \in A : u.area[a].st # "unused"
           G == {K \in SUBSET A : Good(it[K], K)}
<1>3. {} \in G
  <2>1. it[{}] = s
    BY <1>2 DEF Purges
  <2> QED BY <2>1, ShrinkRefl
<1>4. ASSUME NEW K \in SUBSET A, K # {}, K \ {Pick(K)} \in G PROVE K \in G
  <2>1. PICK x \in K : x = Pick(K)
    BY <1>4, Zenon DEF Pick
  <2> DEFINE u == it[K \ {x}]
             w == it[K]
  <2>2. Good(u, K \ {x})
    BY <1>4, <2>1
  <2>3. w = PurgeArea(u, x)
    BY <1>2, <1>4, <2>1 DEF Purges
  <2> HIDE DEF u, w
  <2>4. \A i \in DOMAIN u.structs : u.structs[i].mapped = 0
    BY <2>2 DEF Shrinks
  <2>5. Ends(u, w, x)
    BY <2>1, <2>2, <2>3, <2>4, UnRegisterEnds DEF RemoveRefused, AreaInv
  <2>6. w.area = [u.area EXCEPT ![x] = Gone] /\ \A k \in DOMAIN w.structs : w.structs[k].area # x
    <3>1. PurgeArea(u, x).area = [u.area EXCEPT ![x] = Gone]
      <4> DEFINE d == PVRMMapRemoveRegisteredArea(u, x)
      <4>1. IsState(d) /\ d.area = [u.area EXCEPT ![x].reg = FALSE]
        <5>1. ~RemoveRefused(u, x)
          BY <2>4 DEF RemoveRefused
        <5>2. IsState(u) /\ RecInv(u.structs) /\ x \in Areas
          BY <2>1, <2>2 DEF AreaInv, Typed
        <5> QED BY <5>1, <5>2, RemoveFacts
      <4> HIDE DEF d
      <4>2. LinuxMemAreaDeepFree(d, x).area = [d.area EXCEPT ![x] = Gone]
        BY <4>1, DeepFreeFacts
      <4>3. DOMAIN u.area = Areas
        BY <2>2 DEF AreaInv, Typed
      <4> QED BY <4>1, <4>2, <4>3 DEF PurgeArea, d
    <3>2. w.area[x].st = "freed"
      BY <2>1, <2>2, <2>3, <3>1 DEF AreaInv, Typed, Gone, NewArea
    <3>3. \A y \in {"lost", "kept"} : w.area # [u.area EXCEPT ![x].st = y]
      <4>1. DOMAIN u.area = Areas /\ IsArea(u.area[x])
        BY <2>1, <2>2 DEF AreaInv, Typed
      <4> QED BY <2>1, <3>2, <4>1 DEF IsArea
    <3> QED BY <2>3, <2>5, <3>1, <3>3 DEF Ends
  <2>7. AreaInv(w, Without({}, {x}), Q) /\ RecInv(w.structs) /\ InOrder(w)
    BY <2>1, <2>2, <2>5, EndsKeeps
  <2>8. Without({}, {x}) = {}
    BY DEF Without
  <2>9. Shrinks(u.structs, w.structs)
    BY <2>5 DEF Ends
  <2>10. Shrinks(s.structs, w.structs)
    BY <2>2, <2>9, ShrinkTrans
  <2>11. \A i \in DOMAIN w.structs : w.structs[i].area \notin K
    BY <2>2, <2>6, <2>9 DEF Shrinks
  <2>12. \A a \in A : w.area[a].st # "unused"
    BY <2>2, <2>6 DEF AreaInv, Typed, Gone, NewArea
  <2>13. Good(w, K)
    BY <2>7, <2>8, <2>10, <2>11, <2>12
  <2> QED BY <2>13 DEF w
<1>5. A \in G
  <2> HIDE DEF G
  <2> QED BY <1>1, <1>3, <1>4, SubsetInduction
<1> QED BY <1>2, <1>5

(* A new area, with or without a handle, keeps the invariant of the areas. *)
LEMMA NewAreaKeeps ==
  ASSUME NEW Q, NEW s, NEW t, NEW N, NEW a \in Areas, NEW x, NEW p, AreaInv(s, N, Q),
         s.area[a].st = "unused", IsArea(x), x.st = "live",
         x.type = "sub" => Inside(x, s.area[x.parent]),
         x.parent # NoArea => /\ s.area[x.parent].st # "unused" /\ \A n \in N : n[2] # x.parent
                              /\ \A i \in DOMAIN s.structs : s.structs[i].area # x.parent,
         IsState(t), t.area = [s.area EXCEPT ![a] = x], t.structs = s.structs
  PROVE  AreaInv(t, N, Q) /\ AreaInv(t, N \cup {<<p, a>>}, Q)
<1>1. NoArea \notin Areas /\ a # NoArea
  BY NumbersAssumption DEF NoArea
<1>2. s.area \in [Areas -> {s.area[b] : b \in Areas}] /\ DOMAIN s.area = Areas
  BY DEF AreaInv, Typed
<1>3. t.area = [b \in Areas |-> t.area[b]] /\ t.area[a] = x /\ \A b \in Areas \ {a} : t.area[b] = s.area[b]
  BY <1>2
<1>4. Typed(t)
  BY <1>3 DEF Typed, AreaInv
<1>5. Childless(s, a)
  BY <1>1 DEF Childless, AreaInv
<1>6. x.parent # a
  BY <1>1
<1>7. Childless(t, a)
  BY <1>3, <1>5, <1>6 DEF Childless
<1>8. \A b \in Areas : t.area[b].parent # NoArea => t.area[t.area[b].parent].st # "unused"
  <2> TAKE b \in Areas
  <2>1. CASE b = a
    BY <1>3, <1>6, <2>1 DEF IsArea
  <2>2. CASE b # a
    <3>1. t.area[b] = s.area[b] /\ IsArea(s.area[b])
      BY <1>3, <2>2 DEF AreaInv, Typed
    <3>2. s.area[b].parent # NoArea => s.area[b].parent \in Areas \ {a}
      BY <1>5, <3>1 DEF Childless, IsArea
    <3> QED BY <1>3, <3>1, <3>2 DEF AreaInv
  <2> QED BY <2>1, <2>2
<1>9. \A n \in N : n[2] \in Areas \ {a} /\ t.area[n[2]] = s.area[n[2]]
                   /\ t.area[n[2]].st = "live" /\ Childless(t, n[2])
  BY <1>1, <1>3 DEF AreaInv, Childless
<1>10. \A i \in DOMAIN t.structs : LET b == t.structs[i].area
         IN  b \in Areas \ {a} /\ t.area[b].st \in InUse /\ Childless(t, b)
  <2> TAKE i \in DOMAIN t.structs
  <2>1. PICK b : b = t.structs[i].area
    OBVIOUS
  <2>2. b \in Areas /\ s.area[b].st \in InUse /\ Childless(s, b) /\ x.parent # b
    BY <1>1, <2>1 DEF AreaInv
  <2>3. b # a
    BY <2>2 DEF InUse
  <2> QED BY <1>3, <2>1, <2>2, <2>3 DEF Childless
<1>11. ASSUME NEW m \in N \cup {<<p, a>>}, NEW n \in N \cup {<<p, a>>}, m[2] = n[2],
              t.area[n[2]].type = "extkv"
       PROVE  m[1] = n[1]
  <2>1. CASE n[2] = a
    BY <1>9, <1>11, <2>1
  <2>2. CASE n[2] # a
    <3>1. m \in N /\ n \in N
      BY <1>11, <2>2
    <3>2. s.area[n[2]].type = "extkv"
      BY <1>9, <1>11, <3>1
    <3> QED BY <1>11, <3>1, <3>2 DEF AreaInv
  <2> QED BY <2>1, <2>2
<1>12. ASSUME NEW n \in N \cup {<<p, a>>}, NEW i \in DOMAIN t.structs, t.structs[i].area = n[2],
              t.area[n[2]].type = "extkv"
       PROVE  t.structs[i].pid = n[1]
  <2>1. n[2] # a
    BY <1>10, <1>12
  <2>2. n \in N
    BY <2>1
  <2>3. s.area[n[2]].type = "extkv"
    BY <1>9, <1>12, <2>2
  <2> QED BY <1>12, <2>2, <2>3 DEF AreaInv
<1>13. \A n \in N \cup {<<p, a>>} : n[2] \in Areas /\ t.area[n[2]].st = "live" /\ Childless(t, n[2])
  BY <1>3, <1>7, <1>9
<1>14. Shown(t, Q)
  <2>1. Shown(s, Q)
    BY DEF AreaInv
  <2>2. ASSUME NEW b \in Areas, t.area[b].type = "sub"
        PROVE  Inside(t.area[b], t.area[t.area[b].parent])
    <3>1. CASE b = a
      <4>1. x.parent \in Areas \ {a}
        BY <1>3, <1>6, <2>2, <3>1 DEF IsArea
      <4> QED BY <1>3, <2>2, <3>1, <4>1
    <3>2. CASE b # a
      <4>1. t.area[b] = s.area[b] /\ IsArea(s.area[b])
        BY <1>3, <3>2 DEF AreaInv, Typed
      <4>2. s.area[b].parent \in Areas \ {a}
        BY <1>5, <2>2, <4>1 DEF Childless, IsArea
      <4>3. t.area[s.area[b].parent] = s.area[s.area[b].parent]
        BY <1>3, <4>2
      <4> QED BY <2>1, <2>2, <4>1, <4>3 DEF Shown
    <3> QED BY <3>1, <3>2
  <2>3. ASSUME NEW i \in DOMAIN t.structs
        PROVE  Describes(t.structs[i].off, t.structs[i].size, t.area[t.structs[i].area].frames)
    <3>1. t.area[t.structs[i].area] = s.area[s.structs[i].area]
      BY <1>3, <1>10
    <3> QED BY <2>1, <3>1 DEF Shown
  <2>4. ASSUME NEW k \in Q PROVE TrueOf(t, k)
    <3>1. TrueOf(s, k)
      BY <2>1 DEF Shown
    <3>2. t.area[k.area] = s.area[k.area]
      BY <1>3, <3>1 DEF TrueOf
    <3> QED BY <3>1, <3>2 DEF TrueOf
  <2> QED BY <2>2, <2>3, <2>4 DEF Shown
<1>15. AreaInv(t, N \cup {<<p, a>>}, Q)
  BY <1>4, <1>8, <1>10, <1>11, <1>12, <1>13, <1>14 DEF AreaInv
<1>16. AreaInv(t, N, Q)
  BY <1>15 DEF AreaInv
<1> QED BY <1>15, <1>16

-----------------------------------------------------------------------------
(* What the calls that make an area do.                                    *)
Makes(s, t, a, parent) ==
  /\ IsState(t) /\ t.structs = s.structs
  /\ \E x : /\ IsArea(x) /\ x.st = "live" /\ x.parent = parent /\ t.area = [s.area EXCEPT ![a] = x]
            /\ x.type = "sub" => Inside(x, s.area[x.parent])

(* What frames an area of the type may have.                               *)
FramesFor(type, fs) ==
  IsList(fs) /\ (type \in {"io", "ioremap"} => PagesAreContiguous(fs))

AreaOf(st, type, reg, fs, parent, src, wrap) ==
  [st |-> st, type |-> type, reg |-> reg, frames |-> fs, parent |-> parent,
   src |-> src, wrap |-> wrap]

(* Names for two values, which the provers treat as they do others.        *)
Yes == TRUE
No == FALSE

(* A new area with the value x.                                            *)
Puts(s, t, a, x) == IsState(t) /\ t.structs = s.structs /\ t.area = [s.area EXCEPT ![a] = x]

(* LinuxMemAreaStructAlloc puts a new area in its place.                   *)
LEMMA StructAllocPuts ==
  ASSUME NEW s, IsState(s), NEW a, NEW type, NEW fs
  PROVE  Puts(s, LinuxMemAreaStructAlloc(s, a, type, fs), a,
              AreaOf("live", type, No, fs, NoArea, NoArea, "none"))
<1> DEFINE u1 == [NewArea EXCEPT !.st = "live"]
           u2 == [u1 EXCEPT !.type = type]
           u3 == [u2 EXCEPT !.frames = fs]
           t == LinuxMemAreaStructAlloc(s, a, type, fs)
<1>1. NewArea = AreaOf("unused", "none", No, <<>>, NoArea, NoArea, "none")
  BY DEF NewArea, AreaOf, No
<1>2. u1 = AreaOf("live", "none", No, <<>>, NoArea, NoArea, "none")
  BY <1>1 DEF AreaOf
<1> HIDE DEF u1
<1>3. u2 = AreaOf("live", type, No, <<>>, NoArea, NoArea, "none")
  BY <1>2 DEF AreaOf
<1> HIDE DEF u2
<1>4. u3 = AreaOf("live", type, No, fs, NoArea, NoArea, "none")
  BY <1>3 DEF AreaOf
<1>5. u3 = [NewArea EXCEPT !.st = "live", !.type = type, !.frames = fs]
  BY DEF u1, u2, NewArea
<1> HIDE DEF u3
<1>6. t = [s EXCEPT !.area = [s.area EXCEPT ![a] = u3]]
  BY <1>5 DEF LinuxMemAreaStructAlloc
<1> HIDE DEF t
<1>7. Puts(s, t, a, u3)
  BY <1>6 DEF IsState, Puts
<1> QED BY <1>4, <1>7 DEF t

(* A later change to the new area.                                         *)
LEMMA PutsAgain ==
  ASSUME NEW s, NEW a \in Areas, DOMAIN s.area = Areas, NEW u, NEW x, Puts(s, u, a, x), NEW r
  PROVE  /\ Puts(s, [u EXCEPT !.area[a].reg = r], a, [x EXCEPT !.reg = r])
         /\ Puts(s, [u EXCEPT !.area[a].parent = r], a, [x EXCEPT !.parent = r])
         /\ Puts(s, [u EXCEPT !.area[a].src = r], a, [x EXCEPT !.src = r])
         /\ Puts(s, [u EXCEPT !.area[a].wrap = r], a, [x EXCEPT !.wrap = r])
<1>1. IsState(u) /\ u.structs = s.structs /\ u.area[a] = x /\ u.area = [s.area EXCEPT ![a] = x]
  BY DEF Puts
<1>2. ASSUME NEW y, NEW t, t = [u EXCEPT !.area = [u.area EXCEPT ![a] = y]]
      PROVE  Puts(s, t, a, y)
  <2>1. [u.area EXCEPT ![a] = y] = [s.area EXCEPT ![a] = y]
    BY <1>1
  <2>2. IsState(t) /\ t.structs = u.structs /\ t.area = [u.area EXCEPT ![a] = y]
    BY <1>1, <1>2 DEF IsState
  <2> QED BY <1>1, <2>1, <2>2 DEF Puts
<1>3. [u EXCEPT !.area[a].reg = r] = [u EXCEPT !.area = [u.area EXCEPT ![a] = [x EXCEPT !.reg = r]]]
  BY <1>1
<1>4. [u EXCEPT !.area[a].parent = r] = [u EXCEPT !.area = [u.area EXCEPT ![a] = [x EXCEPT !.parent = r]]]
  BY <1>1
<1>5. [u EXCEPT !.area[a].src = r] = [u EXCEPT !.area = [u.area EXCEPT ![a] = [x EXCEPT !.src = r]]]
  BY <1>1
<1>6. [u EXCEPT !.area[a].wrap = r] = [u EXCEPT !.area = [u.area EXCEPT ![a] = [x EXCEPT !.wrap = r]]]
  BY <1>1
<1> QED BY <1>2, <1>3, <1>4, <1>5, <1>6

(* A registered area that is put in its place is made.                     *)
LEMMA PutsMakes ==
  ASSUME NEW s, NEW t, NEW a, NEW type, NEW fs, NEW parent \in Areas \cup {NoArea}, NEW src, NEW wrap,
         type = "sub" => /\ parent # NoArea
                         /\ \/ s.area[parent].type = "vmalloc"
                            \/ s.area[parent].type = "extkv" /\ fs = s.area[parent].frames,
         FramesFor(type, fs), Puts(s, t, a, AreaOf("live", type, Yes, fs, parent, src, wrap))
  PROVE  Makes(s, t, a, parent)
<1>1. PICK x, reg : x = AreaOf("live", type, reg, fs, parent, src, wrap) /\ reg = Yes
  OBVIOUS
<1>2. IsArea(x) /\ x.st = "live" /\ x.parent = parent /\ x.type = type /\ x.frames = fs
  <2>1. /\ x \in [st : {x.st}, type : {x.type}, reg : {x.reg}, frames : {x.frames},
                  parent : {x.parent}, src : {x.src}, wrap : {x.wrap}]
        /\ x.st = "live" /\ x.parent = parent /\ x.reg = reg /\ x.type = type /\ x.frames = fs
    BY <1>1 DEF AreaOf
  <2>2. Framed(x)
    BY <2>1 DEF Framed, FramesFor
  <2>3. x.reg \in BOOLEAN /\ (x.reg <=> x.st \in InUse)
    BY <1>1, <2>1 DEF InUse, Yes
  <2> QED BY <2>1, <2>2, <2>3 DEF IsArea, InUse
<1>3. x.type = "sub" => Inside(x, s.area[x.parent])
  BY <1>2 DEF Inside
<1> QED BY <1>1, <1>2, <1>3 DEF Puts, Makes

(* An area of the type, registered.                                        *)
LEMMA RegisterPuts ==
  ASSUME NEW s, NEW a \in Areas, DOMAIN s.area = Areas, NEW u, NEW type, NEW fs, NEW par,
         Puts(s, u, a, AreaOf("live", type, No, fs, par, NoArea, "none"))
  PROVE  Puts(s, PVRMMapRegisterArea(u, a), a, AreaOf("live", type, Yes, fs, par, NoArea, "none"))
<1>1. PICK x : x = AreaOf("live", type, No, fs, par, NoArea, "none")
  OBVIOUS
<1>2. Puts(s, [u EXCEPT !.area[a].reg = Yes], a, [x EXCEPT !.reg = Yes])
  BY <1>1, PutsAgain
<1>3. [x EXCEPT !.reg = Yes] = AreaOf("live", type, Yes, fs, par, NoArea, "none")
  BY <1>1 DEF AreaOf
<1>4. PVRMMapRegisterArea(u, a) = [u EXCEPT !.area[a].reg = Yes]
  BY DEF PVRMMapRegisterArea, Yes
<1> QED BY <1>2, <1>3, <1>4

(* OSAllocPages makes the area, or changes no area when a page is missing. *)
LEMMA AllocPagesFacts ==
  ASSUME NEW s, NEW a \in Areas, DOMAIN s.area = Areas, IsState(s), NEW kind, NEW fs, NEW got \in Nat,
         IsList(fs), Len(fs) \in Nat, got <= Len(fs), kind = "multi" => got = Len(fs)
  PROVE  LET t == OSAllocPages(s, a, kind, fs, got)
         IN  /\ got = Len(fs) => Makes(s, t, a, NoArea)
             /\ kind = "multi" => t.area[a].type = "vmalloc"
             /\ got # Len(fs) => IsState(t) /\ t.structs = s.structs /\ t.area = s.area
<1>1. ASSUME NEW type, type \in {"vmalloc", "pages"}
      PROVE  LET w == PVRMMapRegisterArea(GetPages(LinuxMemAreaStructAlloc(s, a, type, fs), fs), a)
             IN  Makes(s, w, a, NoArea) /\ w.area[a].type = type
  <2> DEFINE v == LinuxMemAreaStructAlloc(s, a, type, fs)
             u == GetPages(v, fs)
  <2>1. Puts(s, v, a, AreaOf("live", type, No, fs, NoArea, NoArea, "none"))
    BY StructAllocPuts
  <2> HIDE DEF v
  <2>2. Puts(s, u, a, AreaOf("live", type, No, fs, NoArea, NoArea, "none"))
    BY <2>1, PagesFacts DEF Puts
  <2> HIDE DEF u
  <2>3. Puts(s, PVRMMapRegisterArea(u, a), a, AreaOf("live", type, Yes, fs, NoArea, NoArea, "none"))
    BY <2>2, RegisterPuts
  <2>4. NoArea \in Areas \cup {NoArea}
    OBVIOUS
  <2>5. FramesFor(type, fs)
    BY <1>1 DEF FramesFor
  <2>6. Makes(s, PVRMMapRegisterArea(u, a), a, NoArea)
    BY <1>1, <2>3, <2>4, <2>5, PutsMakes
  <2>7. PVRMMapRegisterArea(u, a).area[a].type = type
    BY <2>3 DEF Puts, AreaOf
  <2> QED BY <2>6, <2>7 DEF u, v
<1>2. CASE kind = "multi"
  BY <1>1, <1>2 DEF OSAllocPages, NewVMallocLinuxMemArea
<1>3. CASE kind # "multi" /\ got = Len(fs)
  BY <1>1, <1>3 DEF OSAllocPages, NewAllocPagesLinuxMemArea
<1>4. CASE kind # "multi" /\ got < Len(fs)
  <2> DEFINE u == NewAllocPagesLinuxMemArea(s, a, fs, got)
             v == GetPages(s, SubSeq(fs, 1, got))
  <2>1. u = PutPages(v, SubSeq(fs, 1, got))
    BY <1>4 DEF NewAllocPagesLinuxMemArea
  <2>2. IsState(v) /\ v.area = s.area /\ v.structs = s.structs
    BY PagesFacts
  <2> HIDE DEF v
  <2>3. IsState(u) /\ u.area = s.area /\ u.structs = s.structs
    BY <2>1, <2>2, PagesFacts
  <2>4. OSAllocPages(s, a, kind, fs, got) = u
    BY <1>4 DEF OSAllocPages
  <2> HIDE DEF u
  <2> QED BY <1>4, <2>3, <2>4
<1> QED BY <1>2, <1>3, <1>4

(* Pages that need not follow each other make an area that others lie in.  *)
LEMMA MultiMakes ==
  ASSUME NEW s, NEW a \in Areas, DOMAIN s.area = Areas, IsState(s), NEW fs, IsList(fs), Len(fs) \in Nat,
         NEW t, t = OSAllocPages(s, a, "multi", fs, Len(fs))
  PROVE  Makes(s, t, a, NoArea) /\ t.area[a].type = "vmalloc"
<1>1. PICK got \in Nat : got = Len(fs)
  OBVIOUS
<1>2. got <= Len(fs) /\ t = OSAllocPages(s, a, "multi", fs, got)
  BY <1>1
<1> QED BY ONLY a \in Areas, DOMAIN s.area = Areas, IsState(s), IsList(fs), Len(fs) \in Nat, <1>1, <1>2,
               got \in Nat, AllocPagesFacts

(* OSGetSubMemHandle makes an area in another.                             *)
LEMMA SubMakes ==
  ASSUME NEW s, NEW a \in Areas, DOMAIN s.area = Areas, IsState(s), NEW r \in Areas, NEW fs, IsList(fs),
         \/ s.area[r].type = "vmalloc"
         \/ s.area[r].type = "extkv" /\ fs = s.area[r].frames
  PROVE  Makes(s, OSGetSubMemHandle(s, a, r, fs), a, r)
<1> DEFINE v == LinuxMemAreaStructAlloc(s, a, "sub", fs)
           u == NewSubLinuxMemArea(s, a, r, fs)
<1>1. r # NoArea
  BY NumbersAssumption DEF NoArea
<1>2. PICK x : x = AreaOf("live", "sub", No, fs, NoArea, NoArea, "none")
  OBVIOUS
<1>3. Puts(s, v, a, x)
  BY <1>2, StructAllocPuts
<1>4. u = [v EXCEPT !.area[a].parent = r]
  BY DEF NewSubLinuxMemArea
<1> HIDE DEF u, v
<1>5. Puts(s, u, a, [x EXCEPT !.parent = r])
  BY <1>3, <1>4, PutsAgain
<1>6. [x EXCEPT !.parent = r] = AreaOf("live", "sub", No, fs, r, NoArea, "none")
  BY <1>2 DEF AreaOf
<1>7. Puts(s, PVRMMapRegisterArea(u, a), a, AreaOf("live", "sub", Yes, fs, r, NoArea, "none"))
  BY <1>5, <1>6, RegisterPuts
<1>8. Makes(s, PVRMMapRegisterArea(u, a), a, r)
  <2>1. FramesFor("sub", fs)
    BY DEF FramesFor
  <2> QED BY <1>1, <1>7, <2>1, PutsMakes
<1> QED BY <1>8 DEF u, OSGetSubMemHandle

(* OSReservePhys makes an area of one of the two kinds.                    *)
LEMMA ReserveMakes ==
  ASSUME NEW s, NEW a \in Areas, DOMAIN s.area = Areas, IsState(s), NEW kind, NEW fs,
         FramesFor("io", fs)
  PROVE  Makes(s, OSReservePhys(s, a, fs, kind), a, NoArea)
<1>1. ASSUME NEW type, type \in {"io", "ioremap"}
      PROVE  Makes(s, PVRMMapRegisterArea(LinuxMemAreaStructAlloc(s, a, type, fs), a), a, NoArea)
  <2>1. NoArea \in Areas \cup {NoArea}
    OBVIOUS
  <2>2. Puts(s, PVRMMapRegisterArea(LinuxMemAreaStructAlloc(s, a, type, fs), a), a,
             AreaOf("live", type, Yes, fs, NoArea, NoArea, "none"))
    BY StructAllocPuts, RegisterPuts
  <2>3. FramesFor(type, fs)
    BY DEF FramesFor
  <2> QED BY <1>1, <2>1, <2>2, <2>3, PutsMakes
<1> QED BY <1>1 DEF OSReservePhys, NewIOLinuxMemArea, NewIORemapLinuxMemArea

(* OSRegisterDiscontigMem makes an area, also with the note of what it     *)
(* maps or wraps.                                                          *)
LEMMA RegisterMemMakes ==
  ASSUME NEW s, NEW a \in Areas, DOMAIN s.area = Areas, IsState(s), NEW fs, NEW r, IsList(fs)
  PROVE  LET u == OSRegisterDiscontigMem(s, a, fs)
         IN  /\ Makes(s, [u EXCEPT !.area[a].src = r], a, NoArea)
             /\ Makes(s, [u EXCEPT !.area[a].wrap = r], a, NoArea)
<1> DEFINE u == OSRegisterDiscontigMem(s, a, fs)
<1>1. PICK x : x = AreaOf("live", "extkv", Yes, fs, NoArea, NoArea, "none")
  OBVIOUS
<1>2. Puts(s, u, a, x)
  BY <1>1, StructAllocPuts, RegisterPuts DEF OSRegisterDiscontigMem, NewExternalKVLinuxMemArea
<1>3. NoArea \in Areas \cup {NoArea}
  OBVIOUS
<1> HIDE DEF u
<1>4. /\ Puts(s, [u EXCEPT !.area[a].src = r], a, [x EXCEPT !.src = r])
      /\ Puts(s, [u EXCEPT !.area[a].wrap = r], a, [x EXCEPT !.wrap = r])
  BY <1>2, PutsAgain
<1>5. /\ [x EXCEPT !.src = r] = AreaOf("live", "extkv", Yes, fs, NoArea, r, "none")
      /\ [x EXCEPT !.wrap = r] = AreaOf("live", "extkv", Yes, fs, NoArea, NoArea, r)
  BY <1>1 DEF AreaOf
<1>6. /\ Makes(s, [u EXCEPT !.area[a].src = r], a, NoArea)
      /\ Makes(s, [u EXCEPT !.area[a].wrap = r], a, NoArea)
  <2>1. FramesFor("extkv", fs)
    BY DEF FramesFor
  <2> QED BY <1>3, <1>4, <1>5, <2>1, PutsMakes
<1> QED BY <1>6 DEF u

Wrapped(s, a, fs, r) == [OSRegisterDiscontigMem(s, a, fs) EXCEPT !.area[a].wrap = r]

(* So does wrapped memory, over the frames that were wrapped.              *)
LEMMA WrapMakes ==
  ASSUME NEW s, NEW a \in Areas, DOMAIN s.area = Areas, IsState(s), NEW fs, NEW r, IsList(fs),
         NEW t, t = Wrapped(s, a, fs, r)
  PROVE  Makes(s, t, a, NoArea) /\ t.area[a].type = "extkv" /\ t.area[a].frames = fs
<1> DEFINE u == OSRegisterDiscontigMem(s, a, fs)
<1>1. PICK x : x = AreaOf("live", "extkv", Yes, fs, NoArea, NoArea, "none")
  OBVIOUS
<1>2. Puts(s, u, a, x)
  BY <1>1, StructAllocPuts, RegisterPuts DEF OSRegisterDiscontigMem, NewExternalKVLinuxMemArea
<1>3. t = [u EXCEPT !.area[a].wrap = r]
  BY DEF Wrapped
<1>4. Makes(s, t, a, NoArea)
  BY RegisterMemMakes DEF Wrapped
<1> HIDE DEF u
<1>5. Puts(s, [u EXCEPT !.area[a].wrap = r], a, [x EXCEPT !.wrap = r])
  BY <1>2, PutsAgain
<1>6. t.area[a] = [x EXCEPT !.wrap = r]
  BY <1>3, <1>5 DEF Puts
<1> QED BY <1>1, <1>4, <1>6 DEF AreaOf

-----------------------------------------------------------------------------
(***************************************************************************)
(* The invariant of the specification.                                     *)
(***************************************************************************)
NamesOf(H) == {n \in Procs \X Areas : \E h \in Handles : H[n[1]][h] = n[2]}

IsMapping(v) ==
  /\ v \in [p : {v.p}, id : {v.id}, parts : {v.parts}, frames : {v.frames}, raw : {v.raw},
            area : {v.area}, right : {v.right}]
  /\ v.right = TRUE /\ IsList(v.frames)

(* A process that has a handle or a mapping is up, and one that has a      *)
(* record is up or was not there when its last file was closed.            *)
ProcInv(pr, H, vs, ss) ==
  /\ \A p \in Procs : pr[p] # "up" => \A h \in Handles : H[p][h] = NoArea
  /\ \A v \in vs : v.p \in Procs /\ pr[v.p] = "up" /\ IsMapping(v)
  /\ \A i \in DOMAIN ss : pr[ss[i].pid] = "up" \/ pr[ss[i].pid] = "inherited"

(* What the threads were told, and what processes bring.                   *)
ToldOf(T) == {T[t] : t \in Threads} \ {NotTold}
IsTold(T) == T \in [Threads -> {T[t] : t \in Threads}]
IsAnon(F) == \A p \in Procs : IsList(F[p])

MInv ==
  /\ load \in Loads
  /\ handles \in [Procs -> [Handles -> Areas \cup {NoArea}]]
  /\ proc \in [Procs -> {"up", "gone", "inherited", "unloaded"}]
  /\ AreaInv(Now, NamesOf(handles), ToldOf(told)) /\ InOrder(Now)
  /\ IsTold(told) /\ IsAnon(anon)
  /\ RecInv(structs) /\ MapInv(vmas, structs)
  /\ ProcInv(proc, handles, vmas, structs)

(* Now is the state of the areas, records and frames.                      *)
LEMMA NowFacts == IsState(Now) /\ Now.frame = frame /\ Now.area = area /\ Now.structs = structs
BY DEF Now, IsState

(* Becomes makes a state that of the next step.                            *)
LEMMA BecomesNow ==
  ASSUME NEW s, IsState(s), Becomes(s)
  PROVE  Now' = s /\ area' = s.area /\ structs' = s.structs
<1>1. frame' = s.frame /\ area' = s.area /\ structs' = s.structs
  BY DEF Becomes
<1>2. s = [frame |-> s.frame, area |-> s.area, structs |-> s.structs]
  BY DEF IsState
<1> QED BY <1>1, <1>2 DEF Now

(* A sequence is a list.                                                   *)
LEMMA SeqIsList ==
  ASSUME NEW S, NEW fs \in Seq(S)
  PROVE  IsList(fs)
<1>1. Len(fs) \in Nat /\ DOMAIN fs = 1..Len(fs) /\ fs = [k \in 1..Len(fs) |-> fs[k]]
  OBVIOUS
<1> QED BY <1>1 DEF IsList

(* The invariant holds when the module is loaded.                          *)
LEMMA InitInv == Init => MInv
<1> SUFFICES ASSUME Init PROVE MInv
  OBVIOUS
<1>1. load \in Loads /\ structs = <<>> /\ vmas = {} /\ area = [a \in Areas |-> NewArea]
  BY DEF Init
<1>2. handles = [p \in Procs |-> [h \in Handles |-> NoArea]]
  BY DEF Init
<1>3. NoArea \notin Areas
  BY NumbersAssumption DEF NoArea
<1>4. NamesOf(handles) = {}
  BY <1>2, <1>3 DEF NamesOf
<1>5. handles \in [Procs -> [Handles -> Areas \cup {NoArea}]]
  BY <1>2
<1>6. proc \in [Procs -> {"up", "gone", "inherited", "unloaded"}]
  BY DEF Init
<1>7. IsArea(NewArea) /\ NewArea.parent = NoArea /\ NewArea.st = "unused"
  <2>1. NewArea.frames = <<>> /\ NewArea.type = "none"
    BY DEF NewArea
  <2>2. IsList(NewArea.frames)
    BY <2>1 DEF IsList
  <2>3. Framed(NewArea)
    BY <2>1, <2>2 DEF Framed
  <2> QED BY <2>3 DEF NewArea, IsArea, InUse
<1>8. Typed(Now)
  BY <1>1, <1>7, NowFacts DEF Typed
<1>9. AreaInv(Now, NamesOf(handles), ToldOf(told)) /\ InOrder(Now)
  <2>1. ToldOf(told) = {}
    BY DEF Init, ToldOf
  <2>2. NewArea.type = "none"
    BY DEF NewArea
  <2>3. Shown(Now, ToldOf(told))
    BY <1>1, <2>1, <2>2, NowFacts DEF Shown
  <2> QED BY <1>1, <1>4, <1>7, <1>8, <2>3, NowFacts DEF AreaInv, InOrder
<1>10. RecInv(structs)
  BY <1>1 DEF RecInv, IsList
<1>11. MapInv(vmas, structs)
  BY <1>1, FS_EmptySet DEF MapInv
<1>12. ProcInv(proc, handles, vmas, structs)
  BY <1>1, <1>2 DEF ProcInv
<1>13. IsTold(told)
  BY DEF Init, IsTold
<1>14. IsAnon(anon)
  <2>1. \A p \in Procs : anon[p] \in Seq(Frames)
    BY LoadsAssumption DEF Init
  <2>2. \A fs \in Seq(Frames) : IsList(fs)
    BY SeqIsList
  <2> QED BY <2>1, <2>2 DEF IsAnon
<1> QED BY <1>1, <1>5, <1>6, <1>9, <1>10, <1>11, <1>12, <1>13, <1>14 DEF MInv

(* A step in which no thread is told anything new.                         *)
Quiet == IsTold(told') /\ IsAnon(anon') /\ ToldOf(told') \subseteq ToldOf(told)

(* A step that tells nothing, and brings no frames, is quiet.              *)
LEMMA SameQuiet ==
  ASSUME MInv, UNCHANGED <<anon, told>>
  PROVE  Quiet
BY DEF MInv, Quiet

(* Handles that are gone do not harm, nor what threads no longer know.     *)
LEMMA FewerNames ==
  ASSUME NEW s, NEW N, NEW Q, AreaInv(s, N, Q), NEW M, M \subseteq N, NEW L, L \subseteq Q
  PROVE  AreaInv(s, M, L)
<1>1. Shown(s, L)
  BY DEF AreaInv, Shown
<1> QED BY <1>1 DEF AreaInv

(* A step that makes an area and gives it to a process.                    *)
LEMMA GiveStep ==
  ASSUME MInv, NEW s, NEW p \in Procs, NEW h \in Handles, NEW a \in Areas, FreeHandle(p, h),
         AreaInv(s, NamesOf(handles) \cup {<<p, a>>}, ToldOf(told)), InOrder(s),
         s.structs = structs, Becomes(s),
         Give(p, h, a), Quiet, UNCHANGED <<vmas, proc, load>>
  PROVE  MInv'
<1>1. Now' = s /\ structs' = structs
  BY BecomesNow DEF AreaInv, Typed
<1>2. handles \in [Procs -> [Handles -> Areas \cup {NoArea}]]
  BY DEF MInv
<1>3. handles' = [handles EXCEPT ![p][h] = a] /\ handles[p][h] = NoArea /\ proc[p] = "up"
  BY DEF Give, FreeHandle, Up
<1>4. handles' \in [Procs -> [Handles -> Areas \cup {NoArea}]]
  BY <1>2, <1>3
<1>5. \A q \in Procs : \A k \in Handles :
         handles'[q][k] = IF q = p /\ k = h THEN a ELSE handles[q][k]
  BY <1>2, <1>3
<1>6. NoArea \notin Areas
  BY NumbersAssumption DEF NoArea
<1>7. NamesOf(handles)' = NamesOf(handles) \cup {<<p, a>>}
  BY <1>3, <1>5, <1>6 DEF NamesOf
<1>8. AreaInv(Now, NamesOf(handles), ToldOf(told))' /\ InOrder(Now)'
  BY <1>1, <1>7, FewerNames DEF Quiet
<1>9. (RecInv(structs) /\ MapInv(vmas, structs))'
  BY <1>1 DEF MInv
<1>10. ProcInv(proc, handles, vmas, structs)'
  BY <1>1, <1>3, <1>5 DEF MInv, ProcInv
<1> QED BY <1>4, <1>8, <1>9, <1>10 DEF MInv, Quiet

-----------------------------------------------------------------------------
(* Steps that make areas.                                                  *)

(* References on frames do not matter to the areas.                        *)
LEMMA SameAreas ==
  ASSUME NEW Q, NEW s, NEW t, NEW N, AreaInv(s, N, Q), InOrder(s), IsState(t), t.area = s.area,
         t.structs = s.structs
  PROVE  AreaInv(t, N, Q) /\ InOrder(t)
<1>1. Shown(t, Q)
  BY DEF AreaInv, Shown, TrueOf
<1> QED BY <1>1 DEF AreaInv, Typed, InOrder, Childless

(* A list of one.                                                          *)
LEMMA OneIsList ==
  ASSUME NEW f
  PROVE  IsList(<<f>>)
<1>1. 1 \in Nat /\ DOMAIN <<f>> = 1..1 /\ <<f>> = [k \in 1..1 |-> <<f>>[k]]
  OBVIOUS
<1> QED BY <1>1 DEF IsList

(* A fresh area is the first unused one, and the next one is unused too.   *)
LEMMA FreshFacts ==
  ASSUME MInv, NEW a \in Areas, NEW kind, Fresh(a, kind)
  PROVE  /\ a \in Nat /\ area[a].st = "unused" /\ \A b \in Areas : b < a => area[b].st # "unused"
         /\ a + 1 <= load.areas => a + 1 \in Areas /\ area[a + 1].st = "unused"
<1>1. a \in Nat /\ a >= 1
  BY NumbersAssumption
<1>2. load.areas \in Nat /\ 1..load.areas \subseteq Areas
  BY LoadsAssumption DEF MInv
<1>3. area[a].st = "unused" /\ \A b \in Areas : b < a => area[b].st # "unused"
  BY DEF Fresh
<1>4. ASSUME a + 1 <= load.areas PROVE a + 1 \in Areas /\ area[a + 1].st = "unused"
  <2>1. a + 1 \in Areas
    BY <1>1, <1>2, <1>4
  <2> QED BY <1>1, <1>3, <2>1, NowFacts DEF MInv, InOrder
<1> QED BY <1>1, <1>3, <1>4

(* The first unused area.                                                  *)
FirstUnused(s, a) == s.area[a].st = "unused" /\ \A b \in Areas : b < a => s.area[b].st # "unused"

(* An area that others may lie in.                                         *)
MayHold(s, N, parent) ==
  parent # NoArea => /\ s.area[parent].st # "unused" /\ \A n \in N : n[2] # parent
                     /\ \A i \in DOMAIN s.structs : s.structs[i].area # parent

(* One area, which may lie in another.                                     *)
LEMMA OneArea ==
  ASSUME NEW Q, NEW s, NEW t, NEW N, NEW a \in Areas, NEW parent, NEW p, AreaInv(s, N, Q), InOrder(s),
         FirstUnused(s, a), Makes(s, t, a, parent), MayHold(s, N, parent)
  PROVE  AreaInv(t, N \cup {<<p, a>>}, Q) /\ InOrder(t) /\ t.structs = s.structs
<1> USE DEF FirstUnused, MayHold
<1>1. PICK x : /\ IsArea(x) /\ x.st = "live" /\ x.parent = parent /\ t.area = [s.area EXCEPT ![a] = x]
               /\ x.type = "sub" => Inside(x, s.area[x.parent])
  BY DEF Makes
<1>2. AreaInv(t, N \cup {<<p, a>>}, Q)
  BY <1>1, NewAreaKeeps DEF Makes
<1>3. DOMAIN s.area = Areas
  BY DEF AreaInv, Typed
<1>4. InOrder(t)
  <2>1. SUFFICES ASSUME NEW b \in Areas, NEW c \in Areas, b < c, t.area[b].st = "unused"
                 PROVE  t.area[c].st = "unused"
    BY DEF InOrder
  <2>2. b # a /\ s.area[b].st = "unused"
    BY <1>1, <1>3, <2>1
  <2>3. a \in Nat /\ b \in Nat /\ c \in Nat
    BY NumbersAssumption
  <2>4. ~(b < a)
    BY <2>2
  <2>5. c # a
    BY <2>1, <2>3, <2>4
  <2>6. s.area[c].st = "unused"
    BY <2>1, <2>2 DEF InOrder
  <2> QED BY <1>1, <1>3, <2>5, <2>6
<1> QED BY <1>2, <1>4 DEF Makes

(* The next two areas.                                                     *)
NextTwo(s, a, d) ==
  /\ d = a + 1 /\ s.area[a].st = "unused" /\ s.area[d].st = "unused"
  /\ \A b \in Areas : b < a => s.area[b].st # "unused"

(* An area in one that is made with it.                                    *)
LEMMA TwoAreas ==
  ASSUME NEW Q, NEW s, NEW u, NEW t, NEW N, NEW a \in Areas, NEW d \in Areas, NEW p,
         AreaInv(s, N, Q), InOrder(s),
         NextTwo(s, a, d), Makes(s, u, d, NoArea), Makes(u, t, a, d)
  PROVE  AreaInv(t, N \cup {<<p, a>>}, Q) /\ InOrder(t) /\ t.structs = s.structs
<1> USE DEF NextTwo
<1>1. a \in Nat
  BY NumbersAssumption
<1>2. PICK x : /\ IsArea(x) /\ x.st = "live" /\ x.parent = NoArea /\ u.area = [s.area EXCEPT ![d] = x]
               /\ x.type = "sub" => Inside(x, s.area[x.parent])
  BY DEF Makes
<1>3. AreaInv(u, N, Q)
  BY <1>2, NewAreaKeeps DEF Makes
<1>4. DOMAIN s.area = Areas
  BY DEF AreaInv, Typed
<1>5. u.area[a].st = "unused" /\ u.area[d].st = "live" /\ u.structs = s.structs
  BY <1>1, <1>2, <1>4 DEF Makes
<1>6. (\A n \in N : n[2] # d) /\ \A i \in DOMAIN s.structs : s.structs[i].area # d
  BY DEF AreaInv, InUse
<1>7. PICK y : /\ IsArea(y) /\ y.st = "live" /\ y.parent = d /\ t.area = [u.area EXCEPT ![a] = y]
               /\ y.type = "sub" => Inside(y, u.area[y.parent])
  BY DEF Makes
<1>8. AreaInv(t, N \cup {<<p, a>>}, Q)
  <2>1. d # NoArea
    BY NumbersAssumption DEF NoArea
  <2>2. IsState(t) /\ t.structs = u.structs
    BY DEF Makes
  <2> QED BY <1>3, <1>5, <1>6, <1>7, <2>1, <2>2, NewAreaKeeps
<1>9. InOrder(t)
  <2>1. SUFFICES ASSUME NEW b \in Areas, NEW c \in Areas, b < c, t.area[b].st = "unused"
                 PROVE  t.area[c].st = "unused"
    BY DEF InOrder
  <2>2. b # a /\ b # d /\ s.area[b].st = "unused"
    BY <1>1, <1>2, <1>4, <1>7, <2>1
  <2>3. b \in Nat /\ c \in Nat
    BY NumbersAssumption
  <2>4. ~(b < a)
    BY <2>2
  <2>5. c # a /\ c # d
    BY <1>1, <2>1, <2>2, <2>3, <2>4
  <2>6. s.area[c].st = "unused"
    BY <2>1, <2>2 DEF InOrder
  <2> QED BY <1>2, <1>4, <1>7, <2>5, <2>6
<1> QED BY <1>5, <1>8, <1>9 DEF Makes

(* A step that changes no area, handle, record or mapping.                 *)
LEMMA IdleStep ==
  ASSUME MInv, NEW s, IsState(s), s.area = area, s.structs = structs, Becomes(s),
         Quiet, UNCHANGED <<vmas, handles, proc, load>>
  PROVE  MInv'
<1>1. Now' = s /\ structs' = structs
  BY BecomesNow
<1>2. AreaInv(s, NamesOf(handles), ToldOf(told)) /\ InOrder(s)
  BY NowFacts, SameAreas DEF MInv
<1>3. NamesOf(handles)' = NamesOf(handles)
  BY DEF NamesOf
<1>4. (AreaInv(Now, NamesOf(handles), ToldOf(told)) /\ InOrder(Now))'
  BY <1>1, <1>2, <1>3, FewerNames DEF Quiet
<1>5. ProcInv(proc, handles, vmas, structs)'
  BY <1>1 DEF MInv, ProcInv
<1> QED BY <1>1, <1>4, <1>5 DEF MInv, Quiet

(* What the invariant says of Now.                                         *)
LEMMA NowInv ==
  ASSUME MInv
  PROVE  /\ AreaInv(Now, NamesOf(handles), ToldOf(told)) /\ InOrder(Now) /\ IsState(Now)
         /\ DOMAIN Now.area = Areas
BY NowFacts DEF MInv, AreaInv, Typed

(* A fresh area that lies in no other.                                     *)
LEMMA FreshArea ==
  ASSUME MInv, NEW a \in Areas, NEW kind, Fresh(a, kind), NEW s, Makes(Now, s, a, NoArea), NEW p
  PROVE  AreaInv(s, NamesOf(handles) \cup {<<p, a>>}, ToldOf(told)) /\ InOrder(s) /\ s.structs = structs
<1>1. Now.area[a].st = "unused" /\ \A b \in Areas : b < a => Now.area[b].st # "unused"
  BY FreshFacts, NowFacts
<1>2. AreaInv(Now, NamesOf(handles), ToldOf(told)) /\ InOrder(Now)
  BY NowInv
<1>3. FirstUnused(Now, a) /\ MayHold(Now, NamesOf(handles), NoArea)
  BY <1>1 DEF FirstUnused, MayHold
<1>4. AreaInv(s, NamesOf(handles) \cup {<<p, a>>}, ToldOf(told)) /\ InOrder(s) /\ s.structs = Now.structs
  BY <1>2, <1>3, OneArea
<1> QED BY <1>4, NowFacts

(* Memory of its own keeps the invariant, also when a page is missing.     *)
LEMMA AllocWholeStep ==
  ASSUME MInv, NEW p \in Procs, NEW h \in Handles, NEW a \in Areas, NEW kind,
         NEW fs \in PagesFor(Free(Now)), NEW got \in 0..Len(fs), kind = "multi" => got = Len(fs),
         AllocWhole(p, h, a, kind, fs, got)
  PROVE  MInv'
<1> DEFINE s == OSAllocPages(Now, a, kind, fs, got)
<1>1. Len(fs) \in Nat /\ got \in Nat /\ got <= Len(fs) /\ IsList(fs)
  <2>1. fs \in Seq(Frames)
    BY LoadsAssumption DEF PagesFor, MInv
  <2> QED BY <2>1, SeqIsList
<1>2. /\ got = Len(fs) => Makes(Now, s, a, NoArea)
      /\ got # Len(fs) => IsState(s) /\ s.structs = structs /\ s.area = area
  BY <1>1, NowInv, NowFacts, AllocPagesFacts
<1>3. FreeHandle(p, h) /\ Fresh(a, kind) /\ Becomes(s) /\ UNCHANGED <<vmas, proc, load>> /\ Quiet
  BY SameQuiet DEF AllocWhole
<1>4. got = Len(fs) => Give(p, h, a)
  BY DEF AllocWhole
<1>5. got # Len(fs) => handles' = handles
  BY DEF AllocWhole
<1> HIDE DEF s
<1>6. CASE got = Len(fs)
  <2>1. AreaInv(s, NamesOf(handles) \cup {<<p, a>>}, ToldOf(told)) /\ InOrder(s) /\ s.structs = structs
    BY <1>2, <1>3, <1>6, FreshArea
  <2> QED BY <1>3, <1>4, <1>6, <2>1, GiveStep
<1>7. CASE got # Len(fs)
  BY <1>2, <1>3, <1>5, <1>7, IdleStep
<1> QED BY <1>6, <1>7

(* A part of an import keeps the invariant, also when the import is new.   *)
LEMMA AllocSubStep ==
  ASSUME MInv, NEW p \in Procs, NEW h \in Handles, NEW a \in Areas, AllocSub(p, h, a)
  PROVE  MInv'
<1>1. FreeHandle(p, h) /\ Fresh(a, "sub") /\ Give(p, h, a) /\ UNCHANGED <<vmas, proc, load>> /\ Quiet
  BY SameQuiet DEF AllocSub
<1>2. a \in Nat /\ area[a].st = "unused" /\ \A b \in Areas : b < a => area[b].st # "unused"
  BY <1>1, FreshFacts
<1>3. ASSUME NEW r \in Imports, NEW f, area[r].type = "vmalloc",
             Becomes(OSGetSubMemHandle(Now, a, r, <<f>>))
      PROVE  MInv'
  <2> DEFINE s == OSGetSubMemHandle(Now, a, r, <<f>>)
  <2>1. r \in Areas /\ \E b \in Areas : area[b].parent = r
    BY DEF Imports
  <2>2. Makes(Now, s, a, r)
    <3>1. IsList(<<f>>) /\ Now.area[r].type = "vmalloc"
      BY <1>3, NowFacts, OneIsList
    <3> QED BY <2>1, <3>1, NowInv, SubMakes
  <2>3. /\ Now.area[r].st # "unused" /\ \A n \in NamesOf(handles) : n[2] # r
        /\ \A i \in DOMAIN Now.structs : Now.structs[i].area # r
    <3>1. r # NoArea
      BY <2>1, NumbersAssumption DEF NoArea
    <3> QED BY <2>1, <3>1, NowInv, NowFacts DEF AreaInv, Childless
  <2> HIDE DEF s
  <2>4. AreaInv(s, NamesOf(handles) \cup {<<p, a>>}, ToldOf(told)) /\ InOrder(s) /\ s.structs = structs
    <3>1. Now.area[a].st = "unused" /\ \A b \in Areas : b < a => Now.area[b].st # "unused"
      BY <1>2, NowFacts
    <3>2. AreaInv(Now, NamesOf(handles), ToldOf(told)) /\ InOrder(Now)
      BY NowInv
    <3>3. /\ AreaInv(s, NamesOf(handles) \cup {<<p, a>>}, ToldOf(told))
          /\ InOrder(s) /\ s.structs = Now.structs
      <4>1. FirstUnused(Now, a) /\ MayHold(Now, NamesOf(handles), r)
        BY <2>3, <3>1 DEF FirstUnused, MayHold
      <4> QED BY <2>2, <3>2, <4>1, OneArea
    <3> QED BY <3>3, NowFacts
  <2> QED BY <1>1, <1>3, <2>4, GiveStep DEF s
<1>4. ASSUME NEW fs \in load.pages, a + 1 <= load.areas, Len(fs) = 2,
             Becomes(OSGetSubMemHandle(OSAllocPages(Now, a + 1, "multi", fs, 2), a, a + 1, <<fs[1]>>))
      PROVE  MInv'
  <2> DEFINE u == OSAllocPages(Now, a + 1, "multi", fs, 2)
             s == OSGetSubMemHandle(u, a, a + 1, <<fs[1]>>)
  <2>1. a + 1 \in Areas /\ area[a + 1].st = "unused"
    BY <1>1, <1>4, FreshFacts
  <2>2. Makes(Now, u, a + 1, NoArea) /\ u.area[a + 1].type = "vmalloc"
    <3>1. IsList(fs)
      <4>1. fs \in Seq(Frames)
        BY LoadsAssumption DEF MInv
      <4> QED BY <4>1, SeqIsList
    <3>2. Len(fs) \in Nat /\ u = OSAllocPages(Now, a + 1, "multi", fs, Len(fs))
      BY <1>4
    <3> HIDE DEF u
    <3>3. IsState(Now) /\ DOMAIN Now.area = Areas
      BY NowInv
    <3> QED BY <2>1, <3>1, <3>2, <3>3, MultiMakes
  <2> HIDE DEF u
  <2>3. IsState(u) /\ DOMAIN u.area = Areas
    BY <2>2, NowInv DEF Makes
  <2>4. Makes(u, s, a, a + 1)
    <3>1. PICK f : f = fs[1]
      OBVIOUS
    <3>2. IsList(<<f>>)
      BY OneIsList
    <3> QED BY <2>1, <2>2, <2>3, <3>1, <3>2, SubMakes
  <2> HIDE DEF s
  <2>5. AreaInv(s, NamesOf(handles) \cup {<<p, a>>}, ToldOf(told)) /\ InOrder(s) /\ s.structs = structs
    <3>1. /\ Now.area[a].st = "unused" /\ Now.area[a + 1].st = "unused"
          /\ \A b \in Areas : b < a => Now.area[b].st # "unused"
      BY <1>2, <2>1, NowFacts
    <3>2. AreaInv(Now, NamesOf(handles), ToldOf(told)) /\ InOrder(Now)
      BY NowInv
    <3>3. /\ AreaInv(s, NamesOf(handles) \cup {<<p, a>>}, ToldOf(told))
          /\ InOrder(s) /\ s.structs = Now.structs
      <4>1. PICK d \in Areas : d = a + 1
        BY <2>1
      <4>2. NextTwo(Now, a, d) /\ Makes(Now, u, d, NoArea) /\ Makes(u, s, a, d)
        BY <2>2, <2>4, <3>1, <4>1 DEF NextTwo
      <4> QED BY <3>2, <4>1, <4>2, TwoAreas
    <3> QED BY <3>3, NowFacts
  <2> QED BY <1>1, <1>4, <2>5, GiveStep DEF s, u
<1> QED BY <1>3, <1>4 DEF AllocSub

(* Physical memory that is wrapped keeps the invariant.                    *)
LEMMA WrapPhysStep ==
  ASSUME MInv, NEW p \in Procs, NEW h \in Handles, NEW a \in Areas, NEW f \in IOFrames, NEW kind,
         WrapPhys(p, h, a, f, kind)
  PROVE  MInv'
<1> DEFINE s == OSReservePhys(Now, a, <<f>>, kind)
<1>1. /\ FreeHandle(p, h) /\ Fresh(a, "phys") /\ Becomes(s) /\ Give(p, h, a)
      /\ UNCHANGED <<vmas, proc, load>> /\ Quiet
  BY SameQuiet DEF WrapPhys
<1>2. Makes(Now, s, a, NoArea)
  <2>1. f \in Nat
    BY NumbersAssumption
  <2>2. FramesFor("io", <<f>>)
    BY <2>1, OneIsList DEF FramesFor, PagesAreContiguous
  <2> QED BY <2>2, NowInv, ReserveMakes
<1> HIDE DEF s
<1>3. AreaInv(s, NamesOf(handles) \cup {<<p, a>>}, ToldOf(told)) /\ InOrder(s) /\ s.structs = structs
  BY <1>1, <1>2, FreshArea
<1> QED BY <1>1, <1>3, GiveStep

(* OSAcquirePhysPageAddr changes neither areas nor records, whether it     *)
(* fails or not.                                                           *)
LEMMA AcquireFacts ==
  ASSUME NEW s, IsState(s), NEW fs, NEW how, NEW got
  PROVE  LET t == OSAcquirePhysPageAddr(s, fs, how, got)
         IN  IsState(t) /\ t.area = s.area /\ t.structs = s.structs
<1> DEFINE u == GetPages(s, SubSeq(fs, 1, got))
           t == OSAcquirePhysPageAddr(s, fs, how, got)
<1>1. t \in {u, PutPages(u, SubSeq(fs, 1, got)), GetPages(s, fs), s}
  BY DEF OSAcquirePhysPageAddr
<1>2. IsState(u) /\ u.area = s.area /\ u.structs = s.structs
  BY PagesFacts
<1> HIDE DEF u, t
<1>3. IsState(t) /\ t.area = s.area /\ t.structs = s.structs
  BY <1>1, <1>2, PagesFacts
<1> QED BY <1>3 DEF t

(* User memory that is wrapped keeps the invariant, whatever fails.        *)
LEMMA WrapExtStep ==
  ASSUME MInv, NEW p \in Procs, NEW h \in Handles, NEW a \in Areas, NEW fs, IsList(fs), NEW how, NEW got,
         NEW unaligned \in BOOLEAN, WrapExt(p, h, a, fs, how, got, unaligned)
  PROVE  MInv'
<1> DEFINE s == OSAcquirePhysPageAddr(Now, fs, how, got)
           b == IF unaligned THEN a + 1 ELSE a
           w == WrapType(fs, how)
           t == [OSRegisterDiscontigMem(s, b, fs) EXCEPT !.area[b].wrap = w]
           u == OSGetSubMemHandle(t, a, b, fs)
<1>1. FreeHandle(p, h) /\ Fresh(a, "wrap") /\ UNCHANGED <<vmas, proc, load>> /\ Quiet
  BY SameQuiet DEF WrapExt
<1>2. \/ Becomes(s) /\ handles' = handles
      \/ b <= load.areas /\ Becomes(IF unaligned THEN u ELSE t) /\ Give(p, h, a)
  BY DEF WrapExt
<1>3. IsState(s) /\ s.area = area /\ s.structs = structs
  BY NowFacts, AcquireFacts
<1> HIDE DEF s, w
<1>4. CASE Becomes(s) /\ handles' = handles
  BY <1>1, <1>3, <1>4, IdleStep
<1>5. AreaInv(s, NamesOf(handles), ToldOf(told)) /\ InOrder(s) /\ DOMAIN s.area = Areas
  BY <1>3, NowInv, NowFacts, SameAreas
<1>6. a \in Nat /\ s.area[a].st = "unused" /\ \A c \in Areas : c < a => s.area[c].st # "unused"
  BY <1>1, <1>3, FreshFacts
<1>7. CASE Give(p, h, a) /\ ~unaligned /\ Becomes(t)
  <2>1. t = [OSRegisterDiscontigMem(s, a, fs) EXCEPT !.area[a].wrap = w]
    BY <1>7
  <2> HIDE DEF t
  <2>2. Makes(s, t, a, NoArea)
    BY <1>3, <1>5, <2>1, RegisterMemMakes
  <2>3. AreaInv(t, NamesOf(handles) \cup {<<p, a>>}, ToldOf(told)) /\ InOrder(t) /\ t.structs = structs
    <3>1. FirstUnused(s, a) /\ MayHold(s, NamesOf(handles), NoArea)
      BY <1>6 DEF FirstUnused, MayHold
    <3> QED BY <1>3, <1>5, <2>2, <3>1, OneArea
  <2> QED BY <1>1, <1>7, <2>3, GiveStep
<1>8. CASE Give(p, h, a) /\ unaligned /\ b <= load.areas /\ Becomes(u)
  <2>1. b = a + 1 /\ b \in Areas /\ s.area[b].st = "unused"
    BY <1>1, <1>3, <1>8, FreshFacts
  <2> HIDE DEF b
  <2>2. t = Wrapped(s, b, fs, w)
    BY DEF Wrapped
  <2> HIDE DEF t
  <2>3. Makes(s, t, b, NoArea) /\ t.area[b].type = "extkv" /\ t.area[b].frames = fs
    BY <1>3, <1>5, <2>1, <2>2, WrapMakes
  <2>4. IsState(t) /\ DOMAIN t.area = Areas
    BY <1>5, <2>3 DEF Makes
  <2>5. Makes(t, u, a, b)
    BY <2>1, <2>3, <2>4, SubMakes
  <2> HIDE DEF u
  <2>6. AreaInv(u, NamesOf(handles) \cup {<<p, a>>}, ToldOf(told)) /\ InOrder(u) /\ u.structs = structs
    <3>1. NextTwo(s, a, b)
      BY <1>6, <2>1 DEF NextTwo
    <3>2. AreaInv(u, NamesOf(handles) \cup {<<p, a>>}, ToldOf(told)) /\ InOrder(u) /\ u.structs = s.structs
      <4>1. PICK d \in Areas : d = b
        BY <2>1
      <4>2. NextTwo(s, a, d) /\ Makes(s, t, d, NoArea) /\ Makes(t, u, a, d)
        BY <2>3, <2>5, <3>1, <4>1
      <4> QED BY <1>5, <4>2, TwoAreas
    <3> QED BY <1>3, <3>2
  <2> QED BY <1>1, <1>8, <2>6, GiveStep
<1> QED BY <1>2, <1>4, <1>7, <1>8

(* Memory mapped from another process keeps the invariant.                 *)
LEMMA MapExportedStep ==
  ASSUME MInv, NEW q \in Procs, NEW h \in Handles, NEW a \in Areas, NEW b \in Areas,
         MapExported(q, h, a, b)
  PROVE  MInv'
<1> DEFINE s == [OSRegisterDiscontigMem(Now, a, area[b].frames) EXCEPT !.area[a].src = b]
<1>1. /\ FreeHandle(q, h) /\ Fresh(a, "map") /\ Becomes(s) /\ Give(q, h, a)
      /\ UNCHANGED <<vmas, proc, load>> /\ Quiet
  BY SameQuiet DEF MapExported
<1>2. Makes(Now, s, a, NoArea)
  <2>1. IsList(area[b].frames)
    BY NowInv, NowFacts DEF AreaInv, Typed, IsArea, Framed
  <2> QED BY <2>1, NowInv, RegisterMemMakes
<1> HIDE DEF s
<1>3. AreaInv(s, NamesOf(handles) \cup {<<q, a>>}, ToldOf(told)) /\ InOrder(s) /\ s.structs = structs
  BY <1>1, <1>2, FreshArea
<1> QED BY <1>1, <1>3, GiveStep

-----------------------------------------------------------------------------
(* Steps that give areas up.                                               *)

(* A list of records that shrinks keeps the invariant of the areas.        *)
LEMMA ShrinkArea ==
  ASSUME NEW Q, NEW s, NEW t, NEW N, AreaInv(s, N, Q), InOrder(s), IsState(t), t.area = s.area,
         Shrinks(s.structs, t.structs)
  PROVE  AreaInv(t, N, Q) /\ InOrder(t)
<1>1. \A k \in DOMAIN t.structs : \E i \in DOMAIN s.structs : t.structs[k] = s.structs[i]
  BY DEF Shrinks
<1>2. Typed(t) /\ InOrder(t) /\ \A a : Childless(s, a) => Childless(t, a)
  BY DEF AreaInv, Typed, InOrder, Childless
<1>3. ASSUME NEW k \in DOMAIN t.structs
      PROVE  LET a == t.structs[k].area
             IN  a \in Areas /\ t.area[a].st \in InUse /\ Childless(t, a)
  BY <1>1, <1>2 DEF AreaInv
<1>4. ASSUME NEW n \in N, NEW k \in DOMAIN t.structs,
             t.structs[k].area = n[2] /\ t.area[n[2]].type = "extkv"
      PROVE  t.structs[k].pid = n[1]
  <2>1. PICK i \in DOMAIN s.structs : t.structs[k] = s.structs[i]
    BY <1>1
  <2>2. s.structs[i].pid = n[1]
    BY <1>4, <2>1 DEF AreaInv
  <2> QED BY <2>1, <2>2
<1>5. Shown(t, Q)
  <2>1. \A a \in Areas : SameOrGone(s.area[a], t.area[a])
    BY DEF SameOrGone
  <2>2. \A k \in DOMAIN t.structs : /\ t.structs[k].area \in Areas
                                     /\ t.area[t.structs[k].area].st # "freed"
                                     /\ \E i \in DOMAIN s.structs : Alike(t.structs[k], s.structs[i])
    BY <1>1, <1>3 DEF Alike, InUse
  <2>3. Shown(s, Q) /\ \A a \in Areas : IsArea(s.area[a])
    BY DEF AreaInv, Typed
  <2> QED BY <2>1, <2>2, <2>3, ShownLater
<1> QED BY <1>2, <1>3, <1>4, <1>5 DEF AreaInv

(* A step that gives handles up and lets the records shrink.               *)
LEMMA DropStep ==
  ASSUME MInv, NEW s, NEW N, AreaInv(s, N, ToldOf(told)), InOrder(s), Shrinks(structs, s.structs),
         Becomes(s),
         handles' \in [Procs -> [Handles -> Areas \cup {NoArea}]], NamesOf(handles)' \subseteq N,
         \A p \in Procs, h \in Handles : handles'[p][h] \in {handles[p][h], NoArea},
         Quiet, UNCHANGED <<vmas, proc, load>>
  PROVE  MInv'
<1>1. Now' = s /\ structs' = s.structs
  BY BecomesNow DEF AreaInv, Typed
<1>2. (AreaInv(Now, NamesOf(handles), ToldOf(told)) /\ InOrder(Now))'
  BY <1>1, FewerNames DEF Quiet
<1>3. RecInv(structs) /\ MapInv(vmas, structs)
  BY DEF MInv
<1>4. (RecInv(structs) /\ MapInv(vmas, structs))'
  BY <1>1, <1>3, ShrinkRec, ShrinkMap
<1>5. ProcInv(proc, handles, vmas, structs)'
  <2>1. \A k \in DOMAIN s.structs : \E i \in DOMAIN structs : s.structs[k] = structs[i]
    BY DEF Shrinks
  <2> QED BY <1>1, <2>1 DEF MInv, ProcInv
<1> QED BY <1>2, <1>4, <1>5 DEF MInv, Quiet

(* A second handle on an area keeps the invariant.                         *)
LEMMA SecondHandleStep ==
  ASSUME MInv, NEW p \in Procs, NEW q \in Procs, NEW h \in Handles, NEW k \in Handles,
         SecondHandle(p, h, q, k)
  PROVE  MInv'
<1> DEFINE a == handles[p][h]
           N == NamesOf(handles)
<1>1. /\ a # NoArea /\ FreeHandle(q, k) /\ area[a].type \in {"pages", "vmalloc", "sub"}
      /\ Give(q, k, a) /\ UNCHANGED <<vmas, proc, load>> /\ Quiet
  BY SameQuiet DEF SecondHandle
<1>2. Becomes(Now)
  BY NowFacts DEF SecondHandle, Becomes
<1>3. a \in Areas /\ <<p, a>> \in N
  BY <1>1 DEF MInv, NamesOf
<1> HIDE DEF a, N
<1>4. AreaInv(Now, N, ToldOf(told)) /\ InOrder(Now) /\ Now.area = area /\ Now.structs = structs
  BY NowInv, NowFacts DEF N
<1>5. area[a].type # "extkv" /\ Now.area[a].st = "live" /\ Childless(Now, a)
  BY <1>1, <1>3, <1>4 DEF AreaInv
<1>6. AreaInv(Now, N \cup {<<q, a>>}, ToldOf(told))
  BY <1>3, <1>4, <1>5 DEF AreaInv
<1> QED BY <1>1, <1>2, <1>3, <1>4, <1>6, GiveStep DEF N

(* Freeing memory keeps the invariant, whether the handle is the last or   *)
(* not.                                                                    *)
LEMMA FreeMemoryStep ==
  ASSUME MInv, NEW p \in Procs, NEW h \in Handles, FreeMemory(p, h)
  PROVE  MInv'
<1> DEFINE a == handles[p][h]
           N == NamesOf(handles)
           s == IF HandlesOf(a) = {<<p, h>>} THEN FreeBuf(Now, a) ELSE Now
<1>1. /\ a # NoArea /\ (HandlesOf(a) = {<<p, h>>} => ~Stops(Now, a)) /\ Becomes(s)
      /\ handles' = [handles EXCEPT ![p][h] = NoArea] /\ UNCHANGED <<vmas, proc, load>> /\ Quiet
  BY SameQuiet DEF FreeMemory
<1>2. handles \in [Procs -> [Handles -> Areas \cup {NoArea}]]
  BY DEF MInv
<1>3. a \in Areas /\ <<p, a>> \in N
  BY <1>1, <1>2 DEF NamesOf
<1>4. handles' \in [Procs -> [Handles -> Areas \cup {NoArea}]]
  BY <1>1, <1>2
<1>5. \A q \in Procs, k \in Handles :
         handles'[q][k] = IF q = p /\ k = h THEN NoArea ELSE handles[q][k]
  BY <1>1, <1>2
<1>6. NoArea \notin Areas
  BY NumbersAssumption DEF NoArea
<1>7. NamesOf(handles)' \subseteq N
  BY <1>5, <1>6 DEF NamesOf
<1>8. AreaInv(Now, N, ToldOf(told)) /\ InOrder(Now) /\ Now.structs = structs /\ RecInv(structs)
  BY NowInv, NowFacts DEF MInv
<1>9. CASE HandlesOf(a) = {<<p, h>>}
  <2>1. \A q \in Procs, k \in Handles : handles[q][k] = a => q = p /\ k = h
    <3> SUFFICES ASSUME NEW q \in Procs, NEW k \in Handles, handles[q][k] = a PROVE q = p /\ k = h
      OBVIOUS
    <3>1. <<q, k>> \in HandlesOf(a)
      BY DEF HandlesOf
    <3>2. <<q, k>> = <<p, h>>
      BY <1>9, <3>1
    <3> QED BY <3>2
  <2>2. NamesOf(handles)' \subseteq Without(N, {a})
    BY <1>5, <1>6, <2>1 DEF NamesOf, Without
  <2>3. s = FreeBuf(Now, a) /\ ~Stops(Now, a)
    BY <1>1, <1>9
  <2> HIDE DEF N, a, s
  <2>4. <<p, a>>[2] = a
    OBVIOUS
  <2>5. AreaInv(s, Without(N, {a}), ToldOf(told)) /\ InOrder(s) /\ Shrinks(structs, s.structs)
    <3>1. PICK n \in N : n = <<p, a>>
      BY <1>3
    <3> QED BY <1>8, <2>3, <2>4, <3>1, FreeBufKeeps
  <2> QED BY <1>1, <1>4, <1>5, <2>2, <2>5, DropStep
<1>10. CASE HandlesOf(a) # {<<p, h>>}
  <2>1. s = Now
    BY <1>10
  <2> HIDE DEF N, a, s
  <2> QED BY <1>1, <1>4, <1>5, <1>7, <1>8, <2>1, ShrinkRefl, DropStep
<1> QED BY <1>9, <1>10

(* A process may give its buffer back.                                     *)
LEMMA EmptyAnon ==
  ASSUME NEW F, NEW G, NEW p, IsAnon(F), G = [F EXCEPT ![p] = <<>>]
  PROVE  IsAnon(G)
<1>1. IsList(<<>>)
  BY DEF IsList
<1>2. ASSUME NEW q \in Procs PROVE G[q] = F[q] \/ G[q] = <<>>
  <2>1. CASE q \in DOMAIN F
    BY <2>1
  <2>2. CASE q \notin DOMAIN F
    BY <2>2
  <2> QED BY <2>1, <2>2
<1> QED BY <1>1, <1>2 DEF IsAnon

(* Memory the process itself gives back keeps the invariant.               *)
LEMMA FreeAnonStep ==
  ASSUME MInv, NEW p \in Procs, FreeAnon(p)
  PROVE  MInv'
<1>1. /\ Becomes(PutPages(Now, anon[p])) /\ UNCHANGED <<vmas, handles, proc, load>>
      /\ anon' = [anon EXCEPT ![p] = <<>>] /\ told' = told
  BY DEF FreeAnon
<1>2. IsAnon(anon')
  BY <1>1, EmptyAnon DEF MInv
<1>3. Quiet
  BY <1>1, <1>2 DEF MInv, Quiet
<1> QED BY <1>1, <1>3, NowFacts, PagesFacts, IdleStep

(* What a process owns has no other, and it has nothing mapped.            *)
LEMMA OwnedOnly ==
  ASSUME MInv, NEW p \in Procs, \A v \in vmas : v.p # p
  PROVE  Owned(p) \in SUBSET Areas /\ OnlyOf(Now, NamesOf(handles), Owned(p), p)
<1> DEFINE N == NamesOf(handles)
           A == Owned(p)
<1>1. Now.structs = structs /\ RecInv(structs) /\ MapInv(vmas, structs)
  BY NowFacts DEF MInv
<1>2. \A i \in DOMAIN structs : structs[i].pid = p => structs[i].mapped = 0
  <2> SUFFICES ASSUME NEW i \in DOMAIN structs, structs[i].pid = p, structs[i].mapped # 0 PROVE FALSE
    OBVIOUS
  <2>1. PICK v \in vmas : v.id = structs[i].id
    BY <1>1 DEF MapInv
  <2>2. PICK j \in DOMAIN structs : structs[j].id = v.id /\ structs[j].pid = v.p
    BY <1>1 DEF MapInv
  <2>3. i = j
    BY <1>1, <2>1, <2>2 DEF RecInv
  <2> QED BY <2>2, <2>3
<1>3. A \in SUBSET Areas
  BY DEF Owned
<1>4. \A n \in N : n[2] \in A => n[1] = p
  <2>1. SUFFICES ASSUME NEW n \in N, n[2] \in A PROVE n[1] = p
    OBVIOUS
  <2>2. PICK h \in Handles : n[1] \in Procs /\ handles[n[1]][h] = n[2]
    BY DEF NamesOf
  <2>3. <<n[1], h>> \in HandlesOf(n[2])
    BY <2>2 DEF HandlesOf
  <2> QED BY <2>1, <2>3 DEF Owned
<1>5. \A a \in A : \E n \in N : n[2] = a
  <2> SUFFICES ASSUME NEW a \in A PROVE \E n \in N : n[2] = a
    OBVIOUS
  <2>1. PICK o \in HandlesOf(a) : TRUE
    BY DEF Owned
  <2>2. o[1] \in Procs /\ o[2] \in Handles /\ handles[o[1]][o[2]] = a
    BY DEF HandlesOf
  <2>3. <<o[1], a>> \in N
    BY <1>3, <2>2 DEF NamesOf
  <2> QED BY <2>3
<1> QED BY <1>1, <1>2, <1>3, <1>4, <1>5 DEF OnlyOf

(* The end of a process keeps the invariant: its areas and the records of  *)
(* the closer go.                                                          *)
LEMMA ReleaseStep ==
  ASSUME MInv, NEW p \in Procs, NEW current \in Procs, PVRSRVRelease(p, current)
  PROVE  MInv'
<1> DEFINE N == NamesOf(handles)
           A == Owned(p)
           u == FreeAll(Now, A)
           w == PutPages(u, anon[p])
           J == {i \in DOMAIN w.structs : w.structs[i].onList /\ w.structs[i].pid = current}
           s == DestroyAll(w, J)
<1>1. /\ \A v \in vmas : v.p # p
      /\ handles' = [handles EXCEPT ![p] = [h \in Handles |-> NoArea]]
      /\ proc' = [proc EXCEPT ![p] = IF current = p THEN "gone" ELSE "inherited"]
      /\ UNCHANGED <<vmas, load>>
      /\ anon' = [anon EXCEPT ![p] = <<>>]
      /\ told' = [t \in Threads |-> IF ProcOf[t] = p THEN NotTold ELSE told[t]]
  BY DEF PVRSRVRelease
<1>2. Becomes(s)
  BY DEF PVRSRVRelease, LinuxMMapPerProcessDisconnect
<1>3. /\ AreaInv(Now, N, ToldOf(told)) /\ InOrder(Now) /\ Now.structs = structs
      /\ RecInv(structs) /\ MapInv(vmas, structs)
  BY NowInv, NowFacts DEF MInv
<1>4. NoArea \notin Areas
  BY NumbersAssumption DEF NoArea
<1>5. A \in SUBSET Areas /\ OnlyOf(Now, N, A, p)
  BY <1>1, OwnedOnly
<1>6. /\ handles \in [Procs -> [Handles -> Areas \cup {NoArea}]]
      /\ proc \in [Procs -> {"up", "gone", "inherited", "unloaded"}]
  BY DEF MInv
<1>7. \A q \in Procs, k \in Handles : handles'[q][k] = IF q = p THEN NoArea ELSE handles[q][k]
  BY <1>1, <1>6
<1>8. handles' \in [Procs -> [Handles -> Areas \cup {NoArea}]]
  BY <1>1, <1>6
<1>9. NamesOf(handles)' \subseteq Without(N, A)
  <2>1. SUFFICES ASSUME NEW n \in NamesOf(handles)' PROVE n \in N /\ n[2] \notin A
    BY DEF Without
  <2>2. PICK h \in Handles : n \in Procs \X Areas /\ handles'[n[1]][h] = n[2]
    BY DEF NamesOf
  <2>3. n[1] # p /\ handles[n[1]][h] = n[2]
    BY <1>4, <1>7, <2>2
  <2>4. n \in N
    BY <2>2, <2>3 DEF NamesOf
  <2> QED BY <1>5, <2>3, <2>4 DEF OnlyOf
<1>10. /\ AreaInv(u, Without(N, A), ToldOf(told)) /\ RecInv(u.structs)
       /\ InOrder(u) /\ Shrinks(structs, u.structs)
  <2> HIDE DEF A, N
  <2> QED BY <1>3, <1>5, FreeAllKeeps
<1> HIDE DEF u, A, N
<1>11. IsState(w) /\ w.area = u.area /\ w.structs = u.structs
  BY <1>10, PagesFacts DEF AreaInv, Typed
<1> HIDE DEF w
<1>12. RecInv(w.structs) /\ Shrinks(structs, w.structs)
  BY <1>10, <1>11
<1>13. J \in SUBSET DOMAIN w.structs /\ \A i \in J : w.structs[i].mapped = 0
  BY <1>12 DEF RecInv
<1>14. /\ IsState(s) /\ s.area = w.area /\ Shrinks(w.structs, s.structs)
       /\ \A k \in DOMAIN s.structs : \E i \in DOMAIN w.structs \ J : s.structs[k] = w.structs[i]
  <2> HIDE DEF J
  <2> QED BY <1>11, <1>12, <1>13, DestroyFacts
<1> HIDE DEF s
<1>15. AreaInv(w, Without(N, A), ToldOf(told)) /\ InOrder(w)
  BY <1>10, <1>11, SameAreas
<1>16. AreaInv(s, Without(N, A), ToldOf(told)) /\ InOrder(s)
  BY <1>14, <1>15, ShrinkArea
<1>17. Shrinks(structs, s.structs)
  BY <1>12, <1>14, ShrinkTrans
<1>18. Now' = s /\ structs' = s.structs
  BY <1>2, <1>14, BecomesNow
<1>19. Quiet
  <2>1. IsAnon(anon')
    BY <1>1, EmptyAnon DEF MInv
  <2>2. IsTold(told') /\ ToldOf(told') \subseteq ToldOf(told)
    BY <1>1 DEF IsTold, ToldOf
  <2> QED BY <2>1, <2>2 DEF Quiet
<1>20. (AreaInv(Now, NamesOf(handles), ToldOf(told)) /\ InOrder(Now))'
  BY <1>9, <1>16, <1>18, <1>19, FewerNames DEF Quiet
<1>21. (RecInv(structs) /\ MapInv(vmas, structs))'
  BY <1>1, <1>3, <1>17, <1>18, ShrinkRec, ShrinkMap
<1>22. /\ proc' \in [Procs -> {"up", "gone", "inherited", "unloaded"}]
       /\ \A q \in Procs \ {p} : proc'[q] = proc[q]
  BY <1>1, <1>6
<1>23. ProcInv(proc, handles, vmas, structs)
  BY DEF MInv
<1>24. ASSUME NEW k \in DOMAIN s.structs
       PROVE  proc'[s.structs[k].pid] = "up" \/ proc'[s.structs[k].pid] = "inherited"
  <2>1. PICK i \in DOMAIN structs : s.structs[k] = structs[i]
    BY <1>17 DEF Shrinks
  <2>2. structs[i].pid \in Procs
    BY <1>3 DEF RecInv, IsRecord
  <2>3. CASE structs[i].pid # p
    BY <1>22, <1>23, <2>1, <2>2, <2>3 DEF ProcInv
  <2>4. CASE structs[i].pid = p /\ current # p
    BY <1>1, <1>6, <2>1, <2>4
  <2>5. CASE structs[i].pid = p /\ current = p
    <3>1. PICK j \in DOMAIN w.structs \ J : s.structs[k] = w.structs[j]
      BY <1>14
    <3>2. w.structs[j].mapped = 0 /\ w.structs[j].pid = p
      BY <1>3, <1>5, <2>1, <2>5, <3>1 DEF OnlyOf
    <3>3. w.structs[j].onList
      BY <1>12, <3>1, <3>2 DEF RecInv
    <3> QED BY <2>5, <3>1, <3>2, <3>3
  <2> QED BY <2>3, <2>4, <2>5
<1>25. ProcInv(proc, handles, vmas, structs)'
  <2>1. \A q \in Procs : proc'[q] # "up" => \A h \in Handles : handles'[q][h] = NoArea
    BY <1>7, <1>22, <1>23 DEF ProcInv
  <2>2. \A v \in vmas : v.p \in Procs /\ proc'[v.p] = "up" /\ IsMapping(v)
    BY <1>1, <1>22, <1>23 DEF ProcInv
  <2> QED BY <1>1, <1>18, <1>24, <2>1, <2>2 DEF ProcInv
<1> QED BY <1>1, <1>8, <1>19, <1>20, <1>21, <1>22, <1>25 DEF MInv, Quiet

(* The end of the module keeps the invariant.                              *)
LEMMA CleanupStep ==
  ASSUME MInv, PVRMMapCleanup
  PROVE  MInv'
<1> DEFINE A == {a \in Areas : area[a].reg /\ area[a].st # "freed"}
           s == PurgeEach(Now, A)
<1>1. /\ \A p \in Procs : ~Up(p)
      /\ Becomes(s) /\ proc' = [p \in Procs |-> "unloaded"] /\ UNCHANGED <<vmas, handles, load>> /\ Quiet
  BY SameQuiet DEF PVRMMapCleanup
<1>2. /\ AreaInv(Now, NamesOf(handles), ToldOf(told)) /\ InOrder(Now)
      /\ Now.structs = structs /\ RecInv(structs)
      /\ MapInv(vmas, structs) /\ Now.area = area /\ ProcInv(proc, handles, vmas, structs)
  BY NowInv, NowFacts DEF MInv
<1>3. vmas = {}
  BY <1>1, <1>2 DEF ProcInv, Up
<1>4. \A i \in DOMAIN structs : structs[i].mapped = 0
  BY <1>2, <1>3 DEF MapInv
<1>5. NoArea \notin Areas
  BY NumbersAssumption DEF NoArea
<1>6. NamesOf(handles) = {}
  BY <1>1, <1>2, <1>5 DEF NamesOf, ProcInv, Up
<1>7. A \in SUBSET Areas /\ \A a \in A : Now.area[a].st # "unused"
  <2>1. \A a \in Areas : IsArea(area[a])
    BY <1>2 DEF AreaInv, Typed
  <2> QED BY <1>2, <2>1 DEF IsArea, InUse
<1>8. \A i \in DOMAIN structs : structs[i].area \in A
  <2> SUFFICES ASSUME NEW i \in DOMAIN structs PROVE structs[i].area \in A
    OBVIOUS
  <2>1. PICK a \in Areas : a = structs[i].area /\ area[a].st \in InUse /\ IsArea(area[a])
    BY <1>2 DEF AreaInv, Typed
  <2> QED BY <2>1 DEF IsArea, InUse
<1> HIDE DEF A
<1>9. /\ AreaInv(s, {}, ToldOf(told)) /\ RecInv(s.structs) /\ InOrder(s) /\ Shrinks(structs, s.structs)
      /\ \A i \in DOMAIN s.structs : s.structs[i].area \notin A
  BY <1>2, <1>4, <1>6, <1>7, PurgeEachKeeps
<1> HIDE DEF s
<1>10. DOMAIN s.structs = {}
  BY <1>8, <1>9 DEF Shrinks
<1>11. Now' = s /\ structs' = s.structs
  BY <1>1, <1>9, BecomesNow DEF AreaInv, Typed
<1>12. NamesOf(handles)' = {}
  BY <1>1, <1>6 DEF NamesOf
<1>13. MapInv(vmas, structs)'
  BY <1>1, <1>3, <1>10, <1>11, FS_EmptySet DEF MapInv
<1>14. ProcInv(proc, handles, vmas, structs)'
  <2>1. \A p \in Procs : \A h \in Handles : handles[p][h] = NoArea
    BY <1>1, <1>2 DEF ProcInv, Up
  <2> QED BY <1>1, <1>3, <1>10, <1>11, <2>1 DEF ProcInv
<1>15. handles' \in [Procs -> [Handles -> Areas \cup {NoArea}]] /\ load' \in Loads
  BY <1>1 DEF MInv
<1>16. proc' \in [Procs -> {"up", "gone", "inherited", "unloaded"}]
  BY <1>1
<1>17. (AreaInv(Now, NamesOf(handles), ToldOf(told)) /\ InOrder(Now))'
  BY <1>1, <1>9, <1>11, <1>12, FewerNames DEF Quiet
<1> QED BY <1>1, <1>9, <1>11, <1>13, <1>14, <1>15, <1>16, <1>17 DEF MInv, Quiet

-----------------------------------------------------------------------------
(* Steps on records and mappings.                                          *)

(* What the threads know after the step was true before it.                *)
Tells == IsTold(told') /\ IsAnon(anon') /\ Shown(Now, ToldOf(told'))

(* A step that tells nothing new.                                          *)
LEMMA QuietTells ==
  ASSUME MInv, Quiet
  PROVE  Tells
<1>1. AreaInv(Now, NamesOf(handles), ToldOf(told')) \/ Shown(Now, ToldOf(told'))
  BY DEF MInv, AreaInv, Shown, Quiet
<1> QED BY <1>1 DEF Tells, Quiet, AreaInv

(* The invariant of the areas with what is told now.                       *)
LEMMA TellsInv ==
  ASSUME MInv, Tells
  PROVE  AreaInv(Now, NamesOf(handles), ToldOf(told'))
BY DEF MInv, AreaInv, Tells

(* One record changes, and stays that of its area and process.             *)
LEMMA RecordChange ==
  ASSUME NEW ss, RecInv(ss), NEW i \in DOMAIN ss, NEW y, NEW tt, tt = [ss EXCEPT ![i] = y],
         IsRecord(y), y.onList <=> y.mapped = 0, y.id = ss[i].id, y.pid = ss[i].pid,
         Alike(y, ss[i])
  PROVE  /\ RecInv(tt) /\ DOMAIN tt = DOMAIN ss /\ tt[i] = y
         /\ \A j \in DOMAIN ss : j # i => tt[j] = ss[j]
         /\ \A j \in DOMAIN ss : tt[j].id = ss[j].id /\ tt[j].pid = ss[j].pid /\ Alike(tt[j], ss[j])
<1>1. PICK n \in Nat : DOMAIN ss = 1..n /\ ss = [k \in 1..n |-> ss[k]]
  BY DEF RecInv, IsList
<1>2. DOMAIN tt = 1..n /\ tt = [k \in 1..n |-> tt[k]] /\ tt[i] = y /\ \A j \in 1..n : j # i => tt[j] = ss[j]
  BY <1>1
<1>3. IsList(tt)
  BY <1>2 DEF IsList
<1>4. \A j \in DOMAIN ss : tt[j].id = ss[j].id /\ tt[j].pid = ss[j].pid /\ Alike(tt[j], ss[j])
  BY <1>1, <1>2 DEF Alike
<1>5. \A j \in DOMAIN tt : IsRecord(tt[j]) /\ (tt[j].onList <=> tt[j].mapped = 0)
  BY <1>1, <1>2 DEF RecInv
<1>6. RecInv(tt)
  BY <1>1, <1>2, <1>3, <1>4, <1>5 DEF RecInv, Alike
<1> QED BY <1>1, <1>2, <1>4, <1>6

(* Records that stay those of their areas and processes.                   *)
LEMMA SameRecords ==
  ASSUME NEW Q, NEW s, NEW t, NEW N, AreaInv(s, N, Q), InOrder(s), IsState(t), t.area = s.area,
         DOMAIN t.structs = DOMAIN s.structs,
         \A j \in DOMAIN s.structs : /\ t.structs[j].pid = s.structs[j].pid
                                     /\ Alike(t.structs[j], s.structs[j])
  PROVE  AreaInv(t, N, Q) /\ InOrder(t)
<1>1. Typed(t) /\ InOrder(t) /\ \A a : Childless(s, a) => Childless(t, a)
  BY DEF AreaInv, Typed, InOrder, Childless
<1>2. ASSUME NEW n \in N, NEW k \in DOMAIN t.structs,
             t.structs[k].area = n[2] /\ t.area[n[2]].type = "extkv"
      PROVE  t.structs[k].pid = n[1]
  <2>1. s.structs[k].pid = n[1]
    BY <1>2 DEF AreaInv, Alike
  <2> QED BY <2>1
<1>3. Shown(t, Q)
  BY DEF AreaInv, Shown, TrueOf, Alike
<1> QED BY <1>1, <1>2, <1>3 DEF AreaInv, Alike

(* A step that changes one record, and perhaps its mapping.                *)
LEMMA RecordStep ==
  ASSUME MInv, NEW s, IsState(s), s.area = area, NEW i \in DOMAIN structs, NEW y, IsRecord(y),
         s.structs = [structs EXCEPT ![i] = y], y.onList <=> y.mapped = 0, y.id = structs[i].id,
         y.pid = structs[i].pid, Alike(y, structs[i]), Becomes(s), Tells,
         MapInv(vmas', s.structs), \A v \in vmas' : v.p \in Procs /\ proc[v.p] = "up" /\ IsMapping(v),
         UNCHANGED <<handles, proc, load>>
  PROVE  MInv'
<1>1. Now' = s /\ structs' = s.structs
  BY BecomesNow
<1>2. RecInv(structs)
  BY DEF MInv
<1>3. /\ RecInv(s.structs) /\ DOMAIN s.structs = DOMAIN structs
      /\ \A j \in DOMAIN structs : /\ s.structs[j].pid = structs[j].pid
                                   /\ Alike(s.structs[j], structs[j])
  BY <1>2, RecordChange
<1>4. AreaInv(s, NamesOf(handles), ToldOf(told')) /\ InOrder(s)
  BY <1>3, NowInv, NowFacts, TellsInv, SameRecords
<1>5. NamesOf(handles)' = NamesOf(handles)
  BY DEF NamesOf
<1>6. ProcInv(proc, handles, vmas, structs)'
  BY <1>1, <1>3 DEF MInv, ProcInv
<1>7. /\ MapInv(vmas, structs)' /\ RecInv(structs)'
      /\ (AreaInv(Now, NamesOf(handles), ToldOf(told)) /\ InOrder(Now))'
  BY <1>1, <1>3, <1>4, <1>5
<1> QED BY <1>6, <1>7 DEF MInv, Tells

(* The counts do not change with the rest of a record.                     *)
LEMMA SameCounts ==
  ASSUME NEW vs, NEW ss, NEW tt, MapInv(vs, ss), DOMAIN tt = DOMAIN ss,
         \A j \in DOMAIN ss : tt[j].id = ss[j].id /\ tt[j].pid = ss[j].pid /\ tt[j].mapped = ss[j].mapped
  PROVE  MapInv(vs, tt)
<1>1. ASSUME NEW v \in vs
      PROVE  \E i \in DOMAIN tt : tt[i].id = v.id /\ tt[i].pid = v.p /\ tt[i].mapped = v.parts
  <2>1. PICK i \in DOMAIN ss : ss[i].id = v.id /\ ss[i].pid = v.p /\ ss[i].mapped = v.parts
    BY DEF MapInv
  <2> QED BY <2>1
<1>2. ASSUME NEW i \in DOMAIN tt, tt[i].mapped # 0 PROVE \E v \in vs : v.id = tt[i].id
  BY <1>2 DEF MapInv
<1> QED BY <1>1, <1>2 DEF MapInv

(* PVRMMapReleaseMMapData keeps the invariant: it gives one reference on   *)
(* the record back.                                                        *)
LEMMA ReleaseMMapDataStep ==
  ASSUME MInv, NEW t, NEW h, PVRMMapReleaseMMapData(t, h)
  PROVE  MInv'
<1> DEFINE p == ProcOf[t]
           I == StructOf(structs, PVRSRVLookupOSMemHandle(p, h), p)
           i == Min(I)
           y == [structs[i] EXCEPT !.ref = structs[i].ref - 1]
           s == [Now EXCEPT !.structs = [structs EXCEPT ![i] = y]]
<1>1. I # {} /\ structs' = [structs EXCEPT ![i] = y] /\ UNCHANGED <<frame, area, vmas, handles, proc, load>>
  BY DEF PVRMMapReleaseMMapData
<1>2. Tells
  BY SameQuiet, QuietTells DEF PVRMMapReleaseMMapData
<1>3. RecInv(structs) /\ MapInv(vmas, structs) /\ ProcInv(proc, handles, vmas, structs)
  BY DEF MInv
<1>4. i \in DOMAIN structs
  <2>1. I \subseteq DOMAIN structs /\ DOMAIN structs \subseteq Nat
    BY <1>3 DEF StructOf, RecInv, IsList
  <2> HIDE DEF I
  <2> QED BY <1>1, <2>1, MinIn
<1> HIDE DEF i
<1>5. IsRecord(structs[i]) /\ (structs[i].onList <=> structs[i].mapped = 0)
  BY <1>3, <1>4 DEF RecInv
<1>6. /\ IsRecord(y) /\ y.onList = structs[i].onList /\ y.mapped = structs[i].mapped
      /\ y.id = structs[i].id /\ y.pid = structs[i].pid /\ Alike(y, structs[i])
  BY <1>5 DEF IsRecord, Alike
<1> HIDE DEF y
<1>7. IsState(s) /\ s.area = area /\ s.structs = [structs EXCEPT ![i] = y] /\ s.frame = frame
  BY NowFacts DEF IsState
<1> HIDE DEF s
<1>8. Becomes(s)
  BY <1>1, <1>7 DEF Becomes
<1>9. /\ DOMAIN s.structs = DOMAIN structs
      /\ \A j \in DOMAIN structs : /\ s.structs[j].id = structs[j].id /\ s.structs[j].pid = structs[j].pid
                                   /\ s.structs[j].mapped = structs[j].mapped
  BY <1>4, <1>6, <1>7
<1>10. MapInv(vmas, s.structs)
  BY <1>3, <1>9, SameCounts
<1>11. MapInv(vmas', s.structs) /\ \A v \in vmas' : v.p \in Procs /\ proc[v.p] = "up" /\ IsMapping(v)
  BY <1>1, <1>3, <1>10 DEF ProcInv
<1>12. y.onList <=> y.mapped = 0
  BY <1>5, <1>6
<1> QED BY <1>1, <1>2, <1>4, <1>6, <1>7, <1>8, <1>11, <1>12, RecordStep

(* A number that neither a record nor a mapping has.                       *)
LEMMA FreshIdFacts ==
  ASSUME RecInv(structs), MapInv(vmas, structs)
  PROVE  LET id == FreshId(structs)
         IN  /\ id \in Nat /\ \A i \in DOMAIN structs : structs[i].id # id
             /\ \A v \in vmas : v.id # id
<1>1. PICK n \in Nat : DOMAIN structs = 1..n /\ structs = [k \in 1..n |-> structs[k]]
  BY DEF RecInv, IsList
<1>2. Len(structs) = n
  BY <1>1
<1>3. PICK m \in Nat : m = Cardinality(vmas)
  BY FS_CardinalityType DEF MapInv
<1> DEFINE R == {structs[i].id : i \in DOMAIN structs}
           V == {v.id : v \in vmas}
           C == 1..(n + m + 1)
<1>4. IsFiniteSet(R) /\ Cardinality(R) <= n
  <2> DEFINE f == [i \in 1..n |-> structs[i].id]
  <2>1. f \in Surjection(1..n, R)
    BY <1>1 DEF Surjection
  <2>2. IsFiniteSet(1..n) /\ Cardinality(1..n) = n
    BY FS_Interval
  <2> HIDE DEF f, R
  <2> QED BY <2>1, <2>2, FS_Surjection
<1>5. IsFiniteSet(V) /\ Cardinality(V) <= m
  <2> DEFINE f == [v \in vmas |-> v.id]
  <2>1. f \in Surjection(vmas, V)
    BY DEF Surjection
  <2> HIDE DEF f, V
  <2> QED BY <1>3, <2>1, FS_Surjection DEF MapInv
<1>6. IsFiniteSet(C) /\ Cardinality(C) = n + m + 1
  <2>1. n + m + 1 \in Int /\ ~(1 > n + m + 1)
    OBVIOUS
  <2> QED BY <2>1, FS_Interval
<1> HIDE DEF R, V, C
<1>7. IsFiniteSet(R \cup V) /\ Cardinality(R \cup V) <= n + m
  <2>1. Cardinality(R) \in Nat /\ Cardinality(V) \in Nat
    BY <1>4, <1>5, FS_CardinalityType
  <2>2. IsFiniteSet(R \cap V)
    BY <1>4, FS_Intersection
  <2>3. Cardinality(R \cap V) \in Nat
    BY <2>2, FS_CardinalityType
  <2>4. /\ IsFiniteSet(R \cup V)
        /\ Cardinality(R \cup V) = Cardinality(R) + Cardinality(V) - Cardinality(R \cap V)
    BY <1>4, <1>5, FS_Union
  <2> QED BY <1>4, <1>5, <2>1, <2>3, <2>4
<1>8. C \ (R \cup V) # {}
  <2> SUFFICES ASSUME C \in SUBSET (R \cup V) PROVE FALSE
    OBVIOUS
  <2>1. Cardinality(C) <= Cardinality(R \cup V)
    BY <1>7, FS_Subset
  <2>2. Cardinality(R \cup V) \in Nat
    BY <1>7, FS_CardinalityType
  <2> QED BY <1>6, <1>7, <2>1, <2>2
<1>9. FreshId(structs) = Min(C \ (R \cup V))
  BY <1>2, <1>3 DEF FreshId, R, V, C
<1>10. C \ (R \cup V) \subseteq Nat
  BY DEF C
<1>11. FreshId(structs) \in C \ (R \cup V)
  BY <1>8, <1>9, <1>10, MinIn
<1>12. FreshId(structs) \in Nat /\ FreshId(structs) \notin R /\ FreshId(structs) \notin V
  BY <1>10, <1>11
<1> QED BY <1>12 DEF R, V

(* What one more reference changes of a record.                            *)
LEMMA AskedFacts ==
  ASSUME NEW k, IsRecord(k), NEW new \in BOOLEAN
  PROVE  LET y == Asked(k, new)
         IN  /\ IsRecord(y) /\ (y.onList <=> k.onList \/ new)
             /\ y.id = k.id /\ y.area = k.area /\ y.pid = k.pid /\ y.mapped = k.mapped /\ Alike(y, k)
<1> DEFINE o == k.onList \/ new
           y == Asked(k, new)
<1>1. o \in BOOLEAN /\ (o <=> k.onList \/ new)
  OBVIOUS
<1>2. y = [k EXCEPT !.ref = k.ref + 1, !.onList = o]
  BY Zenon DEF Asked
<1> HIDE DEF o, y
<1>3. /\ IsRecord(y) /\ y.onList = o /\ y.id = k.id /\ y.area = k.area /\ y.pid = k.pid
      /\ y.mapped = k.mapped /\ Alike(y, k)
  BY <1>1, <1>2 DEF IsRecord, Alike
<1> QED BY <1>1, <1>3 DEF y

(* A thread asks for the offset of memory that has a record.               *)
LEMMA ToldAgainStep ==
  ASSUME MInv, NEW i \in DOMAIN structs, NEW new \in BOOLEAN, ~new,
         Becomes([Now EXCEPT !.structs[i] = Asked(@, new)]), Tells,
         UNCHANGED <<vmas, handles, proc, load>>
  PROVE  MInv'
<1> DEFINE y == Asked(structs[i], new)
           s == [Now EXCEPT !.structs[i] = Asked(@, new)]
<1>1. RecInv(structs) /\ MapInv(vmas, structs) /\ ProcInv(proc, handles, vmas, structs)
  BY DEF MInv
<1>2. IsRecord(structs[i]) /\ (structs[i].onList <=> structs[i].mapped = 0)
  BY <1>1 DEF RecInv
<1>3. /\ IsRecord(y) /\ (y.onList <=> structs[i].onList) /\ y.mapped = structs[i].mapped
      /\ y.id = structs[i].id /\ y.pid = structs[i].pid /\ Alike(y, structs[i])
  BY <1>2, AskedFacts
<1>4. s = [Now EXCEPT !.structs = [structs EXCEPT ![i] = y]]
  BY NowFacts
<1> HIDE DEF y, s
<1>5. IsState(s) /\ s.area = area /\ s.structs = [structs EXCEPT ![i] = y] /\ s.frame = frame
  BY <1>4, NowFacts DEF IsState
<1>6. /\ DOMAIN s.structs = DOMAIN structs
      /\ \A j \in DOMAIN structs : /\ s.structs[j].id = structs[j].id /\ s.structs[j].pid = structs[j].pid
                                   /\ s.structs[j].mapped = structs[j].mapped
  BY <1>3, <1>5
<1>7. MapInv(vmas, s.structs)
  BY <1>1, <1>6, SameCounts
<1>8. MapInv(vmas', s.structs) /\ \A v \in vmas' : v.p \in Procs /\ proc[v.p] = "up" /\ IsMapping(v)
  BY <1>1, <1>7 DEF ProcInv
<1>9. y.onList <=> y.mapped = 0
  BY <1>2, <1>3
<1>10. Becomes(s)
  BY DEF s
<1> QED BY <1>3, <1>5, <1>8, <1>9, <1>10, RecordStep

(* The list with a record at its end.                                      *)
Extends(ss, tt, y) ==
  \E n, e \in Nat : /\ e = n + 1 /\ DOMAIN ss = 1..n /\ DOMAIN tt = 1..e
                    /\ tt = [j \in 1..e |-> tt[j]] /\ tt[e] = y /\ \A j \in 1..n : tt[j] = ss[j]

(* A step that adds the record of an area and a process that had none.     *)
LEMMA NewRecordStep ==
  ASSUME MInv, NEW p \in Procs, NEW a \in Areas, <<p, a>> \in NamesOf(handles), proc[p] = "up",
         StructOf(structs, a, p) = {}, NEW s, IsState(s), s.area = area, Becomes(s), NEW y, IsRecord(y),
         Extends(structs, s.structs, y), y.id = FreshId(structs), y.area = a, y.pid = p, y.mapped = 0,
         y.onList = TRUE,
         Describes(y.off, y.size, area[a].frames), Tells, UNCHANGED <<vmas, handles, proc, load>>
  PROVE  MInv'
<1> DEFINE N == NamesOf(handles)
           tt == s.structs
<1>1. Now' = s /\ structs' = s.structs
  BY BecomesNow
<1>2. RecInv(structs) /\ MapInv(vmas, structs) /\ ProcInv(proc, handles, vmas, structs)
  BY DEF MInv
<1>3. PICK n, e \in Nat :
         /\ e = n + 1 /\ DOMAIN structs = 1..n /\ DOMAIN tt = 1..e
         /\ tt = [j \in 1..e |-> tt[j]] /\ tt[e] = y /\ \A j \in 1..n : tt[j] = structs[j]
  BY DEF Extends
<1>4. /\ \A i \in 1..n : structs[i].id # y.id /\ ~(structs[i].area = a /\ structs[i].pid = p)
      /\ \A v \in vmas : v.id # y.id
  BY <1>2, <1>3, FreshIdFacts DEF StructOf
<1> HIDE DEF tt
<1>5. /\ e \in DOMAIN tt
      /\ \A j \in DOMAIN tt : j = e \/ (j \in 1..n /\ j \in DOMAIN structs /\ tt[j] = structs[j])
  <2>1. e \in 1..e /\ \A j \in 1..e : j = e \/ j \in 1..n
    BY <1>3
  <2>2. DOMAIN tt = 1..e /\ DOMAIN structs = 1..n
    BY <1>3
  <2> QED BY <1>3, <2>1, <2>2
<1>6. \A j \in 1..n : j \in DOMAIN tt
  BY <1>3
<1>7. IsList(tt)
  BY <1>3 DEF IsList
<1>8. \A j \in DOMAIN tt : IsRecord(tt[j]) /\ (tt[j].onList <=> tt[j].mapped = 0)
  BY <1>2, <1>3, <1>5 DEF RecInv
<1>9. ASSUME NEW i \in DOMAIN tt, NEW j \in DOMAIN tt,
             tt[i].id = tt[j].id \/ (tt[i].area = tt[j].area /\ tt[i].pid = tt[j].pid)
      PROVE  i = j
  <2>1. CASE i = e /\ j # e
    BY <1>3, <1>4, <1>5, <1>9, <2>1
  <2>2. CASE j = e /\ i # e
    BY <1>3, <1>4, <1>5, <1>9, <2>2
  <2>3. CASE i # e /\ j # e
    <3>1. i \in DOMAIN structs /\ j \in DOMAIN structs /\ tt[i] = structs[i] /\ tt[j] = structs[j]
      BY <1>5, <2>3
    <3> QED BY <1>2, <1>9, <3>1 DEF RecInv
  <2> QED BY <2>1, <2>2, <2>3
<1>10. RecInv(tt)
  BY <1>7, <1>8, <1>9 DEF RecInv
<1>11. MapInv(vmas, tt)
  <2>1. ASSUME NEW v \in vmas
        PROVE  \E i \in DOMAIN tt : tt[i].id = v.id /\ tt[i].pid = v.p /\ tt[i].mapped = v.parts
    <3>1. PICK i \in DOMAIN structs :
             structs[i].id = v.id /\ structs[i].pid = v.p /\ structs[i].mapped = v.parts
      BY <1>2 DEF MapInv
    <3>2. i \in DOMAIN tt /\ tt[i] = structs[i]
      BY <1>3, <1>6, <3>1
    <3> QED BY <3>1, <3>2
  <2>2. ASSUME NEW i \in DOMAIN tt, tt[i].mapped # 0 PROVE \E v \in vmas : v.id = tt[i].id
    <3>1. i \in DOMAIN structs /\ tt[i] = structs[i]
      BY <1>3, <1>5, <2>2
    <3> QED BY <1>2, <2>2, <3>1 DEF MapInv
  <2> QED BY <1>2, <2>1, <2>2 DEF MapInv
<1>12. AreaInv(Now, N, ToldOf(told')) /\ InOrder(Now) /\ Now.area = area /\ Now.structs = structs
  BY NowInv, NowFacts, TellsInv
<1> HIDE DEF N
<1>13. Typed(s) /\ InOrder(s) /\ \A b : Childless(Now, b) => Childless(s, b)
  BY <1>12 DEF AreaInv, Typed, InOrder, Childless
<1>14. s.area[a].st = "live" /\ Childless(s, a) /\ <<p, a>> \in N
  BY <1>12, <1>13 DEF AreaInv, N
<1>15. ASSUME NEW j \in DOMAIN tt
       PROVE  tt[j].area \in Areas /\ s.area[tt[j].area].st \in InUse /\ Childless(s, tt[j].area)
  <2>1. CASE j = e
    BY <1>3, <1>14, <2>1 DEF InUse
  <2>2. CASE j # e
    <3>1. j \in DOMAIN structs /\ tt[j] = structs[j]
      BY <1>5, <2>2
    <3> QED BY <1>12, <1>13, <3>1 DEF AreaInv
  <2> QED BY <2>1, <2>2
<1>16. ASSUME NEW m \in N, NEW j \in DOMAIN tt, tt[j].area = m[2] /\ s.area[m[2]].type = "extkv"
       PROVE  tt[j].pid = m[1]
  <2>1. CASE j = e
    <3>1. m[2] = a /\ Now.area[a].type = "extkv"
      BY <1>3, <1>12, <1>16, <2>1
    <3>2. PICK o \in N : o = <<p, a>>
      BY <1>14
    <3>3. m[1] = o[1]
      BY <1>12, <3>1, <3>2 DEF AreaInv
    <3> QED BY <1>3, <2>1, <3>2, <3>3
  <2>2. CASE j # e
    <3>1. j \in DOMAIN structs /\ tt[j] = structs[j]
      BY <1>5, <2>2
    <3>2. structs[j].area = m[2] /\ Now.area[m[2]].type = "extkv"
      BY <1>12, <1>16, <3>1
    <3>3. structs[j].pid = m[1]
      BY <1>12, <3>1, <3>2 DEF AreaInv
    <3> QED BY <3>1, <3>3
  <2> QED BY <2>1, <2>2
<1>17. Shown(s, ToldOf(told'))
  <2>1. Shown(Now, ToldOf(told'))
    BY <1>12 DEF AreaInv
  <2>2. ASSUME NEW j \in DOMAIN tt
        PROVE  Describes(tt[j].off, tt[j].size, s.area[tt[j].area].frames)
    <3>1. CASE j = e
      BY <1>3, <3>1
    <3>2. CASE j # e
      BY <1>5, <1>12, <2>1, <3>2 DEF Shown
    <3> QED BY <3>1, <3>2
  <2>3. \A k \in ToldOf(told') : TrueOf(s, k)
    BY <1>12, <2>1 DEF Shown, TrueOf
  <2> QED BY <1>12, <2>1, <2>2, <2>3 DEF Shown, tt
<1>18. AreaInv(s, N, ToldOf(told'))
  BY <1>12, <1>13, <1>15, <1>16, <1>17 DEF AreaInv, tt
<1>19. NamesOf(handles)' = N
  BY DEF NamesOf, N
<1>20. ProcInv(proc, handles, vmas, structs)'
  <2>1. \A j \in DOMAIN tt : proc[tt[j].pid] = "up" \/ proc[tt[j].pid] = "inherited"
    <3> SUFFICES ASSUME NEW j \in DOMAIN tt
                 PROVE  proc[tt[j].pid] = "up" \/ proc[tt[j].pid] = "inherited"
      OBVIOUS
    <3>1. CASE j = e
      BY <1>3, <3>1
    <3>2. CASE j # e
      BY <1>2, <1>5, <3>2 DEF ProcInv
    <3> QED BY <3>1, <3>2
  <2> QED BY <1>1, <1>2, <2>1 DEF ProcInv, tt
<1> QED BY <1>1, <1>10, <1>11, <1>13, <1>18, <1>19, <1>20 DEF MInv, Tells, tt

(* The offset of an area, which PVRMMapOSMemHandleToMMapData chooses.      *)
LEMMA OffsetDescribes ==
  ASSUME NEW s, NEW N, NEW Q, AreaInv(s, N, Q), NEW a \in Areas, NEW h
  PROVE  Describes(MMapOffset(s, a, h), DetermineUsersSizeAndByteOffset(s, a), s.area[a].frames)
<1> DEFINE fs == s.area[a].frames
           off == MMapOffset(s, a, h)
<1>1. IsArea(s.area[a]) /\ (s.area[a].type = "sub" => Inside(s.area[a], s.area[s.area[a].parent]))
  BY DEF AreaInv, Typed, Shown
<1>2. LinuxMemAreaPhysIsContig(s, a) => PagesAreContiguous(fs)
  BY <1>1 DEF LinuxMemAreaPhysIsContig, LinuxMemAreaRoot, IsArea, Framed, Inside
<1>3. off = IF LinuxMemAreaPhysIsContig(s, a) THEN <<"pfn", fs[1]>> ELSE <<"handle", h>>
  BY DEF MMapOffset, LinuxMemAreaToCpuPFN
<1> HIDE DEF fs, off
<1>4. off[1] \in {"pfn", "handle"} /\ (off[1] = "pfn" => LinuxMemAreaPhysIsContig(s, a) /\ off[2] = fs[1])
  BY <1>3
<1> QED BY <1>2, <1>4 DEF Describes, DetermineUsersSizeAndByteOffset, fs, off

(* A thread is told what is true.                                          *)
LEMMA ToldMore ==
  ASSUME MInv, NEW t \in Threads, NEW r, TrueOf(Now, r), told' = [told EXCEPT ![t] = r], anon' = anon
  PROVE  Tells
<1>1. IsTold(told) /\ IsAnon(anon) /\ Shown(Now, ToldOf(told))
  BY DEF MInv, AreaInv
<1>2. DOMAIN told = Threads /\ told = [u \in Threads |-> told[u]]
  BY <1>1 DEF IsTold
<1>3. \A u \in Threads : told'[u] = IF u = t THEN r ELSE told[u]
  BY <1>2
<1>4. IsTold(told')
  <2>1. told' = [u \in Threads |-> told'[u]]
    BY <1>2
  <2> QED BY <2>1 DEF IsTold
<1>5. \A k \in ToldOf(told') : k = r \/ k \in ToldOf(told)
  BY <1>3 DEF ToldOf
<1>6. Shown(Now, ToldOf(told'))
  BY <1>1, <1>5 DEF Shown
<1> QED BY <1>1, <1>4, <1>6 DEF Tells

(* A list with one more at its end.                                        *)
LEMMA AppendList ==
  ASSUME NEW n \in Nat, NEW ss, DOMAIN ss = 1..n, ss = [j \in 1..n |-> ss[j]], NEW x
  PROVE  Append(ss, x) = [j \in 1..(n + 1) |-> IF j = n + 1 THEN x ELSE ss[j]]
<1> DEFINE S == {ss[j] : j \in 1..n} \cup {x}
           ap == Append(ss, x)
<1>1. ss \in Seq(S) /\ x \in S /\ Len(ss) = n
  OBVIOUS
<1> HIDE DEF S
<1>2. /\ ap \in Seq(S) /\ Len(ap) = n + 1 /\ ap[n + 1] = x
      /\ \A j \in 1..n : ap[j] = ss[j]
  BY <1>1, AppendProperties
<1> HIDE DEF ap
<1>3. DOMAIN ap = 1..(n + 1) /\ ap = [j \in 1..(n + 1) |-> ap[j]]
  BY <1>2
<1>4. \A j \in 1..(n + 1) : ap[j] = IF j = n + 1 THEN x ELSE ss[j]
  BY <1>2
<1>5. ap = [j \in 1..(n + 1) |-> IF j = n + 1 THEN x ELSE ss[j]]
  BY <1>3, <1>4
<1> QED BY <1>5 DEF ap

RecordOf(id, a, off, size, p, t, mapped, ref, onList, uva) ==
  [id |-> id, area |-> a, off |-> off, size |-> size, pid |-> p, tid |-> t, mapped |-> mapped,
   ref |-> ref, onList |-> onList, uva |-> uva]

(* PVRMMapOSMemHandleToMMapData keeps the invariant.                       *)
LEMMA ToMMapDataStep ==
  ASSUME MInv, NEW t \in Threads, NEW h \in Handles, PVRMMapOSMemHandleToMMapData(t, h)
  PROVE  MInv'
<1> DEFINE p == ProcOf[t]
           a == PVRSRVLookupOSMemHandle(p, h)
           I == StructOf(structs, a, p)
           i == Min(I)
<1>1. p \in Procs /\ proc[p] = "up" /\ a # NoArea /\ UNCHANGED <<vmas, handles, proc, load>>
  BY LoadsAssumption DEF PVRMMapOSMemHandleToMMapData, Up
<1>2. RecInv(structs) /\ MapInv(vmas, structs)
  BY DEF MInv
<1>3. a \in Areas /\ <<p, a>> \in NamesOf(handles)
  BY <1>1 DEF MInv, NamesOf, PVRSRVLookupOSMemHandle
<1>4. AreaInv(Now, NamesOf(handles), ToldOf(told)) /\ Now.area = area /\ Now.structs = structs
  BY NowInv, NowFacts
<1>5. area[a].st = "live"
  BY <1>3, <1>4 DEF AreaInv
<1>6. ASSUME NEW r, r.area = a, r.h = h, Describes(r.off, r.size, area[a].frames) PROVE TrueOf(Now, r)
  <2> HIDE DEF a
  <2> QED BY <1>3, <1>4, <1>5, <1>6 DEF TrueOf
<1>7. CASE I # {}
  <2> DEFINE new == I = {}
  <2>1. Becomes([Now EXCEPT !.structs[i] = Asked(@, new)])
    BY <1>7 DEF PVRMMapOSMemHandleToMMapData
  <2>2. i \in DOMAIN structs /\ structs[i].area = a
    <3>1. /\ I \subseteq DOMAIN structs /\ DOMAIN structs \subseteq Nat
          /\ \A j \in I : structs[j].area = a
      BY <1>2 DEF StructOf, RecInv, IsList
    <3> HIDE DEF I, a
    <3>2. i \in I
      BY <1>7, <3>1, MinIn
    <3> QED BY <3>1, <3>2
  <2> DEFINE r == [off |-> structs[i].off, size |-> structs[i].size, area |-> a, h |-> h]
  <2>3. told' = [told EXCEPT ![t] = r] /\ anon' = anon
    BY <1>7, NowFacts DEF PVRMMapOSMemHandleToMMapData
  <2>4. Tells
    <3> HIDE DEF i, I, a
    <3>1. r.off = structs[i].off /\ r.size = structs[i].size /\ r.area = a /\ r.h = h
      OBVIOUS
    <3>2. Describes(structs[i].off, structs[i].size, area[a].frames)
      BY <1>4, <2>2 DEF AreaInv, Shown
    <3>3. TrueOf(Now, r)
      BY <1>6, <3>1, <3>2
    <3> HIDE DEF r
    <3> QED BY <2>3, <3>3, ToldMore
  <2>5. new \in BOOLEAN /\ ~new
    BY <1>7
  <2> HIDE DEF i, I, new
  <2> QED BY <1>1, <2>1, <2>2, <2>4, <2>5, ToldAgainStep
<1>8. CASE I = {}
  <2> DEFINE off == MMapOffset(Now, a, h)
             size == DetermineUsersSizeAndByteOffset(Now, a)
             id == FreshId(structs)
             x == RecordOf(id, a, off, size, p, t, 0, 0, No, No)
             u == CreateOffsetStruct(Now, a, off, size, p, t)
             k == Len(u.structs)
             new == I = {}
             w == [u EXCEPT !.structs[k] = Asked(@, new)]
  <2>1. Becomes(w)
    BY <1>8 DEF PVRMMapOSMemHandleToMMapData
  <2>2. PICK n \in Nat : DOMAIN structs = 1..n /\ structs = [j \in 1..n |-> structs[j]]
    BY <1>2 DEF RecInv, IsList
  <2>3. u = [Now EXCEPT !.structs = Append(structs, x)]
    BY NowFacts DEF CreateOffsetStruct, RecordOf, No
  <2>4. id \in Nat
    BY <1>2, FreshIdFacts
  <2>5. told' = [told EXCEPT ![t] = [off |-> off, size |-> u.structs[k].size, area |-> a, h |-> h]]
         /\ anon' = anon
    BY <1>8 DEF PVRMMapOSMemHandleToMMapData
  <2>6. Describes(off, size, area[a].frames)
    BY <1>3, <1>4, OffsetDescribes
  <2> HIDE DEF x, u, w, off, size, id, I
  <2>7. IsState(u) /\ u.area = area /\ u.frame = frame /\ u.structs = Append(structs, x)
    BY <2>3, NowFacts DEF IsState
  <2>8. Append(structs, x) = [j \in 1..(n + 1) |-> IF j = n + 1 THEN x ELSE structs[j]]
    BY <2>2, AppendList
  <2>9. k = n + 1 /\ u.structs[n + 1] = x /\ DOMAIN u.structs = 1..(n + 1)
    <3>1. DOMAIN u.structs = 1..(n + 1) /\ u.structs[n + 1] = x
      BY <2>7, <2>8
    <3>2. k = n + 1
      BY <3>1
    <3> QED BY <3>1, <3>2
  <2>10. new \in BOOLEAN /\ new
    BY <1>8
  <2>11. IsRecord(x) /\ x.id = id /\ x.area = a /\ x.pid = p /\ x.mapped = 0 /\ x.off = off /\ x.size = size
    <3>1. x \in [id : {id}, area : {a}, off : {off}, size : {size}, pid : {p}, tid : {t},
                  mapped : {0}, ref : {0}, onList : {No}, uva : {No}]
      BY DEF x, RecordOf
    <3>2. No \in BOOLEAN
      BY DEF No
    <3> HIDE DEF p, a
    <3> QED BY <1>1, <1>3, <2>4, <3>1, <3>2 DEF IsRecord
  <2> DEFINE y == Asked(x, new)
  <2>12. w = [u EXCEPT !.structs = [u.structs EXCEPT ![k] = y]]
    BY <2>9 DEF w
  <2> HIDE DEF new, k
  <2>13. /\ IsRecord(y) /\ (y.onList <=> x.onList \/ new)
         /\ y.id = id /\ y.area = a /\ y.pid = p /\ y.mapped = 0 /\ Alike(y, x)
    BY <2>10, <2>11, AskedFacts
  <2>14. y.onList = TRUE
    BY <2>10, <2>13 DEF IsRecord
  <2> HIDE DEF y, a, p
  <2>15. IsState(w) /\ w.area = area /\ w.structs = [u.structs EXCEPT ![k] = y]
    BY <2>7, <2>12 DEF IsState
  <2>16. /\ DOMAIN w.structs = 1..(n + 1) /\ w.structs = [j \in 1..(n + 1) |-> w.structs[j]]
         /\ w.structs[n + 1] = y
    BY <2>9, <2>15
  <2>17. \A j \in 1..n : w.structs[j] = structs[j]
    <3>1. \A j \in 1..n : j \in 1..(n + 1) /\ j # n + 1
      OBVIOUS
    <3>2. \A j \in 1..n : u.structs[j] = structs[j]
      BY <2>7, <2>8, <3>1
    <3> QED BY <2>9, <2>15, <3>1, <3>2
  <2>18. y.id = FreshId(structs) /\ StructOf(structs, a, p) = {}
    BY <1>8, <2>13 DEF id, I
  <2>19. Extends(structs, w.structs, y)
    <3>1. PICK e \in Nat : e = n + 1
      OBVIOUS
    <3> QED BY <2>2, <2>16, <2>17, <3>1 DEF Extends
  <2>20. Describes(y.off, y.size, area[a].frames)
    BY <2>6, <2>11, <2>13 DEF Alike
  <2>21. Tells
    <3> DEFINE r == [off |-> off, size |-> x.size, area |-> a, h |-> h]
    <3>1. r.off = off /\ r.size = size /\ r.area = a /\ r.h = h
      BY <2>11
    <3>2. told' = [told EXCEPT ![t] = r]
      BY <2>5, <2>9 DEF k
    <3> HIDE DEF r
    <3>3. TrueOf(Now, r)
      BY <1>6, <2>6, <3>1
    <3> QED BY <2>5, <3>2, <3>3, ToldMore
  <2> QED BY <1>1, <1>3, <2>1, <2>13, <2>14, <2>15, <2>18, <2>19, <2>20, <2>21, NewRecordStep
<1> QED BY <1>7, <1>8

(* us are the mappings that do not have the number.                        *)
Others(vs, us, id) ==
  us \subseteq vs /\ (\A v \in us : v.id # id) /\ \A v \in vs \ us : v.id = id

(* tt has y where ss has another record of the same process.               *)
Replaces(ss, tt, i, y) ==
  /\ DOMAIN tt = DOMAIN ss /\ tt[i] = y /\ \A j \in DOMAIN ss : j # i => tt[j] = ss[j]
  /\ y.id = ss[i].id /\ y.pid = ss[i].pid /\ y.mapped \in Nat \ {0}

IsMappingOf(w, y) == w.id = y.id /\ w.p = y.pid /\ w.parts = y.mapped

(* The mapping w of record i takes the place of the one there was.         *)
LEMMA MapSet ==
  ASSUME NEW vs, NEW ss, NEW tt, MapInv(vs, ss), RecInv(ss), NEW i \in DOMAIN ss, NEW y, NEW us, NEW w,
         Others(vs, us, ss[i].id), Replaces(ss, tt, i, y), IsMappingOf(w, y)
  PROVE  MapInv(us \cup {w}, tt)
<1> USE DEF Others, Replaces, IsMappingOf
<1>1. IsFiniteSet(us)
  BY FS_Subset DEF MapInv
<1>2. IsFiniteSet(us \cup {w})
  BY <1>1, FS_AddElement
<1>3. IsRecord(ss[i])
  BY DEF RecInv
<1>4. \A v \in us \cup {w} : v.id \in Nat /\ v.parts \in Nat \ {0}
  BY <1>3 DEF MapInv, IsRecord
<1>5. \A v, u \in us \cup {w} : v.id = u.id => v = u
  BY DEF MapInv
<1>6. ASSUME NEW v \in us \cup {w}
      PROVE  \E j \in DOMAIN tt : tt[j].id = v.id /\ tt[j].pid = v.p /\ tt[j].mapped = v.parts
  <2>1. CASE v = w
    BY <2>1
  <2>2. CASE v \in us
    <3>1. PICK j \in DOMAIN ss : ss[j].id = v.id /\ ss[j].pid = v.p /\ ss[j].mapped = v.parts
      BY <2>2 DEF MapInv
    <3>2. j # i
      BY <2>2, <3>1
    <3> QED BY <3>1, <3>2
  <2> QED BY <2>1, <2>2
<1>7. ASSUME NEW j \in DOMAIN tt, tt[j].mapped # 0 PROVE \E v \in us \cup {w} : v.id = tt[j].id
  <2>1. CASE j = i
    BY <2>1
  <2>2. CASE j # i
    <3>1. PICK v \in vs : v.id = ss[j].id
      BY <1>7, <2>2 DEF MapInv
    <3>2. v.id # ss[i].id
      BY <2>2, <3>1 DEF RecInv
    <3> QED BY <2>2, <3>1, <3>2
  <2> QED BY <2>1, <2>2
<1> QED BY <1>2, <1>4, <1>5, <1>6, <1>7 DEF MapInv

(* The record of a mapping.                                                *)
LEMMA RecordOfMapping ==
  ASSUME MInv, NEW v \in vmas
  PROVE  LET i == Min(WithId(structs, v.id))
         IN  /\ i \in DOMAIN structs /\ structs[i].id = v.id /\ structs[i].pid = v.p
             /\ structs[i].mapped = v.parts /\ v.parts \in Nat \ {0} /\ IsRecord(structs[i])
             /\ structs[i].onList = FALSE
             /\ v.p \in Procs /\ proc[v.p] = "up" /\ IsMapping(v)
             /\ \A u \in vmas \ {v} : u.id # structs[i].id
<1> DEFINE I == WithId(structs, v.id)
           i == Min(I)
<1>1. RecInv(structs) /\ MapInv(vmas, structs) /\ ProcInv(proc, handles, vmas, structs)
  BY DEF MInv
<1>2. PICK j \in DOMAIN structs :
         structs[j].id = v.id /\ structs[j].pid = v.p /\ structs[j].mapped = v.parts
  BY <1>1 DEF MapInv
<1>3. I = {j}
  BY <1>1, <1>2 DEF WithId, RecInv
<1>4. DOMAIN structs \subseteq Nat
  BY <1>1 DEF RecInv, IsList
<1> HIDE DEF I
<1>5. i = j
  <2>1. I \subseteq Nat /\ I # {}
    BY <1>3, <1>4
  <2>2. i \in I
    BY <2>1, MinIn
  <2> QED BY <1>3, <2>2
<1>6. IsRecord(structs[j]) /\ (structs[j].onList <=> structs[j].mapped = 0) /\ v.parts \in Nat \ {0}
  BY <1>1 DEF RecInv, MapInv
<1>7. structs[j].onList = FALSE
  BY <1>2, <1>6 DEF IsRecord
<1>8. v.p \in Procs /\ proc[v.p] = "up" /\ IsMapping(v)
  BY <1>1 DEF ProcInv
<1>9. \A u \in vmas \ {v} : u.id # structs[j].id
  BY <1>1, <1>2 DEF MapInv
<1> HIDE DEF i
<1> QED BY <1>2, <1>5, <1>6, <1>7, <1>8, <1>9 DEF i, I

(* A mapping gets another number of parts, which its record counts.        *)
LEMMA PartsStep ==
  ASSUME MInv, NEW v \in vmas, NEW i, i = Min(WithId(structs, v.id)), NEW n \in Nat \ {0},
         structs' = [structs EXCEPT ![i].mapped = n], frame' = frame, area' = area,
         vmas' = (vmas \ {v}) \cup {[v EXCEPT !.parts = n]}, Quiet, UNCHANGED <<handles, proc, load>>
  PROVE  MInv'
<1> DEFINE y == [structs[i] EXCEPT !.mapped = n]
           w == [v EXCEPT !.parts = n]
           s == [Now EXCEPT !.structs = [structs EXCEPT ![i] = y]]
<1>1. /\ i \in DOMAIN structs /\ structs[i].id = v.id /\ structs[i].pid = v.p
      /\ IsRecord(structs[i]) /\ structs[i].onList = FALSE
      /\ v.p \in Procs /\ proc[v.p] = "up" /\ IsMapping(v)
      /\ \A u \in vmas \ {v} : u.id # structs[i].id
  BY RecordOfMapping
<1>2. RecInv(structs) /\ MapInv(vmas, structs) /\ ProcInv(proc, handles, vmas, structs)
  BY DEF MInv
<1>3. /\ IsRecord(y) /\ y.onList = structs[i].onList /\ y.mapped = n
      /\ y.id = structs[i].id /\ y.pid = structs[i].pid /\ Alike(y, structs[i])
  BY <1>1 DEF IsRecord, Alike
<1>4. IsMapping(w) /\ w.id = v.id /\ w.p = v.p /\ w.parts = n
  BY <1>1 DEF IsMapping
<1>5. structs' = [structs EXCEPT ![i] = y] /\ vmas' = (vmas \ {v}) \cup {w}
  BY <1>1
<1> HIDE DEF y, w
<1>6. IsState(s) /\ s.area = area /\ s.frame = frame /\ s.structs = [structs EXCEPT ![i] = y]
  BY NowFacts DEF IsState
<1> HIDE DEF s
<1>7. Becomes(s)
  BY <1>5, <1>6 DEF Becomes
<1>8. (y.onList <=> y.mapped = 0) /\ y.mapped \in Nat \ {0}
  BY <1>1, <1>3
<1>9. /\ DOMAIN s.structs = DOMAIN structs /\ s.structs[i] = y
      /\ \A j \in DOMAIN structs : j # i => s.structs[j] = structs[j]
  BY <1>1, <1>6
<1>10. MapInv((vmas \ {v}) \cup {w}, s.structs)
  <2>1. Others(vmas, vmas \ {v}, structs[i].id)
    BY <1>1 DEF Others
  <2>2. Replaces(structs, s.structs, i, y) /\ IsMappingOf(w, y)
    BY <1>1, <1>3, <1>4, <1>8, <1>9 DEF Replaces, IsMappingOf
  <2> QED BY <1>1, <1>2, <2>1, <2>2, MapSet
<1>11. \A u \in vmas' : u.p \in Procs /\ proc[u.p] = "up" /\ IsMapping(u)
  BY <1>1, <1>2, <1>4, <1>5 DEF ProcInv
<1>12. MapInv(vmas', s.structs)
  BY <1>5, <1>10
<1>13. Tells
  BY QuietTells
<1> QED BY <1>1, <1>3, <1>6, <1>7, <1>8, <1>11, <1>12, <1>13, RecordStep

(* A mapping that is split keeps the invariant.                            *)
LEMMA VOpenStep ==
  ASSUME MInv, NEW v \in vmas, MMapVOpen(v)
  PROVE  MInv'
<1> DEFINE i == Min(WithId(structs, v.id))
<1>1. /\ structs' = [structs EXCEPT ![i].mapped = structs[i].mapped + 1]
      /\ vmas' = (vmas \ {v}) \cup {[v EXCEPT !.parts = v.parts + 1]}
      /\ UNCHANGED <<frame, area, handles, anon, told, proc, load>>
  BY DEF MMapVOpen
<1>2. structs[i].mapped = v.parts /\ v.parts \in Nat \ {0}
  BY RecordOfMapping
<1> HIDE DEF i
<1>3. PICK n \in Nat \ {0} : n = v.parts + 1
  BY <1>2
<1>4. structs' = [structs EXCEPT ![i].mapped = n] /\ vmas' = (vmas \ {v}) \cup {[v EXCEPT !.parts = n]}
  BY <1>1, <1>2, <1>3
<1>5. Quiet
  BY <1>1, SameQuiet
<1> QED BY <1>1, <1>3, <1>4, <1>5, PartsStep DEF i

(* One record is destroyed.                                                *)
LEMMA DestroyOne ==
  ASSUME MInv, NEW i \in DOMAIN structs, NEW s, s = DestroyAll(Now, {i})
  PROVE  /\ IsState(s) /\ s.area = area /\ IsList(s.structs)
         /\ \A k, l \in DOMAIN s.structs : s.structs[k].id = s.structs[l].id => k = l
         /\ \A k \in DOMAIN s.structs : \E j \in DOMAIN structs \ {i} : s.structs[k] = structs[j]
         /\ \A j \in DOMAIN structs \ {i} : \E k \in DOMAIN s.structs : s.structs[k] = structs[j]
         /\ structs[i].mapped = 0 => Shrinks(structs, s.structs)
<1> DEFINE u == Now
           J == {i}
<1>1. IsState(u) /\ u.area = area /\ u.structs = structs /\ RecInv(u.structs)
  BY NowFacts DEF MInv
<1>2. J \in SUBSET DOMAIN u.structs
  BY <1>1
<1>3. s = DestroyAll(u, J)
  OBVIOUS
<1> HIDE DEF u
<1>4. \A j : j \in J <=> j = i
  OBVIOUS
<1>5. DOMAIN structs \ J = DOMAIN structs \ {i}
  OBVIOUS
<1> HIDE DEF J
<1> DEFINE P(x) == /\ IsState(x) /\ x.area = u.area /\ IsList(x.structs)
                   /\ \A k, l \in DOMAIN x.structs : x.structs[k].id = x.structs[l].id => k = l
                   /\ \A k \in DOMAIN x.structs : \E j \in DOMAIN u.structs \ J : x.structs[k] = u.structs[j]
                   /\ \A j \in DOMAIN u.structs \ J : \E k \in DOMAIN x.structs : x.structs[k] = u.structs[j]
                   /\ (\A j \in J : u.structs[j].mapped = 0) => Shrinks(u.structs, x.structs)
<1>6. P(s)
  <2>1. P(DestroyAll(u, J))
    BY <1>1, <1>2, DestroyFacts
  <2> HIDE DEF P
  <2> QED BY <1>3, <2>1
<1> QED BY <1>1, <1>4, <1>5, <1>6

(* A part of a mapping that goes keeps the invariant, the last part too.   *)
LEMMA VCloseStep ==
  ASSUME MInv, NEW v \in vmas, MMapVClose(v)
  PROVE  MInv'
<1> DEFINE i == Min(WithId(structs, v.id))
           s == MMapVCloseNoLock(Now, i)
           N == NamesOf(handles)
<1>1. /\ \/ v.parts > 1 /\ Becomes(s) /\ vmas' = (vmas \ {v}) \cup {[v EXCEPT !.parts = v.parts - 1]}
         \/ ~(v.parts > 1) /\ Becomes(IF v.raw THEN s ELSE PutPages(s, v.frames)) /\ vmas' = vmas \ {v}
      /\ UNCHANGED <<handles, proc, load>>
  BY DEF MMapVClose
<1>2. Quiet
  BY SameQuiet DEF MMapVClose
<1>3. /\ i \in DOMAIN structs /\ structs[i].id = v.id
      /\ structs[i].mapped = v.parts /\ v.parts \in Nat \ {0}
      /\ IsRecord(structs[i]) /\ \A u \in vmas \ {v} : u.id # structs[i].id
  BY RecordOfMapping
<1>4. AreaInv(Now, N, ToldOf(told')) /\ InOrder(Now) /\ RecInv(structs) /\ MapInv(vmas, structs)
      /\ ProcInv(proc, handles, vmas, structs)
  BY <1>2, NowInv, QuietTells, TellsInv DEF MInv
<1>5. IsState(Now) /\ Now.area = area /\ Now.structs = structs /\ Now.frame = frame
  BY NowFacts
<1> HIDE DEF N
<1>6. CASE v.parts > 1 /\ Becomes(s) /\ vmas' = (vmas \ {v}) \cup {[v EXCEPT !.parts = v.parts - 1]}
  <2>1. PICK n \in Nat \ {0} : n = v.parts - 1
    BY <1>3, <1>6
  <2>2. s = [Now EXCEPT !.structs[i].mapped = Now.structs[i].mapped - 1]
    BY <1>3, <1>5, <1>6 DEF MMapVCloseNoLock
  <2> HIDE DEF i, s
  <2>3. s = [Now EXCEPT !.structs = [structs EXCEPT ![i].mapped = n]]
    BY <1>3, <1>5, <2>1, <2>2
  <2>4. s.frame = frame /\ s.area = area /\ s.structs = [structs EXCEPT ![i].mapped = n]
    BY <1>5, <2>3 DEF IsState
  <2>5. frame' = frame /\ area' = area /\ structs' = [structs EXCEPT ![i].mapped = n]
    BY <1>6, <2>4 DEF Becomes
  <2>6. vmas' = (vmas \ {v}) \cup {[v EXCEPT !.parts = n]}
    BY <1>6, <2>1
  <2> QED BY <1>1, <1>2, <2>1, <2>5, <2>6, PartsStep DEF i
<1>7. CASE ~(v.parts > 1) /\ Becomes(IF v.raw THEN s ELSE PutPages(s, v.frames)) /\ vmas' = vmas \ {v}
  <2> DEFINE y == [[structs[i] EXCEPT !.mapped = 0] EXCEPT !.onList = Yes]
             ss == [structs EXCEPT ![i] = y]
             u == [Now EXCEPT !.structs = ss]
             w == IF v.raw THEN s ELSE PutPages(s, v.frames)
  <2>1. v.parts = 1
    BY <1>3, <1>7
  <2>2. s = DestroyAll(Now, {i})
    BY <1>3, <1>5, <2>1 DEF MMapVCloseNoLock, DestroyOffsetStruct
  <2> HIDE DEF i
  <2>3. /\ IsState(s) /\ s.area = area /\ IsList(s.structs)
        /\ \A k, l \in DOMAIN s.structs : s.structs[k].id = s.structs[l].id => k = l
        /\ \A k \in DOMAIN s.structs : \E j \in DOMAIN structs \ {i} : s.structs[k] = structs[j]
        /\ \A j \in DOMAIN structs \ {i} : \E k \in DOMAIN s.structs : s.structs[k] = structs[j]
    BY <1>3, <2>2, DestroyOne
  <2> HIDE DEF s
  <2>4. IsState(w) /\ w.area = area /\ w.structs = s.structs
    BY <2>3, PagesFacts
  <2>5. /\ IsRecord(y) /\ y.mapped = 0 /\ y.onList = Yes /\ y.id = structs[i].id
        /\ Alike(y, structs[i]) /\ y.pid = structs[i].pid
    <3> DEFINE x == [structs[i] EXCEPT !.mapped = 0]
    <3>1. /\ IsRecord(x) /\ x.mapped = 0 /\ x.id = structs[i].id
          /\ Alike(x, structs[i]) /\ x.pid = structs[i].pid
      BY <1>3 DEF IsRecord, Alike
    <3>2. Yes \in BOOLEAN
      BY DEF Yes
    <3> HIDE DEF x
    <3>3. y = [x EXCEPT !.onList = Yes]
      BY DEF x
    <3> HIDE DEF y
    <3> QED BY <3>1, <3>2, <3>3 DEF IsRecord, Alike
  <2>6. y.onList <=> y.mapped = 0
    BY <2>5 DEF Yes
  <2> HIDE DEF y, w
  <2>7. /\ RecInv(ss) /\ DOMAIN ss = DOMAIN structs /\ ss[i] = y
        /\ \A j \in DOMAIN structs : j # i => ss[j] = structs[j]
        /\ \A j \in DOMAIN structs : /\ ss[j].id = structs[j].id /\ ss[j].pid = structs[j].pid
                                     /\ Alike(ss[j], structs[j])
    BY <1>3, <1>4, <2>5, <2>6, RecordChange
  <2> HIDE DEF ss
  <2>8. IsState(u) /\ u.area = area /\ u.structs = ss
    BY <1>5 DEF IsState
  <2> HIDE DEF u
  <2>9. AreaInv(u, N, ToldOf(told')) /\ InOrder(u)
    BY <1>4, <1>5, <2>7, <2>8, SameRecords
  <2>10. MapInv(vmas \ {v}, ss)
    <3>1. IsFiniteSet(vmas \ {v})
      BY <1>4, FS_RemoveElement DEF MapInv
    <3>2. ASSUME NEW r \in vmas \ {v}
          PROVE  \E j \in DOMAIN ss : ss[j].id = r.id /\ ss[j].pid = r.p /\ ss[j].mapped = r.parts
      <4>1. PICK j \in DOMAIN structs :
               structs[j].id = r.id /\ structs[j].pid = r.p /\ structs[j].mapped = r.parts
        BY <1>4 DEF MapInv
      <4>2. j # i
        BY <1>3, <4>1
      <4> QED BY <2>7, <4>1, <4>2
    <3>3. ASSUME NEW j \in DOMAIN ss, ss[j].mapped # 0 PROVE \E r \in vmas \ {v} : r.id = ss[j].id
      <4>1. j # i
        BY <2>5, <2>7, <3>3
      <4>2. ss[j] = structs[j] /\ structs[j].id # structs[i].id
        BY <1>3, <1>4, <2>7, <4>1 DEF RecInv
      <4>3. PICK r \in vmas : r.id = structs[j].id
        BY <1>4, <2>7, <3>3, <4>2 DEF MapInv
      <4> QED BY <1>3, <4>2, <4>3
    <3> QED BY <1>4, <3>1, <3>2, <3>3 DEF MapInv
  <2>11. Shrinks(ss, w.structs)
    <3>1. \A k \in DOMAIN w.structs : \E j \in DOMAIN ss : w.structs[k] = ss[j]
      BY <2>3, <2>4, <2>7
    <3>2. \A j \in DOMAIN ss : ss[j].mapped # 0 => j # i
      BY <2>5, <2>7
    <3>3. \A j \in DOMAIN ss : ss[j].mapped # 0 => \E k \in DOMAIN w.structs : w.structs[k] = ss[j]
      BY <2>3, <2>4, <2>7, <3>2
    <3> QED BY <2>3, <2>4, <3>1, <3>3 DEF Shrinks
  <2>12. AreaInv(w, N, ToldOf(told')) /\ InOrder(w)
    BY <2>4, <2>8, <2>9, <2>11, ShrinkArea
  <2>13. RecInv(w.structs) /\ MapInv(vmas \ {v}, w.structs)
    BY <2>7, <2>10, <2>11, ShrinkRec, ShrinkMap
  <2>14. Now' = w /\ structs' = w.structs
    <3>1. Becomes(w)
      BY <1>7 DEF w
    <3> QED BY <2>4, <3>1, BecomesNow
  <2>15. NamesOf(handles)' = N
    BY <1>1 DEF NamesOf, N
  <2>16. ProcInv(proc, handles, vmas, structs)'
    <3>1. \A k \in DOMAIN w.structs : \E j \in DOMAIN structs : w.structs[k] = structs[j]
      BY <2>3, <2>4
    <3>2. \A r \in vmas' : r \in vmas
      BY <1>7
    <3> QED BY <1>1, <1>4, <2>14, <3>1, <3>2 DEF ProcInv
  <2> QED BY <1>1, <1>2, <1>7, <2>12, <2>13, <2>14, <2>15, <2>16 DEF MInv, Quiet
<1> QED BY <1>1, <1>6, <1>7

(* What mapping changes of a record.                                       *)
LEMMA TakenOffFacts ==
  ASSUME NEW k, IsRecord(k)
  PROVE  LET y == [TakenOffList(k) EXCEPT !.mapped = k.mapped + 1]
         IN  /\ IsRecord(y) /\ y.onList = FALSE /\ y.mapped = k.mapped + 1
             /\ y.id = k.id /\ y.pid = k.pid /\ Alike(y, k)
<1> DEFINE x == TakenOffList(k)
           y == [x EXCEPT !.mapped = k.mapped + 1]
<1>1. x = [k EXCEPT !.onList = No, !.uva = Yes]
  BY DEF TakenOffList, Yes, No
<1>2. No \in BOOLEAN /\ No = FALSE
  BY DEF No
<1> HIDE DEF x
<1>3. IsRecord(x) /\ x.onList = No /\ x.mapped = k.mapped /\ x.id = k.id /\ x.pid = k.pid /\ Alike(x, k)
  BY <1>1, <1>2 DEF IsRecord, Alike
<1>4. IsRecord(y) /\ y.onList = No /\ y.mapped = k.mapped + 1 /\ y.id = k.id /\ y.pid = k.pid /\ Alike(y, k)
  BY <1>3 DEF IsRecord, Alike
<1> HIDE DEF y
<1> QED BY <1>2, <1>4 DEF x, y

(* The record a thread maps by is taken off the list and counts one        *)
(* mapping more; nothing else changes.                                     *)
LEMMA TakenOffState ==
  ASSUME NEW s, IsState(s), NEW i \in DOMAIN s.structs, IsRecord(s.structs[i]), NEW k, k = s.structs[i]
  PROVE  LET y == [TakenOffList(k) EXCEPT !.mapped = k.mapped + 1]
             t == MMapVOpenNoLock([s EXCEPT !.structs[i] = TakenOffList(@)], i)
         IN  /\ IsState(t) /\ t.area = s.area /\ t.frame = s.frame
             /\ t.structs = [s.structs EXCEPT ![i] = y]
<1> DEFINE y == [TakenOffList(k) EXCEPT !.mapped = k.mapped + 1]
           u == [s EXCEPT !.structs[i] = TakenOffList(@)]
           t == MMapVOpenNoLock(u, i)
           z == TakenOffList(k)
           ss == [s.structs EXCEPT ![i] = z]
<1>1. z.mapped = k.mapped
  BY DEF TakenOffList, IsRecord
<1>2. u = [s EXCEPT !.structs = ss]
  OBVIOUS
<1> HIDE DEF z, u
<1>3. IsState(u) /\ u.area = s.area /\ u.structs = ss /\ u.frame = s.frame
  BY <1>2 DEF IsState
<1>4. ss[i] = z
  OBVIOUS
<1>5. t = [u EXCEPT !.structs = [ss EXCEPT ![i] = [z EXCEPT !.mapped = z.mapped + 1]]]
  BY <1>3, <1>4 DEF MMapVOpenNoLock
<1>6. y = [z EXCEPT !.mapped = z.mapped + 1]
  BY <1>1 DEF z
<1> HIDE DEF y, t
<1>7. [ss EXCEPT ![i] = y] = [s.structs EXCEPT ![i] = y]
  OBVIOUS
<1> HIDE DEF ss
<1>8. IsState(t) /\ t.area = s.area /\ t.frame = s.frame /\ t.structs = [s.structs EXCEPT ![i] = y]
  BY <1>3, <1>5, <1>6, <1>7 DEF IsState
<1> QED BY <1>8 DEF t, u, y

(* DoMapToUser changes neither areas nor records.                          *)
LEMMA DoMapFacts ==
  ASSUME NEW s, IsState(s), NEW a, NEW off, NEW raw
  PROVE  LET m == DoMapToUser(s, a, off, raw)
         IN  IsState(m.s) /\ m.s.area = s.area /\ m.s.structs = s.structs
<1> DEFINE m == DoMapToUser(s, a, off, raw)
           g == GetPages(s, s.area[a].frames)
<1>1. m.s = s \/ m.s = g
  BY DEF DoMapToUser
<1>2. IsState(g) /\ g.area = s.area /\ g.structs = s.structs
  BY PagesFacts
<1> HIDE DEF m, g
<1>3. IsState(m.s) /\ m.s.area = s.area /\ m.s.structs = s.structs
  BY <1>1, <1>2
<1> QED BY <1>3 DEF m

(* What a record that is found by an offset is like: nothing is mapped by  *)
(* it.                                                                     *)
LEMMA FoundFacts ==
  ASSUME MInv, NEW t, NEW off, NEW size, FindOffsetStructByOffset(t, off, size) # {}
  PROVE  LET i == Min(FindOffsetStructByOffset(t, off, size))
         IN  /\ i \in DOMAIN structs /\ IsRecord(structs[i]) /\ structs[i].mapped = 0
             /\ structs[i].pid = ProcOf[t] /\ \A v \in vmas : v.id # structs[i].id
             /\ structs[i].onList /\ structs[i].off = off /\ structs[i].size = size
<1> DEFINE I == FindOffsetStructByOffset(t, off, size)
           i == Min(I)
<1>1. RecInv(structs) /\ MapInv(vmas, structs)
  BY DEF MInv
<1>2. /\ I \subseteq DOMAIN structs
      /\ \A j \in I : /\ structs[j].onList /\ structs[j].pid = ProcOf[t]
                      /\ structs[j].off = off /\ structs[j].size = size
  BY DEF FindOffsetStructByOffset
<1>3. DOMAIN structs \subseteq Nat
  BY <1>1 DEF RecInv, IsList
<1>4. I # {}
  OBVIOUS
<1> HIDE DEF I
<1>5. i \in I
  BY <1>2, <1>3, <1>4, MinIn
<1> HIDE DEF i
<1>6. i \in DOMAIN structs /\ IsRecord(structs[i]) /\ structs[i].mapped = 0 /\ structs[i].pid = ProcOf[t]
      /\ structs[i].onList /\ structs[i].off = off /\ structs[i].size = size
  BY <1>1, <1>2, <1>5 DEF RecInv
<1>7. ASSUME NEW v \in vmas PROVE v.id # structs[i].id
  <2>1. PICK j \in DOMAIN structs :
           structs[j].id = v.id /\ structs[j].mapped = v.parts /\ v.parts \in Nat \ {0}
    BY <1>1 DEF MapInv
  <2>2. j # i
    BY <1>6, <2>1
  <2> QED BY <1>1, <1>6, <2>1, <2>2 DEF RecInv
<1> QED BY <1>6, <1>7 DEF i, I

(* A thread forgets what it was told.                                      *)
LEMMA ToldLess ==
  ASSUME MInv, NEW t \in Threads, told' = [told EXCEPT ![t] = NotTold], anon' = anon
  PROVE  Quiet
<1>1. IsTold(told) /\ IsAnon(anon)
  BY DEF MInv
<1>2. DOMAIN told = Threads /\ told = [u \in Threads |-> told[u]]
  BY <1>1 DEF IsTold
<1>3. \A u \in Threads : told'[u] = IF u = t THEN NotTold ELSE told[u]
  BY <1>2
<1>4. IsTold(told')
  <2>1. told' = [u \in Threads |-> told'[u]]
    BY <1>2
  <2> QED BY <2>1 DEF IsTold
<1>5. ToldOf(told') \subseteq ToldOf(told)
  BY <1>3 DEF ToldOf
<1> QED BY <1>1, <1>4, <1>5 DEF Quiet

(* The record that a thread finds by what it was told has the frames of    *)
(* the memory it asked for, unless a handle names other memory by now.     *)
LEMMA FoundRight ==
  ASSUME MInv, NEW t \in Threads, NEW k, k = told[t], k # NotTold, NEW p \in Procs, ~HandleReused(p, k),
         NEW i \in DOMAIN structs, structs[i].onList, structs[i].pid = p, structs[i].off = k.off,
         structs[i].size = k.size
  PROVE  area[structs[i].area].frames = area[k.area].frames
<1>1. /\ AreaInv(Now, NamesOf(handles), ToldOf(told)) /\ Now.area = area /\ Now.structs = structs
      /\ Shown(Now, ToldOf(told))
  BY NowInv, NowFacts DEF AreaInv
<1>2. TrueOf(Now, k)
  BY <1>1 DEF Shown, ToldOf
<1>3. k.area \in Areas /\ k.h \in Handles /\ handles[p][k.h] = k.area
  BY <1>2 DEF TrueOf, HandleReused
<1>4. Describes(structs[i].off, structs[i].size, area[structs[i].area].frames) /\ structs[i].area \in Areas
  BY <1>1 DEF Shown, AreaInv
<1>5. CASE k.off[1] = "handle"
  BY <1>5 DEF HandleReused
<1>6. CASE k.off[1] = "pfn"
  <2>1. <<p, k.area>> \in NamesOf(handles)
    BY <1>3 DEF NamesOf
  <2>2. area[k.area].st = "live"
    BY <1>1, <2>1 DEF AreaInv
  <2>3. Describes(k.off, k.size, area[k.area].frames)
    BY <1>1, <1>2, <2>2 DEF TrueOf
  <2>4. IsList(area[k.area].frames) /\ IsList(area[structs[i].area].frames)
    BY <1>1, <1>3, <1>4 DEF AreaInv, Typed, IsArea, Framed
  <2> QED BY <1>4, <1>6, <2>3, <2>4, DescribesOne
<1> QED BY <1>4, <1>5, <1>6 DEF Describes

MappingOf(p, id, fs, raw, a, right) ==
  [p |-> p, id |-> id, parts |-> 1, frames |-> fs, raw |-> raw, area |-> a, right |-> right]

(* PVRMMap keeps the invariant, whether it finds the record, and whether   *)
(* mapping fails.                                                          *)
LEMMA PVRMMapStep ==
  ASSUME MInv, NEW t \in Threads, NEW raw, NEW fault, PVRMMap(t, raw, fault)
  PROVE  MInv'
<1> DEFINE p == ProcOf[t]
           off == told[t].off
           I == FindOffsetStructByOffset(t, off, told[t].size)
           i == Min(I)
           m == DoMapToUser(Now, structs[i].area, off, raw)
           N == NamesOf(handles)
           k == structs[i]
           ra == off[1] = "pfn" /\ raw
           ri == \/ area[k.area].frames = area[told[t].area].frames
                 \/ HandleReused(p, told[t])
           w == MappingOf(p, k.id, area[k.area].frames, ra, k.area, ri)
           u == [m.s EXCEPT !.structs[i] = TakenOffList(@)]
<1>1. p \in Procs /\ proc[p] = "up" /\ UNCHANGED <<handles, proc, load>>
  BY LoadsAssumption DEF PVRMMap, Up
<1>2. \/ I = {} /\ UNCHANGED <<frame, area, structs, vmas>>
      \/ I # {} /\ Becomes(DestroyOffsetStruct(Now, i)) /\ UNCHANGED vmas
      \/ I # {} /\ Becomes(MMapVOpenNoLock(u, i)) /\ vmas' = vmas \cup {w}
  BY DEF PVRMMap, MappingOf
<1>3. Quiet /\ told[t] # NotTold
  BY ToldLess DEF PVRMMap
<1>4. I # {} => /\ i \in DOMAIN structs /\ IsRecord(structs[i]) /\ structs[i].mapped = 0
                /\ structs[i].pid = p /\ \A v \in vmas : v.id # structs[i].id
                /\ structs[i].onList /\ structs[i].off = off /\ structs[i].size = told[t].size
  BY FoundFacts
<1>5. IsState(Now) /\ Now.area = area /\ Now.structs = structs /\ Now.frame = frame
  BY NowFacts
<1>6. CASE I = {} /\ UNCHANGED <<frame, area, structs, vmas>>
  <2>1. Becomes(Now)
    BY <1>5, <1>6 DEF Becomes
  <2> QED BY <1>1, <1>3, <1>5, <1>6, <2>1, IdleStep
<1>7. CASE I # {} /\ Becomes(DestroyOffsetStruct(Now, i)) /\ UNCHANGED vmas
  <2> DEFINE s == DestroyAll(Now, {i})
  <2>1. Becomes(s)
    BY <1>7 DEF DestroyOffsetStruct
  <2>2. i \in DOMAIN structs /\ structs[i].mapped = 0
    BY <1>4, <1>7
  <2> HIDE DEF i, I
  <2>3. IsState(s) /\ s.area = area /\ Shrinks(structs, s.structs)
    <3>1. PICK d : d = s
      OBVIOUS
    <3> QED BY <2>2, <3>1, DestroyOne
  <2> HIDE DEF s
  <2>4. AreaInv(s, N, ToldOf(told)) /\ InOrder(s)
    BY <1>5, <2>3, NowInv, ShrinkArea
  <2>5. handles' \in [Procs -> [Handles -> Areas \cup {NoArea}]]
        /\ \A q \in Procs, h \in Handles : handles'[q][h] \in {handles[q][h], NoArea}
    BY <1>1 DEF MInv
  <2>6. NamesOf(handles)' \subseteq N
    BY <1>1 DEF NamesOf
  <2> HIDE DEF N
  <2> QED BY <1>1, <1>3, <1>7, <2>1, <2>3, <2>4, <2>5, <2>6, DropStep
<1>8. CASE I # {} /\ Becomes(MMapVOpenNoLock(u, i)) /\ vmas' = vmas \cup {w}
  <2> DEFINE y == [TakenOffList(k) EXCEPT !.mapped = k.mapped + 1]
             s == MMapVOpenNoLock(u, i)
  <2>1. /\ i \in DOMAIN structs /\ IsRecord(k) /\ k.mapped = 0
        /\ k.pid = p /\ (\A v \in vmas : v.id # k.id)
        /\ k.onList /\ k.off = off /\ k.size = told[t].size
    BY <1>4, <1>8
  <2> HIDE DEF i, I
  <2>2. IsState(m.s) /\ m.s.area = area /\ m.s.structs = structs
    BY <1>5, DoMapFacts
  <2> HIDE DEF m
  <2>3. /\ IsRecord(y) /\ y.onList = FALSE /\ y.mapped = k.mapped + 1
        /\ y.id = k.id /\ y.pid = k.pid /\ Alike(y, k)
    BY <2>1, TakenOffFacts
  <2>4. s.frame = m.s.frame /\ s.area = area /\ s.structs = [structs EXCEPT ![i] = y] /\ IsState(s)
    BY <2>1, <2>2, TakenOffState
  <2>5. Becomes(s) /\ vmas' = vmas \cup {w}
    BY <1>8
  <2> HIDE DEF y, s
  <2>6. IsMapping(w) /\ w.p = p /\ w.id = k.id /\ w.parts = 1
    <3>1. ri
      BY <1>1, <1>3, <2>1, FoundRight
    <3>2. IsList(area[k.area].frames)
      BY <1>5, <2>1, NowInv DEF AreaInv, Typed, IsArea, Framed
    <3>3. ri = TRUE
      <4> HIDE DEF ri
      <4> QED BY <3>1
    <3> DEFINE fs == area[k.area].frames
    <3> HIDE DEF ra, ri, p, k, fs
    <3> QED BY <3>2, <3>3 DEF IsMapping, MappingOf, fs
  <2> HIDE DEF w
  <2>7. y.mapped = 1 /\ (y.onList <=> y.mapped = 0)
    BY <2>1, <2>3
  <2>8. MapInv(vmas \cup {w}, s.structs)
    <3>1. MapInv(vmas, structs) /\ RecInv(structs)
      BY DEF MInv
    <3>2. Others(vmas, vmas, structs[i].id)
      BY <2>1 DEF Others
    <3>3. Replaces(structs, s.structs, i, y) /\ IsMappingOf(w, y)
      BY <2>1, <2>3, <2>4, <2>6, <2>7 DEF Replaces, IsMappingOf
    <3> QED BY <2>1, <3>1, <3>2, <3>3, MapSet
  <2>9. MapInv(vmas', s.structs) /\ \A v \in vmas' : v.p \in Procs /\ proc[v.p] = "up" /\ IsMapping(v)
    BY <1>1, <2>5, <2>6, <2>8 DEF MInv, ProcInv
  <2>10. Tells
    BY <1>3, QuietTells
  <2> QED BY <1>1, <2>1, <2>3, <2>4, <2>5, <2>7, <2>9, <2>10, RecordStep
<1> QED BY <1>2, <1>6, <1>7, <1>8

(* Every step keeps the invariant.                                         *)
LEMMA NextStep == MInv /\ [Next]_vars => MInv'
<1> SUFFICES ASSUME MInv, [Next]_vars PROVE MInv'
  OBVIOUS
<1>1. ASSUME UNCHANGED vars PROVE MInv'
  <2>1. Becomes(Now) /\ UNCHANGED <<vmas, handles, proc, load>> /\ Quiet
    BY <1>1, NowFacts, SameQuiet DEF vars, Becomes
  <2> QED BY <2>1, NowFacts, IdleStep
<1>2. load.threads \subseteq Threads
  BY LoadsAssumption DEF MInv
<1>3. ASSUME NEW p \in Procs, NEW h \in Handles, NEW a \in Areas,
             \/ \E kind \in {"single", "multi"} : \E fs \in PagesFor(Free(Now)) : \E got \in 0 .. Len(fs) :
                   /\ kind = "multi" => got = Len(fs)
                   /\ AllocWhole(p, h, a, kind, fs, got)
             \/ AllocSub(p, h, a)
             \/ \E f \in IOFrames, kind \in {"io", "ioremap"} : WrapPhys(p, h, a, f, kind)
             \/ \E got \in 0 .. 2, u \in BOOLEAN :
                   /\ got <= Len(anon[p]) /\ anon[p] # <<>>
                   /\ WrapExt(p, h, a, anon[p], "gup", got, u)
             \/ \E v \in vmas : v.p = p /\ WrapExt(p, h, a, v.frames, "vma", Len(v.frames), FALSE)
             \/ \E b \in Areas : MapExported(p, h, a, b)
      PROVE  MInv'
  <2>1. CASE \E kind \in {"single", "multi"} : \E fs \in PagesFor(Free(Now)) : \E got \in 0 .. Len(fs) :
                /\ kind = "multi" => got = Len(fs)
                /\ AllocWhole(p, h, a, kind, fs, got)
    BY <2>1, AllocWholeStep
  <2>2. CASE AllocSub(p, h, a)
    BY <2>2, AllocSubStep
  <2>3. CASE \E f \in IOFrames, kind \in {"io", "ioremap"} : WrapPhys(p, h, a, f, kind)
    BY <2>3, WrapPhysStep
  <2>4. CASE \E got \in 0 .. 2, u \in BOOLEAN : WrapExt(p, h, a, anon[p], "gup", got, u)
    <3>1. IsList(anon[p])
      BY DEF MInv, IsAnon
    <3> QED BY <2>4, <3>1, WrapExtStep
  <2>5. CASE \E v \in vmas : WrapExt(p, h, a, v.frames, "vma", Len(v.frames), FALSE)
    <3>1. PICK v \in vmas : WrapExt(p, h, a, v.frames, "vma", Len(v.frames), FALSE)
      BY <2>5
    <3>2. FALSE \in BOOLEAN /\ IsList(v.frames)
      BY DEF MInv, ProcInv, IsMapping
    <3> QED BY <3>1, <3>2, WrapExtStep
  <2>6. CASE \E b \in Areas : MapExported(p, h, a, b)
    BY <2>6, MapExportedStep
  <2> QED BY <1>3, <2>1, <2>2, <2>3, <2>4, <2>5, <2>6
<1>4. ASSUME NEW p \in Procs, NEW q \in Procs, NEW h \in Handles, NEW k \in Handles, SecondHandle(p, h, q, k)
      PROVE  MInv'
  BY <1>4, SecondHandleStep
<1>5. ASSUME NEW p \in Procs, NEW h \in Handles, FreeMemory(p, h) PROVE MInv'
  BY <1>5, FreeMemoryStep
<1>6. ASSUME NEW p \in Procs, FreeAnon(p) PROVE MInv'
  BY <1>6, FreeAnonStep
<1>7. ASSUME NEW t \in load.threads, NEW h \in Handles, PVRMMapOSMemHandleToMMapData(t, h) PROVE MInv'
  BY <1>2, <1>7, ToMMapDataStep
<1>8. ASSUME NEW t \in load.threads, NEW h \in Handles, PVRMMapReleaseMMapData(t, h) PROVE MInv'
  BY <1>2, <1>8, ReleaseMMapDataStep
<1>9. ASSUME NEW t \in load.threads, NEW raw \in BOOLEAN, NEW fault \in BOOLEAN, PVRMMap(t, raw, fault)
      PROVE  MInv'
  BY <1>2, <1>9, PVRMMapStep
<1>10. ASSUME NEW v \in vmas, MMapVOpen(v) PROVE MInv'
  BY <1>10, VOpenStep
<1>11. ASSUME NEW v \in vmas, MMapVClose(v) PROVE MInv'
  BY <1>11, VCloseStep
<1>12. ASSUME NEW p \in Procs, NEW current \in Procs, PVRSRVRelease(p, current) PROVE MInv'
  BY <1>12, ReleaseStep
<1>13. ASSUME PVRMMapCleanup PROVE MInv'
  BY <1>13, CleanupStep
<1> QED BY <1>1, <1>3, <1>4, <1>5, <1>6, <1>7, <1>8, <1>9, <1>10, <1>11, <1>12, <1>13 DEF Next

(* The parts of the mappings of a record, of which there is at most one.   *)
LEMMA PartsFacts ==
  ASSUME NEW id
  PROVE  /\ (\A v \in vmas : v.id # id) => PartsOf(id) = 0
         /\ \A w \in vmas : /\ w.id = id /\ w.parts \in Nat
                            /\ \A v \in vmas : v.id = id => v = w
                            => PartsOf(id) = w.parts
<1> DEFINE T == {v \in vmas : v.id = id}
           Eq(f) == f = [t \in SUBSET T |-> IF t = {} THEN 0
                           ELSE (CHOOSE x \in t : TRUE).parts + f[t \ {CHOOSE x \in t : TRUE}]]
<1>1. PICK f : f = CHOOSE h : Eq(h)
  OBVIOUS
<1>2. PartsOf(id) = f[T]
  BY <1>1, Zenon DEF PartsOf, MapThenSumSet, MapThenFoldSet
<1>3. ASSUME \A v \in vmas : v.id # id PROVE PartsOf(id) = 0
  <2> DEFINE g == [t \in {{}} |-> 0]
  <2>1. T = {} /\ SUBSET T = {{}}
    BY <1>3
  <2> HIDE DEF T
  <2>2. Eq(g)
    BY <2>1
  <2>3. Eq(f)
    <3> HIDE DEF Eq, g
    <3> QED BY <1>1, <2>2
  <2>4. f[{}] = 0
    BY <2>1, <2>3
  <2> QED BY <1>2, <2>1, <2>4
<1>4. ASSUME NEW w \in vmas, w.id = id, w.parts \in Nat, \A v \in vmas : v.id = id => v = w
      PROVE  PartsOf(id) = w.parts
  <2> DEFINE g == [t \in SUBSET T |-> IF t = {} THEN 0 ELSE w.parts + 0]
  <2>1. T = {w} /\ \A t \in SUBSET T : t = {} \/ t = {w}
    BY <1>4
  <2>2. (CHOOSE x \in {w} : TRUE) = w
    BY Zenon
  <2> HIDE DEF T
  <2>3. Eq(g)
    <3>1. ASSUME NEW t \in SUBSET T, t # {}
          PROVE  (CHOOSE x \in t : TRUE) = w /\ t \ {w} = {}
      BY <2>1, <2>2, <3>1
    <3>2. {} \in SUBSET T
      OBVIOUS
    <3>3. g[{}] = 0
      BY <3>2
    <3>4. \A t \in SUBSET T : t # {} =>
             g[t] = (CHOOSE x \in t : TRUE).parts + g[t \ {CHOOSE x \in t : TRUE}]
      BY <3>1, <3>3
    <3>5. \A t \in SUBSET T : g[t] = IF t = {} THEN 0
              ELSE (CHOOSE x \in t : TRUE).parts + g[t \ {CHOOSE x \in t : TRUE}]
      BY <3>3, <3>4
    <3>6. g = [t \in SUBSET T |-> g[t]]
      OBVIOUS
    <3> HIDE DEF g
    <3> QED BY <3>5, <3>6
  <2>4. Eq(f)
    <3> HIDE DEF Eq, g
    <3> QED BY <1>1, <2>3
  <2>5. f[{}] = 0 /\ f[{w}] = w.parts + f[{}]
    <3>1. {w} \in SUBSET T /\ {} \in SUBSET T /\ {w} # {} /\ {w} \ {w} = {}
      BY <2>1
    <3>2. f[{}] = 0
      BY <2>4, <3>1
    <3>3. f[{w}] = (CHOOSE x \in {w} : TRUE).parts + f[{w} \ {CHOOSE x \in {w} : TRUE}]
      BY <2>4, <3>1
    <3> QED BY <2>2, <3>1, <3>2, <3>3
  <2> QED BY <1>2, <1>4, <2>1, <2>5
<1> QED BY <1>3, <1>4

(* The invariant says what RecordsExact and NoRecordLeft ask for.          *)
LEMMA InvRecords == MInv => RecordsExact /\ NoRecordLeft
<1> SUFFICES ASSUME MInv PROVE RecordsExact /\ NoRecordLeft
  OBVIOUS
<1>1. RecInv(structs) /\ MapInv(vmas, structs) /\ ProcInv(proc, handles, vmas, structs)
  BY DEF MInv
<1>2. \A v \in vmas : WithId(structs, v.id) # {}
  BY <1>1 DEF MapInv, WithId
<1>3. ASSUME NEW i \in DOMAIN structs PROVE structs[i].mapped = PartsOf(structs[i].id)
  <2>1. IsRecord(structs[i])
    BY <1>1 DEF RecInv
  <2>2. CASE structs[i].mapped = 0
    <3>1. \A v \in vmas : v.id # structs[i].id
      <4> SUFFICES ASSUME NEW v \in vmas, v.id = structs[i].id PROVE FALSE
        OBVIOUS
      <4>1. PICK j \in DOMAIN structs : structs[j].id = v.id /\ structs[j].mapped = v.parts
        BY <1>1 DEF MapInv
      <4>2. j = i
        BY <1>1, <4>1 DEF RecInv
      <4> QED BY <1>1, <2>2, <4>1, <4>2 DEF MapInv
    <3> QED BY <2>2, <3>1, PartsFacts
  <2>3. CASE structs[i].mapped # 0
    <3>1. PICK v \in vmas : v.id = structs[i].id
      BY <1>1, <2>3 DEF MapInv
    <3>2. PICK j \in DOMAIN structs : structs[j].id = v.id /\ structs[j].mapped = v.parts
      BY <1>1 DEF MapInv
    <3>3. j = i
      BY <1>1, <3>1, <3>2 DEF RecInv
    <3>4. v.parts \in Nat /\ \A u \in vmas : u.id = structs[i].id => u = v
      BY <1>1, <3>1 DEF MapInv
    <3>5. PartsOf(structs[i].id) = v.parts
      BY <3>1, <3>4, PartsFacts
    <3> QED BY <3>2, <3>3, <3>5
  <2> QED BY <2>2, <2>3
<1>4. \A i \in DOMAIN structs : structs[i].onList <=> structs[i].mapped = 0
  BY <1>1 DEF RecInv
<1>5. ASSUME NEW i \in DOMAIN structs PROVE area[structs[i].area].reg /\ area[structs[i].area].st # "freed"
  <2>1. AreaInv(Now, NamesOf(handles), ToldOf(told)) /\ Now.area = area /\ Now.structs = structs
    BY NowInv, NowFacts
  <2>2. structs[i].area \in Areas /\ area[structs[i].area].st \in InUse
    BY <2>1 DEF AreaInv
  <2>3. IsArea(area[structs[i].area])
    BY <2>1, <2>2 DEF AreaInv, Typed
  <2> QED BY <2>2, <2>3 DEF IsArea, InUse
<1>6. \A i, j \in DOMAIN structs :
         i # j => <<structs[i].area, structs[i].pid>> # <<structs[j].area, structs[j].pid>>
  BY <1>1 DEF RecInv
<1>7. RecordsExact
  BY <1>2, <1>3, <1>4, <1>5, <1>6 DEF RecordsExact
<1>8. \A i \in DOMAIN structs : Up(structs[i].pid) \/ proc[structs[i].pid] = "inherited"
  BY <1>1 DEF ProcInv, Up
<1>9. ASSUME Unloaded PROVE structs = <<>>
  <2>1. \A i \in DOMAIN structs : FALSE
    <3> TAKE i \in DOMAIN structs
    <3>1. structs[i].pid \in Procs
      BY <1>1 DEF RecInv, IsRecord
    <3> QED BY <1>8, <1>9, <3>1 DEF Unloaded, Up
  <2>2. PICK n \in Nat : DOMAIN structs = 1..n /\ structs = [k \in 1..n |-> structs[k]]
    BY <1>1 DEF RecInv, IsList
  <2>3. n = 0
    BY <2>1, <2>2
  <2> QED BY <2>2, <2>3
<1> QED BY <1>7, <1>8, <1>9 DEF NoRecordLeft

(* Whatever the processes, threads, handles, areas and frames, and however *)
(* allocations, mappings, splits, unmappings, releases and the end of      *)
(* processes follow each other: the record of a mapping and the area of a  *)
(* record are there as long as MMapVClose (src/pvr/mmap.c:491) may be      *)
(* called, the record counts the parts of its mapping, and PVRMMap finds   *)
(* it by an offset only while nothing is mapped by it.                     *)
THEOREM KeepsRecords == Spec => []RecordsExact
<1>1. Spec => []MInv
  BY InitInv, NextStep, PTL DEF Spec
<1> QED BY <1>1, InvRecords, PTL

(* A process that is gone leaves no record that a later process of its     *)
(* number could find, unless its last file was closed by another process,  *)
(* and the module leaves none (src/pvr/mmap.c:824).                        *)
THEOREM LeavesNoRecord == Spec => []NoRecordLeft
<1>1. Spec => []MInv
  BY InitInv, NextStep, PTL DEF Spec
<1> QED BY <1>1, InvRecords, PTL

(* Every mapping shows what its thread asked for.                          *)
LEMMA InvRight == MInv => MapsWhatWasAsked
BY DEF MInv, ProcInv, IsMapping, MapsWhatWasAsked

(* A thread that maps the offset it was told gets the frames of the memory *)
(* its handle named, whatever the other threads and processes allocate,    *)
(* free, ask for and map between the two calls (src/pvr/mmap.c:337),       *)
(* unless it has released the handle since, or a record that was never     *)
(* mapped has the handle of other memory.                                  *)
THEOREM MapsTheRightMemory == Spec => []MapsWhatWasAsked
<1>1. Spec => []MInv
  BY InitInv, NextStep, PTL DEF Spec
<1> QED BY <1>1, InvRight, PTL

-----------------------------------------------------------------------------
(***************************************************************************)
(* Sums, as Holders adds them up.                                          *)
(***************************************************************************)
Total(g, S) == SumFunctionOnSet(g, S)

(* it is the sum of g over the subsets in D.                               *)
Adds(it, g, D) == \A t \in D : it[t] = IF t = {} THEN 0 ELSE g[Pick(t)] + it[t \ {Pick(t)}]

(* Taking any member away leads one level down.                            *)
LEMMA LevelAny ==
  ASSUME NEW S, IsFiniteSet(S), NEW K \in SUBSET S, K # {}
  PROVE  /\ \A t \in Level(S, K) : \A x \in t : t \ {x} \in Level(S, K \ {Pick(K)})
         /\ Level(S, K \ {Pick(K)}) \subseteq Level(S, K)
<1>1. ASSUME NEW t \in SUBSET S PROVE IsFiniteSet(t) /\ Cardinality(t) \in Nat
  <2>1. IsFiniteSet(t)
    BY FS_Subset
  <2> QED BY <2>1, FS_CardinalityType
<1>2. PICK y \in K : y = Pick(K)
  BY Zenon DEF Pick
<1>3. Cardinality(K \ {y}) = Cardinality(K) - 1 /\ Cardinality(K) \in Nat
  BY <1>1, FS_RemoveElement
<1>4. ASSUME NEW t \in Level(S, K), NEW x \in t PROVE t \ {x} \in Level(S, K \ {y})
  <2>1. t \in SUBSET S /\ Cardinality(t) <= Cardinality(K)
    BY DEF Level
  <2>2. Cardinality(t \ {x}) = Cardinality(t) - 1 /\ Cardinality(t) \in Nat
    BY <1>1, <2>1, FS_RemoveElement
  <2> QED BY <1>3, <2>1, <2>2 DEF Level
<1>5. Level(S, K \ {y}) \subseteq Level(S, K)
  BY <1>1, <1>3 DEF Level
<1> QED BY <1>2, <1>4, <1>5

(* There is one such function.                                             *)
LEMMA AddsUnique ==
  ASSUME NEW S, IsFiniteSet(S), NEW g, NEW it, Adds(it, g, SUBSET S), NEW jt, Adds(jt, g, SUBSET S)
  PROVE  it[S] = jt[S]
<1> DEFINE G == {K \in SUBSET S : \A t \in Level(S, K) : it[t] = jt[t]}
<1>1. {} \in G
  <2>1. Level(S, {}) = {{}} /\ {} \in SUBSET S
    BY LevelFacts
  <2>2. it[{}] = 0 /\ jt[{}] = 0
    BY <2>1 DEF Adds
  <2> QED BY <2>1, <2>2
<1>2. ASSUME NEW K \in SUBSET S, K # {}, K \ {Pick(K)} \in G PROVE K \in G
  <2>1. ASSUME NEW t \in Level(S, K) PROVE it[t] = jt[t]
    <3>1. t \in SUBSET S
      BY DEF Level
    <3>2. CASE t = {}
      BY <3>1, <3>2 DEF Adds
    <3>3. CASE t # {}
      <4>1. t \ {Pick(t)} \in Level(S, K \ {Pick(K)})
        BY <1>2, <3>3, LevelFacts
      <4>2. it[t \ {Pick(t)}] = jt[t \ {Pick(t)}]
        BY <1>2, <4>1
      <4> QED BY <3>1, <3>3, <4>2 DEF Adds
    <3> QED BY <3>2, <3>3
  <2> QED BY <2>1
<1>3. S \in G
  <2> HIDE DEF G
  <2> QED BY <1>1, <1>2, SubsetInduction
<1>4. Level(S, S) = SUBSET S
  BY LevelFacts
<1> QED BY <1>3, <1>4

(* The recursive function that a sum stands for exists.                    *)
LEMMA TotalDef ==
  ASSUME NEW S, IsFiniteSet(S), NEW g
  PROVE  \E it : Total(g, S) = it[S] /\ Adds(it, g, SUBSET S)
<1> DEFINE G == {K \in SUBSET S : \E it : Adds(it, g, Level(S, K))}
<1>1. {} \in G
  <2>1. Level(S, {}) = {{}}
    BY LevelFacts
  <2>2. Adds([t \in {{}} |-> 0], g, Level(S, {}))
    BY <2>1 DEF Adds
  <2> QED BY <2>2
<1>2. ASSUME NEW K \in SUBSET S, K # {}, K \ {Pick(K)} \in G PROVE K \in G
  <2>1. PICK it : Adds(it, g, Level(S, K \ {Pick(K)}))
    BY <1>2
  <2> DEFINE new == [t \in Level(S, K) |-> IF t = {} THEN 0 ELSE g[Pick(t)] + it[t \ {Pick(t)}]]
  <2>2. \A t \in Level(S, K) : t # {} => t \ {Pick(t)} \in Level(S, K \ {Pick(K)})
    BY <1>2, LevelFacts
  <2>3. Level(S, K \ {Pick(K)}) \subseteq Level(S, K)
    BY <1>2, LevelAny
  <2>4. \A t \in Level(S, K \ {Pick(K)}) : new[t] = it[t]
    BY <2>1, <2>3 DEF Adds
  <2>5. \A t \in Level(S, K) : t # {} => new[t \ {Pick(t)}] = it[t \ {Pick(t)}]
    BY <2>2, <2>4
  <2>6. \A t \in Level(S, K) : new[t] = IF t = {} THEN 0 ELSE g[Pick(t)] + it[t \ {Pick(t)}]
    OBVIOUS
  <2> HIDE DEF new
  <2>7. Adds(new, g, Level(S, K))
    BY <2>5, <2>6, Zenon DEF Adds
  <2> QED BY <2>7
<1>3. S \in G
  <2> HIDE DEF G
  <2> QED BY <1>1, <1>2, SubsetInduction
<1>4. PICK it : Adds(it, g, SUBSET S)
  <2>1. Level(S, S) = SUBSET S
    BY LevelFacts
  <2> QED BY <1>3, <2>1
<1> DEFINE Eq(f) == f = [t \in SUBSET S |-> IF t = {} THEN 0
                           ELSE g[CHOOSE m \in t : TRUE] + f[t \ {CHOOSE m \in t : TRUE}]]
           k == [t \in SUBSET S |-> it[t]]
<1>5. Eq(k)
  <2>1. \A t \in SUBSET S : k[t] = IF t = {} THEN 0
                           ELSE g[CHOOSE m \in t : TRUE] + k[t \ {CHOOSE m \in t : TRUE}]
    <3>1. \A t \in SUBSET S : k[t] = it[t] /\ t \ {CHOOSE m \in t : TRUE} \in SUBSET S
      OBVIOUS
    <3> HIDE DEF k
    <3> QED BY <1>4, <3>1, Zenon DEF Adds, Pick
  <2>2. k = [t \in SUBSET S |-> k[t]]
    OBVIOUS
  <2> HIDE DEF k
  <2> QED BY <2>1, <2>2
<1>6. PICK f : f = CHOOSE h : Eq(h)
  OBVIOUS
<1>7. Eq(f)
  <2> HIDE DEF Eq, k
  <2> QED BY <1>5, <1>6
<1>8. Total(g, S) = f[S]
  BY <1>6, Zenon DEF Total, SumFunctionOnSet, FoldFunctionOnSet, MapThenFoldSet
<1>9. Adds(f, g, SUBSET S)
  BY <1>7 DEF Adds, Pick
<1> QED BY <1>8, <1>9

(* A sum is the chosen member and the sum of the others.                   *)
LEMMA TotalPick ==
  ASSUME NEW S, IsFiniteSet(S), NEW g
  PROVE  Total(g, S) = IF S = {} THEN 0 ELSE g[Pick(S)] + Total(g, S \ {Pick(S)})
<1> DEFINE T == S \ {Pick(S)}
<1>1. PICK it : Total(g, S) = it[S] /\ Adds(it, g, SUBSET S)
  BY TotalDef
<1>2. IsFiniteSet(T) /\ T \in SUBSET S /\ S \in SUBSET S
  BY FS_Subset
<1>3. PICK jt : Total(g, T) = jt[T] /\ Adds(jt, g, SUBSET T)
  BY <1>2, TotalDef
<1>4. Adds(it, g, SUBSET T)
  BY <1>1, <1>2 DEF Adds
<1> HIDE DEF T
<1>5. it[T] = jt[T]
  BY <1>2, <1>3, <1>4, AddsUnique
<1> QED BY <1>1, <1>2, <1>3, <1>5 DEF Adds, T

(* Or any member and the sum of the others.                                *)
LEMMA TotalAny ==
  ASSUME NEW S, IsFiniteSet(S), NEW g, \A p \in S : g[p] \in Int
  PROVE  /\ Total(g, S) \in Int
         /\ \A x \in S : Total(g, S) = g[x] + Total(g, S \ {x}) /\ Total(g, S \ {x}) \in Int
<1> DEFINE Good(t) == Total(g, t) \in Int /\ \A x \in t : Total(g, t) = g[x] + Total(g, t \ {x})
           G == {K \in SUBSET S : \A t \in Level(S, K) : Good(t)}
<1>1. {} \in G
  <2>1. Level(S, {}) = {{}} /\ {} \in SUBSET S
    BY LevelFacts
  <2>2. Total(g, {}) = 0
    BY FS_EmptySet, TotalPick
  <2>3. Good({})
    BY <2>2
  <2> HIDE DEF Good
  <2> QED BY <2>1, <2>3
<1>2. ASSUME NEW K \in SUBSET S, K # {}, K \ {Pick(K)} \in G PROVE K \in G
  <2>1. ASSUME NEW t \in Level(S, K) PROVE Good(t)
    <3>1. t \in SUBSET S
      BY DEF Level
    <3>2. IsFiniteSet(t)
      BY <3>1, FS_Subset
    <3>3. CASE t = {}
      <4>1. Total(g, t) = 0
        BY <3>2, <3>3, TotalPick
      <4> QED BY <3>3, <4>1
    <3>4. CASE t # {}
      <4>1. PICK y \in t : y = Pick(t)
        BY <3>4, Zenon DEF Pick
      <4>2. \A x \in t : t \ {x} \in Level(S, K \ {Pick(K)})
        BY <1>2, LevelAny
      <4>3. \A x \in t : Good(t \ {x})
        BY <1>2, <4>2
      <4>4. Total(g, t) = g[y] + Total(g, t \ {y})
        BY <3>2, <3>4, <4>1, TotalPick
      <4>5. \A x \in t : g[x] \in Int /\ Total(g, t \ {x}) \in Int
        BY <3>1, <4>3
      <4>6. ASSUME NEW x \in t PROVE Total(g, t) = g[x] + Total(g, t \ {x})
        <5>1. CASE x = y
          BY <4>4, <5>1
        <5>2. CASE x # y
          <6>1. x \in t \ {y} /\ y \in t \ {x} /\ (t \ {y}) \ {x} = (t \ {x}) \ {y}
            BY <5>2
          <6>2. Total(g, t \ {y}) = g[x] + Total(g, (t \ {y}) \ {x})
            BY <4>3, <6>1
          <6>3. Total(g, t \ {x}) = g[y] + Total(g, (t \ {x}) \ {y})
            BY <4>3, <6>1
          <6>4. Total(g, (t \ {x}) \ {y}) \in Int
            <7>1. (t \ {x}) \in Level(S, K)
              BY <1>2, <4>2, LevelAny
            <7>2. (t \ {x}) \ {y} \in Level(S, K \ {Pick(K)})
              BY <1>2, <6>1, <7>1, LevelAny
            <7> QED BY <1>2, <7>2
          <6>5. PICK n \in Int : n = Total(g, (t \ {x}) \ {y})
            BY <6>4
          <6>6. Total(g, t \ {y}) = g[x] + n /\ Total(g, t \ {x}) = g[y] + n
            BY <6>1, <6>2, <6>3, <6>5
          <6>7. g[x] \in Int /\ g[y] \in Int
            BY <4>5
          <6> QED BY <4>4, <6>6, <6>7
        <5> QED BY <5>1, <5>2
      <4>7. Total(g, t) \in Int
        BY <4>4, <4>5
      <4> QED BY <4>6, <4>7
    <3> QED BY <3>3, <3>4
  <2> QED BY <2>1
<1>3. S \in G
  <2> HIDE DEF G
  <2> QED BY <1>1, <1>2, SubsetInduction
<1>4. \A t \in SUBSET S : Good(t)
  BY <1>3, LevelFacts
<1> QED BY <1>4

(* Only the members of S count.                                            *)
LEMMA TotalSame ==
  ASSUME NEW S, IsFiniteSet(S), NEW g, NEW h, \A p \in S : g[p] = h[p]
  PROVE  Total(g, S) = Total(h, S)
<1>1. PICK it : Total(g, S) = it[S] /\ Adds(it, g, SUBSET S)
  BY TotalDef
<1>2. PICK jt : Total(h, S) = jt[S] /\ Adds(jt, h, SUBSET S)
  BY TotalDef
<1>3. \A t \in SUBSET S : t # {} => Pick(t) \in S
  BY Zenon DEF Pick
<1>4. Adds(jt, g, SUBSET S)
  BY <1>2, <1>3 DEF Adds
<1> QED BY <1>1, <1>2, <1>4, AddsUnique

(* When one member changes the sum follows.                                *)
LEMMA TotalUpdate ==
  ASSUME NEW S, IsFiniteSet(S), NEW g, \A p \in S : g[p] \in Int, NEW h, \A p \in S : h[p] \in Int,
         NEW q \in S, \A p \in S : p # q => h[p] = g[p]
  PROVE  Total(h, S) = Total(g, S) - g[q] + h[q]
<1>1. /\ Total(g, S) = g[q] + Total(g, S \ {q}) /\ Total(g, S \ {q}) \in Int
      /\ Total(h, S) = h[q] + Total(h, S \ {q}) /\ Total(h, S \ {q}) \in Int
  BY TotalAny
<1>2. Total(g, S \ {q}) = Total(h, S \ {q})
  <2>1. IsFiniteSet(S \ {q})
    BY FS_Subset
  <2> QED BY <2>1, TotalSame
<1>3. g[q] \in Int /\ h[q] \in Int
  OBVIOUS
<1> QED BY <1>1, <1>2, <1>3

(* No member holds more than all of them.                                  *)
LEMMA TotalBounds ==
  ASSUME NEW S, IsFiniteSet(S), NEW g, \A p \in S : g[p] \in Nat
  PROVE  Total(g, S) \in Nat /\ \A p \in S : g[p] <= Total(g, S)
<1> DEFINE G == {K \in SUBSET S : Total(g, K) \in Nat}
<1>1. {} \in G
  <2>1. Total(g, {}) = 0
    BY FS_EmptySet, TotalPick
  <2> QED BY <2>1
<1>2. ASSUME NEW T \in SUBSET S
      PROVE  /\ \A x \in T : Total(g, T) = g[x] + Total(g, T \ {x})
             /\ \A K \in SUBSET T : K # {} /\ K \ {Pick(K)} \in G => K \in G
  <2>1. ASSUME NEW K \in SUBSET S PROVE \A x \in K : Total(g, K) = g[x] + Total(g, K \ {x})
    <3>1. IsFiniteSet(K) /\ \A p \in K : g[p] \in Int
      BY FS_Subset
    <3> QED BY <3>1, TotalAny
  <2>2. ASSUME NEW K \in SUBSET T, K # {}, K \ {Pick(K)} \in G PROVE K \in G
    <3>1. PICK x \in K : x = Pick(K)
      BY <2>2, Zenon DEF Pick
    <3>2. Total(g, K) = g[x] + Total(g, K \ {x}) /\ g[x] \in Nat /\ Total(g, K \ {x}) \in Nat
      BY <2>1, <2>2, <3>1
    <3>3. Total(g, K) \in Nat
      BY <3>2
    <3> QED BY <3>3
  <2> QED BY <2>1, <2>2
<1>3. ASSUME NEW T \in SUBSET S PROVE Total(g, T) \in Nat
  <2>1. IsFiniteSet(T)
    BY FS_Subset
  <2>2. T \in G
    <3> HIDE DEF G
    <3> QED BY <1>1, <1>2, <2>1, SubsetInduction
  <2> QED BY <2>2
<1>4. ASSUME NEW p \in S PROVE g[p] <= Total(g, S)
  <2>1. Total(g, S) = g[p] + Total(g, S \ {p})
    BY <1>2
  <2>2. Total(g, S \ {p}) \in Nat /\ g[p] \in Nat
    BY <1>3
  <2> QED BY <2>1, <2>2
<1> QED BY <1>3, <1>4

(* A sum of nothing.                                                       *)
LEMMA TotalZero ==
  ASSUME NEW S, IsFiniteSet(S), NEW g, \A p \in S : g[p] = 0
  PROVE  Total(g, S) = 0
<1> DEFINE G == {K \in SUBSET S : Total(g, K) = 0}
<1>1. {} \in G
  BY FS_EmptySet, TotalPick
<1>2. ASSUME NEW K \in SUBSET S, K # {}, K \ {Pick(K)} \in G PROVE K \in G
  <2>1. PICK x \in K : x = Pick(K)
    BY <1>2, Zenon DEF Pick
  <2>2. IsFiniteSet(K)
    BY FS_Subset
  <2>3. Total(g, K) = g[x] + Total(g, K \ {x})
    BY <1>2, <2>1, <2>2, TotalPick
  <2>4. Total(g, K) = 0
    BY <1>2, <2>1, <2>3
  <2> QED BY <2>4
<1>3. S \in G
  <2> HIDE DEF G
  <2> QED BY <1>1, <1>2, SubsetInduction
<1> QED BY <1>3

(* SumFunction adds over the domain.                                       *)
LEMMA SumIsTotal ==
  ASSUME NEW S, NEW T, NEW g \in [S -> T]
  PROVE  SumFunction(g) = Total(g, S)
BY DEF SumFunction, Total

-----------------------------------------------------------------------------
(***************************************************************************)
(* What areas hold of the frames.                                          *)
(***************************************************************************)

(* A frame occurs in a list a number of times.                             *)
LEMMA OccursFacts ==
  ASSUME NEW fs, IsList(fs), NEW f
  PROVE  /\ Occurs(f, fs) \in Nat
         /\ f \in ToSet(fs) => Occurs(f, fs) >= 1
         /\ f \notin ToSet(fs) => Occurs(f, fs) = 0
<1> DEFINE I == {i \in DOMAIN fs : fs[i] = f}
<1>1. PICK n \in Nat : DOMAIN fs = 1..n
  BY DEF IsList
<1>2. IsFiniteSet(I)
  <2>1. IsFiniteSet(1..n)
    BY FS_Interval
  <2> QED BY <1>1, <2>1, FS_Subset
<1>3. Occurs(f, fs) = Cardinality(I)
  BY DEF Occurs
<1>4. f \in ToSet(fs) <=> I # {}
  BY DEF ToSet
<1> HIDE DEF I
<1>5. Cardinality(I) \in Nat /\ (Cardinality(I) = 0 <=> I = {})
  BY <1>2, FS_CardinalityType, FS_EmptySet
<1> QED BY <1>3, <1>4, <1>5

Counted(s) == s.frame \in [Frames -> Int]

(* What GetPages and PutPages do to the frames.                            *)
LEMMA PagesFrames ==
  ASSUME NEW s, IsState(s), Counted(s), NEW fs, IsList(fs)
  PROVE  /\ Counted(GetPages(s, fs)) /\ Counted(PutPages(s, fs))
         /\ \A f \in Frames : /\ GetPages(s, fs).frame[f] = s.frame[f] + Occurs(f, fs)
                               /\ PutPages(s, fs).frame[f] = s.frame[f] - Occurs(f, fs)
<1>1. /\ GetPages(s, fs).frame = [f \in Frames |-> s.frame[f] + Occurs(f, fs)]
      /\ PutPages(s, fs).frame = [f \in Frames |-> s.frame[f] - Occurs(f, fs)]
  BY DEF GetPages, PutPages, IsState
<1>2. \A f \in Frames : s.frame[f] \in Int /\ Occurs(f, fs) \in Nat
  BY OccursFacts DEF Counted
<1> QED BY <1>1, <1>2 DEF Counted

AreaSum(s, f) == Total([a \in Areas |-> HeldByArea(s.area[a], f)], Areas)
HoldsNat(s) == \A a \in Areas : \A f \in Frames : HeldByArea(s.area[a], f) \in Nat

(* t has the references of s but those its areas no longer hold.           *)
Evens(s, t) ==
  Counted(t) /\ \A f \in Frames : t.frame[f] - AreaSum(t, f) = s.frame[f] - AreaSum(s, f)

(* An area holds a frame a number of times.                                *)
LEMMA HeldNat ==
  ASSUME NEW x, IsArea(x), NEW f
  PROVE  HeldByArea(x, f) \in Nat
BY OccursFacts DEF IsArea, Framed, HeldByArea

(* So do all of them.                                                      *)
LEMMA TypedHolds ==
  ASSUME NEW s, Typed(s)
  PROVE  HoldsNat(s)
BY HeldNat DEF Typed, HoldsNat

(* The sum of what areas hold is a number.                                 *)
LEMMA AreaSumFacts ==
  ASSUME NEW s, HoldsNat(s), NEW f \in Frames
  PROVE  AreaSum(s, f) \in Nat /\ \A a \in Areas : HeldByArea(s.area[a], f) <= AreaSum(s, f)
<1> DEFINE g == [a \in Areas |-> HeldByArea(s.area[a], f)]
<1>1. \A a \in Areas : g[a] \in Nat /\ g[a] = HeldByArea(s.area[a], f)
  BY DEF HoldsNat
<1>2. AreaSum(s, f) = Total(g, Areas)
  BY DEF AreaSum
<1>3. IsFiniteSet(Areas)
  BY LoadsAssumption
<1> HIDE DEF g
<1>4. Total(g, Areas) \in Nat /\ \A a \in Areas : g[a] <= Total(g, Areas)
  BY <1>1, <1>3, TotalBounds
<1> QED BY <1>1, <1>2, <1>4

(* When what one area holds changes, the references that follow keep the   *)
(* two even.                                                               *)
LEMMA Moves ==
  ASSUME NEW s, NEW t, NEW a \in Areas, HoldsNat(s), Counted(s), HoldsNat(t), Counted(t),
         \A b \in Areas : b # a => t.area[b] = s.area[b],
         \A f \in Frames : t.frame[f] - HeldByArea(t.area[a], f) = s.frame[f] - HeldByArea(s.area[a], f)
  PROVE  Evens(s, t)
<1> SUFFICES ASSUME NEW f \in Frames
             PROVE  t.frame[f] - AreaSum(t, f) = s.frame[f] - AreaSum(s, f)
  BY DEF Evens
<1> DEFINE g == [b \in Areas |-> HeldByArea(s.area[b], f)]
           h == [b \in Areas |-> HeldByArea(t.area[b], f)]
<1>1. /\ \A b \in Areas : g[b] \in Int /\ h[b] \in Int /\ (b # a => h[b] = g[b])
      /\ g[a] = HeldByArea(s.area[a], f) /\ h[a] = HeldByArea(t.area[a], f)
  BY DEF HoldsNat
<1>2. AreaSum(s, f) = Total(g, Areas) /\ AreaSum(t, f) = Total(h, Areas)
  BY DEF AreaSum
<1>3. IsFiniteSet(Areas)
  BY LoadsAssumption
<1> HIDE DEF g, h
<1>4. Total(h, Areas) = Total(g, Areas) - g[a] + h[a]
  BY <1>1, <1>3, TotalUpdate
<1>5. Total(g, Areas) \in Int /\ g[a] \in Int /\ h[a] \in Int
  BY <1>1, <1>3, TotalAny
<1>6. s.frame[f] \in Int /\ t.frame[f] \in Int /\ t.frame[f] - h[a] = s.frame[f] - g[a]
  BY <1>1 DEF Counted
<1> QED BY <1>2, <1>4, <1>5, <1>6

(* When none changes the references stay.                                  *)
LEMMA Stays ==
  ASSUME NEW s, NEW t, Counted(s), t.frame = s.frame,
         \A a \in Areas : \A f \in Frames : HeldByArea(t.area[a], f) = HeldByArea(s.area[a], f)
  PROVE  Evens(s, t)
<1> SUFFICES ASSUME NEW f \in Frames PROVE AreaSum(t, f) = AreaSum(s, f)
  BY DEF Evens, Counted
<1>1. [a \in Areas |-> HeldByArea(t.area[a], f)] = [a \in Areas |-> HeldByArea(s.area[a], f)]
  OBVIOUS
<1> QED BY <1>1 DEF AreaSum

(* One change after the other.                                             *)
LEMMA EvensTrans ==
  ASSUME NEW s, NEW t, NEW u, Evens(s, t), Evens(t, u)
  PROVE  Evens(s, u)
BY DEF Evens

-----------------------------------------------------------------------------
(***************************************************************************)
(* How areas depend on each other.                                         *)
(***************************************************************************)
NoRam(fs) == ToSet(fs) \cap Frames = {}
OfRam(fs) == ToSet(fs) \subseteq Frames \/ NoRam(fs)

(* Registered memory is alive until it is freed, and only it has a source  *)
(* or locked pages; only a sub area has a parent.                          *)
Shape(x) ==
  /\ x.type \in {"none", "pages", "vmalloc", "io", "ioremap", "extkv", "sub"}
  /\ x.type = "none" <=> x.st \in {"unused", "freed"}
  /\ OfRam(x.frames) /\ (x.type \in {"io", "ioremap"} \/ x.wrap = "pfn" => NoRam(x.frames))
  /\ x.type = "extkv" => x.st = "live"
  /\ x.type # "extkv" => x.wrap = "none" /\ x.src = NoArea
  /\ x.type # "sub" => x.parent = NoArea

(* y holds its frames, or is a part of pages that do.                      *)
Exportable(s, y) ==
  y.type \in {"pages", "vmalloc"} \/ (y.type = "sub" /\ s.area[y.parent].type = "vmalloc")

(* Registered memory wraps a buffer, or maps the frames of an area that    *)
(* nobody has freed.                                                       *)
Source(s, x) ==
  x.type = "extkv" =>
    \/ x.wrap \in {"gup", "vma", "pfn"} /\ x.src = NoArea
    \/ /\ x.wrap = "none" /\ x.src \in Areas /\ Childless(s, x.src)
       /\ s.area[x.src].st \in {"live", "kept"} /\ s.area[x.src].frames = x.frames
       /\ Exportable(s, s.area[x.src])

(* A sub area that is not given up lies in an area that is there.          *)
PartOf(s, x) ==
  x.type = "sub" /\ x.st \in {"live", "kept"} =>
    /\ s.area[x.parent].type \in {"vmalloc", "extkv"}
    /\ ToSet(x.frames) \subseteq ToSet(s.area[x.parent].frames)

Tied(s) == \A a \in Areas : Shape(s.area[a]) /\ Source(s, s.area[a]) /\ PartOf(s, s.area[a])

(* Registered memory has a handle, itself or its one sub area, which is    *)
(* alive.                                                                  *)
Kin(s, N) ==
  \A e \in Areas : s.area[e].type = "extkv" =>
    /\ \E n \in N : n[2] = e \/ s.area[n[2]].parent = e
    /\ \A b, c \in Areas : s.area[b].parent = e /\ s.area[c].parent = e => b = c
    /\ \A b \in Areas : s.area[b].parent = e => s.area[b].st = "live"

(* Frames that an area shows are held by some area, unless it is a sub     *)
(* area that was given up while it was mapped.                             *)
LEMMA Backed ==
  ASSUME NEW s, Typed(s), Tied(s), NEW a \in Areas, s.area[a].st \in InUse,
         ~(s.area[a].type = "sub" /\ s.area[a].st = "lost"),
         NEW f \in Frames, f \in ToSet(s.area[a].frames)
  PROVE  \E b \in Areas : HeldByArea(s.area[b], f) >= 1
<1>1. ASSUME NEW b \in Areas, f \in ToSet(s.area[b].frames), s.area[b].type \in {"pages", "vmalloc"}
      PROVE  HeldByArea(s.area[b], f) >= 1
  <2>1. IsList(s.area[b].frames) /\ s.area[b].st \notin {"unused", "freed"}
    BY <1>1 DEF Typed, IsArea, Framed, Tied, Shape
  <2>2. Occurs(f, s.area[b].frames) >= 1
    BY <1>1, <2>1, OccursFacts
  <2> QED BY <1>1, <2>1, <2>2 DEF HeldByArea
<1>2. ASSUME NEW b \in Areas, f \in ToSet(s.area[b].frames), s.area[b].st \in {"live", "kept"},
             Exportable(s, s.area[b])
      PROVE  \E c \in Areas : HeldByArea(s.area[c], f) >= 1
  <2>1. CASE s.area[b].type \in {"pages", "vmalloc"}
    BY <1>1, <1>2, <2>1
  <2>2. CASE s.area[b].type = "sub" /\ s.area[s.area[b].parent].type = "vmalloc"
    <3>1. s.area[b].parent \in Areas
      BY <2>2 DEF Typed, IsArea
    <3>2. f \in ToSet(s.area[s.area[b].parent].frames)
      BY <1>2, <2>2 DEF Tied, PartOf
    <3> QED BY <1>1, <2>2, <3>1, <3>2
  <2> QED BY <1>2, <2>1, <2>2 DEF Exportable
<1>3. ASSUME NEW b \in Areas, f \in ToSet(s.area[b].frames), s.area[b].type = "extkv"
      PROVE  \E c \in Areas : HeldByArea(s.area[c], f) >= 1
  <2>1. Shape(s.area[b]) /\ Source(s, s.area[b]) /\ IsList(s.area[b].frames)
    BY DEF Tied, Typed, IsArea, Framed
  <2>2. CASE s.area[b].wrap \in {"gup", "vma"}
    <3>1. Occurs(f, s.area[b].frames) >= 1 /\ s.area[b].st = "live"
      BY <1>3, <2>1, OccursFacts DEF Shape
    <3>2. HeldByArea(s.area[b], f) >= 1
      BY <2>2, <3>1 DEF HeldByArea
    <3> QED BY <3>2
  <2>3. CASE s.area[b].wrap = "pfn"
    BY <1>3, <2>1, <2>3 DEF Shape, NoRam
  <2>4. CASE s.area[b].wrap \notin {"gup", "vma", "pfn"}
    <3>1. /\ s.area[b].src \in Areas /\ s.area[s.area[b].src].st \in {"live", "kept"}
          /\ s.area[s.area[b].src].frames = s.area[b].frames /\ Exportable(s, s.area[s.area[b].src])
      BY <1>3, <2>1, <2>4 DEF Source
    <3> QED BY <1>2, <1>3, <3>1
  <2> QED BY <2>2, <2>3, <2>4
<1>4. Shape(s.area[a]) /\ PartOf(s, s.area[a]) /\ IsArea(s.area[a])
  BY DEF Tied, Typed
<1>5. CASE s.area[a].type \in {"pages", "vmalloc"}
  BY <1>1, <1>5
<1>6. CASE s.area[a].type \in {"io", "ioremap"}
  BY <1>4, <1>6 DEF Shape, NoRam
<1>7. CASE s.area[a].type = "extkv"
  BY <1>3, <1>7
<1>8. CASE s.area[a].type = "sub"
  <2>1. s.area[a].st \in {"live", "kept"}
    BY <1>8 DEF InUse
  <2>2. PICK r : r = s.area[a].parent
    OBVIOUS
  <2>3. r \in Areas
    BY <1>4, <1>8, <2>2 DEF IsArea
  <2>4. s.area[r].type \in {"vmalloc", "extkv"} /\ f \in ToSet(s.area[r].frames)
    BY <1>4, <1>8, <2>1, <2>2 DEF PartOf
  <2> QED BY <1>1, <1>3, <2>3, <2>4
<1> QED BY <1>4, <1>5, <1>6, <1>7, <1>8 DEF Shape, InUse

(* The area is freed, or stays behind.                                     *)
Falls(s, t, a) ==
  \/ t.area = [s.area EXCEPT ![a] = Gone]
  \/ s.area[a].st \in InUse /\ t.area = [s.area EXCEPT ![a].st = "lost"]
  \/ s.area[a].st = "live" /\ t.area = [s.area EXCEPT ![a].st = "kept"]

(* The others are as they were.                                            *)
LEMMA FallsOthers ==
  ASSUME NEW s, Typed(s), NEW t, NEW a \in Areas, Falls(s, t, a)
  PROVE  /\ \A b \in Areas : b # a => t.area[b] = s.area[b]
         /\ t.area[a] = Gone \/ /\ t.area[a].st \in {"lost", "kept"} /\ s.area[a].st \in InUse
                                /\ t.area[a].type = s.area[a].type /\ t.area[a].frames = s.area[a].frames
                                /\ t.area[a].parent = s.area[a].parent /\ t.area[a].src = s.area[a].src
                                /\ t.area[a].wrap = s.area[a].wrap
                                /\ t.area[a].st = "kept" => s.area[a].st = "live"
<1>1. DOMAIN s.area = Areas /\ IsArea(s.area[a])
  BY DEF Typed
<1>2. \A b \in Areas : b # a => t.area[b] = s.area[b]
  BY <1>1 DEF Falls
<1>3. CASE t.area = [s.area EXCEPT ![a] = Gone]
  BY <1>1, <1>2, <1>3
<1>4. ASSUME s.area[a].st \in InUse, NEW x \in {"lost", "kept"}, t.area = [s.area EXCEPT ![a].st = x]
      PROVE  /\ t.area[a].st = x
             /\ t.area[a].type = s.area[a].type /\ t.area[a].frames = s.area[a].frames
             /\ t.area[a].parent = s.area[a].parent /\ t.area[a].src = s.area[a].src
             /\ t.area[a].wrap = s.area[a].wrap
  BY <1>1, <1>4 DEF IsArea
<1> QED BY <1>2, <1>3, <1>4 DEF Falls, InUse

(* No area changed but those that are gone or given up.                    *)
Fades(s, t) == \A a \in Areas : SameOrGone(s.area[a], t.area[a])

(* An area that is freed or stays behind fades.                            *)
LEMMA FallsFades ==
  ASSUME NEW s, Typed(s), NEW t, NEW a \in Areas, Falls(s, t, a)
  PROVE  Fades(s, t)
<1>1. Gone.st = "freed" /\ Gone.type = "none"
  BY DEF Gone, NewArea
<1>2. \A b \in Areas \ {a} : SameOrGone(s.area[b], t.area[b])
  BY FallsOthers DEF SameOrGone
<1>3. SameOrGone(s.area[a], t.area[a])
  BY <1>1, FallsOthers DEF SameOrGone, InUse
<1> QED BY <1>2, <1>3 DEF Fades

(* Fading twice is fading.                                                 *)
LEMMA FadesTrans ==
  ASSUME NEW s, NEW t, NEW u, Fades(s, t), Fades(t, u)
  PROVE  Fades(s, u)
<1> SUFFICES ASSUME NEW a \in Areas PROVE SameOrGone(s.area[a], u.area[a])
  BY DEF Fades
<1>1. SameOrGone(s.area[a], t.area[a]) /\ SameOrGone(t.area[a], u.area[a])
  BY DEF Fades
<1> QED BY <1>1 DEF SameOrGone, InUse

(* An area that nobody depends on may fall.                                *)
LEMMA FallsTied ==
  ASSUME NEW s, Typed(s), Tied(s), NEW t, NEW a \in Areas, Falls(s, t, a),
         t.area[a].st # "kept" => \A c \in Areas : s.area[c].src # a,
         t.area[a].st = "freed" =>
           \A c \in Areas : s.area[c].parent = a => s.area[c].st \notin {"live", "kept"},
         t.area[a].st # "freed" => s.area[a].type # "extkv"
  PROVE  Tied(t)
<1>1. NoArea \notin Areas
  BY NumbersAssumption DEF NoArea
<1>2. Gone.st = "freed" /\ Gone.type = "none" /\ Gone.frames = <<>> /\ Gone.parent = NoArea
      /\ Gone.src = NoArea /\ Gone.wrap = "none"
  BY DEF Gone, NewArea
<1>3. \A b \in Areas : b # a => t.area[b] = s.area[b]
  BY FallsOthers
<1>4. t.area[a] = Gone \/ /\ t.area[a].st \in {"lost", "kept"} /\ s.area[a].st \in InUse
                          /\ t.area[a].type = s.area[a].type /\ t.area[a].frames = s.area[a].frames
                          /\ t.area[a].parent = s.area[a].parent /\ t.area[a].src = s.area[a].src
                          /\ t.area[a].wrap = s.area[a].wrap
                          /\ t.area[a].st = "kept" => s.area[a].st = "live"
  BY FallsOthers
<1>5. \A b \in Areas : Shape(s.area[b]) /\ Source(s, s.area[b]) /\ PartOf(s, s.area[b]) /\ IsArea(s.area[b])
  BY DEF Tied, Typed
<1>6. Shape(t.area[a])
  <2>1. CASE t.area[a] = Gone
    <3>1. ToSet(<<>>) = {}
      BY DEF ToSet
    <3> QED BY <1>2, <2>1, <3>1 DEF Shape, OfRam, NoRam
  <2>2. CASE t.area[a] # Gone
    BY <1>4, <1>5, <2>2 DEF Shape, InUse
  <2> QED BY <2>1, <2>2
<1>7. \A b \in Areas : Childless(s, b) => Childless(t, b)
  BY <1>1, <1>2, <1>3, <1>4 DEF Childless
<1>8. ASSUME NEW c \in Areas, t.area[c].type = "extkv" PROVE Source(t, t.area[c])
  <2>1. c # a /\ t.area[c] = s.area[c]
    BY <1>2, <1>3, <1>4, <1>8
  <2>2. PICK x, d : x = s.area[c] /\ d = x.src
    OBVIOUS
  <2>3. CASE x.wrap \in {"gup", "vma", "pfn"} /\ x.src = NoArea
    BY <2>1, <2>2, <2>3 DEF Source
  <2>4. CASE ~(x.wrap \in {"gup", "vma", "pfn"} /\ x.src = NoArea)
    <3>1. /\ x.wrap = "none" /\ d \in Areas /\ Childless(s, d)
          /\ s.area[d].st \in {"live", "kept"} /\ s.area[d].frames = x.frames
          /\ Exportable(s, s.area[d])
      BY <1>5, <1>8, <2>1, <2>2, <2>4 DEF Source
    <3>2. /\ t.area[d].st \in {"live", "kept"} /\ t.area[d].frames = s.area[d].frames
          /\ t.area[d].type = s.area[d].type /\ t.area[d].parent = s.area[d].parent
      <4>1. CASE d # a
        BY <1>3, <3>1, <4>1
      <4>2. CASE d = a
        BY <1>2, <1>4, <2>2, <3>1, <4>2
      <4> QED BY <4>1, <4>2
    <3>3. Exportable(t, t.area[d])
      <4>1. CASE s.area[d].type \in {"pages", "vmalloc"}
        BY <3>2, <4>1 DEF Exportable
      <4>2. CASE s.area[d].type = "sub" /\ s.area[s.area[d].parent].type = "vmalloc"
        <5>1. PICK r : r = s.area[d].parent
          OBVIOUS
        <5>2. r \in Areas
          BY <1>5, <3>1, <4>2, <5>1 DEF IsArea
        <5>3. t.area[r].type = "vmalloc"
          <6>1. CASE r # a
            BY <1>3, <4>2, <5>1, <5>2, <6>1
          <6>2. CASE r = a
            BY <1>2, <1>4, <3>1, <4>2, <5>1, <6>2
          <6> QED BY <6>1, <6>2
        <5> QED BY <3>2, <4>2, <5>1, <5>3 DEF Exportable
      <4> QED BY <3>1, <4>1, <4>2 DEF Exportable
    <3> QED BY <1>7, <2>1, <2>2, <3>1, <3>2, <3>3 DEF Source
  <2> QED BY <2>3, <2>4
<1>9. ASSUME NEW c \in Areas, t.area[c].type = "sub", t.area[c].st \in {"live", "kept"}
      PROVE  PartOf(t, t.area[c])
  <2>1. PICK r : r = s.area[c].parent
    OBVIOUS
  <2>2. /\ s.area[c].type = "sub" /\ s.area[c].st \in {"live", "kept"}
        /\ t.area[c].parent = r /\ t.area[c].frames = s.area[c].frames
    BY <1>2, <1>3, <1>4, <1>9, <2>1
  <2>3. /\ s.area[r].type \in {"vmalloc", "extkv"} /\ r \in Areas
        /\ ToSet(s.area[c].frames) \subseteq ToSet(s.area[r].frames)
    BY <1>5, <2>1, <2>2 DEF PartOf, IsArea
  <2>4. t.area[r].type = s.area[r].type /\ t.area[r].frames = s.area[r].frames
    <3>1. CASE r # a
      BY <1>3, <2>3, <3>1
    <3>2. CASE r = a
      BY <1>2, <1>4, <2>1, <2>2, <3>2
    <3> QED BY <3>1, <3>2
  <2> QED BY <2>2, <2>3, <2>4 DEF PartOf
<1>10. \A c \in Areas : Shape(t.area[c])
  BY <1>3, <1>5, <1>6
<1>11. \A c \in Areas : Source(t, t.area[c])
  BY <1>8 DEF Source
<1>12. \A c \in Areas : PartOf(t, t.area[c])
  BY <1>9 DEF PartOf
<1> QED BY <1>10, <1>11, <1>12 DEF Tied

-----------------------------------------------------------------------------
(* Freeing areas.                                                          *)

(* A lost area holds what it held.                                         *)
LEMMA LostHolds ==
  ASSUME NEW s, Typed(s), Counted(s), NEW t, NEW a \in Areas, s.area[a].st \in InUse,
         NEW x \in {"lost", "kept"}, t.area = [s.area EXCEPT ![a].st = x], t.frame = s.frame
  PROVE  Evens(s, t)
<1>1. DOMAIN s.area = Areas /\ IsArea(s.area[a])
  BY DEF Typed
<1>2. \A b \in Areas : b # a => t.area[b] = s.area[b]
  BY <1>1
<1>3. t.area[a] = [s.area[a] EXCEPT !.st = x]
  BY <1>1
<1>4. /\ t.area[a].st = x /\ t.area[a].type = s.area[a].type
      /\ t.area[a].wrap = s.area[a].wrap /\ t.area[a].frames = s.area[a].frames
  BY <1>1, <1>3 DEF IsArea
<1>5. \A f \in Frames : HeldByArea(t.area[a], f) = HeldByArea(s.area[a], f)
  BY <1>4 DEF HeldByArea, InUse
<1> QED BY <1>2, <1>5, Stays

(* The pages an area allocated are given back.                             *)
GivesBack(s, t, x) ==
  /\ Counted(t)
  /\ \A f \in Frames : t.frame[f] = IF x.type \in {"vmalloc", "pages"}
                                    THEN s.frame[f] - Occurs(f, x.frames) ELSE s.frame[f]

(* What LinuxMemAreaDeepFree does to the frames.                           *)
LEMMA DeepFreeFrames ==
  ASSUME NEW s, IsState(s), Counted(s), NEW a, IsList(s.area[a].frames)
  PROVE  GivesBack(s, LinuxMemAreaDeepFree(s, a), s.area[a])
<1> DEFINE d == LinuxMemAreaStructFree(s, a)
           u == PutPages(d, s.area[a].frames)
<1>1. IsState(d) /\ d.frame = s.frame /\ Counted(d)
  BY DEF LinuxMemAreaStructFree, IsState, Counted
<1> HIDE DEF d
<1>2. Counted(u) /\ \A f \in Frames : u.frame[f] = s.frame[f] - Occurs(f, s.area[a].frames)
  BY <1>1, PagesFrames
<1>3. LinuxMemAreaDeepFree(s, a) = IF s.area[a].type \in {"vmalloc", "pages"} THEN u ELSE d
  BY DEF LinuxMemAreaDeepFree, FreeVMallocLinuxMemArea, FreeAllocPagesLinuxMemArea, d
<1> HIDE DEF u
<1> QED BY <1>1, <1>2, <1>3 DEF GivesBack

(* PVRMMapRemoveRegisteredArea leaves the frames alone.                    *)
LEMMA RemoveFrames ==
  ASSUME NEW s, IsState(s), RecInv(s.structs), NEW a \in Areas
  PROVE  PVRMMapRemoveRegisteredArea(s, a).frame = s.frame
<1> DEFINE I == {i \in DOMAIN s.structs : s.structs[i].area = a}
           stop == {i \in I : s.structs[i].mapped # 0}
           J == {i \in I : i < Min(stop)}
<1>1. \A K \in SUBSET DOMAIN s.structs : IsState(DestroyAll(s, K)) /\ DestroyAll(s, K).frame = s.frame
  BY DestroyFacts
<1>2. I \in SUBSET DOMAIN s.structs /\ J \in SUBSET DOMAIN s.structs
  OBVIOUS
<1>3. PVRMMapRemoveRegisteredArea(s, a)
         = IF stop = {} THEN [DestroyAll(s, I) EXCEPT !.area[a].reg = FALSE] ELSE DestroyAll(s, J)
  BY DEF PVRMMapRemoveRegisteredArea
<1> HIDE DEF I, J, stop
<1>4. PICK d : d = DestroyAll(s, I)
  OBVIOUS
<1>5. IsState(d) /\ d.frame = s.frame
  BY <1>1, <1>2, <1>4
<1>6. [d EXCEPT !.area[a].reg = FALSE].frame = s.frame
  BY <1>5 DEF IsState
<1> QED BY <1>1, <1>2, <1>3, <1>4, <1>6

(* An area that is freed gives the pages it allocated back.                *)
LEMMA DeepFreeEven ==
  ASSUME NEW s, Typed(s), Counted(s), NEW d, IsState(d), NEW a \in Areas, Shape(s.area[a]),
         s.area[a].wrap \notin {"gup", "vma"}, d.frame = s.frame,
         d.area = [s.area EXCEPT ![a].reg = FALSE]
  PROVE  LET t == LinuxMemAreaDeepFree(d, a) IN Evens(s, t) /\ t.area = [s.area EXCEPT ![a] = Gone]
<1> DEFINE t == LinuxMemAreaDeepFree(d, a)
           x == s.area[a]
<1>1. DOMAIN s.area = Areas /\ IsArea(x) /\ HoldsNat(s)
  BY TypedHolds DEF Typed
<1>2. d.area[a].type = x.type /\ d.area[a].frames = x.frames
  BY <1>1 DEF IsArea
<1>3. t.area = [d.area EXCEPT ![a] = Gone]
  BY DeepFreeFacts
<1>4. t.area = [s.area EXCEPT ![a] = Gone]
  <2> HIDE DEF t
  <2> QED BY <1>1, <1>3
<1>5. /\ Counted(t)
      /\ \A f \in Frames : t.frame[f] = IF x.type \in {"vmalloc", "pages"}
                                        THEN s.frame[f] - Occurs(f, x.frames) ELSE s.frame[f]
  <2>1. Counted(d) /\ IsList(d.area[a].frames)
    BY <1>1, <1>2 DEF Counted, IsArea, Framed
  <2>2. GivesBack(d, t, d.area[a])
    BY <2>1, DeepFreeFrames
  <2> HIDE DEF t
  <2> QED BY <1>2, <2>2 DEF GivesBack
<1>6. IsList(x.frames) /\ (x.type \in {"vmalloc", "pages"} => x.st \notin {"unused", "freed"})
  BY <1>1 DEF IsArea, Framed, Shape
<1> HIDE DEF t
<1>7. /\ t.area[a] = Gone /\ \A b \in Areas : b # a => t.area[b] = s.area[b]
  BY <1>1, <1>4
<1>8. \A f : HeldByArea(Gone, f) = 0
  BY DEF HeldByArea, Gone, NewArea
<1>9. HoldsNat(t)
  BY <1>1, <1>7, <1>8 DEF HoldsNat
<1>10. \A f \in Frames : Occurs(f, x.frames) \in Nat
  BY <1>6, OccursFacts
<1>11. ASSUME NEW f \in Frames
       PROVE  t.frame[f] - HeldByArea(t.area[a], f) = s.frame[f] - HeldByArea(x, f)
  <2>1. s.frame[f] \in Int /\ Occurs(f, x.frames) \in Nat
    BY <1>10 DEF Counted
  <2>2. CASE x.type \in {"vmalloc", "pages"}
    BY <1>5, <1>6, <1>7, <1>8, <2>1, <2>2 DEF HeldByArea
  <2>3. CASE x.type \notin {"vmalloc", "pages"}
    BY <1>5, <1>7, <1>8, <2>1, <2>3 DEF HeldByArea
  <2> QED BY <2>2, <2>3
<1>12. Evens(s, t)
  BY <1>1, <1>5, <1>7, <1>9, <1>11, Moves
<1> QED BY <1>4, <1>12 DEF t

(* The area is freed, or lost when it is mapped, and its pages go with it. *)
Drops(s, t, a) ==
  /\ Evens(s, t)
  /\ t.area = IF RemoveRefused(s, a) THEN [s.area EXCEPT ![a].st = "lost"]
                                     ELSE [s.area EXCEPT ![a] = Gone]

(* OSFreePages, OSReleaseSubMemHandle and OSUnReservePhys.                 *)
LEMMA FreeUnlessMappedDrops ==
  ASSUME NEW Q, NEW s, NEW N, NEW a \in Areas, AreaInv(s, N, Q), RecInv(s.structs), Counted(s),
         Shape(s.area[a]), s.area[a].type # "extkv"
  PROVE  Drops(s, FreeUnlessMapped(s, a), a)
<1> DEFINE d == PVRMMapRemoveRegisteredArea(s, a)
           t == FreeUnlessMapped(s, a)
<1>1. /\ IsState(d) /\ d.frame = s.frame
      /\ RemoveRefused(s, a) => d.area = s.area
      /\ ~RemoveRefused(s, a) => d.area = [s.area EXCEPT ![a].reg = FALSE]
  BY RemoveFacts, RemoveFrames DEF AreaInv, Typed
<1>2. Typed(s) /\ DOMAIN s.area = Areas /\ IsArea(s.area[a])
  BY DEF AreaInv, Typed
<1>3. t = IF d.area[a].reg THEN Lose(d, a) ELSE LinuxMemAreaDeepFree(d, a)
  BY DEF FreeUnlessMapped
<1> HIDE DEF d
<1>4. CASE RemoveRefused(s, a)
  <2>1. s.area[a].st \in InUse
    BY <1>4 DEF RemoveRefused, AreaInv
  <2>2. t = [d EXCEPT !.area = [d.area EXCEPT ![a].st = "lost"]]
    BY <1>1, <1>2, <1>3, <1>4, <2>1 DEF IsArea, Lose
  <2> HIDE DEF t
  <2>3. t.area = [s.area EXCEPT ![a].st = "lost"] /\ t.frame = s.frame
    BY <1>1, <1>4, <2>2 DEF IsState
  <2>4. PICK x \in {"lost", "kept"} : x = "lost"
    OBVIOUS
  <2>5. Evens(s, t)
    BY <1>2, <2>1, <2>3, <2>4, LostHolds
  <2> QED BY <1>4, <2>3, <2>5 DEF Drops, t
<1>5. CASE ~RemoveRefused(s, a)
  <2>1. d.area[a].reg = FALSE
    BY <1>1, <1>2, <1>5 DEF IsArea
  <2>2. t = LinuxMemAreaDeepFree(d, a) /\ s.area[a].wrap \notin {"gup", "vma"}
    BY <1>3, <2>1 DEF Shape
  <2>3. Evens(s, t) /\ t.area = [s.area EXCEPT ![a] = Gone]
    BY <1>1, <1>2, <1>5, <2>2, DeepFreeEven
  <2> QED BY <1>5, <2>3 DEF Drops
<1> QED BY <1>4, <1>5

(* What FreeBuf calls for an area that lies in no other; a wrap gives the  *)
(* pages it locked back.                                                   *)
LEMMA FreeRootDrops ==
  ASSUME NEW Q, NEW s, NEW N, NEW a \in Areas, AreaInv(s, N, Q), RecInv(s.structs), Counted(s),
         Shape(s.area[a]), s.area[a].type = "extkv" => ~RemoveRefused(s, a)
  PROVE  Drops(s, FreeRoot(s, a), a)
<1>1. CASE s.area[a].type # "extkv"
  <2>1. FreeRoot(s, a) = FreeUnlessMapped(s, a)
    BY <1>1 DEF FreeRoot, OSUnReservePhys, OSFreePages
  <2> QED BY <1>1, <2>1, FreeUnlessMappedDrops
<1>2. CASE s.area[a].type = "extkv"
  <2> DEFINE d == PVRMMapRemoveRegisteredArea(s, a)
             u == LinuxMemAreaDeepFree(d, a)
             x == s.area[a]
             t == FreeRoot(s, a)
  <2>1. IsState(d) /\ d.frame = s.frame /\ d.area = [s.area EXCEPT ![a].reg = FALSE]
    BY <1>2, RemoveFacts, RemoveFrames DEF AreaInv, Typed
  <2>2. Typed(s) /\ DOMAIN s.area = Areas /\ IsArea(x) /\ HoldsNat(s)
    BY TypedHolds DEF AreaInv, Typed
  <2>3. t = IF x.wrap \in {"gup", "vma"} THEN PutPages(u, x.frames) ELSE u
    BY <1>2 DEF FreeRoot, OSReleasePhysPageAddr, OSUnRegisterMem
  <2> HIDE DEF d
  <2>4. d.area[a].type = "extkv"
    BY <1>2, <2>1, <2>2 DEF IsArea
  <2>5. /\ IsState(u) /\ u.area = [d.area EXCEPT ![a] = Gone]
        /\ Counted(u) /\ \A f \in Frames : u.frame[f] = s.frame[f]
    <3>1. Counted(d) /\ IsList(d.area[a].frames)
      BY <2>1, <2>2 DEF Counted, IsArea, Framed
    <3>2. GivesBack(d, u, d.area[a])
      BY <2>1, <3>1, DeepFreeFrames
    <3>3. IsState(u) /\ u.area = [d.area EXCEPT ![a] = Gone]
      BY <2>1, DeepFreeFacts
    <3> HIDE DEF u
    <3> QED BY <2>1, <2>4, <3>2, <3>3 DEF GivesBack
  <2> HIDE DEF u, t
  <2>6. u.area = [s.area EXCEPT ![a] = Gone]
    BY <2>1, <2>2, <2>5
  <2>7. t.area = u.area
    BY <2>3, <2>5, PagesFacts
  <2>8. /\ Counted(t)
        /\ \A f \in Frames : t.frame[f] = IF x.wrap \in {"gup", "vma"}
                                          THEN s.frame[f] - Occurs(f, x.frames) ELSE s.frame[f]
    <3>1. IsList(x.frames)
      BY <2>2 DEF IsArea, Framed
    <3> QED BY <2>3, <2>5, <3>1, PagesFrames
  <2>9. t.area[a] = Gone /\ \A b \in Areas : b # a => t.area[b] = s.area[b]
    BY <2>2, <2>6, <2>7
  <2>10. \A f : HeldByArea(Gone, f) = 0
    BY DEF HeldByArea, Gone, NewArea
  <2>11. HoldsNat(t)
    BY <2>2, <2>9, <2>10 DEF HoldsNat
  <2>12. x.st = "live" /\ \A f \in Frames : Occurs(f, x.frames) \in Nat
    BY <1>2, <2>2, OccursFacts DEF IsArea, Framed, Shape
  <2>13. ASSUME NEW f \in Frames
         PROVE  t.frame[f] - HeldByArea(t.area[a], f) = s.frame[f] - HeldByArea(x, f)
    <3>1. s.frame[f] \in Int /\ Occurs(f, x.frames) \in Nat
      BY <2>12 DEF Counted
    <3>2. CASE x.wrap \in {"gup", "vma"}
      BY <2>8, <2>9, <2>10, <2>12, <3>1, <3>2 DEF HeldByArea
    <3>3. CASE x.wrap \notin {"gup", "vma"}
      BY <1>2, <2>8, <2>9, <2>10, <3>1, <3>3 DEF HeldByArea
    <3> QED BY <3>2, <3>3
  <2>14. Evens(s, t)
    BY <2>2, <2>8, <2>9, <2>11, <2>13, Moves
  <2> QED BY <1>2, <2>6, <2>7, <2>14 DEF Drops, t
<1> QED BY <1>1, <1>2

(* A source is that of registered memory.                                  *)
LEMMA SourceFacts ==
  ASSUME NEW s, Typed(s), Tied(s), NEW a \in Areas, NEW c \in Areas, s.area[c].src = a
  PROVE  /\ s.area[c].type = "extkv" /\ s.area[c].st = "live" /\ Childless(s, a)
         /\ s.area[a].st \in {"live", "kept"} /\ Exportable(s, s.area[a])
         /\ s.area[a].type # "extkv"
         /\ s.area[s.area[a].parent].type # "extkv" \/ s.area[a].parent = NoArea
<1>1. a # NoArea
  BY NumbersAssumption DEF NoArea
<1>2. Shape(s.area[c]) /\ Source(s, s.area[c]) /\ Shape(s.area[a])
  BY DEF Tied
<1>3. s.area[c].type = "extkv" /\ s.area[c].st = "live"
  BY <1>1, <1>2 DEF Shape
<1>4. Childless(s, a) /\ s.area[a].st \in {"live", "kept"} /\ Exportable(s, s.area[a])
  BY <1>1, <1>2, <1>3 DEF Source
<1>5. /\ s.area[a].type # "extkv"
      /\ s.area[s.area[a].parent].type # "extkv" \/ s.area[a].parent = NoArea
  BY <1>2, <1>4 DEF Exportable, Shape
<1> QED BY <1>3, <1>4, <1>5

(* Registered memory keeps its handle when another area goes, and the area *)
(* that one lay in.                                                        *)
LEMMA KinLess ==
  ASSUME NEW Q, NEW s, NEW N, AreaInv(s, N, Q), Kin(s, N), NEW a \in Areas, NEW t,
         \A b \in Areas : b # a => \/ t.area[b] = s.area[b]
                                   \/ t.area[b] = Gone /\ b = s.area[a].parent,
         t.area[a].parent \in {s.area[a].parent, NoArea},
         \A e \in Areas : t.area[e].type = "extkv" => e # a /\ s.area[a].parent # e
  PROVE  Kin(t, Without(N, {a}))
<1>1. NoArea \notin Areas
  BY NumbersAssumption DEF NoArea
<1>2. Gone.parent = NoArea /\ Gone.type = "none"
  BY DEF Gone, NewArea
<1> SUFFICES ASSUME NEW e \in Areas, t.area[e].type = "extkv"
             PROVE  /\ \E n \in Without(N, {a}) : n[2] = e \/ t.area[n[2]].parent = e
                    /\ \A b, c \in Areas : t.area[b].parent = e /\ t.area[c].parent = e => b = c
                    /\ \A b \in Areas : t.area[b].parent = e => t.area[b].st = "live"
  BY DEF Kin
<1>3. e # a /\ s.area[a].parent # e /\ t.area[e] = s.area[e]
  BY <1>2
<1>4. ASSUME NEW b \in Areas, t.area[b].parent = e
      PROVE  s.area[b].parent = e /\ t.area[b] = s.area[b]
  BY <1>1, <1>2, <1>3, <1>4
<1>5. PICK n \in N : n[2] = e \/ s.area[n[2]].parent = e
  BY <1>3 DEF Kin
<1>6. n[2] \in Areas /\ Childless(s, n[2])
  BY DEF AreaInv
<1>7. n[2] # a /\ n[2] # s.area[a].parent
  BY <1>3, <1>5, <1>6 DEF Childless
<1>8. n \in Without(N, {a}) /\ t.area[n[2]] = s.area[n[2]]
  BY <1>6, <1>7 DEF Without
<1> QED BY <1>3, <1>4, <1>5, <1>8 DEF Kin

(* FreeBuf gives back what the area holds and leaves the others in order.  *)
LEMMA FreeBufHolds ==
  ASSUME NEW Q, NEW s, NEW N, NEW n \in N, AreaInv(s, N, Q), RecInv(s.structs), InOrder(s), ~Stops(s, n[2]),
         Counted(s), Tied(s), Kin(s, N)
  PROVE  LET t == FreeBuf(s, n[2])
         IN  Evens(s, t) /\ Fades(s, t) /\ Tied(t) /\ Kin(t, Without(N, {n[2]}))
<1>1. PICK a \in Areas : a = n[2]
  BY DEF AreaInv
<1>2. /\ s.area[a].st = "live" /\ Childless(s, a) /\ IsArea(s.area[a]) /\ Typed(s) /\ Shape(s.area[a])
      /\ DOMAIN s.area = Areas
  BY <1>1 DEF AreaInv, Typed, Tied
<1>3. NoArea \notin Areas
  BY NumbersAssumption DEF NoArea
<1> DEFINE t == FreeBuf(s, a)
           M == Without(N, {a})
           Good(u) == Evens(s, u) /\ Fades(s, u) /\ Tied(u) /\ Kin(u, M)
<1>4. CASE Exported(s, a)
  <2>1. t = [s EXCEPT !.area = [s.area EXCEPT ![a].st = "kept"]]
    BY <1>4 DEF FreeBuf, Keep
  <2>2. PICK x \in {"lost", "kept"} : x = "kept"
    OBVIOUS
  <2>3. t.area = [s.area EXCEPT ![a].st = x] /\ t.frame = s.frame
    <3> HIDE DEF t
    <3> QED BY <1>2, <2>1, <2>2 DEF IsState, Typed
  <2> HIDE DEF t
  <2>4. Evens(s, t)
    BY <1>2, <2>3, LostHolds DEF InUse
  <2>5. Falls(s, t, a)
    BY <1>2, <2>2, <2>3 DEF Falls
  <2>6. t.area[a].st = "kept" /\ t.area[a].parent = s.area[a].parent /\ t.area[a].type = s.area[a].type
    BY <1>2, <2>2, <2>3 DEF IsArea
  <2>7. PICK c \in Areas : s.area[c].src = a
    BY <1>4 DEF Exported
  <2>8. /\ s.area[a].type # "extkv"
        /\ s.area[s.area[a].parent].type # "extkv" \/ s.area[a].parent = NoArea
    BY <1>2, <2>7, SourceFacts
  <2>9. Tied(t)
    BY <1>2, <2>5, <2>6, <2>8, FallsTied
  <2>10. \A b \in Areas : b # a => t.area[b] = s.area[b]
    BY <1>2, <2>3
  <2>11. Kin(t, M)
    BY <1>3, <2>6, <2>8, <2>10, KinLess
  <2> QED BY <1>1, <1>2, <2>4, <2>5, <2>9, <2>11, FallsFades DEF t
<1>5. ~Exported(s, a) => \A c \in Areas : s.area[c].src # a
  BY <1>2, SourceFacts DEF Exported
<1>6. CASE ~Exported(s, a) /\ s.area[a].type # "sub"
  <2>1. t = FreeRoot(s, a)
    BY <1>6 DEF FreeBuf
  <2>2. s.area[a].type = "extkv" => ~RemoveRefused(s, a)
    BY <1>1 DEF Stops
  <2>3. Drops(s, t, a)
    BY <1>2, <2>1, <2>2, FreeRootDrops
  <2> HIDE DEF t
  <2>4. Falls(s, t, a)
    BY <1>2, <2>3 DEF Drops, Falls, InUse
  <2>5. t.area[a] = Gone \/ s.area[a].type # "extkv"
    BY <1>2, <2>2, <2>3 DEF Drops
  <2>6. Gone.st = "freed" /\ Gone.type = "none" /\ Gone.parent = NoArea
    BY DEF Gone, NewArea
  <2>7. Tied(t)
    BY <1>2, <1>5, <1>6, <2>4, <2>5, <2>6, FallsTied DEF Childless
  <2>8. s.area[a].parent = NoArea
    BY <1>2, <1>6 DEF Shape
  <2>9. /\ \A b \in Areas : b # a => t.area[b] = s.area[b]
        /\ t.area[a].parent = NoArea
        /\ t.area[a] = Gone \/ t.area[a].type = s.area[a].type
    BY <1>2, <2>4, <2>6, <2>8, FallsOthers
  <2>10. Kin(t, M)
    BY <1>3, <2>5, <2>6, <2>8, <2>9, KinLess
  <2> QED BY <1>1, <1>2, <2>3, <2>4, <2>7, <2>10, FallsFades DEF Drops, t
<1>7. CASE ~Exported(s, a) /\ s.area[a].type = "sub"
  <2> DEFINE u == FreeUnlessMapped(s, a)
             r == s.area[a].parent
             w == FreeRoot(u, r)
  <2>1. t = IF LastPart(s, a) THEN w ELSE u
    BY <1>7 DEF FreeBuf, OSReleaseSubMemHandle
  <2>2. Ends(s, u, a) /\ Drops(s, u, a)
    BY <1>2, <1>7, FreeUnlessMappedEnds, FreeUnlessMappedDrops
  <2>3. AreaInv(u, M, Q) /\ RecInv(u.structs)
    BY <1>2, <2>2, EndsKeeps
  <2>4. r \in Areas /\ r # a
    BY <1>2, <1>7 DEF IsArea, Childless
  <2>5. \A i \in DOMAIN s.structs : s.structs[i].area # r
    BY <2>4 DEF AreaInv, Childless
  <2> HIDE DEF u, r
  <2>6. \A i \in DOMAIN u.structs : u.structs[i].area # r
    BY <2>2, <2>5 DEF Ends, Shrinks
  <2>7. Falls(s, u, a)
    BY <1>2, <2>2 DEF Drops, Falls, InUse
  <2>8. Gone.st = "freed" /\ Gone.type = "none" /\ Gone.parent = NoArea /\ Gone.src = NoArea
    BY DEF Gone, NewArea
  <2>9. Tied(u)
    BY <1>2, <1>5, <1>7, <2>7, FallsTied DEF Childless
  <2>10. \A b \in Areas : b # a => u.area[b] = s.area[b]
    BY <1>2, <2>7, FallsOthers
  <2>11. u.area[a] = Gone \/ /\ u.area[a].st = "lost" /\ u.area[a].type = "sub"
                             /\ u.area[a].parent = r /\ u.area[a].src = NoArea
    <3>1. s.area[a].src = NoArea
      BY <1>2, <1>7 DEF Shape
    <3>2. CASE RemoveRefused(s, a)
      <4>1. u.area[a] = [s.area[a] EXCEPT !.st = "lost"]
        BY <1>2, <2>2, <3>2 DEF Drops
      <4> QED BY <1>2, <1>7, <3>1, <4>1 DEF IsArea, r
    <3>3. CASE ~RemoveRefused(s, a)
      BY <1>2, <2>2, <3>3 DEF Drops
    <3> QED BY <3>2, <3>3
  <2>12. Fades(s, u) /\ Evens(s, u) /\ Counted(u)
    BY <1>2, <2>2, <2>7, FallsFades DEF Drops, Evens
  <2>13. u.area[a].parent \in {r, NoArea} /\ u.area[a].type # "extkv"
    BY <2>8, <2>11
  <2>14. CASE ~LastPart(s, a)
    <3>1. s.area[r].type # "extkv"
      BY <2>4, <2>14 DEF LastPart, Kin, r
    <3>2. \A e \in Areas : u.area[e].type = "extkv" => e # a /\ r # e
      BY <2>4, <2>10, <2>13, <3>1
    <3>3. Kin(u, M)
      BY <2>10, <2>13, <3>2, KinLess DEF r
    <3> HIDE DEF t
    <3> QED BY <1>1, <2>1, <2>9, <2>12, <2>14, <3>3 DEF t
  <2>15. CASE LastPart(s, a)
    <3>1. ~RemoveRefused(u, r)
      BY <2>6 DEF RemoveRefused
    <3>2. Shape(u.area[r]) /\ Typed(u) /\ DOMAIN u.area = Areas
      BY <2>3, <2>4, <2>9 DEF Tied, AreaInv, Typed
    <3>3. Drops(u, w, r)
      BY <2>3, <2>4, <2>12, <3>1, <3>2, FreeRootDrops
    <3> HIDE DEF w, t
    <3>4. w.area = [u.area EXCEPT ![r] = Gone]
      BY <3>1, <3>3 DEF Drops
    <3>5. Falls(u, w, r)
      BY <3>4 DEF Falls
    <3>6. w.area[r] = Gone /\ \A b \in Areas : b # r => w.area[b] = u.area[b]
      BY <2>4, <3>2, <3>4
    <3>7. ASSUME NEW c \in Areas PROVE u.area[c].src # r
      <4>1. CASE c = a
        BY <1>3, <2>4, <2>8, <2>11, <4>1
      <4>2. CASE c # a
        <5>1. s.area[c].src = r => Childless(s, r)
          BY <1>2, <2>4, SourceFacts
        <5> QED BY <2>10, <4>2, <5>1 DEF Childless, r
      <4> QED BY <4>1, <4>2
    <3>8. ASSUME NEW c \in Areas, u.area[c].parent = r PROVE u.area[c].st \notin {"live", "kept"}
      <4>1. CASE c = a
        BY <2>8, <2>11, <4>1
      <4>2. CASE c # a
        BY <2>10, <2>15, <3>8, <4>2 DEF LastPart, r
      <4> QED BY <4>1, <4>2
    <3>9. Tied(w)
      BY <2>4, <2>8, <2>9, <3>2, <3>5, <3>6, <3>7, <3>8, FallsTied
    <3>10. Fades(s, w) /\ Evens(s, w)
      BY <2>4, <2>12, <3>2, <3>3, <3>5, FallsFades, FadesTrans, EvensTrans DEF Drops
    <3>11. \A b \in Areas : b # a => w.area[b] = s.area[b] \/ (w.area[b] = Gone /\ b = r)
      BY <2>10, <3>6
    <3>12. w.area[a] = u.area[a]
      BY <2>4, <3>6
    <3>13. \A e \in Areas : w.area[e].type = "extkv" => e # a /\ r # e
      BY <2>8, <2>13, <3>6, <3>12
    <3>14. Kin(w, M)
      BY <2>13, <3>11, <3>12, <3>13, KinLess DEF r
    <3> QED BY <1>1, <2>1, <2>15, <3>9, <3>10, <3>14 DEF t
  <2> QED BY <2>14, <2>15
<1> QED BY <1>4, <1>6, <1>7

(* Freeing a set of areas one after the other gives back what they hold.   *)
LEMMA FreeEachHolds ==
  ASSUME NEW Q, NEW s, NEW N, NEW A \in SUBSET Areas, NEW p, AreaInv(s, N, Q), RecInv(s.structs),
         InOrder(s), OnlyOf(s, N, A, p), Counted(s), Tied(s), Kin(s, N)
  PROVE  LET t == FreeEach(s, A)
         IN  Evens(s, t) /\ Fades(s, t) /\ Tied(t) /\ Kin(t, Without(N, A))
<1>1. IsFiniteSet(A)
  BY LoadsAssumption, FS_Subset
<1>2. PICK it : FreeEach(s, A) = it[A] /\ Frees(it, s, SUBSET A)
  BY <1>1, FreeEachDef
<1> DEFINE Good(u, M) == /\ AreaInv(u, M, Q) /\ RecInv(u.structs) /\ InOrder(u)
                         /\ Shrinks(s.structs, u.structs)
           Fine(u, M) == Evens(s, u) /\ Fades(s, u) /\ Tied(u) /\ Kin(u, M)
           G == {K \in SUBSET A : Good(it[K], Without(N, K)) /\ Fine(it[K], Without(N, K))}
<1>3. {} \in G
  <2>1. it[{}] = s /\ Without(N, {}) = N
    BY <1>2 DEF Frees, Without
  <2>2. Evens(s, s) /\ Fades(s, s)
    BY DEF Evens, Fades, SameOrGone
  <2> QED BY <2>1, <2>2, ShrinkRefl
<1>4. ASSUME NEW K \in SUBSET A, K # {}, K \ {Pick(K)} \in G PROVE K \in G
  <2>1. PICK x \in K : x = Pick(K)
    BY <1>4, Zenon DEF Pick
  <2> DEFINE u == it[K \ {x}]
             M == Without(N, K \ {x})
  <2>2. Good(u, M) /\ Fine(u, M)
    BY <1>4, <2>1
  <2>3. it[K] = FreeBuf(u, x)
    BY <1>2, <1>4, <2>1 DEF Frees
  <2>4. PICK n \in N : n[2] = x
    BY <2>1 DEF OnlyOf
  <2>5. n \in M /\ n[1] = p
    BY <2>1, <2>4 DEF Without, OnlyOf
  <2> HIDE DEF u, M
  <2>6. ~Stops(u, x)
    <3>1. SUFFICES ASSUME u.area[x].type = "extkv", NEW i \in DOMAIN u.structs,
                          u.structs[i].area = x, u.structs[i].mapped # 0
                   PROVE  FALSE
      BY DEF Stops, RemoveRefused
    <3>2. u.structs[i].pid = p
      BY <2>2, <2>4, <2>5, <3>1 DEF AreaInv
    <3>3. PICK j \in DOMAIN s.structs : u.structs[i] = s.structs[j]
      BY <2>2 DEF Shrinks
    <3> QED BY <3>1, <3>2, <3>3 DEF OnlyOf
  <2>7. PICK w : w = it[K]
    OBVIOUS
  <2>8. /\ AreaInv(w, Without(M, {x}), Q) /\ RecInv(w.structs) /\ InOrder(w)
        /\ Shrinks(u.structs, w.structs)
    BY <2>2, <2>3, <2>4, <2>5, <2>6, <2>7, FreeBufKeeps
  <2>9. Evens(u, w) /\ Fades(u, w) /\ Tied(w) /\ Kin(w, Without(M, {x}))
    <3>1. Counted(u)
      BY <2>2 DEF Evens
    <3>2. ~Stops(u, n[2]) /\ w = FreeBuf(u, n[2]) /\ x = n[2]
      BY <2>3, <2>4, <2>6, <2>7
    <3>3. AreaInv(u, M, Q) /\ RecInv(u.structs) /\ InOrder(u) /\ Tied(u) /\ Kin(u, M)
      BY <2>2
    <3> HIDE DEF Good, Fine
    <3> QED BY <2>5, <3>1, <3>2, <3>3, FreeBufHolds
  <2>10. Without(M, {x}) = Without(N, K)
    BY <2>1 DEF Without, M
  <2>11. Shrinks(s.structs, w.structs) /\ Evens(s, w) /\ Fades(s, w)
    BY <2>2, <2>8, <2>9, ShrinkTrans, EvensTrans, FadesTrans
  <2>12. Good(w, Without(N, K)) /\ Fine(w, Without(N, K))
    BY <2>8, <2>9, <2>10, <2>11
  <2> HIDE DEF Good, Fine
  <2> QED BY <2>7, <2>12
<1>5. A \in G
  <2> HIDE DEF G
  <2> QED BY <1>1, <1>3, <1>4, SubsetInduction
<1> QED BY <1>2, <1>5

(* So does freeing all areas of a process.                                 *)
LEMMA FreeAllHolds ==
  ASSUME NEW Q, NEW s, NEW N, NEW A \in SUBSET Areas, NEW p, AreaInv(s, N, Q), RecInv(s.structs),
         InOrder(s), OnlyOf(s, N, A, p), Counted(s), Tied(s), Kin(s, N)
  PROVE  LET t == FreeAll(s, A)
         IN  Evens(s, t) /\ Fades(s, t) /\ Tied(t) /\ Kin(t, Without(N, A))
<1> DEFINE B == {a \in A : s.area[a].src # NoArea}
           C == A \ B
           u == FreeEach(s, B)
           M == Without(N, B)
           t == FreeEach(u, C)
<1>1. B \in SUBSET Areas /\ C \in SUBSET Areas /\ B \cup C = A /\ B \cap C = {}
  OBVIOUS
<1>2. FreeAll(s, A) = t
  BY DEF FreeAll
<1> HIDE DEF B, C
<1>3. OnlyOf(s, N, B, p)
  BY <1>1 DEF OnlyOf
<1>4. AreaInv(u, M, Q) /\ RecInv(u.structs) /\ InOrder(u) /\ Shrinks(s.structs, u.structs)
  BY <1>1, <1>3, FreeEachKeeps
<1>5. Evens(s, u) /\ Fades(s, u) /\ Tied(u) /\ Kin(u, M)
  BY <1>1, <1>3, FreeEachHolds
<1> HIDE DEF u
<1>6. OnlyOf(u, M, C, p)
  <2>1. \A i \in DOMAIN u.structs : u.structs[i].pid = p => u.structs[i].mapped = 0
    BY <1>4 DEF Shrinks, OnlyOf
  <2> QED BY <1>1, <2>1 DEF Without, OnlyOf
<1>7. Without(M, C) = Without(N, A)
  BY <1>1 DEF Without
<1> HIDE DEF M
<1>8. Evens(u, t) /\ Fades(u, t) /\ Tied(t) /\ Kin(t, Without(M, C))
  BY <1>1, <1>4, <1>5, <1>6, FreeEachHolds DEF Evens
<1> HIDE DEF t
<1>9. Evens(s, t) /\ Fades(s, t)
  BY <1>5, <1>8, EvensTrans, FadesTrans
<1> QED BY <1>2, <1>7, <1>8, <1>9

(* When the module goes the areas that are left give back what they hold.  *)
LEMMA PurgeEachHolds ==
  ASSUME NEW s, NEW A \in SUBSET Areas, Typed(s), RecInv(s.structs), Counted(s),
         \A i \in DOMAIN s.structs : s.structs[i].mapped = 0,
         \A a \in A : Shape(s.area[a]) /\ s.area[a].type # "extkv"
  PROVE  LET t == PurgeEach(s, A)
         IN  Evens(s, t) /\ \A a \in Areas : t.area[a] = IF a \in A THEN Gone ELSE s.area[a]
<1>1. IsFiniteSet(A)
  BY LoadsAssumption, FS_Subset
<1>2. PICK it : PurgeEach(s, A) = it[A] /\ Purges(it, s, SUBSET A)
  BY <1>1, PurgeEachDef
<1> DEFINE Good(u, K) == /\ Typed(u) /\ RecInv(u.structs) /\ Shrinks(s.structs, u.structs)
                         /\ Evens(s, u) /\ \A a \in Areas : u.area[a] = IF a \in K THEN Gone ELSE s.area[a]
           G == {K \in SUBSET A : Good(it[K], K)}
<1>3. {} \in G
  <2>1. it[{}] = s
    BY <1>2 DEF Purges
  <2>2. Good(s, {})
    BY ShrinkRefl DEF Evens
  <2> HIDE DEF Good
  <2> QED BY <2>1, <2>2
<1>4. ASSUME NEW K \in SUBSET A, K # {}, K \ {Pick(K)} \in G PROVE K \in G
  <2>1. PICK x \in K : x = Pick(K)
    BY <1>4, Zenon DEF Pick
  <2>2. PICK u, w : u = it[K \ {x}] /\ w = it[K]
    OBVIOUS
  <2>3. Good(u, K \ {x})
    BY <1>4, <2>1, <2>2
  <2>4. w = PurgeArea(u, x)
    BY <1>2, <1>4, <2>1, <2>2 DEF Purges
  <2>5. \A i \in DOMAIN u.structs : u.structs[i].mapped = 0
    BY <2>3 DEF Shrinks
  <2>6. ~RemoveRefused(u, x) /\ x \in Areas /\ x \in A /\ u.area[x] = s.area[x]
    BY <2>1, <2>3, <2>5 DEF RemoveRefused
  <2>7. Ends(u, w, x)
    BY <2>3, <2>4, <2>6, UnRegisterEnds
  <2> DEFINE d == PVRMMapRemoveRegisteredArea(u, x)
  <2>8. IsState(d) /\ d.frame = u.frame /\ d.area = [u.area EXCEPT ![x].reg = FALSE]
    <3>1. IsState(u) /\ RecInv(u.structs)
      BY <2>3 DEF Typed
    <3>2. d.frame = u.frame
      BY <2>6, <3>1, RemoveFrames
    <3>3. IsState(d) /\ d.area = [u.area EXCEPT ![x].reg = FALSE]
      BY <2>3, <2>6, <3>1, RemoveFacts
    <3> QED BY <3>2, <3>3
  <2>9. w = LinuxMemAreaDeepFree(d, x)
    BY <2>4 DEF PurgeArea
  <2> HIDE DEF d
  <2>10. Shape(u.area[x]) /\ u.area[x].wrap \notin {"gup", "vma"} /\ Counted(u)
    BY <2>3, <2>6 DEF Shape, Evens
  <2>11. Evens(u, w) /\ w.area = [u.area EXCEPT ![x] = Gone]
    BY <2>3, <2>6, <2>8, <2>9, <2>10, DeepFreeEven
  <2>12. DOMAIN u.area = Areas /\ IsArea(Gone)
    <3>1. Gone.frames = <<>> /\ Gone.type = "none"
      BY DEF Gone, NewArea
    <3>2. Framed(Gone)
      BY <3>1 DEF Framed, IsList
    <3> QED BY <2>3, <3>2 DEF Typed, Gone, NewArea, IsArea, InUse
  <2>13. \A a \in Areas : w.area[a] = IF a = x THEN Gone ELSE u.area[a]
    BY <2>6, <2>11, <2>12
  <2>14. Typed(w)
    <3>1. w.area = [a \in Areas |-> w.area[a]]
      BY <2>11, <2>12
    <3>2. \A a \in Areas : IsArea(w.area[a])
      BY <2>3, <2>12, <2>13 DEF Typed
    <3> QED BY <2>7, <3>1, <3>2 DEF Typed, Ends
  <2>15. RecInv(w.structs) /\ Shrinks(s.structs, w.structs) /\ Evens(s, w)
    BY <2>3, <2>7, <2>11, ShrinkRec, ShrinkTrans, EvensTrans DEF Ends
  <2>16. \A a \in Areas : w.area[a] = IF a \in K THEN Gone ELSE s.area[a]
    BY <2>1, <2>3, <2>13
  <2>17. Good(w, K)
    BY <2>14, <2>15, <2>16
  <2> HIDE DEF Good
  <2> QED BY <2>2, <2>17
<1>5. A \in G
  <2> HIDE DEF G
  <2> QED BY <1>1, <1>3, <1>4, SubsetInduction
<1> QED BY <1>2, <1>5

-----------------------------------------------------------------------------
(* New areas.                                                              *)

(* Putting an area in an unused place leaves the others in order.          *)
LEMMA NewTied ==
  ASSUME NEW s, Typed(s), Tied(s), NEW a \in Areas, s.area[a].st = "unused", NEW t, NEW x,
         t.area = [s.area EXCEPT ![a] = x], Shape(x), Source(s, x), PartOf(s, x),
         x.parent # NoArea => \A c \in Areas : s.area[c].src # x.parent
  PROVE  Tied(t)
<1>1. NoArea \notin Areas
  BY NumbersAssumption DEF NoArea
<1>2. \A b \in Areas : /\ Shape(s.area[b]) /\ Source(s, s.area[b]) /\ PartOf(s, s.area[b])
                       /\ IsArea(s.area[b])
  BY DEF Tied, Typed
<1>3. t.area[a] = x /\ \A b \in Areas : b # a => t.area[b] = s.area[b]
  BY DEF Typed
<1>4. s.area[a].type = "none"
  BY <1>2 DEF Shape
<1>5. ASSUME NEW d \in Areas, Childless(s, d), x.parent # d PROVE Childless(t, d)
  BY <1>3, <1>5 DEF Childless
<1>6. ASSUME NEW d \in Areas, Exportable(s, s.area[d]) PROVE Exportable(t, s.area[d])
  <2>1. CASE s.area[d].type \in {"pages", "vmalloc"}
    BY <2>1 DEF Exportable
  <2>2. CASE s.area[d].type = "sub" /\ s.area[s.area[d].parent].type = "vmalloc"
    <3>1. s.area[d].parent \in Areas /\ s.area[d].parent # a
      BY <1>2, <1>4, <2>2 DEF IsArea
    <3> QED BY <1>3, <2>2, <3>1 DEF Exportable
  <2> QED BY <1>6, <2>1, <2>2 DEF Exportable
<1>7. ASSUME NEW y, Source(s, y), y.src \in Areas => x.parent # y.src PROVE Source(t, y)
  <2>1. CASE y.type = "extkv" /\ y.wrap = "none" /\ y.src \in Areas /\ Childless(s, y.src)
             /\ s.area[y.src].st \in {"live", "kept"} /\ s.area[y.src].frames = y.frames
             /\ Exportable(s, s.area[y.src])
    <3>1. t.area[y.src] = s.area[y.src]
      BY <1>3, <2>1
    <3>2. Childless(t, y.src) /\ Exportable(t, s.area[y.src])
      BY <1>5, <1>6, <1>7, <2>1
    <3> QED BY <2>1, <3>1, <3>2 DEF Source
  <2> QED BY <1>7, <2>1 DEF Source
<1>8. ASSUME NEW y, PartOf(s, y), y.type = "sub" => y.parent \in Areas PROVE PartOf(t, y)
  <2>1. CASE y.type = "sub" /\ y.st \in {"live", "kept"}
    <3>1. y.parent # a
      BY <1>4, <1>8, <2>1 DEF PartOf
    <3> QED BY <1>3, <1>8, <2>1, <3>1 DEF PartOf
  <2> QED BY <2>1 DEF PartOf
<1>9. ASSUME NEW c \in Areas PROVE Shape(t.area[c])
  BY <1>2, <1>3
<1>10. ASSUME NEW c \in Areas PROVE Source(t, t.area[c])
  <2>1. CASE c = a
    <3>1. x.type = "extkv" => x.parent = NoArea
      BY DEF Shape
    <3>2. x.type # "extkv" => Source(t, x)
      BY DEF Source
    <3>3. x.type = "extkv" => Source(t, x)
      BY <1>1, <1>7, <3>1
    <3> QED BY <1>3, <2>1, <3>2, <3>3
  <2>2. CASE c # a
    <3>1. s.area[c].src \in Areas => x.parent # s.area[c].src
      BY <1>1
    <3> QED BY <1>2, <1>3, <1>7, <2>2, <3>1
  <2> QED BY <2>1, <2>2
<1>11. ASSUME NEW c \in Areas PROVE PartOf(t, t.area[c])
  <2>1. CASE c = a
    <3>1. CASE x.type = "sub" /\ x.st \in {"live", "kept"}
      <4>1. x.parent # a
        BY <1>4, <3>1 DEF PartOf
      <4>2. CASE x.parent \in Areas
        BY <1>3, <1>8, <2>1, <4>2
      <4>3. CASE x.parent \notin Areas
        <5>1. t.area[x.parent] = s.area[x.parent]
          BY <4>1
        <5> QED BY <1>3, <2>1, <3>1, <5>1 DEF PartOf
      <4> QED BY <4>2, <4>3
    <3> QED BY <1>3, <2>1, <3>1 DEF PartOf
  <2>2. CASE c # a
    <3>1. s.area[c].type = "sub" => s.area[c].parent \in Areas
      BY <1>2 DEF IsArea
    <3> QED BY <1>2, <1>3, <1>8, <2>2, <3>1
  <2> QED BY <2>1, <2>2
<1> QED BY <1>9, <1>10, <1>11 DEF Tied

(* A new area has a handle, and lies in no registered memory.              *)
LEMMA NewKin ==
  ASSUME NEW Q, NEW s, NEW N, AreaInv(s, N, Q), Kin(s, N), NEW a \in Areas, s.area[a].st = "unused",
         NEW t, NEW x, NEW p, t.area = [s.area EXCEPT ![a] = x],
         x.parent = NoArea \/ s.area[x.parent].type # "extkv",
         x.parent # a
  PROVE  Kin(t, N \cup {<<p, a>>})
<1>1. NoArea \notin Areas
  BY NumbersAssumption DEF NoArea
<1>2. t.area[a] = x /\ \A b \in Areas : b # a => t.area[b] = s.area[b]
  BY DEF AreaInv, Typed
<1> SUFFICES ASSUME NEW e \in Areas, t.area[e].type = "extkv"
             PROVE  /\ \E n \in N \cup {<<p, a>>} : n[2] = e \/ t.area[n[2]].parent = e
                    /\ \A b, c \in Areas : t.area[b].parent = e /\ t.area[c].parent = e => b = c
                    /\ \A b \in Areas : t.area[b].parent = e => t.area[b].st = "live"
  BY DEF Kin
<1>3. CASE e = a
  <2>1. \A b \in Areas : t.area[b].parent # a
    BY <1>1, <1>2 DEF AreaInv
  <2>2. <<p, a>> \in N \cup {<<p, a>>} /\ <<p, a>>[2] = e
    BY <1>3
  <2> QED BY <1>3, <2>1, <2>2
<1>4. CASE e # a
  <2>1. s.area[e].type = "extkv" /\ x.parent # e
    BY <1>1, <1>2, <1>4
  <2>2. \A b \in Areas : t.area[b].parent = e => s.area[b].parent = e /\ t.area[b] = s.area[b]
    BY <1>2, <2>1
  <2>3. PICK n \in N : n[2] = e \/ s.area[n[2]].parent = e
    BY <2>1 DEF Kin
  <2>4. n[2] \in Areas /\ n[2] # a
    BY DEF AreaInv
  <2>5. t.area[n[2]] = s.area[n[2]]
    BY <1>2, <2>4
  <2> QED BY <2>1, <2>2, <2>3, <2>5 DEF Kin
<1> QED BY <1>3, <1>4

(* Two areas are new, and the first lies in the second.                    *)
NewPair(s, t, a, d) ==
  /\ s.area[a].st = "unused" /\ s.area[d].st = "unused"
  /\ \A b \in Areas : b \notin {a, d} => t.area[b] = s.area[b]
  /\ t.area[d].parent = NoArea /\ t.area[a].parent = d /\ t.area[a].st = "live"
  /\ t.area[a].type # "extkv"

(* The same of a new area and the one it lies in.                          *)
LEMMA NewKinTwo ==
  ASSUME NEW Q, NEW s, NEW N, AreaInv(s, N, Q), Kin(s, N), NEW a \in Areas, NEW d \in Areas, a # d,
         NEW t, NEW p, NewPair(s, t, a, d)
  PROVE  Kin(t, N \cup {<<p, a>>})
<1>1. NoArea \notin Areas
  BY NumbersAssumption DEF NoArea
<1> USE DEF NewPair
<1>2. \A b \in Areas : b \notin {a, d} => t.area[b] = s.area[b]
  OBVIOUS
<1> SUFFICES ASSUME NEW e \in Areas, t.area[e].type = "extkv"
             PROVE  /\ \E n \in N \cup {<<p, a>>} : n[2] = e \/ t.area[n[2]].parent = e
                    /\ \A b, c \in Areas : t.area[b].parent = e /\ t.area[c].parent = e => b = c
                    /\ \A b \in Areas : t.area[b].parent = e => t.area[b].st = "live"
  BY DEF Kin
<1>3. CASE e = d
  <2>1. \A b \in Areas : t.area[b].parent = d => b = a
    BY <1>1, <1>2 DEF AreaInv
  <2>2. <<p, a>> \in N \cup {<<p, a>>} /\ t.area[<<p, a>>[2]].parent = e
    BY <1>2, <1>3
  <2> QED BY <1>2, <1>3, <2>1, <2>2
<1>4. CASE e # d
  <2>1. s.area[e].type = "extkv" /\ e # a
    BY <1>2, <1>4
  <2>2. \A b \in Areas : t.area[b].parent = e => s.area[b].parent = e /\ t.area[b] = s.area[b]
    BY <1>1, <1>2, <1>4
  <2>3. PICK n \in N : n[2] = e \/ s.area[n[2]].parent = e
    BY <2>1 DEF Kin
  <2>4. n[2] \in Areas /\ n[2] # a /\ n[2] # d
    BY DEF AreaInv
  <2>5. t.area[n[2]] = s.area[n[2]]
    BY <1>2, <2>4
  <2> QED BY <2>1, <2>2, <2>3, <2>5 DEF Kin
<1> QED BY <1>3, <1>4

(* A new area whose frames were taken for it.                              *)
LEMMA NewEven ==
  ASSUME NEW s, Typed(s), Counted(s), NEW a \in Areas, s.area[a].st = "unused", NEW t, Typed(t), Counted(t),
         NEW x, t.area = [s.area EXCEPT ![a] = x],
         \A f \in Frames : t.frame[f] = s.frame[f] + HeldByArea(x, f)
  PROVE  Evens(s, t)
<1>1. HoldsNat(s) /\ HoldsNat(t)
  BY TypedHolds
<1>2. t.area[a] = x /\ \A b \in Areas : b # a => t.area[b] = s.area[b]
  BY DEF Typed
<1>3. \A f \in Frames : HeldByArea(s.area[a], f) = 0
  BY DEF HeldByArea
<1>4. ASSUME NEW f \in Frames
      PROVE  t.frame[f] - HeldByArea(t.area[a], f) = s.frame[f] - HeldByArea(s.area[a], f)
  <2>1. HeldByArea(x, f) \in Nat /\ s.frame[f] \in Int
    BY <1>1, <1>2 DEF HoldsNat, Counted
  <2> QED BY <1>2, <1>3, <2>1
<1> QED BY <1>1, <1>2, <1>4, Moves

-----------------------------------------------------------------------------
(* What the calls that make an area put in its place, and take for it.     *)
Registered(type, fs, par, src, wrap) == AreaOf("live", type, Yes, fs, par, src, wrap)

(* Its fields.                                                             *)
LEMMA RegisteredFields ==
  ASSUME NEW type, NEW fs, NEW par, NEW src, NEW wrap
  PROVE  LET x == Registered(type, fs, par, src, wrap)
         IN  /\ x.st = "live" /\ x.type = type /\ x.frames = fs /\ x.parent = par
             /\ x.src = src /\ x.wrap = wrap
<1>1. PICK reg : reg = Yes
  OBVIOUS
<1>2. Registered(type, fs, par, src, wrap) = AreaOf("live", type, reg, fs, par, src, wrap)
  BY <1>1 DEF Registered
<1>3. PICK x : x = AreaOf("live", type, reg, fs, par, src, wrap)
  OBVIOUS
<1>4. /\ x.st = "live" /\ x.type = type /\ x.frames = fs /\ x.parent = par /\ x.src = src
      /\ x.wrap = wrap
  BY <1>3 DEF AreaOf
<1> QED BY <1>2, <1>3, <1>4

(* What it holds.                                                          *)
LEMMA RegisteredHolds ==
  ASSUME NEW type, NEW fs, NEW par, NEW src, NEW wrap, NEW f
  PROVE  HeldByArea(Registered(type, fs, par, src, wrap), f)
           = IF type \in {"pages", "vmalloc"} \/ wrap \in {"gup", "vma"} THEN Occurs(f, fs) ELSE 0
<1>1. PICK x : x = Registered(type, fs, par, src, wrap)
  OBVIOUS
<1>2. x.st = "live" /\ x.type = type /\ x.frames = fs /\ x.wrap = wrap
  BY <1>1, RegisteredFields
<1>3. HeldByArea(x, f) = IF type \in {"pages", "vmalloc"} \/ wrap \in {"gup", "vma"}
                         THEN Occurs(f, fs) ELSE 0
  BY <1>2 DEF HeldByArea
<1> QED BY <1>1, <1>3

(* Changes to an area leave the frames alone.                              *)
LEMMA AreaFrames ==
  ASSUME NEW s, IsState(s), NEW a, NEW type, NEW fs, NEW r
  PROVE  /\ IsState(LinuxMemAreaStructAlloc(s, a, type, fs)) /\ IsState(PVRMMapRegisterArea(s, a))
         /\ LinuxMemAreaStructAlloc(s, a, type, fs).frame = s.frame
         /\ PVRMMapRegisterArea(s, a).frame = s.frame
         /\ [s EXCEPT !.area[a].parent = r].frame = s.frame
         /\ [s EXCEPT !.area[a].src = r].frame = s.frame
         /\ [s EXCEPT !.area[a].wrap = r].frame = s.frame
<1>1. /\ IsState(LinuxMemAreaStructAlloc(s, a, type, fs))
      /\ LinuxMemAreaStructAlloc(s, a, type, fs).frame = s.frame
  <2>1. PICK x : LinuxMemAreaStructAlloc(s, a, type, fs) = [s EXCEPT !.area[a] = x]
    BY DEF LinuxMemAreaStructAlloc
  <2> QED BY <2>1 DEF IsState
<1>2. IsState(PVRMMapRegisterArea(s, a)) /\ PVRMMapRegisterArea(s, a).frame = s.frame
  BY DEF PVRMMapRegisterArea, IsState
<1>3. /\ [s EXCEPT !.area[a].parent = r].frame = s.frame
      /\ [s EXCEPT !.area[a].src = r].frame = s.frame
      /\ [s EXCEPT !.area[a].wrap = r].frame = s.frame
  BY DEF IsState
<1> QED BY <1>1, <1>2, <1>3

(* Every frame of the list has one more reference for each time it occurs. *)
Takes(s, t, fs) == Counted(t) /\ \A f \in Frames : t.frame[f] = s.frame[f] + Occurs(f, fs)

(* No reference changes.                                                   *)
Idle(s, t) == Counted(t) /\ \A f \in Frames : t.frame[f] = s.frame[f]

(* Pages that are taken and given back.                                    *)
LEMMA GetPutIdle ==
  ASSUME NEW s, IsState(s), Counted(s), NEW fs, IsList(fs)
  PROVE  Takes(s, GetPages(s, fs), fs) /\ Idle(s, PutPages(GetPages(s, fs), fs))
<1> DEFINE u == GetPages(s, fs)
           t == PutPages(u, fs)
<1>1. IsState(u) /\ Counted(u) /\ \A f \in Frames : u.frame[f] = s.frame[f] + Occurs(f, fs)
  BY PagesFacts, PagesFrames
<1> HIDE DEF u
<1>2. Counted(t) /\ \A f \in Frames : t.frame[f] = u.frame[f] - Occurs(f, fs)
  BY <1>1, PagesFrames
<1> HIDE DEF t
<1>3. \A f \in Frames : s.frame[f] \in Int /\ Occurs(f, fs) \in Nat
  BY OccursFacts DEF Counted
<1>4. Takes(s, u, fs) /\ Idle(s, t)
  BY <1>1, <1>2, <1>3 DEF Takes, Idle
<1> QED BY <1>4 DEF t, u

(* OSAllocPages.                                                           *)
LEMMA AllocPuts ==
  ASSUME NEW s, NEW a \in Areas, DOMAIN s.area = Areas, IsState(s), Counted(s), NEW kind, NEW fs,
         NEW got \in Nat, IsList(fs), IsList(SubSeq(fs, 1, got)), Len(fs) \in Nat, got <= Len(fs),
         kind = "multi" => got = Len(fs)
  PROVE  LET t == OSAllocPages(s, a, kind, fs, got)
         IN  /\ got = Len(fs) =>
                  \E type \in {"pages", "vmalloc"} :
                     /\ Puts(s, t, a, Registered(type, fs, NoArea, NoArea, "none")) /\ Takes(s, t, fs)
                     /\ kind = "multi" => type = "vmalloc"
             /\ got # Len(fs) => IsState(t) /\ t.area = s.area /\ t.structs = s.structs /\ Idle(s, t)
<1>1. ASSUME NEW type
      PROVE  LET w == PVRMMapRegisterArea(GetPages(LinuxMemAreaStructAlloc(s, a, type, fs), fs), a)
             IN  Puts(s, w, a, Registered(type, fs, NoArea, NoArea, "none")) /\ Takes(s, w, fs)
  <2> DEFINE v == LinuxMemAreaStructAlloc(s, a, type, fs)
             u == GetPages(v, fs)
             w == PVRMMapRegisterArea(u, a)
  <2>1. Puts(s, v, a, AreaOf("live", type, No, fs, NoArea, NoArea, "none"))
    BY StructAllocPuts
  <2>2. IsState(v) /\ v.frame = s.frame /\ Counted(v)
    BY AreaFrames DEF Counted
  <2> HIDE DEF v
  <2>3. Puts(s, u, a, AreaOf("live", type, No, fs, NoArea, NoArea, "none")) /\ IsState(u)
    BY <2>1, <2>2, PagesFacts DEF Puts
  <2>4. Counted(u) /\ \A f \in Frames : u.frame[f] = s.frame[f] + Occurs(f, fs)
    BY <2>2, PagesFrames
  <2> HIDE DEF u
  <2>5. Puts(s, w, a, Registered(type, fs, NoArea, NoArea, "none"))
    BY <2>3, RegisterPuts DEF Registered
  <2>6. w.frame = u.frame
    BY <2>3, AreaFrames
  <2> HIDE DEF w
  <2>7. Takes(s, w, fs)
    BY <2>4, <2>6 DEF Takes, Counted
  <2> QED BY <2>5, <2>7 DEF u, v, w
<1>2. CASE kind = "multi"
  BY <1>1, <1>2 DEF OSAllocPages, NewVMallocLinuxMemArea
<1>3. CASE kind # "multi" /\ got = Len(fs)
  BY <1>1, <1>3 DEF OSAllocPages, NewAllocPagesLinuxMemArea
<1>4. CASE kind # "multi" /\ got < Len(fs)
  <2> DEFINE gs == SubSeq(fs, 1, got)
             v == GetPages(s, gs)
             u == PutPages(v, gs)
  <2>1. OSAllocPages(s, a, kind, fs, got) = u
    BY <1>4 DEF OSAllocPages, NewAllocPagesLinuxMemArea
  <2> HIDE DEF gs
  <2>2. IsState(v) /\ v.area = s.area /\ v.structs = s.structs
    BY PagesFacts
  <2>3. Idle(s, u)
    BY GetPutIdle DEF gs
  <2> HIDE DEF v
  <2>4. IsState(u) /\ u.area = s.area /\ u.structs = s.structs
    BY <2>2, PagesFacts
  <2> HIDE DEF u
  <2> QED BY <1>4, <2>1, <2>3, <2>4
<1> QED BY <1>2, <1>3, <1>4

(* OSGetSubMemHandle.                                                      *)
LEMMA SubPuts ==
  ASSUME NEW s, NEW a \in Areas, DOMAIN s.area = Areas, IsState(s), NEW r, NEW fs
  PROVE  LET t == OSGetSubMemHandle(s, a, r, fs)
         IN  Puts(s, t, a, Registered("sub", fs, r, NoArea, "none")) /\ t.frame = s.frame
<1> DEFINE v == LinuxMemAreaStructAlloc(s, a, "sub", fs)
           u == NewSubLinuxMemArea(s, a, r, fs)
<1>1. PICK x : x = AreaOf("live", "sub", No, fs, NoArea, NoArea, "none")
  OBVIOUS
<1>2. Puts(s, v, a, x)
  BY <1>1, StructAllocPuts
<1>3. IsState(v) /\ v.frame = s.frame
  BY AreaFrames
<1>4. u = [v EXCEPT !.area[a].parent = r]
  BY DEF NewSubLinuxMemArea
<1> HIDE DEF u, v
<1>5. Puts(s, u, a, [x EXCEPT !.parent = r]) /\ u.frame = s.frame
  <2>1. Puts(s, [v EXCEPT !.area[a].parent = r], a, [x EXCEPT !.parent = r])
    BY <1>2, PutsAgain
  <2>2. [v EXCEPT !.area[a].parent = r].frame = v.frame
    BY <1>3, AreaFrames
  <2> QED BY <1>3, <1>4, <2>1, <2>2
<1>6. [x EXCEPT !.parent = r] = AreaOf("live", "sub", No, fs, r, NoArea, "none")
  BY <1>1 DEF AreaOf
<1>7. Puts(s, PVRMMapRegisterArea(u, a), a, Registered("sub", fs, r, NoArea, "none"))
  BY <1>5, <1>6, RegisterPuts DEF Registered
<1>8. PVRMMapRegisterArea(u, a).frame = s.frame
  BY <1>5, AreaFrames DEF Puts
<1> QED BY <1>7, <1>8 DEF u, OSGetSubMemHandle

(* OSReservePhys.                                                          *)
LEMMA ReservePuts ==
  ASSUME NEW s, NEW a \in Areas, DOMAIN s.area = Areas, IsState(s), NEW kind, NEW fs
  PROVE  LET t == OSReservePhys(s, a, fs, kind)
         IN  /\ \E type \in {"io", "ioremap"} : Puts(s, t, a, Registered(type, fs, NoArea, NoArea, "none"))
             /\ t.frame = s.frame
<1>1. ASSUME NEW type
      PROVE  LET t == PVRMMapRegisterArea(LinuxMemAreaStructAlloc(s, a, type, fs), a)
             IN  Puts(s, t, a, Registered(type, fs, NoArea, NoArea, "none")) /\ t.frame = s.frame
  <2> DEFINE v == LinuxMemAreaStructAlloc(s, a, type, fs)
  <2>1. Puts(s, v, a, AreaOf("live", type, No, fs, NoArea, NoArea, "none"))
    BY StructAllocPuts
  <2>2. IsState(v) /\ v.frame = s.frame
    BY AreaFrames
  <2> HIDE DEF v
  <2>3. Puts(s, PVRMMapRegisterArea(v, a), a, Registered(type, fs, NoArea, NoArea, "none"))
    BY <2>1, RegisterPuts DEF Registered
  <2>4. PVRMMapRegisterArea(v, a).frame = s.frame
    BY <2>2, AreaFrames
  <2> QED BY <2>3, <2>4 DEF v
<1> QED BY <1>1 DEF OSReservePhys, NewIOLinuxMemArea, NewIORemapLinuxMemArea

Sourced(s, a, fs, r) == [OSRegisterDiscontigMem(s, a, fs) EXCEPT !.area[a].src = r]

(* OSRegisterDiscontigMem, with the note of what it maps or wraps.         *)
LEMMA RegisterMemPuts ==
  ASSUME NEW s, NEW a \in Areas, DOMAIN s.area = Areas, IsState(s), NEW fs, NEW r
  PROVE  /\ Puts(s, Sourced(s, a, fs, r), a, Registered("extkv", fs, NoArea, r, "none"))
         /\ Sourced(s, a, fs, r).frame = s.frame
         /\ Puts(s, Wrapped(s, a, fs, r), a, Registered("extkv", fs, NoArea, NoArea, r))
         /\ Wrapped(s, a, fs, r).frame = s.frame
<1> DEFINE u == OSRegisterDiscontigMem(s, a, fs)
<1>1. PICK x : x = AreaOf("live", "extkv", Yes, fs, NoArea, NoArea, "none")
  OBVIOUS
<1>2. Puts(s, u, a, x) /\ u.frame = s.frame
  <2>1. Puts(s, u, a, x)
    BY <1>1, StructAllocPuts, RegisterPuts DEF OSRegisterDiscontigMem, NewExternalKVLinuxMemArea
  <2>2. u.frame = s.frame
    BY AreaFrames DEF OSRegisterDiscontigMem, NewExternalKVLinuxMemArea
  <2> QED BY <2>1, <2>2
<1> HIDE DEF u
<1>3. /\ Puts(s, [u EXCEPT !.area[a].src = r], a, [x EXCEPT !.src = r])
      /\ Puts(s, [u EXCEPT !.area[a].wrap = r], a, [x EXCEPT !.wrap = r])
  BY <1>2, PutsAgain
<1>4. [u EXCEPT !.area[a].src = r].frame = s.frame /\ [u EXCEPT !.area[a].wrap = r].frame = s.frame
  BY <1>2, AreaFrames DEF Puts
<1>5. /\ [x EXCEPT !.src = r] = Registered("extkv", fs, NoArea, r, "none")
      /\ [x EXCEPT !.wrap = r] = Registered("extkv", fs, NoArea, NoArea, r)
  BY <1>1 DEF AreaOf, Registered
<1> QED BY <1>3, <1>4, <1>5 DEF u, Sourced, Wrapped

-----------------------------------------------------------------------------
(***************************************************************************)
(* The invariant of the frames.                                            *)
(***************************************************************************)
MapSum(vs, f) == Total([v \in vs |-> HeldByMapping(v, f)], vs)
AnonSum(an, f) == Total([p \in Procs |-> Occurs(f, an[p])], Procs)

(* Each frame has a reference for whatever holds it.                       *)
Balanced(s, vs, an) ==
  \A f \in Frames : s.frame[f] - AreaSum(s, f) = MapSum(vs, f) + AnonSum(an, f)

(* Only a process that is up has a buffer of its own.                      *)
Brought(an, pr) ==
  an \in [Procs -> Seq(Frames)] /\ \A p \in Procs : pr[p] # "up" => an[p] = <<>>

(* A mapping shows the frames of its area, which is that of its record.    *)
Linked(s, vs) ==
  /\ \A v \in vs : v.area \in Areas /\ v.frames = s.area[v.area].frames
  /\ \A v \in vs : \A i \in DOMAIN s.structs :
        s.structs[i].id = v.id => s.structs[i].area = v.area

(* The module leaves no area behind.                                       *)
Emptied(s, pr) ==
  (\A p \in Procs : pr[p] = "unloaded") => \A a \in Areas : s.area[a].st \notin InUse

Holding(s, N, vs, an, pr) ==
  /\ Counted(s) /\ Tied(s) /\ Kin(s, N)
  /\ Balanced(s, vs, an) /\ Brought(an, pr) /\ Linked(s, vs) /\ Emptied(s, pr)

FInv == MInv /\ Holding(Now, NamesOf(handles), vmas, anon, proc)

(* What a mapping holds.                                                   *)
LEMMA MapHolds ==
  ASSUME NEW v, IsList(v.frames), NEW f
  PROVE  HeldByMapping(v, f) \in Nat
BY OccursFacts DEF HeldByMapping

(* A mapping goes, or comes.                                               *)
LEMMA MapSumDrop ==
  ASSUME NEW vs, IsFiniteSet(vs), \A v \in vs : IsList(v.frames), NEW w \in vs, NEW f
  PROVE  /\ MapSum(vs, f) = MapSum(vs \ {w}, f) + HeldByMapping(w, f)
         /\ MapSum(vs \ {w}, f) \in Int /\ HeldByMapping(w, f) \in Nat
<1> DEFINE g == [v \in vs |-> HeldByMapping(v, f)]
           us == vs \ {w}
           h == [v \in us |-> HeldByMapping(v, f)]
<1>1. \A v \in vs : g[v] \in Nat /\ g[v] = HeldByMapping(v, f)
  BY MapHolds
<1>2. \A v \in us : g[v] = h[v]
  OBVIOUS
<1>3. IsFiniteSet(us)
  BY FS_Subset
<1>4. MapSum(vs, f) = Total(g, vs) /\ MapSum(us, f) = Total(h, us)
  BY DEF MapSum
<1> HIDE DEF g, h
<1>5. Total(g, vs) = g[w] + Total(g, vs \ {w}) /\ Total(g, vs \ {w}) \in Int
  BY <1>1, TotalAny
<1>6. Total(g, us) = Total(h, us)
  BY <1>2, <1>3, TotalSame
<1>7. g[w] \in Nat /\ g[w] = HeldByMapping(w, f)
  BY <1>1
<1> QED BY <1>4, <1>5, <1>6, <1>7

(* One more mapping holds its frames besides those that others hold.       *)
LEMMA MapSumAdd ==
  ASSUME NEW vs, IsFiniteSet(vs), \A v \in vs : IsList(v.frames), NEW w, w \notin vs,
         IsList(w.frames), NEW f
  PROVE  /\ MapSum(vs \cup {w}, f) = MapSum(vs, f) + HeldByMapping(w, f)
         /\ MapSum(vs, f) \in Int /\ HeldByMapping(w, f) \in Nat
<1> DEFINE us == vs \cup {w}
<1>1. IsFiniteSet(us) /\ w \in us /\ (\A v \in us : IsList(v.frames)) /\ us \ {w} = vs
  BY FS_AddElement
<1> HIDE DEF us
<1>2. /\ MapSum(us, f) = MapSum(us \ {w}, f) + HeldByMapping(w, f)
      /\ MapSum(us \ {w}, f) \in Int /\ HeldByMapping(w, f) \in Nat
  BY <1>1, MapSumDrop
<1> QED BY <1>1, <1>2 DEF us

(* A process gives its buffer back.                                        *)
LEMMA AnonSumDrop ==
  ASSUME NEW an \in [Procs -> Seq(Frames)], NEW p \in Procs, NEW f
  PROVE  /\ AnonSum(an, f) = AnonSum([an EXCEPT ![p] = <<>>], f) + Occurs(f, an[p])
         /\ AnonSum([an EXCEPT ![p] = <<>>], f) \in Int /\ Occurs(f, an[p]) \in Nat
<1> DEFINE bn == [an EXCEPT ![p] = <<>>]
           g == [q \in Procs |-> Occurs(f, an[q])]
           h == [q \in Procs |-> Occurs(f, bn[q])]
<1>1. bn \in [Procs -> Seq(Frames)] /\ bn[p] = <<>> /\ \A q \in Procs : q # p => bn[q] = an[q]
  OBVIOUS
<1> HIDE DEF bn
<1>2. \A q \in Procs : Occurs(f, an[q]) \in Nat /\ Occurs(f, bn[q]) \in Nat
  BY <1>1, SeqIsList, OccursFacts
<1>3. /\ \A q \in Procs : g[q] \in Int /\ h[q] \in Int /\ (q # p => h[q] = g[q])
      /\ g[p] = Occurs(f, an[p]) /\ h[p] = Occurs(f, bn[p])
  BY <1>1, <1>2
<1>4. AnonSum(an, f) = Total(g, Procs) /\ AnonSum(bn, f) = Total(h, Procs)
  BY DEF AnonSum
<1>5. IsFiniteSet(Procs)
  BY LoadsAssumption
<1> HIDE DEF g, h
<1>6. Total(h, Procs) = Total(g, Procs) - g[p] + h[p]
  <2>1. /\ \A q \in Procs : g[q] \in Int
        /\ \A q \in Procs : h[q] \in Int
        /\ \A q \in Procs : q # p => h[q] = g[q]
    BY <1>3
  <2> QED BY ONLY <1>5, <2>1, p \in Procs, TotalUpdate
<1>7. Total(g, Procs) \in Int
  BY <1>3, <1>5, TotalAny
<1>8. Occurs(f, <<>>) = 0
  <2>1. IsList(<<>>) /\ f \notin ToSet(<<>>)
    BY DEF IsList, ToSet
  <2> QED BY <2>1, OccursFacts
<1> QED BY <1>1, <1>2, <1>3, <1>4, <1>6, <1>7, <1>8 DEF bn

(* Areas that stay in use keep their frames.                               *)
Lasting(s, t) ==
  \A a \in Areas : s.area[a].st \in InUse /\ t.area[a].st \in InUse => t.area[a].frames = s.area[a].frames

(* A mapping keeps its area.                                               *)
LEMMA StillLinked ==
  ASSUME FInv, NEW s, NEW N, NEW Q, AreaInv(s, N, Q), MapInv(vmas, s.structs), Lasting(Now, s),
         \A v \in vmas : \A i \in DOMAIN s.structs : s.structs[i].id = v.id => s.structs[i].area = v.area
  PROVE  Linked(s, vmas)
<1> SUFFICES ASSUME NEW v \in vmas PROVE v.area \in Areas /\ v.frames = s.area[v.area].frames
  BY DEF Linked
<1>1. v.area \in Areas /\ v.frames = Now.area[v.area].frames
  BY DEF FInv, Holding, Linked
<1>2. Now.area[v.area].st \in InUse
  <2>1. PICK i \in DOMAIN structs : structs[i].id = v.id
    BY DEF FInv, MInv, MapInv
  <2>2. structs[i].area = v.area
    BY <2>1, NowFacts DEF FInv, Holding, Linked
  <2> QED BY <2>2, NowFacts DEF FInv, MInv, AreaInv
<1>3. s.area[v.area].st \in InUse
  <2>1. PICK i \in DOMAIN s.structs : s.structs[i].id = v.id
    BY DEF MapInv
  <2> QED BY <2>1 DEF AreaInv
<1> QED BY <1>1, <1>2, <1>3 DEF Lasting

(* A step that changes areas and leaves the mappings and the buffers of    *)
(* processes alone.                                                        *)
LEMMA SettleStep ==
  ASSUME FInv, MInv', NEW s, IsState(s), Becomes(s), Evens(Now, s), Tied(s), Kin(s, NamesOf(handles)'),
         Lasting(Now, s), UNCHANGED <<vmas, anon, proc>>, NEW p \in Procs, Up(p),
         \A v \in vmas : \A i \in DOMAIN s.structs : s.structs[i].id = v.id => s.structs[i].area = v.area
  PROVE  FInv'
<1>1. Now' = s /\ structs' = s.structs
  BY BecomesNow
<1>2. Linked(s, vmas)
  <2>1. AreaInv(s, NamesOf(handles)', ToldOf(told)') /\ MapInv(vmas, s.structs)
    BY <1>1 DEF MInv
  <2> QED BY <2>1, StillLinked
<1>3. Balanced(s, vmas, anon) /\ Counted(s)
  BY DEF FInv, Holding, Balanced, Evens
<1>4. Emptied(s, proc)
  BY DEF Emptied, Up
<1>5. Holding(s, NamesOf(handles)', vmas, anon, proc)
  BY <1>2, <1>3, <1>4 DEF FInv, Holding
<1> QED BY <1>1, <1>5 DEF FInv

(* A process is given a handle on an area.                                 *)
LEMMA GiveNames ==
  ASSUME MInv, NEW p \in Procs, NEW h \in Handles, NEW a \in Areas, FreeHandle(p, h), Give(p, h, a)
  PROVE  NamesOf(handles)' = NamesOf(handles) \cup {<<p, a>>} /\ Up(p)
<1>1. handles \in [Procs -> [Handles -> Areas \cup {NoArea}]]
  BY DEF MInv
<1>2. handles' = [handles EXCEPT ![p][h] = a] /\ handles[p][h] = NoArea
  BY DEF Give, FreeHandle
<1>3. \A q \in Procs : \A k \in Handles :
         handles'[q][k] = IF q = p /\ k = h THEN a ELSE handles[q][k]
  BY <1>1, <1>2
<1>4. NoArea \notin Areas
  BY NumbersAssumption DEF NoArea
<1>5. NamesOf(handles)' = NamesOf(handles) \cup {<<p, a>>}
  BY <1>2, <1>3, <1>4 DEF NamesOf
<1> QED BY <1>5 DEF FreeHandle

(* A new area keeps the mappings and their records.                        *)
LEMMA NewLasting ==
  ASSUME FInv, NEW s, s.structs = structs,
         \A b \in Areas : s.area[b] = Now.area[b] \/ Now.area[b].st = "unused"
  PROVE  /\ Lasting(Now, s)
         /\ \A v \in vmas : \A i \in DOMAIN s.structs : s.structs[i].id = v.id => s.structs[i].area = v.area
<1>1. Lasting(Now, s)
  BY DEF Lasting, InUse
<1> QED BY <1>1, NowFacts DEF FInv, Holding, Linked

(* The invariant says of Now.                                              *)
LEMMA NowHolds ==
  ASSUME FInv
  PROVE  /\ MInv /\ Typed(Now) /\ Counted(Now) /\ Tied(Now) /\ Kin(Now, NamesOf(handles)) /\ IsState(Now)
         /\ DOMAIN Now.area = Areas /\ RecInv(Now.structs) /\ InOrder(Now)
         /\ AreaInv(Now, NamesOf(handles), ToldOf(told))
BY NowFacts, NowInv DEF FInv, Holding, MInv, AreaInv

(* Memory that lies in no registered memory.                               *)
LEMMA NewAreaStep ==
  ASSUME FInv, MInv', NEW p \in Procs, NEW h \in Handles, NEW a \in Areas, NEW kind, FreeHandle(p, h),
         Fresh(a, kind), NEW s, NEW x, Puts(Now, s, a, x), Becomes(s), Give(p, h, a),
         Counted(s), \A f \in Frames : s.frame[f] = Now.frame[f] + HeldByArea(x, f),
         Shape(x), Source(Now, x), PartOf(Now, x), x.parent # a,
         x.parent # NoArea => /\ Now.area[x.parent].type # "extkv"
                              /\ \A c \in Areas : Now.area[c].src # x.parent,
         UNCHANGED <<vmas, anon, proc>>
  PROVE  FInv'
<1>1. /\ MInv /\ Typed(Now) /\ Counted(Now) /\ Tied(Now) /\ Kin(Now, NamesOf(handles))
      /\ DOMAIN Now.area = Areas /\ AreaInv(Now, NamesOf(handles), ToldOf(told))
  BY NowHolds
<1>2. Now.area[a].st = "unused"
  BY <1>1, FreshFacts, NowFacts
<1>3. IsState(s) /\ s.structs = structs /\ s.area = [Now.area EXCEPT ![a] = x]
  BY NowFacts DEF Puts
<1>4. Tied(s)
  BY <1>1, <1>2, <1>3, NewTied
<1>5. NamesOf(handles)' = NamesOf(handles) \cup {<<p, a>>} /\ Up(p)
  BY <1>1, GiveNames
<1>6. Kin(s, NamesOf(handles)')
  <2>1. PICK N, Q, r : N = NamesOf(handles) /\ Q = ToldOf(told) /\ r = Now
    OBVIOUS
  <2>2. /\ AreaInv(r, N, Q) /\ Kin(r, N) /\ r.area[a].st = "unused"
        /\ s.area = [r.area EXCEPT ![a] = x] /\ (x.parent = NoArea \/ r.area[x.parent].type # "extkv")
    BY <1>1, <1>2, <1>3, <2>1
  <2>3. Kin(s, N \cup {<<p, a>>})
    BY ONLY <2>2, a \in Areas, x.parent # a, NewKin
  <2> QED BY <1>5, <2>1, <2>3
<1>7. Now' = s
  BY <1>3, BecomesNow
<1>8. Typed(s)
  BY <1>7 DEF MInv, AreaInv
<1>9. Evens(Now, s)
  BY <1>1, <1>2, <1>3, <1>8, NewEven
<1>10. \A b \in Areas : s.area[b] = Now.area[b] \/ Now.area[b].st = "unused"
  BY <1>1, <1>2, <1>3
<1>11. /\ Lasting(Now, s)
       /\ \A v \in vmas : \A i \in DOMAIN s.structs : s.structs[i].id = v.id => s.structs[i].area = v.area
  BY <1>3, <1>10, NewLasting
<1> QED BY <1>3, <1>4, <1>5, <1>6, <1>9, <1>11, SettleStep

(* An area and one that lies in it.                                        *)
LEMMA NewPairStep ==
  ASSUME FInv, MInv', NEW p \in Procs, NEW h \in Handles, NEW a \in Areas, NEW d \in Areas,
         FreeHandle(p, h),
         d # a, Now.area[a].st = "unused", Now.area[d].st = "unused",
         NEW u, NEW s, NEW x, NEW y, Puts(Now, u, d, x), Puts(u, s, a, y), Becomes(s), Give(p, h, a),
         Counted(u), \A f \in Frames : u.frame[f] = Now.frame[f] + HeldByArea(x, f), s.frame = u.frame,
         IsArea(x), Shape(x), Source(Now, x), x.parent = NoArea, x.type \in {"vmalloc", "extkv"},
         y = Registered("sub", y.frames, d, NoArea, "none"), ToSet(y.frames) \subseteq ToSet(x.frames),
         UNCHANGED <<vmas, anon, proc>>
  PROVE  FInv'
<1>1. /\ MInv /\ Typed(Now) /\ Counted(Now) /\ Tied(Now) /\ Kin(Now, NamesOf(handles))
      /\ DOMAIN Now.area = Areas /\ AreaInv(Now, NamesOf(handles), ToldOf(told))
  BY NowHolds
<1>2. NoArea \notin Areas
  BY NumbersAssumption DEF NoArea
<1>3. IsState(u) /\ u.structs = structs /\ u.area = [Now.area EXCEPT ![d] = x]
  BY NowFacts DEF Puts
<1>4. IsState(s) /\ s.structs = structs /\ s.area = [u.area EXCEPT ![a] = y]
  BY <1>3 DEF Puts
<1>5. /\ y.st = "live" /\ y.type = "sub" /\ y.parent = d /\ y.src = NoArea /\ y.wrap = "none"
  BY RegisteredFields
<1>6. PartOf(Now, x)
  BY DEF PartOf
<1>7. Tied(u)
  BY <1>1, <1>3, <1>6, NewTied
<1>8. u.area[d] = x /\ \A b \in Areas : b # d => u.area[b] = Now.area[b]
  BY <1>1, <1>3
<1>9. Typed(u)
  <2>1. u.area \in [Areas -> {u.area[b] : b \in Areas}]
    BY <1>1, <1>3
  <2>2. \A b \in Areas : IsArea(u.area[b])
    BY <1>1, <1>8 DEF Typed
  <2> QED BY <1>3, <2>1, <2>2 DEF Typed
<1>10. Shape(y) /\ Source(u, y) /\ PartOf(u, y)
  <2>1. OfRam(y.frames)
    BY DEF Shape, OfRam, NoRam
  <2>2. Shape(y)
    BY <1>5, <2>1 DEF Shape
  <2> QED BY <1>5, <1>8, <2>2 DEF Source, PartOf
<1>11. \A c \in Areas : u.area[c].src # d
  <2> SUFFICES ASSUME NEW c \in Areas, u.area[c].src = d PROVE FALSE
    OBVIOUS
  <2>1. CASE c = d
    <3>1. x.src # NoArea /\ x.src = d
      BY <1>2, <1>8, <2>1
    <3>2. x.type = "extkv"
      BY <3>1 DEF Shape
    <3> QED BY <3>1, <3>2 DEF Source
  <2>2. CASE c # d
    <3>1. Now.area[c].src = d
      BY <1>8, <2>2
    <3>2. Now.area[d].st \in {"live", "kept"}
      BY <1>1, <3>1, SourceFacts
    <3> QED BY <3>2
  <2> QED BY <2>1, <2>2
<1>12. Tied(s)
  <2>1. u.area[a].st = "unused"
    BY <1>8
  <2> QED BY <1>4, <1>5, <1>7, <1>9, <1>10, <1>11, <2>1, NewTied
<1>13. NamesOf(handles)' = NamesOf(handles) \cup {<<p, a>>} /\ Up(p)
  BY <1>1, GiveNames
<1>14. Kin(s, NamesOf(handles)')
  <2>1. PICK N, Q, r : N = NamesOf(handles) /\ Q = ToldOf(told) /\ r = Now
    OBVIOUS
  <2>2. /\ AreaInv(r, N, Q) /\ Kin(r, N) /\ r.area[a].st = "unused" /\ r.area[d].st = "unused"
        /\ \A b \in Areas : b \notin {a, d} => s.area[b] = r.area[b]
    BY <1>1, <1>3, <1>4, <2>1
  <2>3. /\ a # d /\ s.area[d].parent = NoArea /\ s.area[a].parent = d /\ s.area[a].st = "live"
        /\ s.area[a].type # "extkv"
    BY <1>1, <1>3, <1>4, <1>5
  <2>4. AreaInv(r, N, Q) /\ Kin(r, N) /\ a # d /\ NewPair(r, s, a, d)
    BY <2>2, <2>3 DEF NewPair
  <2>5. Kin(s, N \cup {<<p, a>>})
    BY <2>4, NewKinTwo
  <2> QED BY <1>13, <2>1, <2>5
<1>15. Now' = s
  BY <1>4, BecomesNow
<1>16. Typed(s) /\ Counted(s)
  BY <1>15 DEF MInv, AreaInv, Counted
<1>17. Evens(Now, u)
  BY <1>1, <1>3, <1>9, NewEven
<1>18. Evens(u, s)
  <2>1. s.area[a] = y /\ \A b \in Areas : b # a => s.area[b] = u.area[b]
    BY <1>1, <1>3, <1>4
  <2>2. \A f \in Frames : HeldByArea(y, f) = 0 /\ HeldByArea(u.area[a], f) = 0
    BY <1>5, <1>8 DEF HeldByArea
  <2> QED BY <2>1, <2>2, Stays
<1>19. Evens(Now, s)
  BY <1>17, <1>18, EvensTrans
<1>20. \A b \in Areas : s.area[b] = Now.area[b] \/ Now.area[b].st = "unused"
  BY <1>1, <1>3, <1>4
<1>21. /\ Lasting(Now, s)
       /\ \A v \in vmas : \A i \in DOMAIN s.structs : s.structs[i].id = v.id => s.structs[i].area = v.area
  BY <1>4, <1>20, NewLasting
<1> QED BY <1>4, <1>12, <1>13, <1>14, <1>19, <1>21, SettleStep

-----------------------------------------------------------------------------
(* Steps that make areas keep the frames exact.                            *)

(* A registered area has its shape.                                        *)
LEMMA RegisteredShape ==
  ASSUME NEW type \in {"pages", "vmalloc", "io", "ioremap", "extkv", "sub"}, NEW fs, NEW par, NEW src,
         NEW wrap, OfRam(fs), type \in {"io", "ioremap"} \/ wrap = "pfn" => NoRam(fs),
         type # "extkv" => wrap = "none" /\ src = NoArea, type # "sub" => par = NoArea
  PROVE  Shape(Registered(type, fs, par, src, wrap))
<1>1. PICK x : x = Registered(type, fs, par, src, wrap)
  OBVIOUS
<1>2. /\ x.st = "live" /\ x.type = type /\ x.frames = fs /\ x.parent = par
      /\ x.src = src /\ x.wrap = wrap
  BY <1>1, RegisteredFields
<1>3. Shape(x)
  BY <1>2 DEF Shape
<1> QED BY <1>1, <1>3

(* One that is neither registered memory nor a sub area depends on none.   *)
LEMMA RegisteredAlone ==
  ASSUME NEW type, NEW fs, NEW s, type # "extkv", type # "sub"
  PROVE  LET x == Registered(type, fs, NoArea, NoArea, "none")
         IN  Source(s, x) /\ PartOf(s, x) /\ x.parent = NoArea
<1>1. PICK x : x = Registered(type, fs, NoArea, NoArea, "none")
  OBVIOUS
<1>2. x.type = type /\ x.parent = NoArea
  BY <1>1, RegisteredFields
<1>3. Source(s, x) /\ PartOf(s, x) /\ x.parent = NoArea
  BY <1>2 DEF Source, PartOf
<1> QED BY <1>1, <1>3

(* A step that changes nothing but references, and none in the end.        *)
LEMMA IdleFrames ==
  ASSUME FInv, MInv', NEW s, IsState(s), Becomes(s), s.area = Now.area, s.structs = structs, Idle(Now, s),
         handles' = handles, UNCHANGED <<vmas, anon, proc>>, NEW p \in Procs, Up(p)
  PROVE  FInv'
<1>1. Counted(Now) /\ Tied(Now) /\ Kin(Now, NamesOf(handles))
  BY NowHolds
<1>2. Evens(Now, s)
  BY DEF Evens, Idle, AreaSum
<1>3. Tied(s) /\ Kin(s, NamesOf(handles))
  BY <1>1 DEF Tied, Kin, Source, PartOf, Childless, Exportable
<1>4. NamesOf(handles)' = NamesOf(handles)
  BY DEF NamesOf
<1>5. /\ Lasting(Now, s)
      /\ \A v \in vmas : \A i \in DOMAIN s.structs : s.structs[i].id = v.id => s.structs[i].area = v.area
  BY NewLasting
<1> QED BY <1>2, <1>3, <1>4, <1>5, SettleStep

(* The frames of an allocation.                                            *)
LEMMA PagesLists ==
  ASSUME MInv, NEW fs \in load.pages
  PROVE  /\ fs \in Seq(Frames) /\ IsList(fs) /\ Len(fs) \in Nat /\ OfRam(fs)
         /\ \A got \in 0..Len(fs) : IsList(SubSeq(fs, 1, got))
<1>1. fs \in Seq(Frames)
  BY LoadsAssumption DEF MInv
<1>2. ToSet(fs) \subseteq Frames
  BY <1>1 DEF ToSet
<1>3. \A got \in 0..Len(fs) : SubSeq(fs, 1, got) \in Seq(Frames)
  BY <1>1
<1>4. IsList(fs) /\ \A got \in 0..Len(fs) : IsList(SubSeq(fs, 1, got))
  BY <1>1, <1>3, SeqIsList
<1>5. Len(fs) \in Nat
  BY <1>1
<1> QED BY <1>1, <1>2, <1>4, <1>5 DEF OfRam

(* Memory of its own.                                                      *)
LEMMA AllocWholeFrames ==
  ASSUME FInv, NEW p \in Procs, NEW h \in Handles, NEW a \in Areas, NEW kind,
         NEW fs \in PagesFor(Free(Now)), NEW got \in 0..Len(fs), kind = "multi" => got = Len(fs),
         AllocWhole(p, h, a, kind, fs, got)
  PROVE  FInv'
<1> DEFINE s == OSAllocPages(Now, a, kind, fs, got)
<1>1. MInv /\ MInv'
  BY AllocWholeStep DEF FInv
<1>2. fs \in load.pages
  BY DEF PagesFor
<1>3. /\ IsList(fs) /\ IsList(SubSeq(fs, 1, got)) /\ Len(fs) \in Nat /\ got \in Nat /\ got <= Len(fs)
      /\ OfRam(fs)
  BY <1>1, <1>2, PagesLists
<1>4. /\ FreeHandle(p, h) /\ Fresh(a, kind) /\ Becomes(s) /\ UNCHANGED <<vmas, anon, proc>>
      /\ got = Len(fs) => Give(p, h, a)
      /\ got # Len(fs) => handles' = handles
  BY DEF AllocWhole
<1>5. /\ got = Len(fs) => \E type \in {"pages", "vmalloc"} :
            Puts(Now, s, a, Registered(type, fs, NoArea, NoArea, "none")) /\ Takes(Now, s, fs)
      /\ got # Len(fs) => IsState(s) /\ s.area = Now.area /\ s.structs = Now.structs /\ Idle(Now, s)
  BY <1>3, NowHolds, AllocPuts
<1> HIDE DEF s
<1>6. CASE got = Len(fs)
  <2>1. PICK type \in {"pages", "vmalloc"} :
           Puts(Now, s, a, Registered(type, fs, NoArea, NoArea, "none")) /\ Takes(Now, s, fs)
    BY <1>5, <1>6
  <2>2. PICK x : x = Registered(type, fs, NoArea, NoArea, "none")
    OBVIOUS
  <2>3. Shape(x)
    BY <1>3, <2>2, RegisteredShape
  <2>4. Source(Now, x) /\ PartOf(Now, x) /\ x.parent = NoArea
    BY <2>2, RegisteredAlone
  <2>5. Counted(s) /\ \A f \in Frames : s.frame[f] = Now.frame[f] + HeldByArea(x, f)
    BY <2>1, <2>2, RegisteredHolds DEF Takes
  <2>6. x.parent # a
    BY <2>4, NumbersAssumption DEF NoArea
  <2> QED BY <1>1, <1>4, <1>6, <2>1, <2>2, <2>3, <2>4, <2>5, <2>6, NewAreaStep
<1>7. CASE got # Len(fs)
  <2>1. Up(p)
    BY <1>4 DEF FreeHandle
  <2> QED BY <1>1, <1>4, <1>5, <1>7, <2>1, IdleFrames, NowFacts
<1> QED BY <1>6, <1>7

(* Physical memory.                                                        *)
LEMMA WrapPhysFrames ==
  ASSUME FInv, NEW p \in Procs, NEW h \in Handles, NEW a \in Areas, NEW f \in IOFrames, NEW kind,
         WrapPhys(p, h, a, f, kind)
  PROVE  FInv'
<1> DEFINE s == OSReservePhys(Now, a, <<f>>, kind)
<1>1. MInv /\ MInv'
  BY WrapPhysStep DEF FInv
<1>2. /\ FreeHandle(p, h) /\ Fresh(a, "phys") /\ Becomes(s) /\ UNCHANGED <<vmas, anon, proc>>
      /\ Give(p, h, a)
  BY DEF WrapPhys
<1>3. PICK fs : fs = <<f>>
  OBVIOUS
<1>4. /\ \E type \in {"io", "ioremap"} : Puts(Now, s, a, Registered(type, fs, NoArea, NoArea, "none"))
      /\ s.frame = Now.frame
  BY <1>3, NowHolds, ReservePuts
<1> HIDE DEF s
<1>5. PICK type \in {"io", "ioremap"} : Puts(Now, s, a, Registered(type, fs, NoArea, NoArea, "none"))
  BY <1>4
<1>6. PICK x : x = Registered(type, fs, NoArea, NoArea, "none")
  OBVIOUS
<1>7. NoRam(fs) /\ OfRam(fs)
  <2>1. ToSet(fs) = {f}
    BY <1>3 DEF ToSet
  <2> QED BY <2>1, NumbersAssumption DEF NoRam, OfRam
<1>8. Shape(x)
  BY <1>6, <1>7, RegisteredShape
<1>9. Source(Now, x) /\ PartOf(Now, x) /\ x.parent = NoArea
  BY <1>6, RegisteredAlone
<1>10. Counted(s) /\ \A g \in Frames : s.frame[g] = Now.frame[g] + HeldByArea(x, g)
  <2>1. \A g \in Frames : HeldByArea(x, g) = 0
    BY <1>6, RegisteredHolds
  <2>2. Counted(Now)
    BY NowHolds
  <2> QED BY <1>4, <2>1, <2>2 DEF Counted
<1>11. x.parent # a
  BY <1>9, NumbersAssumption DEF NoArea
<1> QED BY <1>1, <1>2, <1>5, <1>6, <1>8, <1>9, <1>10, <1>11, NewAreaStep

(* Memory mapped from its owner.                                           *)
LEMMA MapExportedFrames ==
  ASSUME FInv, NEW q \in Procs, NEW h \in Handles, NEW a \in Areas, NEW b \in Areas,
         MapExported(q, h, a, b)
  PROVE  FInv'
<1> DEFINE fs == Now.area[b].frames
           s == [OSRegisterDiscontigMem(Now, a, fs) EXCEPT !.area[a].src = b]
<1>1. MInv /\ MInv'
  BY MapExportedStep DEF FInv
<1>2. /\ FreeHandle(q, h) /\ Fresh(a, "map") /\ Becomes(s) /\ UNCHANGED <<vmas, anon, proc>>
      /\ Give(q, h, a) /\ HandlesOf(b) # {}
      /\ Now.area[LinuxMemAreaRoot(Now, b)].type \in {"pages", "vmalloc"}
  BY NowFacts DEF MapExported
<1>3. Puts(Now, s, a, Registered("extkv", fs, NoArea, b, "none")) /\ s.frame = Now.frame
  <2>1. PICK n, gs : n = Now /\ gs = fs
    OBVIOUS
  <2>2. IsState(n) /\ DOMAIN n.area = Areas
    BY <2>1, NowHolds
  <2>3. /\ Puts(n, Sourced(n, a, gs, b), a, Registered("extkv", gs, NoArea, b, "none"))
        /\ Sourced(n, a, gs, b).frame = n.frame
    BY <2>2, RegisterMemPuts
  <2>4. s = Sourced(Now, a, fs, b)
    BY DEF Sourced
  <2> HIDE DEF s, fs
  <2> QED BY <2>1, <2>3, <2>4
<1>4. PICK x : x = Registered("extkv", fs, NoArea, b, "none")
  OBVIOUS
<1> HIDE DEF s
<1>5. Now.area[b].st = "live" /\ Childless(Now, b)
  <2>1. PICK o \in Procs \X Handles : handles[o[1]][o[2]] = b
    BY <1>2 DEF HandlesOf
  <2>2. <<o[1], b>> \in NamesOf(handles)
    BY <2>1 DEF NamesOf
  <2>3. <<o[1], b>>[2] = b
    OBVIOUS
  <2> QED BY <2>2, <2>3, NowHolds DEF AreaInv
<1>6. Shape(Now.area[b]) /\ PartOf(Now, Now.area[b]) /\ Typed(Now) /\ Counted(Now)
  BY NowHolds DEF Tied
<1>7. Exportable(Now, Now.area[b])
  BY <1>2, <1>5, <1>6 DEF Exportable, LinuxMemAreaRoot, PartOf
<1>8. Shape(x)
  <2>1. OfRam(fs)
    BY <1>6 DEF Shape
  <2> QED BY <1>4, <2>1, RegisteredShape
<1>9. x.type = "extkv" /\ x.wrap = "none" /\ x.src = b /\ x.frames = fs /\ x.parent = NoArea
  BY <1>4, RegisteredFields
<1>10. Source(Now, x) /\ PartOf(Now, x)
  BY <1>5, <1>7, <1>9 DEF Source, PartOf
<1>11. Counted(s) /\ \A g \in Frames : s.frame[g] = Now.frame[g] + HeldByArea(x, g)
  <2>1. \A g \in Frames : HeldByArea(x, g) = 0
    BY <1>4, RegisteredHolds
  <2> QED BY <1>3, <1>6, <2>1 DEF Counted
<1>12. x.parent # a
  BY <1>9, NumbersAssumption DEF NoArea
<1> QED BY <1>1, <1>2, <1>3, <1>4, <1>8, <1>9, <1>10, <1>11, <1>12, NewAreaStep

(* A registered area is an area.                                           *)
LEMMA RegisteredIsArea ==
  ASSUME NEW type, NEW fs, NEW par \in Areas \cup {NoArea}, NEW src, NEW wrap, FramesFor(type, fs),
         type = "sub" => par # NoArea
  PROVE  IsArea(Registered(type, fs, par, src, wrap))
<1>1. PICK x, reg : x = AreaOf("live", type, reg, fs, par, src, wrap) /\ reg = Yes
  OBVIOUS
<1>2. /\ x \in [st : {x.st}, type : {x.type}, reg : {x.reg}, frames : {x.frames},
                parent : {x.parent}, src : {x.src}, wrap : {x.wrap}]
      /\ x.st = "live" /\ x.parent = par /\ x.reg = reg /\ x.type = type /\ x.frames = fs
  BY <1>1 DEF AreaOf
<1>3. Framed(x)
  BY <1>2 DEF Framed, FramesFor
<1>4. x.reg \in BOOLEAN /\ (x.reg <=> x.st \in InUse)
  BY <1>1, <1>2 DEF InUse, Yes
<1>5. IsArea(x)
  BY <1>2, <1>3, <1>4 DEF IsArea, InUse
<1> QED BY <1>1, <1>5 DEF Registered

(* A part of an import that is there.                                      *)
LEMMA AllocPartFrames ==
  ASSUME FInv, MInv', NEW p \in Procs, NEW h \in Handles, NEW a \in Areas, FreeHandle(p, h),
         Fresh(a, "sub"),
         NEW r \in Imports, NEW f \in ToSet(area[r].frames), area[r].type = "vmalloc",
         Becomes(OSGetSubMemHandle(Now, a, r, <<f>>)), Give(p, h, a), UNCHANGED <<vmas, anon, proc>>
  PROVE  FInv'
<1> DEFINE s == OSGetSubMemHandle(Now, a, r, <<f>>)
<1>1. PICK fs : fs = <<f>>
  OBVIOUS
<1>2. MInv /\ Typed(Now) /\ Tied(Now) /\ Counted(Now)
  BY NowHolds
<1>3. r \in Areas /\ Now.area[r].st = "live" /\ ~Childless(Now, r) /\ Now.area[r].type = "vmalloc"
  BY NowFacts DEF Imports, Childless
<1>4. r # NoArea /\ r # a
  BY <1>2, <1>3, FreshFacts, NowFacts, NumbersAssumption DEF NoArea
<1>5. Puts(Now, s, a, Registered("sub", fs, r, NoArea, "none")) /\ s.frame = Now.frame
  BY <1>1, NowHolds, SubPuts
<1> HIDE DEF s
<1>6. PICK x : x = Registered("sub", fs, r, NoArea, "none")
  OBVIOUS
<1>7. ToSet(fs) = {f} /\ f \in ToSet(Now.area[r].frames)
  BY <1>1, NowFacts DEF ToSet
<1>8. OfRam(fs)
  <2>1. OfRam(Now.area[r].frames)
    BY <1>2, <1>3 DEF Tied, Shape
  <2> QED BY <1>7, <2>1 DEF OfRam, NoRam
<1>9. Shape(x)
  BY <1>6, <1>8, RegisteredShape
<1>10. x.type = "sub" /\ x.parent = r /\ x.frames = fs /\ x.st = "live"
  BY <1>6, RegisteredFields
<1>11. Source(Now, x) /\ PartOf(Now, x)
  BY <1>3, <1>7, <1>10 DEF Source, PartOf
<1>12. Counted(s) /\ \A g \in Frames : s.frame[g] = Now.frame[g] + HeldByArea(x, g)
  <2>1. \A g \in Frames : HeldByArea(x, g) = 0
    BY <1>6, RegisteredHolds
  <2> QED BY <1>2, <1>5, <2>1 DEF Counted
<1>13. \A c \in Areas : Now.area[c].src # r
  BY <1>2, <1>3, SourceFacts
<1>14. Becomes(s)
  BY DEF s
<1>15. Puts(Now, s, a, x)
  BY <1>5, <1>6
<1> QED BY <1>3, <1>4, <1>9, <1>10, <1>11, <1>12, <1>13, <1>14, <1>15, NewAreaStep

(* A part of a new import.                                                 *)
LEMMA AllocBothFrames ==
  ASSUME FInv, MInv', NEW p \in Procs, NEW h \in Handles, NEW a \in Areas, FreeHandle(p, h),
         Fresh(a, "sub"),
         a + 1 <= load.areas, NEW fs \in load.pages, Len(fs) = 2,
         Becomes(OSGetSubMemHandle(OSAllocPages(Now, a + 1, "multi", fs, 2), a, a + 1, <<fs[1]>>)),
         Give(p, h, a), UNCHANGED <<vmas, anon, proc>>
  PROVE  FInv'
<1>1. MInv /\ IsState(Now) /\ DOMAIN Now.area = Areas /\ Counted(Now)
  BY NowHolds
<1>2. a \in Nat /\ a + 1 \in Areas /\ Now.area[a].st = "unused" /\ Now.area[a + 1].st = "unused"
  BY <1>1, FreshFacts, NowFacts
<1>3. PICK d \in Areas : d = a + 1
  BY <1>2
<1>4. PICK f : f = fs[1]
  OBVIOUS
<1> DEFINE u == OSAllocPages(Now, d, "multi", fs, 2)
           s == OSGetSubMemHandle(u, a, d, <<f>>)
<1>5. Becomes(s)
  BY <1>3, <1>4
<1>6. IsList(fs) /\ IsList(SubSeq(fs, 1, 2)) /\ OfRam(fs) /\ fs \in Seq(Frames)
  <2>1. 2 \in 0..Len(fs)
    OBVIOUS
  <2>2. PICK got \in 0..Len(fs) : got = 2
    BY <2>1
  <2> QED BY <1>1, <2>2, PagesLists
<1>7. Puts(Now, u, d, Registered("vmalloc", fs, NoArea, NoArea, "none")) /\ Takes(Now, u, fs)
  <2>1. 2 \in Nat /\ Len(fs) \in Nat /\ 2 <= Len(fs) /\ 2 = Len(fs)
    OBVIOUS
  <2>2. \E type \in {"pages", "vmalloc"} :
           /\ Puts(Now, u, d, Registered(type, fs, NoArea, NoArea, "none")) /\ Takes(Now, u, fs)
           /\ "multi" = "multi" => type = "vmalloc"
    BY <1>1, <1>6, <2>1, AllocPuts
  <2> QED BY <2>2
<1> HIDE DEF u
<1>8. IsState(u) /\ DOMAIN u.area = Areas
  BY <1>1, <1>7 DEF Puts
<1>9. PICK gs : gs = <<f>>
  OBVIOUS
<1>10. Puts(u, s, a, Registered("sub", gs, d, NoArea, "none")) /\ s.frame = u.frame
  BY <1>8, <1>9, SubPuts
<1> HIDE DEF s
<1>11. PICK x, y : /\ x = Registered("vmalloc", fs, NoArea, NoArea, "none")
                   /\ y = Registered("sub", gs, d, NoArea, "none")
  OBVIOUS
<1>12. x.type = "vmalloc" /\ x.parent = NoArea /\ x.frames = fs /\ y.frames = gs
  BY <1>11, RegisteredFields
<1>13. IsArea(x)
  <2>1. NoArea \in Areas \cup {NoArea} /\ FramesFor("vmalloc", fs)
    BY <1>6 DEF FramesFor
  <2> QED BY <1>11, <2>1, RegisteredIsArea
<1>14. Shape(x)
  BY <1>6, <1>11, RegisteredShape
<1>15. Source(Now, x)
  BY <1>12 DEF Source
<1>16. Counted(u) /\ \A g \in Frames : u.frame[g] = Now.frame[g] + HeldByArea(x, g)
  BY <1>7, <1>11, RegisteredHolds DEF Takes
<1>17. ToSet(y.frames) \subseteq ToSet(x.frames)
  <2>1. 1 \in DOMAIN fs
    BY <1>6
  <2> QED BY <1>4, <1>9, <1>12, <2>1 DEF ToSet
<1>18. y = Registered("sub", y.frames, d, NoArea, "none")
  BY <1>11, <1>12
<1>19. d # a /\ Now.area[a].st = "unused" /\ Now.area[d].st = "unused"
  BY <1>2, <1>3
<1>20. Puts(Now, u, d, x) /\ Puts(u, s, a, y) /\ s.frame = u.frame
  BY <1>7, <1>10, <1>11
<1> QED BY <1>5, <1>12, <1>13, <1>14, <1>15, <1>16, <1>17, <1>18, <1>19, <1>20, NewPairStep

(* A small allocation.                                                     *)
LEMMA AllocSubFrames ==
  ASSUME FInv, NEW p \in Procs, NEW h \in Handles, NEW a \in Areas, AllocSub(p, h, a)
  PROVE  FInv'
<1>1. MInv'
  BY AllocSubStep DEF FInv
<1>2. FreeHandle(p, h) /\ Fresh(a, "sub") /\ Give(p, h, a) /\ UNCHANGED <<vmas, anon, proc>>
  BY DEF AllocSub
<1>3. \/ \E r \in Imports : \E f \in ToSet(area[r].frames) :
            area[r].type = "vmalloc" /\ Becomes(OSGetSubMemHandle(Now, a, r, <<f>>))
      \/ /\ a + 1 <= load.areas
         /\ \E fs \in load.pages :
               /\ Len(fs) = 2
               /\ Becomes(OSGetSubMemHandle(OSAllocPages(Now, a + 1, "multi", fs, 2), a, a + 1, <<fs[1]>>))
  BY DEF AllocSub
<1> QED BY <1>1, <1>2, <1>3, AllocPartFrames, AllocBothFrames

(* How the pages below a buffer are got, and how far.                      *)
Acquired(fs, how, got) ==
  /\ IsList(fs) /\ OfRam(fs) /\ Len(fs) \in Nat /\ got \in Nat
  /\ \/ how = "gup" /\ fs \in Seq(Frames) /\ got <= Len(fs)
     \/ how = "vma" /\ got = Len(fs)

(* The wrap holds what was got for it; nothing is held when not all were   *)
(* got.                                                                    *)
LEMMA AcquireHolds ==
  ASSUME NEW s, IsState(s), Counted(s), NEW fs, NEW how, NEW got, Acquired(fs, how, got), NEW w,
         w = WrapType(fs, how)
  PROVE  LET t == OSAcquirePhysPageAddr(s, fs, how, got)
         IN  /\ got < Len(fs) => Idle(s, t)
             /\ ~(got < Len(fs)) => /\ w \in {"gup", "vma", "pfn"} /\ (w = "pfn" => NoRam(fs))
                                    /\ w \in {"gup", "vma"} => Takes(s, t, fs)
                                    /\ w = "pfn" => Idle(s, t)
<1> USE DEF Acquired
<1>1. CASE how = "gup"
  <2> DEFINE gs == SubSeq(fs, 1, got)
  <2>1. IsList(gs) /\ (got = Len(fs) => gs = fs)
    <3>1. gs \in Seq(Frames)
      BY <1>1
    <3>2. got = Len(fs) => gs = fs
      BY <1>1
    <3> QED BY <3>1, <3>2, SeqIsList
  <2>2. OSAcquirePhysPageAddr(s, fs, how, got)
           = IF got = Len(fs) THEN GetPages(s, gs) ELSE PutPages(GetPages(s, gs), gs)
    BY <1>1 DEF OSAcquirePhysPageAddr
  <2>3. w = "gup"
    BY <1>1 DEF WrapType
  <2> HIDE DEF gs
  <2>4. Takes(s, GetPages(s, gs), gs) /\ Idle(s, PutPages(GetPages(s, gs), gs))
    BY <2>1, GetPutIdle
  <2> QED BY <1>1, <2>1, <2>2, <2>3, <2>4
<1>2. CASE how = "vma" /\ \A i \in DOMAIN fs : fs[i] \in Frames
  <2>1. OSAcquirePhysPageAddr(s, fs, how, got) = GetPages(s, fs)
    BY <1>2 DEF OSAcquirePhysPageAddr, CPUVAddrToPage
  <2>2. w = "vma" /\ got = Len(fs)
    BY <1>2 DEF WrapType, CPUVAddrToPage
  <2> QED BY <2>1, <2>2, GetPutIdle
<1>3. CASE how = "vma" /\ ~ \A i \in DOMAIN fs : fs[i] \in Frames
  <2>1. OSAcquirePhysPageAddr(s, fs, how, got) = s
    BY <1>3 DEF OSAcquirePhysPageAddr, CPUVAddrToPage
  <2>2. w = "pfn" /\ got = Len(fs)
    BY <1>3 DEF WrapType, CPUVAddrToPage
  <2>3. NoRam(fs)
    BY <1>3 DEF OfRam, ToSet
  <2>4. Idle(s, s)
    BY DEF Idle
  <2> QED BY <2>1, <2>2, <2>3, <2>4
<1> QED BY <1>1, <1>2, <1>3

(* A buffer of a process, or what it has mapped, that is wrapped.          *)
LEMMA WrapExtFrames ==
  ASSUME FInv, NEW p \in Procs, NEW h \in Handles, NEW a \in Areas, NEW fs, NEW how, NEW got,
         Acquired(fs, how, got), NEW unaligned \in BOOLEAN, WrapExt(p, h, a, fs, how, got, unaligned)
  PROVE  FInv'
<1> DEFINE s == OSAcquirePhysPageAddr(Now, fs, how, got)
           w == WrapType(fs, how)
           b == IF unaligned THEN a + 1 ELSE a
           t == Wrapped(s, b, fs, w)
           u == OSGetSubMemHandle(t, a, b, fs)
<1>1. MInv /\ MInv'
  BY WrapExtStep DEF FInv, Acquired
<1>2. IsState(Now) /\ DOMAIN Now.area = Areas /\ Counted(Now) /\ Typed(Now)
  BY NowHolds
<1>3. FreeHandle(p, h) /\ Fresh(a, "wrap") /\ UNCHANGED <<vmas, anon, proc>>
  BY DEF WrapExt
<1>4. IF got < Len(fs) THEN Becomes(s) /\ handles' = handles
      ELSE b <= load.areas /\ Becomes(IF unaligned THEN u ELSE t) /\ Give(p, h, a)
  BY DEF WrapExt, Wrapped
<1>5. IsState(s) /\ s.area = Now.area /\ s.structs = Now.structs
  BY <1>2, AcquireFacts
<1>6. /\ got < Len(fs) => Idle(Now, s)
      /\ ~(got < Len(fs)) => /\ w \in {"gup", "vma", "pfn"} /\ (w = "pfn" => NoRam(fs))
                             /\ w \in {"gup", "vma"} => Takes(Now, s, fs)
                             /\ w = "pfn" => Idle(Now, s)
  BY <1>2, AcquireHolds
<1> HIDE DEF s, w
<1>7. CASE got < Len(fs)
  <2>1. Up(p)
    BY <1>3 DEF FreeHandle
  <2> QED BY <1>1, <1>3, <1>4, <1>5, <1>6, <1>7, <2>1, IdleFrames, NowFacts
<1>8. CASE ~(got < Len(fs))
  <2>1. PICK x : x = Registered("extkv", fs, NoArea, NoArea, w)
    OBVIOUS
  <2>2. x.type = "extkv" /\ x.parent = NoArea /\ x.frames = fs /\ x.wrap = w /\ x.src = NoArea
    BY <2>1, RegisteredFields
  <2>3. Shape(x)
    BY <1>6, <1>8, <2>1, RegisteredShape DEF Acquired
  <2>4. Source(Now, x) /\ PartOf(Now, x)
    BY <1>6, <1>8, <2>2 DEF Source, PartOf
  <2>5. Counted(s) /\ \A g \in Frames : s.frame[g] = Now.frame[g] + HeldByArea(x, g)
    <3>1. CASE w = "pfn"
      <4>1. \A g \in Frames : HeldByArea(x, g) = 0
        BY <2>1, <3>1, RegisteredHolds
      <4> QED BY <1>2, <1>6, <1>8, <3>1, <4>1 DEF Idle, Counted
    <3>2. CASE w \in {"gup", "vma"}
      BY <1>6, <1>8, <2>1, <3>2, RegisteredHolds DEF Takes
    <3> QED BY <1>6, <1>8, <3>1, <3>2
  <2>6. ASSUME NEW d \in Areas
        PROVE  LET v == Wrapped(s, d, fs, w)
               IN  /\ Puts(Now, v, d, x) /\ Counted(v)
                   /\ \A g \in Frames : v.frame[g] = Now.frame[g] + HeldByArea(x, g)
    <3>1. Puts(s, Wrapped(s, d, fs, w), d, x) /\ Wrapped(s, d, fs, w).frame = s.frame
      BY <1>2, <1>5, <2>1, RegisterMemPuts
    <3> QED BY <1>5, <2>5, <3>1 DEF Puts, Counted
  <2>7. CASE ~unaligned
    <3>1. Becomes(t) /\ Give(p, h, a) /\ b = a
      BY <1>4, <1>8, <2>7
    <3>2. Puts(Now, t, a, x) /\ Counted(t) /\ \A g \in Frames : t.frame[g] = Now.frame[g] + HeldByArea(x, g)
      BY <2>6, <3>1
    <3>3. x.parent # a
      BY <2>2, NumbersAssumption DEF NoArea
    <3> HIDE DEF t
    <3> QED BY <1>1, <1>3, <2>2, <2>3, <2>4, <3>1, <3>2, <3>3, NewAreaStep
  <2>8. CASE unaligned
    <3>1. a \in Nat /\ b = a + 1 /\ b \in Areas /\ Now.area[b].st = "unused" /\ Now.area[a].st = "unused"
      BY <1>1, <1>3, <1>4, <1>8, <2>8, FreshFacts, NowFacts
    <3>2. PICK d \in Areas : d = b
      BY <3>1
    <3>3. Becomes(u) /\ Give(p, h, a)
      BY <1>4, <1>8, <2>8
    <3>4. Puts(Now, t, d, x) /\ Counted(t) /\ \A g \in Frames : t.frame[g] = Now.frame[g] + HeldByArea(x, g)
      BY <2>6, <3>2
    <3> HIDE DEF t
    <3>5. IsState(t) /\ DOMAIN t.area = Areas
      BY <1>2, <3>4 DEF Puts
    <3>6. PICK y : y = Registered("sub", fs, d, NoArea, "none")
      OBVIOUS
    <3>7. Puts(t, u, a, y) /\ u.frame = t.frame
      BY <3>2, <3>5, <3>6, SubPuts
    <3> HIDE DEF u
    <3>8. y.frames = fs
      BY <3>6, RegisteredFields
    <3>9. y = Registered("sub", y.frames, d, NoArea, "none") /\ ToSet(y.frames) \subseteq ToSet(x.frames)
      BY <2>2, <3>6, <3>8
    <3>10. IsArea(x)
      <4>1. NoArea \in Areas \cup {NoArea} /\ FramesFor("extkv", fs)
        BY DEF FramesFor, Acquired
      <4> QED BY <2>1, <4>1, RegisteredIsArea
    <3>11. d # a /\ Now.area[a].st = "unused" /\ Now.area[d].st = "unused"
      BY <3>1, <3>2
    <3> QED BY <1>1, <1>3, <2>2, <2>3, <2>4, <3>3, <3>4, <3>7, <3>9, <3>10, <3>11, NewPairStep
  <2> QED BY <2>7, <2>8
<1> QED BY <1>7, <1>8

-----------------------------------------------------------------------------
(* Steps that give areas up keep the frames exact.                         *)

(* Only the areas that are named matter to Kin.                            *)
LEMMA KinNames ==
  ASSUME NEW s, NEW N, NEW M, Kin(s, N), \A n \in N : \E m \in M : m[2] = n[2]
  PROVE  Kin(s, M)
<1> SUFFICES ASSUME NEW e \in Areas, s.area[e].type = "extkv"
             PROVE  \E m \in M : m[2] = e \/ s.area[m[2]].parent = e
  BY DEF Kin
<1>1. PICK n \in N : n[2] = e \/ s.area[n[2]].parent = e
  BY DEF Kin
<1>2. PICK m \in M : m[2] = n[2]
  OBVIOUS
<1> QED BY <1>1, <1>2

(* Areas that fade and records that go leave the mappings alone.           *)
LEMMA FadesLasting ==
  ASSUME FInv, NEW s, Fades(Now, s), Shrinks(structs, s.structs)
  PROVE  /\ Lasting(Now, s)
         /\ \A v \in vmas : \A i \in DOMAIN s.structs : s.structs[i].id = v.id => s.structs[i].area = v.area
<1>1. Lasting(Now, s)
  BY DEF Lasting, Fades, SameOrGone, InUse
<1>2. \A k \in DOMAIN s.structs : \E i \in DOMAIN structs : s.structs[k] = structs[i]
  BY DEF Shrinks
<1> QED BY <1>1, <1>2, NowFacts DEF FInv, Holding, Linked

(* A second handle.                                                        *)
LEMMA SecondHandleFrames ==
  ASSUME FInv, NEW p \in Procs, NEW q \in Procs, NEW h \in Handles, NEW k \in Handles,
         SecondHandle(p, h, q, k)
  PROVE  FInv'
<1>1. MInv /\ MInv'
  BY SecondHandleStep DEF FInv
<1>2. /\ Up(p) /\ UNCHANGED <<frame, area, structs, vmas, anon, proc>>
      /\ FreeHandle(q, k) /\ Give(q, k, handles[p][h]) /\ handles[p][h] # NoArea
  BY DEF SecondHandle
<1>3. PICK a \in Areas : a = handles[p][h]
  BY <1>1, <1>2 DEF MInv
<1>4. NamesOf(handles)' = NamesOf(handles) \cup {<<q, a>>}
  BY <1>1, <1>2, <1>3, GiveNames
<1>5. Becomes(Now) /\ IsState(Now)
  BY <1>2, NowFacts DEF Becomes
<1>6. Tied(Now) /\ Kin(Now, NamesOf(handles)) /\ Counted(Now)
  BY NowHolds
<1>7. Kin(Now, NamesOf(handles)')
  BY <1>4, <1>6, KinNames
<1>8. Evens(Now, Now)
  BY <1>6 DEF Evens
<1>9. /\ Lasting(Now, Now)
      /\ \A v \in vmas : \A i \in DOMAIN Now.structs :
            Now.structs[i].id = v.id => Now.structs[i].area = v.area
  BY NowFacts, NewLasting
<1> QED BY <1>1, <1>2, <1>5, <1>6, <1>7, <1>8, <1>9, SettleStep

(* Freeing memory.                                                         *)
LEMMA FreeMemoryFrames ==
  ASSUME FInv, NEW p \in Procs, NEW h \in Handles, FreeMemory(p, h)
  PROVE  FInv'
<1> DEFINE a == handles[p][h]
           N == NamesOf(handles)
           s == IF HandlesOf(a) = {<<p, h>>} THEN FreeBuf(Now, a) ELSE Now
<1>1. MInv /\ MInv'
  BY FreeMemoryStep DEF FInv
<1>2. /\ Up(p) /\ a # NoArea /\ (HandlesOf(a) = {<<p, h>>} => ~Stops(Now, a)) /\ Becomes(s)
      /\ handles' = [handles EXCEPT ![p][h] = NoArea] /\ UNCHANGED <<vmas, anon, proc>>
  BY DEF FreeMemory
<1>3. handles \in [Procs -> [Handles -> Areas \cup {NoArea}]]
  BY <1>1 DEF MInv
<1>4. a \in Areas /\ <<p, a>> \in N
  BY <1>2, <1>3 DEF NamesOf
<1>5. \A q \in Procs, k \in Handles :
         handles'[q][k] = IF q = p /\ k = h THEN NoArea ELSE handles[q][k]
  BY <1>2, <1>3
<1>6. /\ AreaInv(Now, N, ToldOf(told)) /\ InOrder(Now) /\ RecInv(Now.structs)
      /\ Counted(Now) /\ Tied(Now) /\ Kin(Now, N) /\ IsState(Now)
  BY NowHolds
<1>7. ASSUME NEW n \in N, n[2] # a PROVE n \in NamesOf(handles)'
  <2>1. PICK k \in Handles : n \in Procs \X Areas /\ handles[n[1]][k] = n[2]
    BY DEF NamesOf
  <2>2. handles'[n[1]][k] = n[2]
    BY <1>5, <1>7, <2>1
  <2> QED BY <2>1, <2>2 DEF NamesOf
<1>8. CASE HandlesOf(a) = {<<p, h>>}
  <2>1. s = FreeBuf(Now, a) /\ ~Stops(Now, a)
    BY <1>2, <1>8
  <2> HIDE DEF N, a, s
  <2>2. PICK n \in N : n = <<p, a>> /\ n[2] = a
    BY <1>4
  <2>3. AreaInv(s, Without(N, {a}), ToldOf(told)) /\ Shrinks(Now.structs, s.structs)
    BY <1>6, <2>1, <2>2, FreeBufKeeps
  <2>4. Evens(Now, s) /\ Fades(Now, s) /\ Tied(s) /\ Kin(s, Without(N, {a}))
    BY <1>6, <2>1, <2>2, FreeBufHolds
  <2>5. Kin(s, NamesOf(handles)')
    <3>1. \A m \in Without(N, {a}) : m \in NamesOf(handles)'
      BY <1>7 DEF Without
    <3> QED BY <2>4, <3>1, KinNames
  <2>6. IsState(s) /\ Shrinks(structs, s.structs)
    BY <2>3, NowFacts DEF AreaInv, Typed
  <2>7. /\ Lasting(Now, s)
        /\ \A v \in vmas : \A i \in DOMAIN s.structs : s.structs[i].id = v.id => s.structs[i].area = v.area
    BY <2>4, <2>6, FadesLasting
  <2> QED BY <1>1, <1>2, <2>4, <2>5, <2>6, <2>7, SettleStep
<1>9. CASE HandlesOf(a) # {<<p, h>>}
  <2>1. s = Now
    BY <1>9
  <2>2. \E m \in NamesOf(handles)' : m[2] = a
    <3>1. <<p, h>> \in HandlesOf(a)
      BY DEF HandlesOf
    <3>2. PICK o \in HandlesOf(a) : o # <<p, h>>
      BY <1>9, <3>1
    <3>3. o \in Procs \X Handles /\ handles[o[1]][o[2]] = a
      BY DEF HandlesOf
    <3>4. ~(o[1] = p /\ o[2] = h)
      BY <3>2, <3>3
    <3>5. handles'[o[1]][o[2]] = a
      BY <1>5, <3>3, <3>4
    <3>6. <<o[1], a>> \in NamesOf(handles)'
      BY <1>4, <3>3, <3>5 DEF NamesOf
    <3>7. <<o[1], a>>[2] = a
      OBVIOUS
    <3> QED BY <3>6, <3>7
  <2>3. Kin(Now, NamesOf(handles)')
    <3>1. \A n \in N : \E m \in NamesOf(handles)' : m[2] = n[2]
      BY <1>7, <2>2
    <3> HIDE DEF N
    <3> QED BY <1>6, <3>1, KinNames
  <2> HIDE DEF s
  <2>4. Evens(Now, Now) /\ Becomes(Now)
    BY <1>2, <1>6, <2>1 DEF Evens
  <2>5. /\ Lasting(Now, Now)
        /\ \A v \in vmas : \A i \in DOMAIN Now.structs :
              Now.structs[i].id = v.id => Now.structs[i].area = v.area
    BY NowFacts, NewLasting
  <2> QED BY <1>1, <1>2, <1>6, <2>3, <2>4, <2>5, SettleStep
<1> QED BY <1>8, <1>9

(* A buffer of a process is given back.                                    *)
LEMMA AnonGone ==
  ASSUME NEW s, NEW u, NEW vs, NEW an, NEW p \in Procs, NEW pr, Typed(s), Counted(s),
         Balanced(s, vs, an), Brought(an, pr), u = PutPages(s, an[p]), IsFiniteSet(vs),
         \A v \in vs : IsList(v.frames)
  PROVE  IsState(u) /\ u.area = s.area /\ u.structs = s.structs /\ Counted(u)
         /\ Balanced(u, vs, [an EXCEPT ![p] = <<>>])
<1>1. an \in [Procs -> Seq(Frames)]
  BY DEF Brought
<1>2. IsList(an[p]) /\ IsState(s)
  BY <1>1, SeqIsList DEF Typed
<1>3. IsState(u) /\ u.area = s.area /\ u.structs = s.structs
  BY <1>2, PagesFacts
<1>4. Counted(u) /\ \A f \in Frames : u.frame[f] = s.frame[f] - Occurs(f, an[p])
  BY <1>2, PagesFrames
<1>5. ASSUME NEW f \in Frames
      PROVE  u.frame[f] - AreaSum(u, f) = MapSum(vs, f) + AnonSum([an EXCEPT ![p] = <<>>], f)
  <2>1. PICK m, n, o, k, c : /\ m = MapSum(vs, f) /\ n = AnonSum(an, f) /\ o = Occurs(f, an[p])
                             /\ k = AnonSum([an EXCEPT ![p] = <<>>], f) /\ c = AreaSum(s, f)
    OBVIOUS
  <2>2. n = k + o /\ k \in Int /\ o \in Nat
    BY <1>1, <2>1, AnonSumDrop
  <2>3. AreaSum(u, f) = c
    BY <1>3, <2>1 DEF AreaSum
  <2>4. s.frame[f] - c = m + n /\ u.frame[f] = s.frame[f] - o /\ s.frame[f] \in Int
    BY <1>4, <2>1 DEF Balanced, Counted
  <2>5. m \in Int
    <3> DEFINE g == [v \in vs |-> HeldByMapping(v, f)]
    <3>1. \A v \in vs : g[v] \in Int
      BY MapHolds
    <3>2. m = Total(g, vs)
      BY <2>1 DEF MapSum
    <3> HIDE DEF g
    <3> QED BY <3>1, <3>2, TotalAny
  <2>6. c \in Int
    BY <2>1, TypedHolds, AreaSumFacts
  <2>7. u.frame[f] - c = m + k
    BY <2>2, <2>4, <2>5, <2>6
  <2> QED BY <2>1, <2>3, <2>7
<1> QED BY <1>3, <1>4, <1>5 DEF Balanced

(* What the invariant says of mappings.                                    *)
LEMMA MapsFinite ==
  ASSUME MInv
  PROVE  IsFiniteSet(vmas) /\ \A v \in vmas : IsList(v.frames) /\ IsMapping(v) /\ v.p \in Procs /\ Up(v.p)
BY DEF MInv, MapInv, ProcInv, IsMapping, Up

(* A process without a buffer has brought nothing.                         *)
LEMMA BroughtLess ==
  ASSUME NEW an, NEW pr, Brought(an, pr), NEW p \in Procs, NEW qr, \A q \in Procs : q # p => qr[q] = pr[q]
  PROVE  Brought([an EXCEPT ![p] = <<>>], qr)
<1>1. an \in [Procs -> Seq(Frames)] /\ <<>> \in Seq(Frames)
  BY DEF Brought
<1> QED BY <1>1 DEF Brought

(* The process gives its own buffer back.                                  *)
LEMMA FreeAnonFrames ==
  ASSUME FInv, NEW p \in Procs, FreeAnon(p)
  PROVE  FInv'
<1> DEFINE s == PutPages(Now, anon[p])
<1>1. MInv /\ MInv'
  BY FreeAnonStep DEF FInv
<1>2. /\ Up(p) /\ Becomes(s) /\ UNCHANGED <<vmas, handles, proc>>
      /\ anon' = [anon EXCEPT ![p] = <<>>]
  BY DEF FreeAnon
<1>3. /\ Typed(Now) /\ Counted(Now) /\ Tied(Now) /\ Kin(Now, NamesOf(handles))
  BY NowHolds
<1>4. Balanced(Now, vmas, anon) /\ Brought(anon, proc) /\ Linked(Now, vmas)
  BY DEF FInv, Holding
<1>5. IsFiniteSet(vmas) /\ \A v \in vmas : IsList(v.frames)
  BY <1>1, MapsFinite
<1>6. /\ IsState(s) /\ s.area = Now.area /\ s.structs = Now.structs /\ Counted(s)
      /\ Balanced(s, vmas, anon')
  BY <1>2, <1>3, <1>4, <1>5, AnonGone
<1> HIDE DEF s
<1>7. Brought(anon', proc)
  BY <1>2, <1>4, BroughtLess
<1>8. Tied(s) /\ Kin(s, NamesOf(handles)) /\ Linked(s, vmas)
  BY <1>3, <1>4, <1>6 DEF Tied, Kin, Source, PartOf, Childless, Exportable, Linked
<1>9. Emptied(s, proc)
  BY <1>2 DEF Emptied, Up
<1>10. NamesOf(handles)' = NamesOf(handles) /\ Now' = s
  BY <1>2, <1>6, BecomesNow DEF NamesOf
<1>11. Holding(s, NamesOf(handles), vmas, anon', proc)
  BY <1>6, <1>7, <1>8, <1>9 DEF Holding
<1> QED BY <1>1, <1>2, <1>10, <1>11 DEF FInv

(* The end of a process.                                                   *)
LEMMA ReleaseFrames ==
  ASSUME FInv, NEW p \in Procs, NEW current \in Procs, PVRSRVRelease(p, current)
  PROVE  FInv'
<1> DEFINE N == NamesOf(handles)
           A == Owned(p)
           u == FreeAll(Now, A)
           w == PutPages(u, anon[p])
           J == {i \in DOMAIN w.structs : w.structs[i].onList /\ w.structs[i].pid = current}
           s == DestroyAll(w, J)
<1>1. MInv /\ MInv'
  BY ReleaseStep DEF FInv
<1>2. /\ Up(p) /\ \A v \in vmas : v.p # p
      /\ handles' = [handles EXCEPT ![p] = [h \in Handles |-> NoArea]]
      /\ proc' = [proc EXCEPT ![p] = IF current = p THEN "gone" ELSE "inherited"]
      /\ UNCHANGED vmas /\ anon' = [anon EXCEPT ![p] = <<>>]
  BY DEF PVRSRVRelease
<1>3. Becomes(s)
  BY DEF PVRSRVRelease, LinuxMMapPerProcessDisconnect
<1>4. /\ AreaInv(Now, N, ToldOf(told)) /\ InOrder(Now) /\ RecInv(Now.structs)
      /\ Counted(Now) /\ Tied(Now) /\ Kin(Now, N)
  BY NowHolds
<1>5. A \in SUBSET Areas /\ OnlyOf(Now, N, A, p)
  BY <1>1, <1>2, OwnedOnly
<1>6. Kin(Now, N) /\ \A n \in Without(N, A) : \E m \in NamesOf(handles)' : m[2] = n[2]
  <2> SUFFICES ASSUME NEW n \in Without(N, A) PROVE \E m \in NamesOf(handles)' : m[2] = n[2]
    BY <1>4
  <2>1. PICK h \in Handles : n \in Procs \X Areas /\ handles[n[1]][h] = n[2] /\ n[2] \notin A
    BY DEF NamesOf, Without
  <2>2. <<n[1], h>> \in HandlesOf(n[2])
    BY <2>1 DEF HandlesOf
  <2>3. PICK o \in HandlesOf(n[2]) : o[1] # p
    BY <2>1, <2>2 DEF Owned
  <2>4. o \in Procs \X Handles /\ handles[o[1]][o[2]] = n[2]
    BY DEF HandlesOf
  <2>5. handles'[o[1]] = handles[o[1]]
    BY <1>2, <2>3
  <2>6. <<o[1], n[2]>> \in NamesOf(handles)' /\ <<o[1], n[2]>>[2] = n[2]
    BY <2>1, <2>4, <2>5 DEF NamesOf
  <2> QED BY <2>6
<1>7. /\ AreaInv(u, Without(N, A), ToldOf(told)) /\ RecInv(u.structs)
      /\ InOrder(u) /\ Shrinks(Now.structs, u.structs)
      /\ Evens(Now, u) /\ Fades(Now, u) /\ Tied(u) /\ Kin(u, Without(N, A))
  <2> HIDE DEF A, N
  <2> QED BY <1>4, <1>5, FreeAllKeeps, FreeAllHolds
<1>8. Kin(u, NamesOf(handles)')
  <2> HIDE DEF u, A, N
  <2> QED BY <1>6, <1>7, KinNames
<1> HIDE DEF u, A, N
<1>9. Typed(u) /\ Counted(u) /\ Balanced(u, vmas, anon)
  BY <1>7 DEF AreaInv, Evens, FInv, Holding, Balanced
<1>10. Brought(anon, proc) /\ IsFiniteSet(vmas) /\ \A v \in vmas : IsList(v.frames)
  BY <1>1, MapsFinite DEF FInv, Holding
<1>11. /\ IsState(w) /\ w.area = u.area /\ w.structs = u.structs /\ Counted(w)
       /\ Balanced(w, vmas, anon')
  BY <1>2, <1>9, <1>10, AnonGone
<1> HIDE DEF w
<1>12. J \in SUBSET DOMAIN w.structs /\ \A i \in J : w.structs[i].mapped = 0
  BY <1>7, <1>11 DEF RecInv
<1>13. /\ IsState(s) /\ s.frame = w.frame /\ s.area = w.area /\ Shrinks(w.structs, s.structs)
  <2>1. RecInv(w.structs)
    BY <1>7, <1>11
  <2> HIDE DEF J
  <2> QED BY <1>11, <1>12, <2>1, DestroyFacts
<1> HIDE DEF s
<1>14. Now' = s /\ structs' = s.structs
  BY <1>3, <1>13, BecomesNow
<1>15. Shrinks(structs, s.structs)
  BY <1>7, <1>11, <1>13, ShrinkTrans, NowFacts
<1>16. Fades(Now, s)
  BY <1>7, <1>11, <1>13 DEF Fades
<1>17. Linked(s, vmas)
  <2>1. AreaInv(s, NamesOf(handles)', ToldOf(told)') /\ MapInv(vmas, s.structs)
    BY <1>1, <1>2, <1>14 DEF MInv
  <2> QED BY <1>15, <1>16, <2>1, FadesLasting, StillLinked
<1>18. Brought(anon', proc')
  <2>1. \A q \in Procs : q # p => proc'[q] = proc[q]
    BY <1>1, <1>2 DEF MInv
  <2>2. PICK an, bn, pr, qr : an = anon /\ bn = anon' /\ pr = proc /\ qr = proc'
    OBVIOUS
  <2>3. Brought(an, pr) /\ bn = [an EXCEPT ![p] = <<>>] /\ \A q \in Procs : q # p => qr[q] = pr[q]
    BY <1>2, <1>10, <2>1, <2>2
  <2>4. an \in [Procs -> Seq(Frames)] /\ <<>> \in Seq(Frames)
    BY <2>3 DEF Brought
  <2>5. bn \in [Procs -> Seq(Frames)] /\ bn[p] = <<>> /\ \A q \in Procs : q # p => bn[q] = an[q]
    BY ONLY <2>3, <2>4, p \in Procs
  <2>6. Brought(bn, qr)
    BY <2>3, <2>5 DEF Brought
  <2> QED BY <2>2, <2>6
<1>19. Emptied(s, proc')
  <2>1. proc'[p] \in {"gone", "inherited"}
    BY <1>1, <1>2 DEF MInv
  <2> QED BY <2>1 DEF Emptied
<1>20. Counted(s) /\ Balanced(s, vmas, anon')
  BY <1>11, <1>13 DEF Counted, Balanced, AreaSum
<1>21. Tied(s) /\ Kin(s, NamesOf(handles)')
  BY <1>7, <1>8, <1>11, <1>13 DEF Tied, Kin, Source, PartOf, Childless, Exportable
<1>22. Holding(s, NamesOf(handles)', vmas, anon', proc')
  BY <1>17, <1>18, <1>19, <1>20, <1>21 DEF Holding
<1> QED BY <1>1, <1>2, <1>14, <1>22 DEF FInv

(* The end of the module.                                                  *)
LEMMA CleanupFrames ==
  ASSUME FInv, PVRMMapCleanup
  PROVE  FInv'
<1> DEFINE A == {a \in Areas : area[a].reg /\ area[a].st # "freed"}
           s == PurgeEach(Now, A)
<1>1. MInv /\ MInv'
  BY CleanupStep DEF FInv
<1>2. /\ \A p \in Procs : ~Up(p)
      /\ Becomes(s) /\ proc' = [p \in Procs |-> "unloaded"] /\ UNCHANGED <<vmas, handles, anon>>
  BY DEF PVRMMapCleanup
<1>3. /\ Typed(Now) /\ Counted(Now) /\ Tied(Now) /\ Kin(Now, NamesOf(handles)) /\ RecInv(Now.structs)
      /\ AreaInv(Now, NamesOf(handles), ToldOf(told)) /\ InOrder(Now)
  BY NowHolds
<1>4. vmas = {}
  BY <1>1, <1>2, MapsFinite
<1>5. \A i \in DOMAIN Now.structs : Now.structs[i].mapped = 0
  BY <1>1, <1>4, NowFacts DEF MInv, MapInv
<1>6. NamesOf(handles) = {}
  <2>1. NoArea \notin Areas
    BY NumbersAssumption DEF NoArea
  <2> QED BY <1>1, <1>2, <2>1 DEF MInv, NamesOf, ProcInv, Up
<1>7. A \in SUBSET Areas /\ \A a \in A : Shape(Now.area[a]) /\ Now.area[a].type # "extkv"
  BY <1>3, <1>6 DEF Tied, Kin
<1>8. \A a \in Areas \ A : Now.area[a].st \notin InUse
  <2>1. \A a \in Areas : IsArea(area[a])
    BY <1>3, NowFacts DEF Typed
  <2> QED BY <2>1, NowFacts DEF IsArea, InUse
<1> HIDE DEF A
<1>9. Evens(Now, s) /\ \A a \in Areas : s.area[a] = IF a \in A THEN Gone ELSE Now.area[a]
  BY <1>3, <1>5, <1>7, PurgeEachHolds
<1>10. IsState(s)
  <2>1. \A a \in A : Now.area[a].st # "unused"
    BY NowFacts, <1>3 DEF A, Typed, IsArea, InUse
  <2>2. AreaInv(s, {}, ToldOf(told))
    BY <1>3, <1>5, <1>6, <1>7, <2>1, PurgeEachKeeps
  <2> QED BY <2>2 DEF AreaInv, Typed
<1> HIDE DEF s
<1>11. Now' = s /\ structs' = s.structs
  BY <1>2, <1>10, BecomesNow
<1>12. Gone.st = "freed" /\ Gone.type = "none" /\ Gone.frames = <<>> /\ Gone.parent = NoArea
       /\ Gone.src = NoArea /\ Gone.wrap = "none"
  BY DEF Gone, NewArea
<1>13. \A a \in Areas : Shape(s.area[a]) /\ s.area[a].st \notin InUse /\ s.area[a].type = "none"
  <2>1. Shape(Gone)
    BY <1>12 DEF Shape, OfRam, NoRam, ToSet
  <2>2. \A a \in Areas : Shape(s.area[a]) /\ s.area[a].st \notin InUse
    BY <1>3, <1>8, <1>9, <1>12, <2>1 DEF Tied, InUse
  <2>3. \A a \in Areas : IsArea(s.area[a])
    BY <1>1, <1>11 DEF MInv, AreaInv, Typed
  <2> QED BY <2>2, <2>3 DEF Shape, IsArea
<1>14. Tied(s) /\ Kin(s, NamesOf(handles)) /\ Emptied(s, proc')
  BY <1>13 DEF Tied, Source, PartOf, Kin, Emptied
<1>15. Counted(s) /\ Balanced(s, vmas, anon)
  BY <1>9 DEF Evens, FInv, Holding, Balanced
<1>16. Linked(s, vmas)
  BY <1>4 DEF Linked
<1>17. Brought(anon, proc')
  BY <1>2 DEF FInv, Holding, Brought, Up
<1>18. NamesOf(handles)' = NamesOf(handles)
  BY <1>2 DEF NamesOf
<1>19. Holding(s, NamesOf(handles), vmas, anon, proc')
  BY <1>14, <1>15, <1>16, <1>17 DEF Holding
<1> QED BY <1>1, <1>2, <1>11, <1>18, <1>19 DEF FInv

-----------------------------------------------------------------------------
(* Records that are kept stay those of their areas, and mappings those of  *)
(* their records.                                                          *)
Stem(ss, tt) == \A k \in DOMAIN tt : \E j \in DOMAIN ss : tt[k].id = ss[j].id /\ tt[k].area = ss[j].area
SameMapping(v, w) == w.id = v.id /\ w.area = v.area /\ w.frames = v.frames /\ w.raw = v.raw
Renews(vs, us) == \A u \in us : \E v \in vs : SameMapping(v, u)

(* So the mappings stay linked.                                            *)
LEMMA RenewsLinked ==
  ASSUME NEW s, NEW t, NEW vs, NEW us, Linked(s, vs), t.area = s.area, Stem(s.structs, t.structs),
         Renews(vs, us)
  PROVE  Linked(t, us)
<1> SUFFICES ASSUME NEW u \in us
             PROVE  /\ u.area \in Areas /\ u.frames = t.area[u.area].frames
                    /\ \A i \in DOMAIN t.structs : t.structs[i].id = u.id => t.structs[i].area = u.area
  BY DEF Linked
<1>1. PICK v \in vs : SameMapping(v, u)
  BY DEF Renews
<1>2. u.area \in Areas /\ u.frames = t.area[u.area].frames
  BY <1>1 DEF SameMapping, Linked
<1>3. ASSUME NEW i \in DOMAIN t.structs, t.structs[i].id = u.id PROVE t.structs[i].area = u.area
  <2>1. PICK j \in DOMAIN s.structs :
           t.structs[i].id = s.structs[j].id /\ t.structs[i].area = s.structs[j].area
    BY DEF Stem
  <2> QED BY <1>1, <1>3, <2>1 DEF SameMapping, Linked
<1> QED BY <1>2, <1>3

(* The mappings that are left are mappings there were.                     *)
LEMMA SomeRenew ==
  ASSUME NEW vs, NEW us, us \subseteq vs
  PROVE  Renews(vs, us)
BY DEF Renews, SameMapping

(* A step that leaves the areas alone.                                     *)
LEMMA RecordsFrames ==
  ASSUME FInv, MInv', NEW s, IsState(s), Becomes(s), s.area = area, UNCHANGED <<handles, anon, proc>>,
         NEW vs, vmas' = vs, Counted(s), Linked(s, vs), Balanced(s, vs, anon)
  PROVE  FInv'
<1>1. Now' = s /\ NamesOf(handles)' = NamesOf(handles)
  BY BecomesNow DEF NamesOf
<1>2. /\ Tied(Now) /\ Kin(Now, NamesOf(handles)) /\ Brought(anon, proc) /\ Emptied(Now, proc)
      /\ Now.area = area
  BY NowFacts DEF FInv, Holding
<1>3. Tied(s) /\ Kin(s, NamesOf(handles)) /\ Emptied(s, proc)
  BY <1>2 DEF Tied, Kin, Source, PartOf, Childless, Exportable, Emptied
<1>4. Holding(s, NamesOf(handles), vs, anon, proc)
  BY <1>2, <1>3 DEF Holding
<1> QED BY <1>1, <1>4 DEF FInv

(* A step that changes no more than records.                               *)
LEMMA StemStep ==
  ASSUME FInv, MInv', NEW s, IsState(s), Becomes(s), s.area = area, s.frame = frame,
         UNCHANGED <<handles, anon, proc, vmas>>, Stem(structs, s.structs)
  PROVE  FInv'
<1>1. /\ Linked(Now, vmas) /\ Counted(Now) /\ Balanced(Now, vmas, anon)
      /\ Now.area = area /\ Now.structs = structs /\ Now.frame = frame
  BY NowFacts DEF FInv, Holding
<1>2. Renews(vmas, vmas)
  BY SomeRenew
<1>3. Linked(s, vmas)
  BY <1>1, <1>2, RenewsLinked
<1>4. Counted(s) /\ Balanced(s, vmas, anon)
  BY <1>1 DEF Counted, Balanced, AreaSum
<1> QED BY <1>3, <1>4, RecordsFrames

(* A reference on a record is given back.                                  *)
LEMMA ReleaseMMapDataFrames ==
  ASSUME FInv, NEW t, NEW h, PVRMMapReleaseMMapData(t, h)
  PROVE  FInv'
<1> DEFINE p == ProcOf[t]
           I == StructOf(structs, PVRSRVLookupOSMemHandle(p, h), p)
           i == Min(I)
           y == [structs[i] EXCEPT !.ref = structs[i].ref - 1]
           s == [Now EXCEPT !.structs = [structs EXCEPT ![i] = y]]
<1>1. MInv /\ MInv'
  BY ReleaseMMapDataStep DEF FInv
<1>2. I # {} /\ structs' = [structs EXCEPT ![i] = y] /\ UNCHANGED <<frame, area, vmas, handles, anon, proc>>
  BY DEF PVRMMapReleaseMMapData
<1>3. i \in DOMAIN structs /\ IsRecord(structs[i])
  <2>1. I \subseteq DOMAIN structs /\ DOMAIN structs \subseteq Nat
    BY <1>1 DEF MInv, StructOf, RecInv, IsList
  <2> HIDE DEF I
  <2>2. i \in I
    BY <1>2, <2>1, MinIn
  <2> QED BY <1>1, <2>1, <2>2 DEF MInv, RecInv
<1> HIDE DEF i
<1>4. y.id = structs[i].id /\ y.area = structs[i].area
  BY <1>3 DEF IsRecord
<1> HIDE DEF y
<1>5. IsState(s) /\ s.area = area /\ s.structs = [structs EXCEPT ![i] = y] /\ s.frame = frame
  BY NowFacts DEF IsState
<1> HIDE DEF s
<1>6. Becomes(s)
  BY <1>2, <1>5 DEF Becomes
<1>7. Stem(structs, s.structs)
  BY <1>3, <1>4, <1>5 DEF Stem
<1> QED BY <1>1, <1>2, <1>5, <1>6, <1>7, StemStep

(* A record may come, and the others stay those of their areas.            *)
Grows(ss, tt) == \A j \in DOMAIN ss : j \in DOMAIN tt /\ tt[j].id = ss[j].id /\ tt[j].area = ss[j].area

(* A step that adds a record leaves the mappings those of their records.   *)
LEMMA GrowsStep ==
  ASSUME FInv, MInv', NEW s, IsState(s), Becomes(s), s.area = area, s.frame = frame,
         UNCHANGED <<handles, anon, proc, vmas>>, Grows(structs, s.structs)
  PROVE  FInv'
<1>1. /\ Linked(Now, vmas) /\ Counted(Now) /\ Balanced(Now, vmas, anon)
      /\ Now.area = area /\ Now.structs = structs /\ Now.frame = frame
  BY NowFacts DEF FInv, Holding
<1>2. RecInv(s.structs) /\ MapInv(vmas, structs)
  BY BecomesNow DEF FInv, MInv
<1>3. ASSUME NEW v \in vmas, NEW i \in DOMAIN s.structs, s.structs[i].id = v.id
      PROVE  s.structs[i].area = v.area
  <2>1. PICK j \in DOMAIN structs : structs[j].id = v.id
    BY <1>2 DEF MapInv
  <2>2. j \in DOMAIN s.structs /\ s.structs[j].id = v.id /\ s.structs[j].area = structs[j].area
    BY <2>1 DEF Grows
  <2>3. i = j
    BY <1>2, <1>3, <2>2 DEF RecInv
  <2> QED BY <1>1, <2>1, <2>2, <2>3 DEF Linked
<1>4. Linked(s, vmas)
  BY <1>1, <1>3 DEF Linked
<1>5. Counted(s) /\ Balanced(s, vmas, anon)
  BY <1>1 DEF Counted, Balanced, AreaSum
<1> QED BY <1>4, <1>5, RecordsFrames

(* A thread asks for an offset.                                            *)
LEMMA ToMMapDataFrames ==
  ASSUME FInv, NEW t \in Threads, NEW h \in Handles, PVRMMapOSMemHandleToMMapData(t, h)
  PROVE  FInv'
<1> DEFINE p == ProcOf[t]
           a == PVRSRVLookupOSMemHandle(p, h)
           I == StructOf(structs, a, p)
           i == Min(I)
           new == I = {}
<1>1. MInv /\ MInv' /\ RecInv(structs) /\ MapInv(vmas, structs)
  BY ToMMapDataStep DEF FInv, MInv
<1>2. UNCHANGED <<vmas, handles, anon, proc>>
  BY DEF PVRMMapOSMemHandleToMMapData
<1>3. PICK n \in Nat : DOMAIN structs = 1..n /\ structs = [j \in 1..n |-> structs[j]]
  BY <1>1 DEF RecInv, IsList
<1>4. CASE I # {}
  <2> DEFINE y == Asked(structs[i], new)
             s == [Now EXCEPT !.structs[i] = Asked(@, new)]
  <2>1. Becomes(s)
    BY <1>4 DEF PVRMMapOSMemHandleToMMapData
  <2>2. i \in DOMAIN structs /\ IsRecord(structs[i])
    <3>1. I \subseteq DOMAIN structs /\ DOMAIN structs \subseteq Nat
      BY <1>1 DEF StructOf, RecInv, IsList
    <3> HIDE DEF I
    <3>2. i \in I
      BY <1>4, <3>1, MinIn
    <3> QED BY <1>1, <3>1, <3>2 DEF RecInv
  <2>3. new \in BOOLEAN
    OBVIOUS
  <2> HIDE DEF i, I, new
  <2>4. y.id = structs[i].id /\ y.area = structs[i].area
    BY <2>2, <2>3, AskedFacts
  <2>5. s = [Now EXCEPT !.structs = [structs EXCEPT ![i] = y]]
    BY NowFacts
  <2> HIDE DEF y, s
  <2>6. IsState(s) /\ s.area = area /\ s.structs = [structs EXCEPT ![i] = y] /\ s.frame = frame
    BY <2>5, NowFacts DEF IsState
  <2>7. Grows(structs, s.structs)
    BY <2>2, <2>4, <2>6 DEF Grows
  <2> QED BY <1>1, <1>2, <2>1, <2>6, <2>7, GrowsStep
<1>5. CASE I = {}
  <2> DEFINE off == MMapOffset(Now, a, h)
             size == DetermineUsersSizeAndByteOffset(Now, a)
             x == RecordOf(FreshId(structs), a, off, size, p, t, 0, 0, No, No)
             u == CreateOffsetStruct(Now, a, off, size, p, t)
             k == Len(u.structs)
             w == [u EXCEPT !.structs[k] = Asked(@, new)]
  <2>1. Becomes(w)
    BY <1>5 DEF PVRMMapOSMemHandleToMMapData
  <2>2. u = [Now EXCEPT !.structs = Append(structs, x)]
    BY NowFacts DEF CreateOffsetStruct, RecordOf, No
  <2> HIDE DEF x, u, I, new, p, a
  <2>3. IsState(u) /\ u.area = area /\ u.frame = frame /\ u.structs = Append(structs, x)
    BY <2>2, NowFacts DEF IsState
  <2>4. u.structs = [j \in 1..(n + 1) |-> IF j = n + 1 THEN x ELSE structs[j]]
    BY <1>3, <2>3, AppendList
  <2>5. k = n + 1
    BY <2>4
  <2> DEFINE tt == [u.structs EXCEPT ![k] = Asked(u.structs[k], new)]
  <2>6. w = [u EXCEPT !.structs = tt]
    OBVIOUS
  <2>7. \A j \in 1..n : j \in DOMAIN tt /\ tt[j] = structs[j]
    <3>1. \A j \in 1..n : j \in 1..(n + 1) /\ j # n + 1
      OBVIOUS
    <3> QED BY <2>4, <2>5, <3>1
  <2> HIDE DEF tt, w, k
  <2>8. IsState(w) /\ w.area = area /\ w.frame = frame /\ w.structs = tt
    BY <2>3, <2>6 DEF IsState
  <2>9. Grows(structs, w.structs)
    BY <1>3, <2>7, <2>8 DEF Grows
  <2> QED BY <1>1, <1>2, <2>1, <2>8, <2>9, GrowsStep
<1> QED BY <1>4, <1>5

(* A mapping of the same kind takes the place of one.                      *)
LEMMA SwapSum ==
  ASSUME NEW vs, IsFiniteSet(vs), \A v \in vs : IsList(v.frames), NEW v \in vs, NEW w, SameMapping(v, w),
         w \notin vs \ {v}, NEW f
  PROVE  MapSum((vs \ {v}) \cup {w}, f) = MapSum(vs, f)
<1> DEFINE us == vs \ {v}
<1>1. IsFiniteSet(us) /\ (\A u \in us : IsList(u.frames)) /\ w \notin us /\ IsList(w.frames)
  BY FS_RemoveElement DEF SameMapping
<1>2. HeldByMapping(w, f) = HeldByMapping(v, f)
  BY DEF SameMapping, HeldByMapping
<1>3. MapSum(vs, f) = MapSum(us, f) + HeldByMapping(v, f)
  BY MapSumDrop
<1> HIDE DEF us
<1>4. MapSum(us \cup {w}, f) = MapSum(us, f) + HeldByMapping(w, f)
  BY <1>1, MapSumAdd
<1>5. MapSum(us \cup {w}, f) = MapSum(vs, f)
  BY <1>2, <1>3, <1>4
<1> QED BY <1>5 DEF us

(* A mapping gets another number of parts.                                 *)
LEMMA PartsFrames ==
  ASSUME FInv, MInv', NEW v \in vmas, NEW i, i = Min(WithId(structs, v.id)), NEW n \in Nat \ {0},
         structs' = [structs EXCEPT ![i].mapped = n], frame' = frame, area' = area,
         vmas' = (vmas \ {v}) \cup {[v EXCEPT !.parts = n]}, UNCHANGED <<handles, anon, proc>>
  PROVE  FInv'
<1> DEFINE y == [structs[i] EXCEPT !.mapped = n]
           w == [v EXCEPT !.parts = n]
           s == [Now EXCEPT !.structs = [structs EXCEPT ![i] = y]]
           us == (vmas \ {v}) \cup {w}
<1>1. /\ i \in DOMAIN structs /\ structs[i].id = v.id
      /\ IsRecord(structs[i]) /\ IsMapping(v)
      /\ \A u \in vmas \ {v} : u.id # structs[i].id
  BY RecordOfMapping DEF FInv
<1>2. y.id = structs[i].id /\ y.area = structs[i].area
  BY <1>1 DEF IsRecord
<1>3. SameMapping(v, w)
  BY <1>1 DEF IsMapping, SameMapping
<1>4. structs' = [structs EXCEPT ![i] = y] /\ vmas' = us
  BY <1>1
<1> HIDE DEF y, w
<1>5. IsState(s) /\ s.area = area /\ s.frame = frame /\ s.structs = [structs EXCEPT ![i] = y]
  BY NowFacts DEF IsState
<1> HIDE DEF s
<1>6. Becomes(s)
  BY <1>4, <1>5 DEF Becomes
<1>7. w \notin vmas \ {v}
  BY <1>1, <1>3 DEF SameMapping
<1>8. IsFiniteSet(vmas) /\ \A u \in vmas : IsList(u.frames)
  BY MapsFinite DEF FInv
<1>9. /\ Linked(Now, vmas) /\ Counted(Now) /\ Balanced(Now, vmas, anon)
      /\ Now.area = area /\ Now.structs = structs /\ Now.frame = frame
  BY NowFacts DEF FInv, Holding
<1>10. \A f \in Frames : MapSum(us, f) = MapSum(vmas, f)
  BY <1>3, <1>7, <1>8, SwapSum
<1>11. Renews(vmas, us)
  BY <1>3 DEF Renews, SameMapping
<1> HIDE DEF us
<1>12. Stem(structs, s.structs)
  BY <1>1, <1>2, <1>5 DEF Stem
<1>13. Linked(s, us)
  BY <1>5, <1>9, <1>11, <1>12, RenewsLinked
<1>14. Counted(s) /\ Balanced(s, us, anon)
  BY <1>5, <1>9, <1>10 DEF Counted, Balanced, AreaSum
<1> QED BY <1>4, <1>5, <1>6, <1>13, <1>14, RecordsFrames

(* A mapping is split.                                                     *)
LEMMA VOpenFrames ==
  ASSUME FInv, NEW v \in vmas, MMapVOpen(v)
  PROVE  FInv'
<1> DEFINE i == Min(WithId(structs, v.id))
<1>1. /\ structs' = [structs EXCEPT ![i].mapped = structs[i].mapped + 1]
      /\ vmas' = (vmas \ {v}) \cup {[v EXCEPT !.parts = v.parts + 1]}
      /\ UNCHANGED <<frame, area, handles, anon, proc>>
  BY DEF MMapVOpen
<1>2. structs[i].mapped = v.parts /\ v.parts \in Nat \ {0}
  BY RecordOfMapping DEF FInv
<1>3. MInv'
  BY VOpenStep DEF FInv
<1> HIDE DEF i
<1>4. PICK n \in Nat \ {0} : n = v.parts + 1
  BY <1>2
<1>5. structs' = [structs EXCEPT ![i].mapped = n] /\ vmas' = (vmas \ {v}) \cup {[v EXCEPT !.parts = n]}
  BY <1>1, <1>2, <1>4
<1> QED BY <1>1, <1>3, <1>4, <1>5, PartsFrames DEF i

(* The buffers of processes hold a frame a number of times.                *)
LEMMA AnonSumInt ==
  ASSUME NEW an, NEW pr, Brought(an, pr), NEW f
  PROVE  AnonSum(an, f) \in Int
<1> DEFINE g == [p \in Procs |-> Occurs(f, an[p])]
<1>1. \A p \in Procs : g[p] \in Int
  BY OccursFacts, SeqIsList DEF Brought
<1>2. AnonSum(an, f) = Total(g, Procs) /\ IsFiniteSet(Procs)
  BY LoadsAssumption DEF AnonSum
<1> HIDE DEF g
<1> QED BY <1>1, <1>2, TotalAny

(* Destroying a record leaves the frames alone.                            *)
LEMMA DestroyFrames ==
  ASSUME NEW s, IsState(s), NEW J
  PROVE  DestroyAll(s, J).frame = s.frame
BY DEF DestroyAll, IsState

(* A part of a mapping goes; the last one gives the pages back.            *)
LEMMA VCloseFrames ==
  ASSUME FInv, NEW v \in vmas, MMapVClose(v)
  PROVE  FInv'
<1> DEFINE i == Min(WithId(structs, v.id))
           s == MMapVCloseNoLock(Now, i)
<1>1. MInv /\ MInv'
  BY VCloseStep DEF FInv
<1>2. /\ \/ v.parts > 1 /\ Becomes(s) /\ vmas' = (vmas \ {v}) \cup {[v EXCEPT !.parts = v.parts - 1]}
         \/ ~(v.parts > 1) /\ Becomes(IF v.raw THEN s ELSE PutPages(s, v.frames)) /\ vmas' = vmas \ {v}
      /\ UNCHANGED <<handles, anon, proc>>
  BY DEF MMapVClose
<1>3. /\ i \in DOMAIN structs /\ structs[i].id = v.id
      /\ structs[i].mapped = v.parts /\ v.parts \in Nat \ {0}
  BY <1>1, RecordOfMapping
<1>4. IsState(Now) /\ Now.area = area /\ Now.structs = structs /\ Now.frame = frame
  BY NowFacts
<1>5. CASE v.parts > 1 /\ Becomes(s) /\ vmas' = (vmas \ {v}) \cup {[v EXCEPT !.parts = v.parts - 1]}
  <2>1. PICK n \in Nat \ {0} : n = v.parts - 1
    BY <1>3, <1>5
  <2>2. s = [Now EXCEPT !.structs[i].mapped = Now.structs[i].mapped - 1]
    BY <1>3, <1>4, <1>5 DEF MMapVCloseNoLock
  <2> HIDE DEF i, s
  <2>3. s = [Now EXCEPT !.structs = [structs EXCEPT ![i].mapped = n]]
    BY <1>3, <1>4, <2>1, <2>2
  <2>4. s.frame = frame /\ s.area = area /\ s.structs = [structs EXCEPT ![i].mapped = n]
    BY <1>4, <2>3 DEF IsState
  <2>5. frame' = frame /\ area' = area /\ structs' = [structs EXCEPT ![i].mapped = n]
    BY <1>5, <2>4 DEF Becomes
  <2>6. vmas' = (vmas \ {v}) \cup {[v EXCEPT !.parts = n]}
    BY <1>5, <2>1
  <2> QED BY <1>1, <1>2, <2>1, <2>5, <2>6, PartsFrames DEF i
<1>6. CASE ~(v.parts > 1) /\ Becomes(IF v.raw THEN s ELSE PutPages(s, v.frames)) /\ vmas' = vmas \ {v}
  <2> DEFINE w == IF v.raw THEN s ELSE PutPages(s, v.frames)
             us == vmas \ {v}
  <2>1. v.parts = 1
    BY <1>3, <1>6
  <2>2. s = DestroyAll(Now, {i})
    BY <1>3, <1>4, <2>1 DEF MMapVCloseNoLock, DestroyOffsetStruct
  <2> HIDE DEF i
  <2>3. /\ IsState(s) /\ s.area = area
        /\ \A k \in DOMAIN s.structs : \E j \in DOMAIN structs \ {i} : s.structs[k] = structs[j]
    BY <1>1, <1>3, <2>2, DestroyOne
  <2>4. s.frame = frame
    BY <1>4, <2>2, DestroyFrames
  <2> HIDE DEF s
  <2>5. IsFiniteSet(vmas) /\ \A u \in vmas : IsList(u.frames)
    BY <1>1, MapsFinite
  <2>6. /\ Linked(Now, vmas) /\ Counted(Now) /\ Balanced(Now, vmas, anon) /\ HoldsNat(Now)
    BY NowHolds, TypedHolds DEF FInv, Holding
  <2>7. Counted(s)
    BY <1>4, <2>4, <2>6 DEF Counted
  <2>8. IsState(w) /\ w.area = area /\ w.structs = s.structs
    BY <2>3, PagesFacts
  <2>9. Counted(w) /\ \A f \in Frames : w.frame[f] = frame[f] - HeldByMapping(v, f)
    <3>1. CASE v.raw
      <4>1. w = s /\ \A f \in Frames : HeldByMapping(v, f) = 0 /\ frame[f] \in Int
        BY <1>4, <2>6, <3>1 DEF HeldByMapping, Counted
      <4> QED BY <2>4, <2>7, <4>1
    <3>2. CASE ~v.raw
      <4>1. w = PutPages(s, v.frames) /\ \A f \in Frames : HeldByMapping(v, f) = Occurs(f, v.frames)
        BY <3>2 DEF HeldByMapping
      <4> HIDE DEF w
      <4> QED BY <2>3, <2>4, <2>5, <2>7, <4>1, PagesFrames
    <3> QED BY <3>1, <3>2
  <2> HIDE DEF w
  <2>10. Balanced(w, us, anon)
    <3> SUFFICES ASSUME NEW f \in Frames
                 PROVE  w.frame[f] - AreaSum(w, f) = MapSum(us, f) + AnonSum(anon, f)
      BY DEF Balanced
    <3>1. PICK m, k, o, c, n : /\ m = MapSum(vmas, f) /\ k = MapSum(us, f) /\ o = HeldByMapping(v, f)
                               /\ c = AreaSum(Now, f) /\ n = AnonSum(anon, f)
      OBVIOUS
    <3>2. m = k + o /\ k \in Int /\ o \in Nat
      BY <2>5, <3>1, MapSumDrop
    <3>3. AreaSum(w, f) = c
      BY <1>4, <2>8, <3>1 DEF AreaSum
    <3>4. frame[f] - c = m + n /\ frame[f] \in Int /\ w.frame[f] = frame[f] - o
      BY <1>4, <2>6, <2>9, <3>1 DEF Balanced, Counted
    <3>5. c \in Int
      BY <2>6, <3>1, AreaSumFacts
    <3>6. n \in Int
      BY <3>1, AnonSumInt DEF FInv, Holding
    <3>7. w.frame[f] - c = k + n
      BY <3>2, <3>4, <3>5, <3>6
    <3> QED BY <3>1, <3>3, <3>7
  <2>11. Linked(w, us)
    <3>1. Stem(structs, w.structs)
      BY <2>3, <2>8 DEF Stem
    <3>2. Renews(vmas, us)
      BY SomeRenew
    <3> HIDE DEF us
    <3> QED BY <1>4, <2>6, <2>8, <3>1, <3>2, RenewsLinked
  <2>12. Becomes(w) /\ vmas' = us
    BY <1>6 DEF w
  <2> HIDE DEF us
  <2> QED BY <1>1, <1>2, <2>8, <2>9, <2>10, <2>11, <2>12, RecordsFrames
<1> QED BY <1>2, <1>5, <1>6

(* The thread maps what it was told.                                       *)
LEMMA PVRMMapFrames ==
  ASSUME FInv, NEW t \in Threads, NEW raw, NEW fault, PVRMMap(t, raw, fault)
  PROVE  FInv'
<1> DEFINE p == ProcOf[t]
           off == told[t].off
           I == FindOffsetStructByOffset(t, off, told[t].size)
           i == Min(I)
           m == DoMapToUser(Now, structs[i].area, off, raw)
           k == structs[i]
           ra == off[1] = "pfn" /\ raw
           ri == \/ area[k.area].frames = area[told[t].area].frames
                 \/ HandleReused(p, told[t])
           w == MappingOf(p, k.id, area[k.area].frames, ra, k.area, ri)
           u == [m.s EXCEPT !.structs[i] = TakenOffList(@)]
<1>1. MInv /\ MInv'
  BY PVRMMapStep DEF FInv
<1>2. UNCHANGED <<handles, anon, proc>>
  BY DEF PVRMMap
<1>3. \/ I = {} /\ UNCHANGED <<frame, area, structs, vmas>>
      \/ I # {} /\ Becomes(DestroyOffsetStruct(Now, i)) /\ UNCHANGED vmas
      \/ I # {} /\ m.ok /\ Becomes(MMapVOpenNoLock(u, i)) /\ vmas' = vmas \cup {w}
  BY DEF PVRMMap, MappingOf
<1>4. I # {} => /\ i \in DOMAIN structs /\ IsRecord(structs[i]) /\ \A v \in vmas : v.id # structs[i].id
  BY <1>1, FoundFacts
<1>5. IsState(Now) /\ Now.area = area /\ Now.structs = structs /\ Now.frame = frame
  BY NowFacts
<1>6. CASE I = {} /\ UNCHANGED <<frame, area, structs, vmas>>
  <2>1. Becomes(Now)
    BY <1>5, <1>6 DEF Becomes
  <2>2. Stem(structs, Now.structs)
    BY <1>5 DEF Stem
  <2> QED BY <1>1, <1>2, <1>5, <1>6, <2>1, <2>2, StemStep
<1>7. CASE I # {} /\ Becomes(DestroyOffsetStruct(Now, i)) /\ UNCHANGED vmas
  <2> DEFINE s == DestroyAll(Now, {i})
  <2>1. Becomes(s)
    BY <1>7 DEF DestroyOffsetStruct
  <2>2. i \in DOMAIN structs
    BY <1>4, <1>7
  <2> HIDE DEF i, I
  <2>3. /\ IsState(s) /\ s.area = area
        /\ \A l \in DOMAIN s.structs : \E j \in DOMAIN structs \ {i} : s.structs[l] = structs[j]
    <3>1. PICK d : d = s
      OBVIOUS
    <3> QED BY <1>1, <2>2, <3>1, DestroyOne
  <2>4. s.frame = frame
    BY <1>5, DestroyFrames
  <2> HIDE DEF s
  <2>5. Stem(structs, s.structs)
    BY <2>3 DEF Stem
  <2> QED BY <1>1, <1>2, <1>7, <2>1, <2>3, <2>4, <2>5, StemStep
<1>8. CASE I # {} /\ m.ok /\ Becomes(MMapVOpenNoLock(u, i)) /\ vmas' = vmas \cup {w}
  <2> DEFINE fs == area[k.area].frames
             y == [TakenOffList(k) EXCEPT !.mapped = k.mapped + 1]
             s == MMapVOpenNoLock(u, i)
             us == vmas \cup {w}
  <2>1. i \in DOMAIN structs /\ IsRecord(k) /\ \A v \in vmas : v.id # k.id
    BY <1>4, <1>8
  <2>2. /\ Linked(Now, vmas) /\ Counted(Now) /\ Balanced(Now, vmas, anon) /\ HoldsNat(Now) /\ Typed(Now)
    BY NowHolds, TypedHolds DEF FInv, Holding
  <2> HIDE DEF i, I
  <2>3. k.area \in Areas /\ IsList(fs)
    BY <1>5, <2>1, <2>2 DEF Typed, IsArea, Framed, IsRecord
  <2>4. m.s = IF ra THEN Now ELSE GetPages(Now, fs)
    BY <1>5, <1>8 DEF DoMapToUser
  <2>5. IsState(m.s) /\ m.s.area = area /\ m.s.structs = structs
    BY <1>5, DoMapFacts
  <2> HIDE DEF m
  <2>6. y.id = k.id /\ y.area = k.area
    BY <2>1, TakenOffFacts DEF Alike
  <2>7. s.frame = m.s.frame /\ s.area = area /\ s.structs = [structs EXCEPT ![i] = y] /\ IsState(s)
    BY <2>1, <2>5, TakenOffState
  <2>8. Becomes(s) /\ vmas' = us
    BY <1>8
  <2> HIDE DEF y, s
  <2>9. w.id = k.id /\ w.frames = fs /\ w.area = k.area /\ w.raw = ra
    <3> HIDE DEF ra, ri, p, k, fs
    <3> QED BY DEF MappingOf, fs
  <2>10. Counted(s) /\ \A f \in Frames : s.frame[f] = frame[f] + HeldByMapping(w, f)
    <3> HIDE DEF w, k, fs
    <3>1. CASE ra
      <4>1. \A f \in Frames : HeldByMapping(w, f) = 0 /\ frame[f] \in Int
        BY <1>5, <2>2, <2>9, <3>1 DEF HeldByMapping, Counted
      <4> QED BY <1>5, <2>2, <2>4, <2>7, <3>1, <4>1 DEF Counted
    <3>2. CASE ~ra
      <4>1. m.s = GetPages(Now, fs) /\ \A f \in Frames : HeldByMapping(w, f) = Occurs(f, fs)
        BY <2>4, <2>9, <3>2 DEF HeldByMapping
      <4>2. Counted(m.s) /\ \A f \in Frames : m.s.frame[f] = frame[f] + Occurs(f, fs)
        BY <1>5, <2>2, <2>3, <4>1, PagesFrames
      <4> QED BY <2>7, <4>1, <4>2 DEF Counted
    <3> QED BY <3>1, <3>2
  <2> HIDE DEF w, ra
  <2>11. w \notin vmas /\ IsList(w.frames)
    BY <2>1, <2>3, <2>9
  <2>12. IsFiniteSet(vmas) /\ \A v \in vmas : IsList(v.frames)
    BY <1>1, MapsFinite
  <2>13. Balanced(s, us, anon)
    <3> SUFFICES ASSUME NEW f \in Frames
                 PROVE  s.frame[f] - AreaSum(s, f) = MapSum(us, f) + AnonSum(anon, f)
      BY DEF Balanced
    <3>1. PICK b, l, o, c, n : /\ b = MapSum(vmas, f) /\ l = MapSum(us, f) /\ o = HeldByMapping(w, f)
                               /\ c = AreaSum(Now, f) /\ n = AnonSum(anon, f)
      OBVIOUS
    <3>2. l = b + o /\ b \in Int /\ o \in Nat
      BY <2>11, <2>12, <3>1, MapSumAdd
    <3>3. AreaSum(s, f) = c
      BY <1>5, <2>7, <3>1 DEF AreaSum
    <3>4. frame[f] - c = b + n /\ frame[f] \in Int /\ s.frame[f] = frame[f] + o
      BY <1>5, <2>2, <2>10, <3>1 DEF Balanced, Counted
    <3>5. c \in Int
      BY <2>2, <3>1, AreaSumFacts
    <3>6. n \in Int
      BY <3>1, AnonSumInt DEF FInv, Holding
    <3>7. s.frame[f] - c = l + n
      BY <3>2, <3>4, <3>5, <3>6
    <3> QED BY <3>1, <3>3, <3>7
  <2>14. Linked(s, us)
    <3>1. Stem(structs, s.structs)
      BY <2>1, <2>6, <2>7 DEF Stem
    <3>2. Renews(vmas, vmas)
      BY SomeRenew
    <3>3. Linked(s, vmas)
      BY <1>5, <2>2, <2>7, <3>1, <3>2, RenewsLinked
    <3>4. ASSUME NEW j \in DOMAIN s.structs, s.structs[j].id = w.id PROVE s.structs[j].area = w.area
      <4>1. j \in DOMAIN structs /\ s.structs[i] = y
        BY <2>1, <2>7
      <4>2. CASE j = i
        BY <2>6, <2>9, <4>1, <4>2
      <4>3. CASE j # i
        <5>1. s.structs[j] = structs[j]
          BY <2>7, <4>1, <4>3
        <5> QED BY <1>1, <2>1, <2>9, <3>4, <4>1, <4>3, <5>1 DEF MInv, RecInv
      <4> QED BY <4>2, <4>3
    <3> QED BY <2>3, <2>7, <2>9, <3>3, <3>4 DEF Linked
  <2> HIDE DEF us
  <2> QED BY <1>1, <1>2, <2>7, <2>8, <2>10, <2>13, <2>14, RecordsFrames
<1> QED BY <1>3, <1>6, <1>7, <1>8

-----------------------------------------------------------------------------
(* A frame that a process brings is in one place of one buffer.            *)
LEMMA BroughtOnce ==
  ASSUME NEW l \in Loads, NEW f \in Frames
  PROVE  AnonSum(l.anon, f) = IF \E p \in Procs : f \in ToSet(l.anon[p]) THEN 1 ELSE 0
<1> DEFINE an == l.anon
           g == [q \in Procs |-> Occurs(f, an[q])]
<1>1. /\ an \in [Procs -> Seq(Frames)] /\ IsFiniteSet(Procs)
      /\ \A p, q \in Procs : \A i \in DOMAIN an[p], j \in DOMAIN an[q] :
            an[p][i] = an[q][j] => p = q /\ i = j
  BY LoadsAssumption
<1>2. AnonSum(an, f) = Total(g, Procs) /\ \A q \in Procs : g[q] = Occurs(f, an[q])
  BY DEF AnonSum
<1> HIDE DEF g, an
<1>3. \A q \in Procs : g[q] \in Nat /\ (f \notin ToSet(an[q]) => g[q] = 0)
  BY <1>1, <1>2, SeqIsList, OccursFacts
<1>4. CASE \A q \in Procs : f \notin ToSet(an[q])
  BY <1>1, <1>2, <1>3, <1>4, TotalZero DEF an
<1>5. ASSUME NEW p \in Procs, f \in ToSet(an[p]) PROVE AnonSum(an, f) = 1
  <2>1. PICK i \in DOMAIN an[p] : an[p][i] = f
    BY <1>5 DEF ToSet
  <2>2. {j \in DOMAIN an[p] : an[p][j] = f} = {i}
    BY <1>1, <2>1
  <2>3. g[p] = 1
    BY <1>2, <2>2, FS_Singleton DEF Occurs
  <2>4. ASSUME NEW q \in Procs \ {p} PROVE g[q] = 0
    <3>1. f \notin ToSet(an[q])
      BY <1>1, <2>1 DEF ToSet
    <3> QED BY <1>3, <3>1
  <2>5. Total(g, Procs \ {p}) = 0
    <3>1. IsFiniteSet(Procs \ {p})
      BY <1>1, FS_RemoveElement
    <3> QED BY <2>4, <3>1, TotalZero
  <2>6. Total(g, Procs) = g[p] + Total(g, Procs \ {p})
    <3>1. \A q \in Procs : g[q] \in Int
      BY <1>3
    <3> QED BY <1>1, <3>1, TotalAny
  <2> QED BY <1>2, <2>3, <2>5, <2>6
<1> QED BY <1>4, <1>5 DEF an

(* No mapping holds a frame when there is none.                            *)
LEMMA NoMapSum ==
  ASSUME NEW f
  PROVE  MapSum({}, f) = 0
<1> DEFINE g == [v \in {} |-> HeldByMapping(v, f)]
<1>1. Total(g, {}) = 0
  BY FS_EmptySet, TotalZero
<1> QED BY <1>1 DEF MapSum

(* Areas that are not in use hold nothing.                                 *)
LEMMA NoAreaSum ==
  ASSUME NEW s, Typed(s), \A a \in Areas : s.area[a].st \notin InUse, NEW f
  PROVE  AreaSum(s, f) = 0
<1> DEFINE g == [a \in Areas |-> HeldByArea(s.area[a], f)]
<1>1. \A a \in Areas : s.area[a].st \in {"unused", "freed"}
  BY DEF Typed, IsArea
<1>2. \A a \in Areas : g[a] = 0
  BY <1>1 DEF HeldByArea
<1>3. IsFiniteSet(Areas) /\ AreaSum(s, f) = Total(g, Areas)
  BY LoadsAssumption DEF AreaSum
<1> HIDE DEF g
<1> QED BY <1>2, <1>3, TotalZero

(* The invariant holds at the start.                                       *)
LEMMA InitHolds == Init => FInv
<1> SUFFICES ASSUME Init PROVE FInv
  OBVIOUS
<1>1. MInv
  BY InitInv
<1>2. /\ load \in Loads /\ anon = load.anon /\ vmas = {} /\ area = [a \in Areas |-> NewArea]
      /\ frame = [f \in Frames |-> IF \E p \in Procs : f \in ToSet(anon[p]) THEN 1 ELSE 0]
      /\ proc = [p \in Procs |-> IF \E t \in load.threads : ProcOf[t] = p THEN "up" ELSE "gone"]
  BY DEF Init
<1>3. Now.area = area /\ Now.frame = frame /\ Typed(Now)
  BY <1>1, NowFacts DEF MInv, AreaInv
<1>4. \A a \in Areas : Now.area[a] = NewArea
  BY <1>2, <1>3
<1>5. /\ NewArea.st = "unused" /\ NewArea.type = "none" /\ NewArea.frames = <<>>
      /\ NewArea.parent = NoArea /\ NewArea.src = NoArea /\ NewArea.wrap = "none"
  BY DEF NewArea
<1>6. Shape(NewArea)
  BY <1>5 DEF Shape, OfRam, NoRam, ToSet
<1> HIDE DEF NewArea
<1>7. Tied(Now) /\ Kin(Now, NamesOf(handles))
  BY <1>4, <1>5, <1>6 DEF Tied, Kin, Source, PartOf
<1>8. \A a \in Areas : Now.area[a].st \notin InUse
  BY <1>4, <1>5 DEF InUse
<1>9. Emptied(Now, proc) /\ Linked(Now, vmas)
  BY <1>2, <1>8 DEF Emptied, Linked
<1>10. Brought(anon, proc)
  BY <1>2, LoadsAssumption DEF Brought
<1>11. Counted(Now)
  BY <1>2, <1>3 DEF Counted
<1>12. Balanced(Now, vmas, anon)
  <2> SUFFICES ASSUME NEW f \in Frames
               PROVE  Now.frame[f] - AreaSum(Now, f) = MapSum(vmas, f) + AnonSum(anon, f)
    BY DEF Balanced
  <2>1. AreaSum(Now, f) = 0
    BY <1>3, <1>8, NoAreaSum
  <2>2. MapSum(vmas, f) = 0
    BY <1>2, NoMapSum
  <2>3. AnonSum(anon, f) = Now.frame[f]
    BY <1>2, <1>3, BroughtOnce
  <2>4. Now.frame[f] \in Int
    BY <1>11 DEF Counted
  <2> QED BY <2>1, <2>2, <2>3, <2>4
<1> QED BY <1>1, <1>7, <1>9, <1>10, <1>11, <1>12 DEF FInv, Holding

(* The pages below a mapping of the process.                               *)
LEMMA MappedAcquired ==
  ASSUME FInv, NEW v \in vmas
  PROVE  Acquired(v.frames, "vma", Len(v.frames))
<1>1. IsList(v.frames)
  BY MapsFinite DEF FInv
<1>2. v.area \in Areas /\ v.frames = Now.area[v.area].frames
  BY DEF FInv, Holding, Linked
<1>3. OfRam(v.frames)
  BY <1>2 DEF FInv, Holding, Tied, Shape
<1>4. Len(v.frames) \in Nat
  BY <1>1 DEF IsList
<1> QED BY <1>1, <1>3, <1>4 DEF Acquired

(* The pages of its own buffer, as far as they were got.                   *)
LEMMA BroughtAcquired ==
  ASSUME FInv, NEW p \in Procs, NEW got \in 0..2, got <= Len(anon[p])
  PROVE  Acquired(anon[p], "gup", got)
<1>1. anon[p] \in Seq(Frames)
  BY DEF FInv, Holding, Brought
<1>2. IsList(anon[p]) /\ ToSet(anon[p]) \subseteq Frames /\ Len(anon[p]) \in Nat
  BY <1>1, SeqIsList DEF ToSet
<1> QED BY <1>1, <1>2 DEF Acquired, OfRam

(* Every step keeps the invariant of the frames.                           *)
LEMMA NextHolds == FInv /\ [Next]_vars => FInv'
<1> SUFFICES ASSUME FInv, [Next]_vars PROVE FInv'
  OBVIOUS
<1>1. ASSUME UNCHANGED vars PROVE FInv'
  <2>1. Becomes(Now) /\ UNCHANGED <<vmas, handles, anon, proc>>
    BY <1>1, NowFacts DEF vars, Becomes
  <2>2. MInv'
    BY NextStep DEF FInv
  <2>3. Stem(structs, Now.structs)
    BY NowFacts DEF Stem
  <2> QED BY <2>1, <2>2, <2>3, NowFacts, StemStep
<1>2. load.threads \subseteq Threads
  BY LoadsAssumption DEF FInv, MInv
<1>3. ASSUME NEW p \in Procs, NEW h \in Handles, NEW a \in Areas,
             \/ \E kind \in {"single", "multi"} : \E fs \in PagesFor(Free(Now)) : \E got \in 0 .. Len(fs) :
                   /\ kind = "multi" => got = Len(fs)
                   /\ AllocWhole(p, h, a, kind, fs, got)
             \/ AllocSub(p, h, a)
             \/ \E f \in IOFrames, kind \in {"io", "ioremap"} : WrapPhys(p, h, a, f, kind)
             \/ \E got \in 0 .. 2, u \in BOOLEAN :
                   /\ got <= Len(anon[p]) /\ anon[p] # <<>>
                   /\ WrapExt(p, h, a, anon[p], "gup", got, u)
             \/ \E v \in vmas : v.p = p /\ WrapExt(p, h, a, v.frames, "vma", Len(v.frames), FALSE)
             \/ \E b \in Areas : MapExported(p, h, a, b)
      PROVE  FInv'
  <2>1. CASE \E kind \in {"single", "multi"} : \E fs \in PagesFor(Free(Now)) : \E got \in 0 .. Len(fs) :
                /\ kind = "multi" => got = Len(fs)
                /\ AllocWhole(p, h, a, kind, fs, got)
    BY <2>1, AllocWholeFrames
  <2>2. CASE AllocSub(p, h, a)
    BY <2>2, AllocSubFrames
  <2>3. CASE \E f \in IOFrames, kind \in {"io", "ioremap"} : WrapPhys(p, h, a, f, kind)
    BY <2>3, WrapPhysFrames
  <2>4. CASE \E got \in 0 .. 2, u \in BOOLEAN :
                got <= Len(anon[p]) /\ WrapExt(p, h, a, anon[p], "gup", got, u)
    <3>1. PICK got \in 0 .. 2, u \in BOOLEAN :
             got <= Len(anon[p]) /\ WrapExt(p, h, a, anon[p], "gup", got, u)
      BY <2>4
    <3>2. Acquired(anon[p], "gup", got)
      BY <3>1, BroughtAcquired
    <3> QED BY <3>1, <3>2, WrapExtFrames
  <2>5. CASE \E v \in vmas : WrapExt(p, h, a, v.frames, "vma", Len(v.frames), FALSE)
    <3>1. PICK v \in vmas : WrapExt(p, h, a, v.frames, "vma", Len(v.frames), FALSE)
      BY <2>5
    <3>2. FALSE \in BOOLEAN /\ Acquired(v.frames, "vma", Len(v.frames))
      BY MappedAcquired
    <3> QED BY <3>1, <3>2, WrapExtFrames
  <2>6. CASE \E b \in Areas : MapExported(p, h, a, b)
    BY <2>6, MapExportedFrames
  <2> QED BY <1>3, <2>1, <2>2, <2>3, <2>4, <2>5, <2>6
<1>4. ASSUME NEW p \in Procs, NEW q \in Procs, NEW h \in Handles, NEW k \in Handles, SecondHandle(p, h, q, k)
      PROVE  FInv'
  BY <1>4, SecondHandleFrames
<1>5. ASSUME NEW p \in Procs, NEW h \in Handles, FreeMemory(p, h) PROVE FInv'
  BY <1>5, FreeMemoryFrames
<1>6. ASSUME NEW p \in Procs, FreeAnon(p) PROVE FInv'
  BY <1>6, FreeAnonFrames
<1>7. ASSUME NEW t \in load.threads, NEW h \in Handles, PVRMMapOSMemHandleToMMapData(t, h) PROVE FInv'
  BY <1>2, <1>7, ToMMapDataFrames
<1>8. ASSUME NEW t \in load.threads, NEW h \in Handles, PVRMMapReleaseMMapData(t, h) PROVE FInv'
  BY <1>8, ReleaseMMapDataFrames
<1>9. ASSUME NEW t \in load.threads, NEW raw \in BOOLEAN, NEW fault \in BOOLEAN, PVRMMap(t, raw, fault)
      PROVE  FInv'
  BY <1>2, <1>9, PVRMMapFrames
<1>10. ASSUME NEW v \in vmas, MMapVOpen(v) PROVE FInv'
  BY <1>10, VOpenFrames
<1>11. ASSUME NEW v \in vmas, MMapVClose(v) PROVE FInv'
  BY <1>11, VCloseFrames
<1>12. ASSUME NEW p \in Procs, NEW current \in Procs, PVRSRVRelease(p, current) PROVE FInv'
  BY <1>12, ReleaseFrames
<1>13. ASSUME PVRMMapCleanup PROVE FInv'
  BY <1>13, CleanupFrames
<1> QED BY <1>1, <1>3, <1>4, <1>5, <1>6, <1>7, <1>8, <1>9, <1>10, <1>11, <1>12, <1>13 DEF Next

(* The sums of the invariant are natural numbers, and what the property    *)
(* counts is their sum.                                                    *)
LEMMA HoldersSum ==
  ASSUME FInv, NEW f \in Frames
  PROVE  /\ Holders(f) = AreaSum(Now, f) + MapSum(vmas, f) + AnonSum(anon, f)
         /\ AreaSum(Now, f) \in Nat /\ MapSum(vmas, f) \in Nat /\ AnonSum(anon, f) \in Nat
         /\ \A a \in Areas : HeldByArea(area[a], f) <= AreaSum(Now, f)
         /\ \A v \in vmas : HeldByMapping(v, f) <= MapSum(vmas, f)
<1> DEFINE g == [a \in Areas |-> HeldByArea(area[a], f)]
           h == [v \in vmas |-> HeldByMapping(v, f)]
           k == [p \in Procs |-> Occurs(f, anon[p])]
<1>1. IsFiniteSet(vmas) /\ (\A v \in vmas : IsList(v.frames)) /\ IsFiniteSet(Procs)
  BY MapsFinite, LoadsAssumption DEF FInv
<1>2. \A v \in vmas : h[v] \in Nat /\ h[v] = HeldByMapping(v, f)
  BY <1>1, MapHolds
<1>3. \A p \in Procs : k[p] \in Nat
  BY OccursFacts, SeqIsList DEF FInv, Holding, Brought
<1>4. HoldsNat(Now) /\ Now.area = area
  BY NowHolds, NowFacts, TypedHolds
<1>5. AreaSum(Now, f) \in Nat /\ \A a \in Areas : HeldByArea(area[a], f) <= AreaSum(Now, f)
  BY <1>4, AreaSumFacts
<1>6. /\ AreaSum(Now, f) = Total(g, Areas) /\ MapSum(vmas, f) = Total(h, vmas)
      /\ AnonSum(anon, f) = Total(k, Procs)
  BY <1>4 DEF AreaSum, MapSum, AnonSum
<1>7. Holders(f) = SumFunction(g) + SumFunction(h) + SumFunction(k)
  BY DEF Holders
<1>8. g \in [Areas -> {g[a] : a \in Areas}] /\ h \in [vmas -> Nat] /\ k \in [Procs -> Nat]
  BY <1>2, <1>3
<1> HIDE DEF g, h, k
<1>9. /\ SumFunction(g) = Total(g, Areas) /\ SumFunction(h) = Total(h, vmas)
      /\ SumFunction(k) = Total(k, Procs)
  BY <1>8, SumIsTotal
<1>10. Total(h, vmas) \in Nat /\ \A v \in vmas : h[v] <= Total(h, vmas)
  BY <1>1, <1>2, TotalBounds
<1>11. Total(k, Procs) \in Nat
  BY <1>1, <1>3, TotalBounds
<1> QED BY <1>2, <1>5, <1>6, <1>7, <1>9, <1>10, <1>11

(* What the invariant says of the frames.                                  *)
LEMMA InvFrames == FInv => FramesExact
<1> SUFFICES ASSUME FInv PROVE FramesExact
  OBVIOUS
<1>1. /\ Typed(Now) /\ Tied(Now) /\ Counted(Now)
      /\ Now.area = area /\ Now.frame = frame /\ Now.structs = structs
      /\ AreaInv(Now, NamesOf(handles), ToldOf(told))
  BY NowHolds, NowFacts
<1>2. ASSUME NEW f \in Frames PROVE frame[f] = Holders(f)
  <2>1. frame[f] - AreaSum(Now, f) = MapSum(vmas, f) + AnonSum(anon, f) /\ frame[f] \in Int
    BY <1>1 DEF FInv, Holding, Balanced, Counted
  <2> QED BY <2>1, HoldersSum
<1>3. ASSUME NEW v \in vmas, NEW f \in Frames, f \in ToSet(v.frames),
             ~(v.raw /\ area[v.area].type = "sub" /\ area[v.area].st = "lost")
      PROVE  frame[f] > 0
  <2>1. PICK c, m, n : c = AreaSum(Now, f) /\ m = MapSum(vmas, f) /\ n = AnonSum(anon, f)
    OBVIOUS
  <2>2. frame[f] = c + m + n /\ c \in Nat /\ m \in Nat /\ n \in Nat
    BY <1>2, <2>1, HoldersSum
  <2>3. CASE ~v.raw
    <3>1. IsList(v.frames)
      BY MapsFinite DEF FInv
    <3>2. HeldByMapping(v, f) >= 1 /\ HeldByMapping(v, f) \in Nat
      BY <1>3, <2>3, <3>1, OccursFacts DEF HeldByMapping
    <3>3. HeldByMapping(v, f) <= m
      BY <2>1, HoldersSum
    <3> QED BY <2>2, <3>2, <3>3
  <2>4. CASE v.raw
    <3>1. v.area \in Areas /\ v.frames = Now.area[v.area].frames
      BY DEF FInv, Holding, Linked
    <3>2. Now.area[v.area].st \in InUse
      <4>1. PICK i \in DOMAIN structs : structs[i].id = v.id
        BY DEF FInv, MInv, MapInv
      <4>2. structs[i].area = v.area
        BY <1>1, <4>1 DEF FInv, Holding, Linked
      <4> QED BY <1>1, <4>2 DEF AreaInv
    <3>3. PICK b \in Areas : HeldByArea(Now.area[b], f) >= 1
      BY <1>1, <1>3, <2>4, <3>1, <3>2, Backed
    <3>4. HeldByArea(area[b], f) <= c /\ HeldByArea(area[b], f) \in Nat
      BY <1>1, <2>1, HoldersSum, HeldNat DEF Typed
    <3> QED BY <1>1, <2>2, <3>3, <3>4
  <2> QED BY <2>3, <2>4
<1> QED BY <1>2, <1>3 DEF FramesExact

(* What it says of the module that has gone.                               *)
LEMMA InvNothingLeft == FInv => NothingLeftMapped
<1> SUFFICES ASSUME FInv PROVE NothingLeftMapped
  OBVIOUS
<1>1. NoRecordLeft
  BY InvRecords DEF FInv
<1>2. ASSUME Unloaded, NEW f \in Frames PROVE frame[f] = 0
  <2>1. vmas = {} /\ \A p \in Procs : anon[p] = <<>>
    BY <1>2, MapsFinite DEF FInv, Holding, Brought, Unloaded, Up
  <2>2. MapSum(vmas, f) = 0
    BY <2>1, NoMapSum
  <2>3. AnonSum(anon, f) = 0
    <3> DEFINE g == [p \in Procs |-> Occurs(f, anon[p])]
    <3>1. IsList(<<>>) /\ f \notin ToSet(<<>>)
      BY DEF IsList, ToSet
    <3>2. \A p \in Procs : g[p] = 0
      BY <2>1, <3>1, OccursFacts
    <3>3. IsFiniteSet(Procs) /\ AnonSum(anon, f) = Total(g, Procs)
      BY LoadsAssumption DEF AnonSum
    <3> HIDE DEF g
    <3> QED BY <3>2, <3>3, TotalZero
  <2>4. AreaSum(Now, f) = 0
    <3>1. \A a \in Areas : Now.area[a].st \notin InUse
      BY <1>2 DEF FInv, Holding, Emptied, Unloaded
    <3>2. Typed(Now)
      BY NowHolds
    <3> QED BY <3>1, <3>2, NoAreaSum
  <2>5. frame[f] = Holders(f)
    BY InvFrames DEF FramesExact
  <2> QED BY <2>2, <2>3, <2>4, <2>5, HoldersSum
<1>3. Unloaded => Free(Now) = Frames
  BY <1>2, NowFacts DEF Free
<1> QED BY <1>1, <1>3 DEF NothingLeftMapped

(* Every page frame has exactly the references that areas, wraps, mappings *)
(* and buffers of processes hold on it, and no mapping shows a free frame  *)
(* (src/pvr/osfunc.c:189, 1234), whatever is allocated, wrapped, exported, *)
(* mapped, split, freed and unmapped in whatever order; a raw mapping of a *)
(* sub area that was given up while it was mapped is left out.             *)
THEOREM CountsFrames == Spec => []FramesExact
<1>1. Spec => []FInv
  BY InitHolds, NextHolds, PTL DEF Spec
<1> QED BY <1>1, InvFrames, PTL

(* The module leaves neither a record nor a page behind, also of the areas *)
(* that could not be freed while they were mapped (src/pvr/mmap.c:888).    *)
THEOREM LeavesNothingMapped == Spec => []NothingLeftMapped
<1>1. Spec => []FInv
  BY InitHolds, NextHolds, PTL DEF Spec
<1> QED BY <1>1, InvNothingLeft, PTL
=============================================================================
