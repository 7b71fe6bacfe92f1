---------------------------- MODULE ServicesProofs ----------------------------
(***************************************************************************)
(* Services for every number of processes, files and sync infos, and every *)
(* set of loads: the references of the shared parameter buffer and the     *)
(* room a file has for events stay exact (PBExact, EventsExact), nobody is *)
(* served before the start is complete (ServedOnlyWhenReady), and a step   *)
(* that fails does the named damage and no other (FaultsContained).        *)
(*                                                                         *)
(* The start and the stop of the driver leave the clients' variables alone *)
(* and play no part in the first two; clients play hardly any in the last. *)
(***************************************************************************)
EXTENDS Services, FiniteSetTheorems, FunctionTheorems, SequenceTheorems, TLAPS

Waits == [file : Files, sync : Syncs \union {None}, rem : Nat]

FileTypes == file \in [Files -> [proc : Procs \union {None}, space : Nat, list : Seq(Nat)]]
PBTypes ==
    /\ per \in [Procs -> [ref : Nat, mem : BOOLEAN, items : Nat, hnd : Nat]]
    /\ stub \in Nat
    /\ owner \in Procs \union {None}
SyncTypes == sync \in [Syncs -> [proc : Procs \union {None}, out : Nat]]
WaitTypes == waits \in Seq(Waits)
SleepTypes ==
    evo \in [Procs -> [open : BOOLEAN, new : BOOLEAN, wait : {"no", "asleep", "woken"}]]

FilesOf(p) == {f \in Files : file[f].proc = p}

(* Each open file is a connection of its process; a file that is nobody's  *)
(* is closed; an event whose sync info is gone misses no completion.       *)
Connected == \A p \in Procs : Cardinality(FilesOf(p)) <= per[p].ref
ClosedFiles == \A f \in Files : file[f].proc = None => file[f] = Closed
StaleDone == \A i \in DOMAIN waits : waits[i].sync = None => waits[i].rem = 0

(* The three parts of EventsExact.                                         *)
RoomExact ==
    \A f \in Files :
       IF file[f] = Closed THEN WaitsOf(f) = {}
       ELSE file[f].space + Len(file[f].list) + Cardinality(WaitsOf(f)) = EventMax
OnlyComplete == \A f \in Files : \A i \in DOMAIN file[f].list : file[f].list[i] = 0
SignalsSeen == \A p \in Procs : evo[p].open /\ evo[p].wait = "asleep" => ~evo[p].new

(* The inductive invariant, by what a call can disturb: the shared buffer, *)
(* the events of files, and the sleepers.                                  *)
PBPart == PBTypes /\ Connected /\ PBExact
EventPart == WaitTypes /\ ClosedFiles /\ StaleDone /\ RoomExact /\ OnlyComplete
SleepPart == SleepTypes /\ SignalsSeen
SInv == FileTypes /\ SyncTypes /\ PBPart /\ EventPart /\ SleepPart

-----------------------------------------------------------------------------
(***************************************************************************)
(* Sums over finite sets.                                                  *)
(***************************************************************************)

(* Induction over the subsets of a finite set, with the property as the    *)
(* set of the subsets that have it.                                        *)
LEMMA SubsetInduction ==
  ASSUME NEW S, IsFiniteSet(S), NEW G, {} \in G,
         \A K \in SUBSET S : \A x \in K : K \ {x} \in G => K \in G
  PROVE  S \in G
<1> DEFINE Bad == {K \in SUBSET S : K \notin G}
<1>1. SUFFICES ASSUME Bad # {} PROVE FALSE
  OBVIOUS
<1>2. \A K \in SUBSET S : IsFiniteSet(K)
  BY FS_Subset
<1>3. Bad \subseteq FiniteSubsetsOf(S)
  BY <1>2 DEF FiniteSubsetsOf
<1>4. IsWellFoundedOn(StrictSubsetOrdering(S), FiniteSubsetsOf(S))
  BY FS_StrictSubsetOrderingWellFounded
<1>5. PICK K \in Bad : \A L \in Bad : ~(<<L, K>> \in StrictSubsetOrdering(S))
  <2> HIDE DEF Bad
  <2> QED BY <1>1, <1>3, <1>4, WFMin
<1>6. PICK x \in K : TRUE
  OBVIOUS
<1>7. K \ {x} \in SUBSET S /\ K \in SUBSET S /\ K \ {x} \subseteq K /\ K \ {x} # K
  BY <1>6
<1>8. <<K \ {x}, K>> \in StrictSubsetOrdering(S)
  BY <1>7 DEF StrictSubsetOrdering
<1>9. K \ {x} \in G
  BY <1>5, <1>7, <1>8
<1> QED BY <1>6, <1>7, <1>9

(* The references the members of S hold, as PBExact adds them up.          *)
Total(g, S) == MapThenSumSet(LAMBDA p : g[p].items, S)

Pick(t) == CHOOSE x \in t : TRUE

(* The subsets of S that are no larger than K.                             *)
Level(S, K) == {t \in SUBSET S : Cardinality(t) <= Cardinality(K)}

LEMMA LevelFacts ==
  ASSUME NEW S, IsFiniteSet(S), NEW K \in SUBSET S
  PROVE  /\ S \in Level(S, S) /\ Level(S, S) = SUBSET S
         /\ Level(S, {}) = {{}}
         /\ \A x \in K : \A t \in Level(S, K) :
              t # {} => Pick(t) \in t /\ t \ {Pick(t)} \in Level(S, K \ {x})
         /\ \A x \in K : Level(S, K \ {x}) \subseteq Level(S, K)
<1>1. ASSUME NEW t \in SUBSET S
      PROVE  IsFiniteSet(t) /\ Cardinality(t) \in Nat /\ Cardinality(t) <= Cardinality(S)
  <2>1. IsFiniteSet(t) /\ Cardinality(t) <= Cardinality(S)
    BY FS_Subset
  <2> QED BY <2>1, FS_CardinalityType
<1>2. Cardinality(S) \in Nat
  BY FS_CardinalityType
<1>3. S \in Level(S, S) /\ Level(S, S) = SUBSET S
  BY <1>1, <1>2 DEF Level
<1>4. Cardinality({}) = 0
  BY FS_EmptySet
<1>5. Level(S, {}) = {{}}
  <2>1. ASSUME NEW t \in SUBSET S, Cardinality(t) <= 0 PROVE t = {}
    <3>1. Cardinality(t) = 0
      BY <1>1, <2>1
    <3> QED BY <1>1, <3>1, FS_EmptySet
  <2>2. {} \in SUBSET S
    OBVIOUS
  <2> QED BY <1>4, <2>1, <2>2 DEF Level
<1>6. ASSUME NEW x \in K
      PROVE  Cardinality(K \ {x}) = Cardinality(K) - 1 /\ Cardinality(K) \in Nat
  BY <1>1, FS_RemoveElement
<1>7. ASSUME NEW x \in K, NEW t \in Level(S, K), t # {}
      PROVE  Pick(t) \in t /\ t \ {Pick(t)} \in Level(S, K \ {x})
  <2>1. Pick(t) \in t
    BY <1>7 DEF Pick
  <2>2. t \in SUBSET S /\ Cardinality(t) <= Cardinality(K)
    BY DEF Level
  <2>3. IsFiniteSet(t) /\ Cardinality(t) \in Nat
    BY <1>1, <2>2
  <2>4. PICK y \in t : y = Pick(t)
    BY <2>1
  <2>5. Cardinality(t \ {y}) = Cardinality(t) - 1
    BY <2>3, FS_RemoveElement
  <2>6. Cardinality(t \ {y}) <= Cardinality(K \ {x})
    BY <1>6, <2>2, <2>3, <2>5
  <2>7. t \ {y} \in Level(S, K \ {x})
    BY <2>2, <2>6 DEF Level
  <2> QED BY <2>1, <2>4, <2>7
<1>8. ASSUME NEW x \in K PROVE Level(S, K \ {x}) \subseteq Level(S, K)
  BY <1>1, <1>6 DEF Level
<1> QED BY <1>3, <1>5, <1>7, <1>8

(* it is the sum of g over the subsets in D.                               *)
Adds(it, g, D) ==
  \A t \in D : it[t] = IF t = {} THEN 0 ELSE g[Pick(t)].items + it[t \ {Pick(t)}]

(* The recursive function that MapThenSumSet stands for exists.            *)
LEMMA TotalDef ==
  ASSUME NEW S, IsFiniteSet(S), NEW g, \A p \in S : g[p].items \in Int
  PROVE  \E it \in [SUBSET S -> Int] : Total(g, S) = it[S] /\ Adds(it, g, SUBSET S)
<1> DEFINE G == {K \in SUBSET S : \E it \in [Level(S, K) -> Int] : Adds(it, g, Level(S, K))}
<1>1. {} \in G
  <2>1. Level(S, {}) = {{}}
    BY LevelFacts
  <2>2. [t \in {{}} |-> 0] \in [Level(S, {}) -> Int]
    BY <2>1
  <2>3. Adds([t \in {{}} |-> 0], g, Level(S, {}))
    BY <2>1 DEF Adds
  <2> QED BY <2>2, <2>3
<1>2. ASSUME NEW K \in SUBSET S, NEW x \in K, K \ {x} \in G PROVE K \in G
  <2>1. PICK it \in [Level(S, K \ {x}) -> Int] : Adds(it, g, Level(S, K \ {x}))
    BY <1>2
  <2> DEFINE new == [t \in Level(S, K) |-> IF t = {} THEN 0 ELSE g[Pick(t)].items + it[t \ {Pick(t)}]]
  <2>2. \A t \in Level(S, K) : t # {} => Pick(t) \in S /\ t \ {Pick(t)} \in Level(S, K \ {x})
    BY LevelFacts DEF Level
  <2>3. new \in [Level(S, K) -> Int]
    <3>1. ASSUME NEW t \in Level(S, K), t # {}
          PROVE  g[Pick(t)].items + it[t \ {Pick(t)}] \in Int
      <4>1. g[Pick(t)].items \in Int /\ it[t \ {Pick(t)}] \in Int
        BY <2>1, <2>2, <3>1
      <4> QED BY <4>1
    <3>2. \A t \in Level(S, K) :
            (IF t = {} THEN 0 ELSE g[Pick(t)].items + it[t \ {Pick(t)}]) \in Int
      <4> TAKE t \in Level(S, K)
      <4>1. CASE t = {}
        BY <4>1
      <4>2. CASE t # {}
        BY <3>1, <4>2, Zenon
      <4> QED BY <4>1, <4>2
    <3> QED BY <3>2
  <2>4. \A t \in Level(S, K \ {x}) : t \in Level(S, K) /\ new[t] = it[t]
    <3>1. Level(S, K \ {x}) \subseteq Level(S, K)
      BY LevelFacts
    <3> QED BY <2>1, <3>1 DEF Adds
  <2>5. Adds(new, g, Level(S, K))
    <3>1. ASSUME NEW t \in Level(S, K), t # {} PROVE new[t \ {Pick(t)}] = it[t \ {Pick(t)}]
      BY <2>2, <2>4, <3>1
    <3> QED BY <3>1 DEF Adds
  <2> HIDE DEF new
  <2> QED BY <2>3, <2>5
<1>3. S \in G
  <2> HIDE DEF G
  <2> QED BY <1>1, <1>2, SubsetInduction
<1>4. PICK it \in [SUBSET S -> Int] : Adds(it, g, SUBSET S)
  <2>1. Level(S, S) = SUBSET S
    BY LevelFacts
  <2> QED BY <1>3, <2>1
<1> DEFINE Eq(f) == f = [s \in SUBSET S |-> IF s = {} THEN 0
                                            ELSE g[CHOOSE y \in s : TRUE].items
                                                  + f[s \ {CHOOSE y \in s : TRUE}]]
<1>5. Eq(it)
  BY <1>4 DEF Adds, Pick
<1>6. PICK f : f = CHOOSE h : Eq(h)
  OBVIOUS
<1>7. Eq(f)
  <2> HIDE DEF Eq
  <2> QED BY <1>5, <1>6
<1>8. Total(g, S) = f[S]
  BY <1>6, Zenon DEF Total, MapThenSumSet, MapThenFoldSet
<1>9. Adds(f, g, SUBSET S)
  BY <1>7 DEF Adds, Pick
<1> DEFINE H == {K \in SUBSET S : \A t \in Level(S, K) : f[t] = it[t]}
<1>10. {} \in H
  <2>1. Level(S, {}) = {{}} /\ {} \in SUBSET S
    BY LevelFacts
  <2>2. f[{}] = 0 /\ it[{}] = 0
    BY <1>4, <1>9, <2>1 DEF Adds
  <2> QED BY <2>1, <2>2
<1>11. ASSUME NEW K \in SUBSET S, NEW x \in K, K \ {x} \in H PROVE K \in H
  <2>1. ASSUME NEW t \in Level(S, K) PROVE f[t] = it[t]
    <3>1. CASE t = {}
      BY <1>4, <1>9, <3>1 DEF Adds
    <3>2. CASE t # {}
      <4>1. t \ {Pick(t)} \in Level(S, K \ {x}) /\ t \in SUBSET S
        BY <3>2, LevelFacts DEF Level
      <4>2. f[t \ {Pick(t)}] = it[t \ {Pick(t)}]
        BY <1>11, <4>1
      <4> QED BY <1>4, <1>9, <3>2, <4>1, <4>2 DEF Adds
    <3> QED BY <3>1, <3>2
  <2> QED BY <2>1
<1>12. S \in H
  <2> HIDE DEF H
  <2> QED BY <1>10, <1>11, SubsetInduction
<1>13. f[S] = it[S]
  BY <1>12, LevelFacts
<1> QED BY <1>4, <1>8, <1>13

(* No member holds more than all of them.                                  *)
LEMMA TotalBounds ==
  ASSUME NEW S, IsFiniteSet(S), NEW g, \A p \in S : g[p].items \in Nat
  PROVE  /\ Total(g, S) \in Nat
         /\ \A p \in S : g[p].items <= Total(g, S)
<1>0. \A p \in S : g[p].items \in Int
  OBVIOUS
<1>1. PICK it \in [SUBSET S -> Int] : Total(g, S) = it[S] /\ Adds(it, g, SUBSET S)
  BY <1>0, TotalDef
<1> DEFINE H == {K \in SUBSET S : \A t \in Level(S, K) :
                    it[t] \in Nat /\ \A p \in t : g[p].items <= it[t]}
<1>2. {} \in H
  <2>1. Level(S, {}) = {{}} /\ {} \in SUBSET S
    BY LevelFacts
  <2>2. it[{}] = 0
    BY <1>1, <2>1 DEF Adds
  <2>3. ASSUME NEW t \in Level(S, {})
        PROVE  it[t] \in Nat /\ \A p \in t : g[p].items <= it[t]
    <3>1. t = {}
      BY <2>1
    <3> QED BY <2>2, <3>1
  <2> QED BY <2>1, <2>3
<1>3. ASSUME NEW K \in SUBSET S, NEW x \in K, K \ {x} \in H PROVE K \in H
  <2>1. ASSUME NEW t \in Level(S, K)
        PROVE  it[t] \in Nat /\ \A p \in t : g[p].items <= it[t]
    <3>1. CASE t = {}
      <4>1. t \in SUBSET S
        BY DEF Level
      <4>2. it[t] = 0
        BY <1>1, <3>1, <4>1 DEF Adds
      <4> QED BY <3>1, <4>2
    <3>2. CASE t # {}
      <4>1. PICK y \in t : y = Pick(t)
        BY <3>2, LevelFacts
      <4>2. t \ {y} \in Level(S, K \ {x}) /\ t \in SUBSET S
        <5>1. t \ {Pick(t)} \in Level(S, K \ {x})
          BY <3>2, LevelFacts
        <5>2. t \in SUBSET S
          BY DEF Level
        <5> QED BY <4>1, <5>1, <5>2
      <4>3. it[t \ {y}] \in Nat /\ \A p \in t \ {y} : g[p].items <= it[t \ {y}]
        BY <1>3, <4>2
      <4>4. it[t] = g[y].items + it[t \ {y}]
        BY <1>1, <3>2, <4>1, <4>2 DEF Adds
      <4>5. \A p \in t : g[p].items \in Nat
        BY <4>2
      <4>6. it[t] \in Nat /\ it[t] >= g[y].items /\ it[t] >= it[t \ {y}]
        BY <4>3, <4>4, <4>5
      <4>7. ASSUME NEW p \in t PROVE g[p].items <= it[t]
        <5>1. CASE p = y
          BY <4>5, <4>6, <5>1
        <5>2. CASE p # y
          <6>1. g[p].items <= it[t \ {y}] /\ g[p].items \in Nat
            BY <4>3, <4>5, <5>2
          <6> QED BY <4>3, <4>6, <6>1
        <5> QED BY <5>1, <5>2
      <4> QED BY <4>6, <4>7
    <3> QED BY <3>1, <3>2
  <2> QED BY <2>1
<1>4. S \in H
  <2> HIDE DEF H
  <2> QED BY <1>2, <1>3, SubsetInduction
<1>5. S \in Level(S, S)
  BY LevelFacts
<1> QED BY <1>1, <1>4, <1>5

(* When one member takes or gives back d references the sum follows.       *)
LEMMA TotalUpdate ==
  ASSUME NEW S, IsFiniteSet(S), NEW g, \A p \in S : g[p].items \in Int,
         NEW h, \A p \in S : h[p].items \in Int,
         NEW q \in S, NEW d \in Int, h[q].items = g[q].items + d,
         \A p \in S : p # q => h[p].items = g[p].items
  PROVE  Total(h, S) = Total(g, S) + d
<1>1. PICK it \in [SUBSET S -> Int] : Total(g, S) = it[S] /\ Adds(it, g, SUBSET S)
  BY TotalDef
<1>2. PICK jt \in [SUBSET S -> Int] : Total(h, S) = jt[S] /\ Adds(jt, h, SUBSET S)
  BY TotalDef
<1> DEFINE H == {K \in SUBSET S : \A t \in Level(S, K) :
                    jt[t] = it[t] + (IF q \in t THEN d ELSE 0)}
<1>3. {} \in H
  <2>1. Level(S, {}) = {{}} /\ {} \in SUBSET S
    BY LevelFacts
  <2>2. it[{}] = 0 /\ jt[{}] = 0
    BY <1>1, <1>2, <2>1 DEF Adds
  <2>3. ASSUME NEW t \in Level(S, {})
        PROVE  jt[t] = it[t] + (IF q \in t THEN d ELSE 0)
    <3>1. t = {}
      BY <2>1
    <3> QED BY <2>2, <3>1
  <2> QED BY <2>1, <2>3
<1>4. ASSUME NEW K \in SUBSET S, NEW x \in K, K \ {x} \in H PROVE K \in H
  <2>1. ASSUME NEW t \in Level(S, K)
        PROVE  jt[t] = it[t] + (IF q \in t THEN d ELSE 0)
    <3>1. CASE t = {}
      <4>1. t \in SUBSET S
        BY DEF Level
      <4>2. it[t] = 0 /\ jt[t] = 0
        BY <1>1, <1>2, <3>1, <4>1 DEF Adds
      <4> QED BY <3>1, <4>2
    <3>2. CASE t # {}
      <4>1. PICK y \in t : y = Pick(t)
        BY <3>2, LevelFacts
      <4>2. t \ {y} \in Level(S, K \ {x}) /\ t \in SUBSET S
        <5>1. t \ {Pick(t)} \in Level(S, K \ {x})
          BY <3>2, LevelFacts
        <5>2. t \in SUBSET S
          BY DEF Level
        <5> QED BY <4>1, <5>1, <5>2
      <4>3. jt[t \ {y}] = it[t \ {y}] + (IF q \in t \ {y} THEN d ELSE 0)
        BY <1>4, <4>2
      <4>4. it[t] = g[y].items + it[t \ {y}] /\ jt[t] = h[y].items + jt[t \ {y}]
        BY <1>1, <1>2, <3>2, <4>1, <4>2 DEF Adds
      <4>5. /\ g[y].items \in Int /\ h[y].items \in Int
            /\ h[y].items = g[y].items + (IF y = q THEN d ELSE 0)
        BY <4>2
      <4>6. it[t \ {y}] \in Int
        BY <1>1, <4>2
      <4> QED BY <4>3, <4>4, <4>5, <4>6
    <3> QED BY <3>1, <3>2
  <2> QED BY <2>1
<1>5. S \in H
  <2> HIDE DEF H
  <2> QED BY <1>3, <1>4, SubsetInduction
<1>6. S \in Level(S, S)
  BY LevelFacts
<1>7. jt[S] = it[S] + d
  BY <1>5, <1>6
<1> QED BY <1>1, <1>2, <1>7

(* At the start nobody holds a reference.                                  *)
LEMMA TotalZero ==
  ASSUME NEW S, IsFiniteSet(S), NEW g, \A p \in S : g[p].items = 0
  PROVE  Total(g, S) = 0
<1>0. \A p \in S : g[p].items \in Int
  OBVIOUS
<1>1. PICK it \in [SUBSET S -> Int] : Total(g, S) = it[S] /\ Adds(it, g, SUBSET S)
  BY <1>0, TotalDef
<1> DEFINE H == {K \in SUBSET S : \A t \in Level(S, K) : it[t] = 0}
<1>2. {} \in H
  <2>1. Level(S, {}) = {{}} /\ {} \in SUBSET S
    BY LevelFacts
  <2>2. it[{}] = 0
    BY <1>1, <2>1 DEF Adds
  <2> QED BY <2>1, <2>2
<1>3. ASSUME NEW K \in SUBSET S, NEW x \in K, K \ {x} \in H PROVE K \in H
  <2>1. ASSUME NEW t \in Level(S, K) PROVE it[t] = 0
    <3>1. t \in SUBSET S
      BY DEF Level
    <3>2. t # {} => Pick(t) \in t /\ t \ {Pick(t)} \in Level(S, K \ {x})
      BY LevelFacts
    <3>3. t # {} => g[Pick(t)].items = 0 /\ it[t \ {Pick(t)}] = 0
      BY <1>3, <3>1, <3>2
    <3>4. it[t] = IF t = {} THEN 0 ELSE g[Pick(t)].items + it[t \ {Pick(t)}]
      BY <1>1, <3>1 DEF Adds
    <3> QED BY <3>3, <3>4
  <2> QED BY <2>1
<1>4. S \in H
  <2> HIDE DEF H
  <2> QED BY <1>2, <1>3, SubsetInduction
<1>5. S \in Level(S, S)
  BY LevelFacts
<1> QED BY <1>1, <1>4, <1>5

-----------------------------------------------------------------------------
(***************************************************************************)
(* Lists of events.                                                        *)
(***************************************************************************)

(* The places of a list, numbered in their order: every place has one      *)
(* number, and every number is that of one place.                          *)
LEMMA PlacesNumbered ==
  ASSUME NEW n \in Nat, NEW I \in SUBSET (1..n)
  PROVE  /\ IsFiniteSet(I) /\ Cardinality(I) \in Nat
         /\ \E e \in Bijection(1..Cardinality(I), I) :
              \A k \in 1..Cardinality(I) :
                e[k] = CHOOSE i \in I : Cardinality({j \in I : j <= i}) = k
<1>1. IsFiniteSet(I) /\ Cardinality(I) \in Nat
  <2>1. IsFiniteSet(1..n)
    BY FS_Interval
  <2>2. IsFiniteSet(I)
    BY <2>1, FS_Subset
  <2> QED BY <2>2, FS_CardinalityType
<1> DEFINE Below(i) == {j \in I : j <= i}
           N == 1..Cardinality(I)
           r == [i \in I |-> Cardinality(Below(i))]
<1>2. ASSUME NEW i \in I
      PROVE  IsFiniteSet(Below(i)) /\ Cardinality(Below(i)) \in N
  <2>1. Below(i) \in SUBSET I /\ i \in Below(i)
    OBVIOUS
  <2>2. IsFiniteSet(Below(i)) /\ Cardinality(Below(i)) <= Cardinality(I)
    BY <1>1, <2>1, FS_Subset
  <2>3. Cardinality(Below(i)) \in Nat /\ Cardinality(Below(i)) # 0
    BY <2>1, <2>2, FS_CardinalityType, FS_EmptySet
  <2> QED BY <1>1, <2>2, <2>3
<1>3. ASSUME NEW i \in I, NEW j \in I, i < j PROVE Cardinality(Below(i)) < Cardinality(Below(j))
  <2>1. Below(i) \in SUBSET Below(j) /\ j \in Below(j) /\ j \notin Below(i)
    <3>1. \A k \in I : k \in Int
      OBVIOUS
    <3>2. \A k \in I : k <= i => k <= j
      BY <1>3, <3>1
    <3>3. j <= j /\ ~(j <= i)
      BY <1>3, <3>1
    <3> QED BY <3>2, <3>3
  <2>2. Below(i) # Below(j)
    BY <2>1
  <2>3. Cardinality(Below(i)) <= Cardinality(Below(j)) /\ Cardinality(Below(i)) # Cardinality(Below(j))
    <3> HIDE DEF Below
    <3> QED BY <1>2, <2>1, <2>2, FS_Subset
  <2>4. Cardinality(Below(i)) \in Nat /\ Cardinality(Below(j)) \in Nat
    BY <1>1, <1>2
  <2> QED BY <2>3, <2>4
<1>4. r \in [I -> N]
  BY <1>2
<1>5. \A i, j \in I : r[i] = r[j] => i = j
  <2>1. SUFFICES ASSUME NEW i \in I, NEW j \in I, i # j PROVE r[i] # r[j]
    OBVIOUS
  <2>2. i \in Int /\ j \in Int /\ r[i] \in Int /\ r[j] \in Int
    BY <1>1, <1>4
  <2>3. CASE i < j
    BY <1>3, <2>2, <2>3
  <2>4. CASE j < i
    BY <1>3, <2>2, <2>4
  <2> QED BY <2>1, <2>2, <2>3, <2>4
<1>6. IsFiniteSet(N) /\ Cardinality(N) = Cardinality(I)
  <2>1. PICK c \in Nat : c = Cardinality(I)
    BY <1>1
  <2>2. IsFiniteSet(1..c) /\ Cardinality(1..c) = (IF 1 > c THEN 0 ELSE c - 1 + 1)
    BY FS_Interval
  <2> QED BY <2>1, <2>2
<1>7. r \in Surjection(I, N)
  <2> HIDE DEF r, N
  <2>1. r \in Injection(I, N)
    BY <1>4, <1>5, Fun_IsInj
  <2> QED BY <1>6, <2>1, FS_Injection
<1>8. \A k \in N : \E i \in I : r[i] = k
  <2> HIDE DEF r, N
  <2> QED BY <1>7 DEF Surjection
<1> DEFINE e == [k \in N |-> CHOOSE i \in I : Cardinality(Below(i)) = k]
<1>9. \A k \in N : e[k] \in I /\ r[e[k]] = k
  BY <1>8
<1>10. \A i \in I : r[i] \in N /\ e[r[i]] = i
  <2> HIDE DEF e
  <2> QED BY <1>4, <1>5, <1>9
<1>11. e \in Bijection(N, I)
  <2>1. e \in [N -> I]
    BY <1>9
  <2>2. \A k, l \in N : e[k] = e[l] => k = l
    <3> HIDE DEF e, r
    <3> QED BY <1>9
  <2>3. \A i \in I : \E k \in N : e[k] = i
    <3> HIDE DEF e, r
    <3> QED BY <1>10
  <2> HIDE DEF e
  <2> QED BY <2>1, <2>2, <2>3, Fun_IsBij
<1> QED BY <1>1, <1>11

(* What Entries returns: members of the list, as many of each file as the  *)
(* places hold.                                                            *)
LEMMA EntriesFacts ==
  ASSUME NEW ws \in Seq(Waits), NEW I \in SUBSET DOMAIN ws
  PROVE  /\ IsFiniteSet(I) /\ Cardinality(I) \in Nat
         /\ Entries(ws, I) \in Seq(Waits) /\ Len(Entries(ws, I)) = Cardinality(I)
         /\ \A k \in DOMAIN Entries(ws, I) : \E i \in I : Entries(ws, I)[k] = ws[i]
         /\ \A f \in Files : Cardinality({k \in DOMAIN Entries(ws, I) : Entries(ws, I)[k].file = f})
                               = Cardinality({i \in I : ws[i].file = f})
<1>1. Len(ws) \in Nat /\ DOMAIN ws = 1..Len(ws)
  BY LenProperties
<1>2. I \in SUBSET (1..Len(ws))
  BY <1>1
<1>3. IsFiniteSet(I) /\ Cardinality(I) \in Nat
  BY <1>1, <1>2, PlacesNumbered
<1> DEFINE N == 1..Cardinality(I)
<1>4. PICK e \in Bijection(N, I) :
        \A k \in N : e[k] = CHOOSE i \in I : Cardinality({j \in I : j <= i}) = k
  BY <1>1, <1>2, PlacesNumbered
<1>5. /\ e \in [N -> I]
      /\ \A k, l \in N : e[k] = e[l] => k = l
      /\ \A i \in I : \E k \in N : e[k] = i
  BY <1>4 DEF Bijection, Injection, Surjection, IsInjective
<1>6. Entries(ws, I) = [k \in N |-> ws[e[k]]]
  <2>1. Entries(ws, I)
          = [k \in N |-> ws[CHOOSE i \in I : Cardinality({j \in I : j <= i}) = k]]
    BY DEF Entries
  <2>2. \A k \in N : ws[CHOOSE i \in I : Cardinality({j \in I : j <= i}) = k] = ws[e[k]]
    BY <1>4, Zenon
  <2> HIDE DEF N
  <2> QED BY <2>1, <2>2, Zenon
<1>7. \A i \in I : ws[i] \in Waits
  BY <1>2, ElementOfSeq
<1>8. /\ Entries(ws, I) \in [N -> Waits]
      /\ \A k \in N : Entries(ws, I)[k] = ws[e[k]]
      /\ DOMAIN Entries(ws, I) = N
  BY <1>5, <1>6, <1>7
<1>9. Entries(ws, I) \in Seq(Waits)
  BY <1>3, <1>8
<1>10. Len(Entries(ws, I)) = Cardinality(I)
  <2>1. PICK E \in Seq(Waits) : E = Entries(ws, I)
    BY <1>9
  <2>2. Len(E) \in Nat /\ DOMAIN E = 1..Len(E) /\ DOMAIN E = 1..Cardinality(I)
    BY <1>8, <2>1, LenProperties
  <2>3. Len(E) = Cardinality(I)
    BY <1>3, <2>2
  <2> QED BY <2>1, <2>3
<1>11. \A k \in DOMAIN Entries(ws, I) : \E i \in I : Entries(ws, I)[k] = ws[i]
  BY <1>5, <1>8
<1>12. ASSUME NEW f \in Files
       PROVE  Cardinality({k \in N : Entries(ws, I)[k].file = f}) = Cardinality({i \in I : ws[i].file = f})
  <2> DEFINE K == {k \in N : Entries(ws, I)[k].file = f}
             J == {i \in I : ws[i].file = f}
             b == [k \in K |-> e[k]]
  <2>1. \A k \in N : k \in K <=> e[k] \in J
    BY <1>5, <1>8
  <2>2. b \in [K -> J] /\ \A k \in K : b[k] = e[k]
    BY <2>1
  <2>3. \A k, l \in K : b[k] = b[l] => k = l
    <3> HIDE DEF b
    <3> QED BY <1>5, <2>2
  <2>4. \A i \in J : \E k \in K : b[k] = i
    <3> HIDE DEF b
    <3> QED BY <1>5, <2>1, <2>2
  <2>5. b \in Bijection(K, J)
    <3> HIDE DEF b, K, J
    <3> QED BY <2>2, <2>3, <2>4, Fun_IsBij
  <2>6. ExistsBijection(K, J)
    <3> HIDE DEF b, K, J
    <3> QED BY <2>5 DEF ExistsBijection
  <2>7. IsFiniteSet(K)
    <3>1. IsFiniteSet(N)
      BY <1>3, FS_Interval
    <3>2. K \in SUBSET N
      OBVIOUS
    <3> HIDE DEF K
    <3> QED BY <3>1, <3>2, FS_Subset
  <2>8. Cardinality(K) = Cardinality(J)
    <3> HIDE DEF K, J
    <3> QED BY <2>6, <2>7, FS_Bijection
  <2> QED BY <2>8
<1> QED BY <1>3, <1>8, <1>9, <1>10, <1>11, <1>12

-----------------------------------------------------------------------------
(***************************************************************************)
(* The shared parameter buffer.                                            *)
(***************************************************************************)

LEMMA Finite == IsFiniteSet(Procs) /\ IsFiniteSet(Files) /\ None \notin Procs /\ None \notin Syncs
BY ServicesAssumption

LEMMA ClosedIs == Closed.proc = None /\ Closed.space = 0 /\ Closed.list = <<>>
BY DEF Closed

(* PBExact with the sum by its name.                                       *)
LEMMA PBExactIs ==
  PBExact <=> /\ stub = Total(per, Procs)
              /\ \A p \in Procs : per[p].hnd <= per[p].items /\ per[p].items >= 0
              /\ owner # None => per[owner].ref > 0 /\ stub = 0
BY Zenon DEF PBExact, Total, MapThenSumSet, MapThenFoldSet

(* A call in which one process takes or gives back d references.           *)
LEMMA PBStep ==
  ASSUME PBPart, PBTypes', Connected', NEW p \in Procs, NEW d \in Int,
         \A q \in Procs : q # p => per'[q].items = per[q].items /\ per'[q].hnd = per[q].hnd,
         per'[p].items = per[p].items + d, per'[p].hnd <= per'[p].items,
         stub' = stub + d,
         owner' # None => per'[owner'].ref > 0 /\ stub' = 0
  PROVE  PBPart'
<1>1. \A q \in Procs : /\ per[q].items \in Nat /\ per'[q].items \in Nat
                       /\ per[q].hnd \in Nat /\ per'[q].hnd \in Nat
  BY DEF PBPart, PBTypes
<1>2. \A q \in Procs : per[q].items \in Int /\ per'[q].items \in Int
  BY <1>1
<1>3. /\ stub = Total(per, Procs)
      /\ \A q \in Procs : per[q].hnd <= per[q].items
  BY PBExactIs DEF PBPart
<1>4. \A q \in Procs : q # p => per'[q].items = per[q].items
  OBVIOUS
<1>5. Total(per', Procs) = Total(per, Procs) + d
  BY <1>2, <1>4, Finite, TotalUpdate
<1>6. \A q \in Procs : per'[q].hnd <= per'[q].items /\ per'[q].items >= 0
  BY <1>1, <1>3
<1>7. (PBExact)'
  <2>1. (PBExact)' <=> /\ stub' = Total(per', Procs)
                       /\ \A q \in Procs : per'[q].hnd <= per'[q].items /\ per'[q].items >= 0
                       /\ owner' # None => per'[owner'].ref > 0 /\ stub' = 0
    BY Zenon DEF PBExact, Total, MapThenSumSet, MapThenFoldSet
  <2> QED BY <1>3, <1>5, <1>6, <2>1
<1> QED BY <1>7 DEF PBPart

(* What PBPart says of the owner and of a process with references.         *)
LEMMA PBFacts ==
  ASSUME PBPart
  PROVE  /\ owner # None => owner \in Procs /\ per[owner].ref > 0 /\ stub = 0
         /\ \A p \in Procs : /\ per[p].ref \in Nat /\ per[p].items \in Nat /\ per[p].hnd \in Nat
                              /\ per[p].hnd <= per[p].items /\ per[p].items <= stub
         /\ stub \in Nat
<1>1. \A q \in Procs : per[q].ref \in Nat /\ per[q].items \in Nat /\ per[q].hnd \in Nat
  BY DEF PBPart, PBTypes
<1>2. /\ stub = Total(per, Procs)
      /\ \A p \in Procs : per[p].hnd <= per[p].items /\ per[p].items >= 0
      /\ owner # None => per[owner].ref > 0 /\ stub = 0
  BY PBExactIs DEF PBPart
<1>3. \A p \in Procs : per[p].items <= Total(per, Procs)
  BY <1>1, Finite, TotalBounds
<1> QED BY <1>1, <1>2, <1>3 DEF PBPart, PBTypes

(* A call that leaves the buffer and the owners of files alone.            *)
LEMMA PBKeep ==
  ASSUME PBPart, per' = per, stub' = stub, owner' = owner,
         \A f \in Files : file'[f].proc = file[f].proc
  PROVE  PBPart'
<1>1. PBTypes'
  BY DEF PBPart, PBTypes
<1>2. Connected'
  <2>1. \A p \in Procs : {f \in Files : file'[f].proc = p} = {f \in Files : file[f].proc = p}
    OBVIOUS
  <2> QED BY <2>1 DEF PBPart, Connected, FilesOf
<1>3. (PBExact)'
  <2>1. stub = Total(per, Procs) /\ (\A p \in Procs : per[p].hnd <= per[p].items /\ per[p].items >= 0)
        /\ (owner # None => per[owner].ref > 0 /\ stub = 0)
    BY PBExactIs DEF PBPart
  <2>2. (PBExact)' <=> /\ stub' = Total(per', Procs)
                       /\ \A q \in Procs : per'[q].hnd <= per'[q].items /\ per'[q].items >= 0
                       /\ owner' # None => per'[owner'].ref > 0 /\ stub' = 0
    BY Zenon DEF PBExact, Total, MapThenSumSet, MapThenFoldSet
  <2> QED BY <2>1, <2>2
<1> QED BY <1>1, <1>2, <1>3 DEF PBPart

(* A process in a call is connected.                                       *)
LEMMA CalledConnected ==
  ASSUME PBPart, FileTypes, NEW p \in Procs, Called(p)
  PROVE  per[p].ref > 0
<1>1. PICK f \in Files : file[f].proc = p
  BY DEF Called
<1>2. IsFiniteSet(FilesOf(p)) /\ f \in FilesOf(p)
  <2>1. FilesOf(p) \in SUBSET Files
    BY DEF FilesOf
  <2>2. IsFiniteSet(FilesOf(p))
    BY <2>1, Finite, FS_Subset
  <2> QED BY <1>1, <2>2 DEF FilesOf
<1>3. Cardinality(FilesOf(p)) \in Nat /\ Cardinality(FilesOf(p)) # 0
  BY <1>2, FS_CardinalityType, FS_EmptySet
<1>4. Cardinality(FilesOf(p)) <= per[p].ref /\ per[p].ref \in Nat
  BY PBFacts DEF PBPart, Connected
<1> QED BY <1>3, <1>4

(* The calls about the shared buffer (pb.c).                               *)
LEMMA PBCallsStep ==
  ASSUME FileTypes, PBPart, NEW p \in Procs, PBCalls(p)
  PROVE  PBPart' /\ UNCHANGED <<file, sync, waits, evo>>
<1>1. /\ owner # None => owner \in Procs /\ per[owner].ref > 0 /\ stub = 0
      /\ \A q \in Procs : /\ per[q].ref \in Nat /\ per[q].items \in Nat /\ per[q].hnd \in Nat
                           /\ per[q].hnd <= per[q].items /\ per[q].items <= stub
      /\ stub \in Nat /\ owner \in Procs \union {None}
      /\ per \in [Procs -> [ref : Nat, mem : BOOLEAN, items : Nat, hnd : Nat]]
  BY PBFacts DEF PBPart, PBTypes
<1>2. Called(p) => per[p].ref > 0
  BY CalledConnected
<1>3. ASSUME file' = file, \A q \in Procs : per'[q].ref = per[q].ref PROVE Connected'
  BY <1>3 DEF PBPart, Connected, FilesOf
<1>4. CASE PVRSRVAllocPBMemory(p)
  <2>1. per' = [per EXCEPT ![p].mem = TRUE] /\ UNCHANGED <<file, stub, owner, sync, waits, evo>>
    BY <1>4 DEF PVRSRVAllocPBMemory
  <2>2. /\ per' \in [Procs -> [ref : Nat, mem : BOOLEAN, items : Nat, hnd : Nat]]
        /\ \A q \in Procs : /\ per'[q].ref = per[q].ref /\ per'[q].items = per[q].items
                             /\ per'[q].hnd = per[q].hnd
    BY <1>1, <2>1
  <2>3. PBTypes' /\ Connected'
    BY <1>1, <1>3, <2>1, <2>2 DEF PBTypes
  <2>4. /\ per'[p].items = per[p].items + 0 /\ per'[p].hnd <= per'[p].items /\ stub' = stub + 0
        /\ (owner' # None => per'[owner'].ref > 0 /\ stub' = 0)
        /\ 0 \in Int
    BY <1>1, <2>1, <2>2
  <2> QED BY <2>1, <2>2, <2>3, <2>4, PBStep
<1>5. ASSUME NEW handle \in BOOLEAN, TakeRef(p, handle), owner' \in {owner, None},
             stub > 0 \/ owner' = None, file' = file
      PROVE  PBPart'
  <2>1. /\ per' = [per EXCEPT ![p].items = @ + 1, ![p].hnd = IF handle THEN @ + 1 ELSE @]
        /\ stub' = stub + 1
    BY <1>5 DEF TakeRef
  <2> DEFINE v == IF handle THEN per[p].hnd + 1 ELSE per[p].hnd
  <2>8. v \in Nat /\ per[p].items + 1 \in Nat
    BY <1>1
  <2>9. per' = [per EXCEPT ![p] = [@ EXCEPT !.items = per[p].items + 1, !.hnd = v]]
    BY <1>1, <2>1
  <2>2. /\ per' \in [Procs -> [ref : Nat, mem : BOOLEAN, items : Nat, hnd : Nat]]
        /\ \A q \in Procs : per'[q].ref = per[q].ref
        /\ \A q \in Procs : q # p => per'[q].items = per[q].items /\ per'[q].hnd = per[q].hnd
        /\ per'[p].items = per[p].items + 1
        /\ per'[p].hnd = v
    <3> HIDE DEF v
    <3> QED BY <1>1, <2>8, <2>9
  <2>3. PBTypes' /\ Connected'
    BY <1>1, <1>3, <1>5, <2>1, <2>2 DEF PBTypes
  <2>4. per'[p].hnd <= per'[p].items /\ owner' = None /\ 1 \in Int
    BY <1>1, <1>5, <2>2
  <2> QED BY <2>1, <2>2, <2>3, <2>4, PBStep
<1>6. ASSUME NEW b1 \in BOOLEAN, NEW b2 \in BOOLEAN, SGXFindSharedPBDescBW(p, b1, b2)
      PROVE  PBPart' /\ UNCHANGED <<file, sync, waits, evo>>
  <2>1. UNCHANGED <<file, sync, waits, evo>> /\ Called(p) /\ SGXFindSharedPBDescKM(p, b1, b2)
    BY <1>6 DEF SGXFindSharedPBDescBW
  <2>2. CASE stub > 0 /\ TakeRef(p, b2) /\ UNCHANGED owner
    BY <1>5, <2>1, <2>2
  <2>3. CASE stub = 0 /\ owner' = p /\ UNCHANGED <<per, stub>>
    <3>1. PBTypes' /\ Connected'
      BY <1>1, <1>3, <2>1, <2>3 DEF PBTypes
    <3>2. /\ per'[p].items = per[p].items + 0 /\ per'[p].hnd <= per'[p].items /\ stub' = stub + 0
          /\ (owner' # None => per'[owner'].ref > 0 /\ stub' = 0)
          /\ 0 \in Int
      BY <1>1, <1>2, <2>1, <2>3
    <3>3. \A q \in Procs : q # p => per'[q].items = per[q].items /\ per'[q].hnd = per[q].hnd
      BY <2>3
    <3> QED BY <2>1, <3>1, <3>2, <3>3, PBStep
  <2> QED BY <2>1, <2>2, <2>3 DEF SGXFindSharedPBDescKM
<1>7. CASE SGXUnrefSharedPBDesc(p)
  <2>1. /\ UNCHANGED <<file, owner, sync, waits, evo>> /\ per[p].hnd > 0 /\ stub' = stub - 1
        /\ per' = [per EXCEPT ![p].items = @ - 1, ![p].hnd = @ - 1]
    BY <1>7 DEF SGXUnrefSharedPBDesc
  <2>2. per[p].items > 0 /\ stub > 0 /\ per[p].items - 1 \in Nat /\ per[p].hnd - 1 \in Nat /\ stub - 1 \in Nat
    BY <1>1, <2>1
  <2>3. /\ per' \in [Procs -> [ref : Nat, mem : BOOLEAN, items : Nat, hnd : Nat]]
        /\ \A q \in Procs : per'[q].ref = per[q].ref
        /\ \A q \in Procs : q # p => per'[q].items = per[q].items /\ per'[q].hnd = per[q].hnd
        /\ per'[p].items = per[p].items - 1 /\ per'[p].hnd = per[p].hnd - 1
    BY <1>1, <2>1, <2>2
  <2>4. PBTypes' /\ Connected'
    BY <1>1, <1>3, <2>1, <2>2, <2>3 DEF PBTypes
  <2>5. /\ per'[p].items = per[p].items + (-1) /\ per'[p].hnd <= per'[p].items /\ stub' = stub + (-1)
        /\ owner' = None /\ -1 \in Int
    BY <1>1, <2>1, <2>2, <2>3
  <2> QED BY <2>1, <2>3, <2>4, <2>5, PBStep
<1>8. ASSUME NEW b1 \in BOOLEAN, NEW b2 \in BOOLEAN, SGXAddSharedPBDescBW(p, b1, b2)
      PROVE  PBPart' /\ UNCHANGED <<file, sync, waits, evo>>
  <2>1. UNCHANGED <<file, sync, waits, evo>> /\ Called(p) /\ SGXAddSharedPBDescKM(p, b1, b2)
    BY <1>8 DEF SGXAddSharedPBDescBW
  <2>2. owner' = IF owner = p THEN None ELSE owner
    BY <2>1 DEF SGXAddSharedPBDescKM
  <2>3. CASE owner = p /\ b1
    <3>1. /\ per' = [per EXCEPT ![p].mem = FALSE, ![p].items = @ + 1, ![p].hnd = IF b2 THEN @ + 1 ELSE @]
          /\ stub' = stub + 1
      BY <2>1, <2>3 DEF SGXAddSharedPBDescKM
    <3>2. /\ per' \in [Procs -> [ref : Nat, mem : BOOLEAN, items : Nat, hnd : Nat]]
          /\ \A q \in Procs : per'[q].ref = per[q].ref
          /\ \A q \in Procs : q # p => per'[q].items = per[q].items /\ per'[q].hnd = per[q].hnd
          /\ per'[p].items = per[p].items + 1
          /\ per'[p].hnd = IF b2 THEN per[p].hnd + 1 ELSE per[p].hnd
      BY <1>1, <3>1
    <3>3. PBTypes' /\ Connected'
      BY <1>1, <1>3, <2>1, <2>2, <3>1, <3>2 DEF PBTypes
    <3>4. per'[p].hnd <= per'[p].items /\ owner' = None /\ 1 \in Int
      BY <1>1, <2>2, <2>3, <3>2
    <3> QED BY <2>1, <3>1, <3>2, <3>3, <3>4, PBStep
  <2>4. CASE ~(owner = p /\ b1)
    <3>1. per' = [per EXCEPT ![p].mem = FALSE] /\ stub' = stub
      BY <2>1, <2>4 DEF SGXAddSharedPBDescKM
    <3>2. /\ per' \in [Procs -> [ref : Nat, mem : BOOLEAN, items : Nat, hnd : Nat]]
          /\ \A q \in Procs : /\ per'[q].ref = per[q].ref /\ per'[q].items = per[q].items
                               /\ per'[q].hnd = per[q].hnd
      BY <1>1, <3>1
    <3>3. PBTypes' /\ Connected'
      BY <1>1, <1>3, <2>1, <2>2, <3>1, <3>2 DEF PBTypes
    <3>4. /\ per'[p].items = per[p].items + 0 /\ per'[p].hnd <= per'[p].items /\ stub' = stub + 0
          /\ (owner' # None => per'[owner'].ref > 0 /\ stub' = 0)
          /\ 0 \in Int
      BY <1>1, <2>2, <3>1, <3>2
    <3> QED BY <2>1, <3>2, <3>3, <3>4, PBStep
  <2> QED BY <2>3, <2>4
<1> QED BY <1>4, <1>6, <1>7, <1>8 DEF PBCalls, PVRSRVAllocPBMemory, SGXUnrefSharedPBDesc

(* The files of a process when one more is opened or one is closed.        *)
LEMMA FilesOfChange ==
  ASSUME FileTypes, NEW f \in Files, NEW r, file' = [file EXCEPT ![f] = r], NEW p \in Procs,
         {file[f].proc, r.proc} = {p, None}
  PROVE  /\ \A q \in Procs : q # p => FilesOf(q)' = FilesOf(q)
         /\ IsFiniteSet(FilesOf(p)) /\ Cardinality(FilesOf(p)) \in Nat
         /\ r.proc = p => Cardinality(FilesOf(p)') = Cardinality(FilesOf(p)) + 1
         /\ r.proc = None => Cardinality(FilesOf(p)') = Cardinality(FilesOf(p)) - 1
<1>1. \A g \in Files : file'[g].proc = IF g = f THEN r.proc ELSE file[g].proc
  BY DEF FileTypes
<1>2. None # p
  BY Finite
<1>3. ASSUME NEW q \in Procs, q # p PROVE FilesOf(q)' = FilesOf(q)
  <2>1. q # None
    BY Finite
  <2>2. \A g \in Files : file'[g].proc = q <=> file[g].proc = q
    BY <1>1, <1>3, <2>1
  <2> QED BY <2>2 DEF FilesOf
<1>4. IsFiniteSet(FilesOf(p)) /\ Cardinality(FilesOf(p)) \in Nat
  <2>1. FilesOf(p) \in SUBSET Files
    BY DEF FilesOf
  <2>2. IsFiniteSet(FilesOf(p))
    BY <2>1, Finite, FS_Subset
  <2> QED BY <2>2, FS_CardinalityType
<1>5. ASSUME r.proc = p PROVE Cardinality(FilesOf(p)') = Cardinality(FilesOf(p)) + 1
  <2>1. f \notin FilesOf(p) /\ FilesOf(p)' = FilesOf(p) \cup {f}
    BY <1>1, <1>2, <1>5 DEF FilesOf
  <2>2. Cardinality(FilesOf(p) \cup {f}) = Cardinality(FilesOf(p)) + 1
    BY <1>4, <2>1, FS_AddElement
  <2> QED BY <2>1, <2>2
<1>6. ASSUME r.proc = None PROVE Cardinality(FilesOf(p)') = Cardinality(FilesOf(p)) - 1
  <2>1. f \in FilesOf(p) /\ FilesOf(p)' = FilesOf(p) \ {f}
    BY <1>1, <1>2, <1>6 DEF FilesOf
  <2>2. Cardinality(FilesOf(p) \ {f}) = Cardinality(FilesOf(p)) - 1
    BY <1>4, <2>1, FS_RemoveElement
  <2> QED BY <2>1, <2>2
<1> QED BY <1>3, <1>4, <1>5, <1>6

(* Opening a file (module.c).                                              *)
LEMMA OpenPB ==
  ASSUME FileTypes, PBPart, NEW f \in Files, NEW p \in Procs, NEW b \in BOOLEAN, pvr_open(f, p, b)
  PROVE  PBPart'
<1>1. /\ owner # None => owner \in Procs /\ per[owner].ref > 0 /\ stub = 0
      /\ \A q \in Procs : /\ per[q].ref \in Nat /\ per[q].items \in Nat /\ per[q].hnd \in Nat
                           /\ per[q].hnd <= per[q].items /\ per[q].items <= stub
      /\ stub \in Nat /\ owner \in Procs \union {None}
      /\ per \in [Procs -> [ref : Nat, mem : BOOLEAN, items : Nat, hnd : Nat]]
  BY PBFacts DEF PBPart, PBTypes
<1>2. per' = [per EXCEPT ![p].ref = @ + 1] /\ stub' = stub /\ owner' = owner
  BY DEF pvr_open
<1>3. /\ per' \in [Procs -> [ref : Nat, mem : BOOLEAN, items : Nat, hnd : Nat]]
      /\ \A q \in Procs : per'[q].items = per[q].items /\ per'[q].hnd = per[q].hnd
      /\ \A q \in Procs : q # p => per'[q].ref = per[q].ref
      /\ per'[p].ref = per[p].ref + 1
  BY <1>1, <1>2
<1>4. PBTypes'
  BY <1>1, <1>2, <1>3 DEF PBTypes
<1>5. Connected'
  <2>1. \A q \in Procs : Cardinality(FilesOf(q)) <= per[q].ref
    BY DEF PBPart, Connected
  <2>2. CASE b
    <3> DEFINE r == [proc |-> p, space |-> EventMax, list |-> <<>>]
    <3>1. file' = [file EXCEPT ![f] = r] /\ file[f].proc = None /\ r.proc = p
      BY <2>2, ClosedIs DEF pvr_open
    <3>2. /\ \A q \in Procs : q # p => FilesOf(q)' = FilesOf(q)
          /\ Cardinality(FilesOf(p)) \in Nat
          /\ Cardinality(FilesOf(p)') = Cardinality(FilesOf(p)) + 1
      <4> HIDE DEF r
      <4>1. {file[f].proc, r.proc} = {p, None}
        BY <3>1
      <4> QED BY <3>1, <4>1, FilesOfChange
    <3>3. ASSUME NEW q \in Procs PROVE Cardinality(FilesOf(q)') <= per'[q].ref
      <4>1. CASE q = p
        BY <1>1, <1>3, <2>1, <3>2, <4>1
      <4>2. CASE q # p
        BY <1>3, <2>1, <3>2, <4>2
      <4> QED BY <4>1, <4>2
    <3> QED BY <3>3 DEF Connected
  <2>3. CASE ~b
    <3>1. \A q \in Procs : FilesOf(q)' = FilesOf(q)
      BY <2>3 DEF pvr_open, FilesOf
    <3>2. per[p].ref = 0
      BY <2>3 DEF pvr_open
    <3>3. Cardinality(FilesOf(p)) \in Nat
      <4>1. FilesOf(p) \in SUBSET Files
        BY DEF FilesOf
      <4>2. IsFiniteSet(FilesOf(p))
        BY <4>1, Finite, FS_Subset
      <4> QED BY <4>2, FS_CardinalityType
    <3>4. ASSUME NEW q \in Procs PROVE Cardinality(FilesOf(q)') <= per'[q].ref
      <4>1. CASE q = p
        BY <1>1, <1>3, <2>1, <3>1, <3>3, <4>1
      <4>2. CASE q # p
        BY <1>3, <2>1, <3>1, <4>2
      <4> QED BY <4>1, <4>2
    <3> QED BY <3>4 DEF Connected
  <2> QED BY <2>2, <2>3
<1>6. /\ per'[p].items = per[p].items + 0 /\ per'[p].hnd <= per'[p].items /\ stub' = stub + 0
      /\ (owner' # None => per'[owner'].ref > 0 /\ stub' = 0)
      /\ 0 \in Int
  BY <1>1, <1>2, <1>3
<1> QED BY <1>3, <1>4, <1>5, <1>6, PBStep

(* Closing one, which may end the process's last connection (perproc.c).   *)
LEMMA ReleasePB ==
  ASSUME FileTypes, PBPart, NEW f \in Files, pvr_release(f)
  PROVE  PBPart'
<1>1. /\ owner # None => owner \in Procs /\ per[owner].ref > 0 /\ stub = 0
      /\ \A q \in Procs : /\ per[q].ref \in Nat /\ per[q].items \in Nat /\ per[q].hnd \in Nat
                           /\ per[q].hnd <= per[q].items /\ per[q].items <= stub
      /\ stub \in Nat /\ owner \in Procs \union {None}
      /\ per \in [Procs -> [ref : Nat, mem : BOOLEAN, items : Nat, hnd : Nat]]
  BY PBFacts DEF PBPart, PBTypes
<1>2. PICK p \in Procs : p = file[f].proc
  BY DEF pvr_release, FileTypes
<1>3. CASE UNCHANGED clients
  BY <1>3, PBKeep DEF clients
<1>4. CASE file' = [file EXCEPT ![f] = Closed]
  <2>1. /\ \A q \in Procs : q # p => FilesOf(q)' = FilesOf(q)
        /\ Cardinality(FilesOf(p)) \in Nat
        /\ Cardinality(FilesOf(p)') = Cardinality(FilesOf(p)) - 1
    <3>1. {file[f].proc, Closed.proc} = {p, None} /\ Closed.proc = None
      BY <1>2, ClosedIs
    <3> QED BY <1>4, <3>1, FilesOfChange
  <2>2. \A q \in Procs : Cardinality(FilesOf(q)) <= per[q].ref
    BY DEF PBPart, Connected
  <2>3. ASSUME per' \in [Procs -> [ref : Nat, mem : BOOLEAN, items : Nat, hnd : Nat]],
               \A q \in Procs : q # p => per'[q] = per[q], per'[p].ref = per[p].ref - 1
        PROVE  Connected'
    <3>1. ASSUME NEW q \in Procs PROVE Cardinality(FilesOf(q)') <= per'[q].ref
      <4>1. CASE q = p
        BY <1>1, <2>1, <2>2, <2>3, <4>1
      <4>2. CASE q # p
        BY <2>1, <2>2, <2>3, <4>2
      <4> QED BY <4>1, <4>2
    <3> QED BY <3>1 DEF Connected
  <2>4. CASE per[p].ref = 1 /\ Disconnect(p, NotOf(f))
    <3>1. /\ per' = [per EXCEPT ![p] = NoProcess] /\ stub' = stub - per[p].items
          /\ owner' = IF owner = p THEN None ELSE owner
      BY <2>4 DEF Disconnect
    <3>2. /\ NoProcess \in [ref : Nat, mem : BOOLEAN, items : Nat, hnd : Nat]
          /\ NoProcess.ref = 0 /\ NoProcess.items = 0 /\ NoProcess.hnd = 0
      BY DEF NoProcess
    <3>3. /\ per' \in [Procs -> [ref : Nat, mem : BOOLEAN, items : Nat, hnd : Nat]]
          /\ \A q \in Procs : q # p => per'[q] = per[q]
          /\ per'[p].ref = per[p].ref - 1 /\ per'[p].items = 0 /\ per'[p].hnd = 0
      BY <1>1, <2>4, <3>1, <3>2
    <3>4. PICK d \in Int : d = 0 - per[p].items
      BY <1>1
    <3>5. /\ per'[p].items = per[p].items + d /\ per'[p].hnd <= per'[p].items
          /\ stub' = stub + d /\ stub' \in Nat
      BY <1>1, <3>1, <3>3, <3>4
    <3>6. owner' # None => per'[owner'].ref > 0 /\ stub' = 0
      BY <1>1, <3>1, <3>3
    <3>7. PBTypes'
      BY <1>1, <3>1, <3>3, <3>5 DEF PBTypes
    <3>8. Connected'
      BY <2>3, <3>3
    <3>9. \A q \in Procs : q # p => per'[q].items = per[q].items /\ per'[q].hnd = per[q].hnd
      BY <3>3
    <3> QED BY <3>5, <3>6, <3>7, <3>8, <3>9, PBStep
  <2>5. CASE per[p].ref # 1 /\ per' = [per EXCEPT ![p].ref = @ - 1] /\ UNCHANGED <<stub, owner>>
    <3>1. per[p].ref - 1 \in Nat /\ (per[p].ref > 0 => per[p].ref - 1 > 0)
      <4>1. Cardinality(FilesOf(p)) # 0
        <5>1. f \in FilesOf(p) /\ IsFiniteSet(FilesOf(p))
          <6>1. FilesOf(p) \in SUBSET Files /\ f \in FilesOf(p)
            BY <1>2 DEF FilesOf
          <6> QED BY <6>1, Finite, FS_Subset
        <5> QED BY <5>1, FS_EmptySet
      <4> QED BY <1>1, <2>1, <2>2, <2>5, <4>1
    <3>2. /\ per' \in [Procs -> [ref : Nat, mem : BOOLEAN, items : Nat, hnd : Nat]]
          /\ \A q \in Procs : q # p => per'[q] = per[q]
          /\ per'[p].ref = per[p].ref - 1 /\ per'[p].items = per[p].items /\ per'[p].hnd = per[p].hnd
      BY <1>1, <2>5, <3>1
    <3>3. PBTypes' /\ Connected'
      BY <1>1, <2>3, <2>5, <3>2 DEF PBTypes
    <3>4. owner' # None => per'[owner'].ref > 0 /\ stub' = 0
      BY <1>1, <2>5, <3>1, <3>2
    <3>5. /\ per'[p].items = per[p].items + 0 /\ per'[p].hnd <= per'[p].items /\ stub' = stub + 0
          /\ 0 \in Int
      BY <1>1, <2>5, <3>2
    <3>6. \A q \in Procs : q # p => per'[q].items = per[q].items /\ per'[q].hnd = per[q].hnd
      BY <3>2
    <3> QED BY <3>3, <3>4, <3>5, <3>6, PBStep
  <2> QED BY <1>2, <1>4, <2>4, <2>5, <1>3 DEF pvr_release
<1> QED BY <1>3, <1>4 DEF pvr_release

-----------------------------------------------------------------------------
(***************************************************************************)
(* The events of files.                                                    *)
(***************************************************************************)

FileType == [proc : Procs \union {None}, space : Nat, list : Seq(Nat)]

Mine(ws, f) == {i \in DOMAIN ws : ws[i].file = f}

(* A file's data with n events waiting for it.                             *)
FileOK(r, n) ==
    /\ r \in FileType
    /\ r.proc = None => r = Closed
    /\ IF r = Closed THEN n = 0 ELSE r.space + Len(r.list) + n = EventMax
    /\ \A i \in DOMAIN r.list : r.list[i] = 0

(* FileTypes and EventPart, of one file at a time.                         *)
EventOK(fl, ws) ==
    /\ fl \in [Files -> FileType]
    /\ ws \in Seq(Waits)
    /\ \A i \in DOMAIN ws : ws[i].sync = None => ws[i].rem = 0
    /\ \A f \in Files : FileOK(fl[f], Cardinality(Mine(ws, f)))

LEMMA MineFacts ==
  ASSUME NEW ws \in Seq(Waits), NEW f
  PROVE  /\ IsFiniteSet(Mine(ws, f)) /\ Cardinality(Mine(ws, f)) \in Nat
         /\ Mine(ws, f) = {} <=> Cardinality(Mine(ws, f)) = 0
<1>1. Len(ws) \in Nat /\ DOMAIN ws = 1..Len(ws)
  BY LenProperties
<1>2. IsFiniteSet(1..Len(ws)) /\ Mine(ws, f) \in SUBSET (1..Len(ws))
  BY <1>1, FS_Interval DEF Mine
<1>3. IsFiniteSet(Mine(ws, f))
  BY <1>2, FS_Subset
<1> QED BY <1>3, FS_CardinalityType, FS_EmptySet

LEMMA EventIs == FileTypes /\ EventPart <=> EventOK(file, waits)
<1>1. ASSUME waits \in Seq(Waits), NEW f \in Files
      PROVE  WaitsOf(f) = Mine(waits, f) /\ (WaitsOf(f) = {} <=> Cardinality(WaitsOf(f)) = 0)
  BY <1>1, MineFacts DEF WaitsOf, Mine
<1>2. ASSUME FileTypes, EventPart PROVE EventOK(file, waits)
  <2>1. ASSUME NEW f \in Files PROVE FileOK(file[f], Cardinality(Mine(waits, f)))
    BY <1>1, <1>2
       DEF EventPart, FileTypes, WaitTypes, ClosedFiles, RoomExact, OnlyComplete, FileOK, FileType
  <2> QED BY <1>2, <2>1 DEF EventPart, FileTypes, WaitTypes, StaleDone, EventOK, FileType
<1>3. ASSUME EventOK(file, waits) PROVE FileTypes /\ EventPart
  <2>1. FileTypes /\ WaitTypes /\ StaleDone
    BY <1>3 DEF EventOK, FileTypes, FileType, WaitTypes, StaleDone
  <2>2. ClosedFiles /\ OnlyComplete
    BY <1>3 DEF EventOK, FileOK, ClosedFiles, OnlyComplete
  <2>3. RoomExact
    BY <1>1, <1>3 DEF EventOK, FileOK, RoomExact
  <2> QED BY <2>1, <2>2, <2>3 DEF EventPart
<1> QED BY <1>2, <1>3

(* The same of the next state.                                             *)
LEMMA EventIsNext == EventOK(file', waits') => FileTypes' /\ EventPart'
<1>1. ASSUME waits' \in Seq(Waits), NEW f \in Files
      PROVE  /\ WaitsOf(f)' = Mine(waits', f)
             /\ WaitsOf(f)' = {} <=> Cardinality(WaitsOf(f)') = 0
  BY <1>1, MineFacts DEF WaitsOf, Mine
<1>2. SUFFICES ASSUME EventOK(file', waits') PROVE FileTypes' /\ EventPart'
  OBVIOUS
<1>3. FileTypes' /\ WaitTypes' /\ StaleDone'
  BY <1>2 DEF EventOK, FileTypes, FileType, WaitTypes, StaleDone
<1>4. ClosedFiles' /\ OnlyComplete'
  BY <1>2 DEF EventOK, FileOK, ClosedFiles, OnlyComplete
<1>5. RoomExact'
  BY <1>1, <1>2 DEF EventOK, FileOK, RoomExact
<1> QED BY <1>3, <1>4, <1>5 DEF EventPart

(* Pointers that go stale leave the events where they are.                 *)
LEMMA StaleFacts ==
  ASSUME NEW ws \in Seq(Waits), NEW gone, \A i \in DOMAIN ws : ws[i].sync = None => ws[i].rem = 0
  PROVE  /\ Stale(ws, gone) \in Seq(Waits)
         /\ \A i \in DOMAIN Stale(ws, gone) :
              Stale(ws, gone)[i].sync = None => Stale(ws, gone)[i].rem = 0
         /\ \A f : Mine(Stale(ws, gone), f) = Mine(ws, f)
<1>1. Len(ws) \in Nat /\ DOMAIN ws = 1..Len(ws) /\ ws \in [1..Len(ws) -> Waits]
  BY LenProperties
<1>2. /\ DOMAIN Stale(ws, gone) = DOMAIN ws
      /\ \A i \in DOMAIN ws :
           Stale(ws, gone)[i] = IF ws[i].sync \in gone THEN [ws[i] EXCEPT !.sync = None, !.rem = 0]
                                ELSE ws[i]
  BY DEF Stale
<1>3. ASSUME NEW i \in DOMAIN ws
      PROVE  /\ Stale(ws, gone)[i] \in Waits /\ Stale(ws, gone)[i].file = ws[i].file
             /\ Stale(ws, gone)[i].sync = None => Stale(ws, gone)[i].rem = 0
  <2>1. ws[i] \in [file : Files, sync : Syncs \union {None}, rem : Nat]
    BY <1>1 DEF Waits
  <2>2. CASE ws[i].sync \in gone
    <3>1. Stale(ws, gone)[i] = [ws[i] EXCEPT !.sync = None, !.rem = 0]
      BY <1>2, <2>2
    <3>2. PICK w \in [file : Files, sync : Syncs \union {None}, rem : Nat] : w = ws[i]
      BY <2>1
    <3> DEFINE u == [w EXCEPT !.sync = None, !.rem = 0]
    <3>3. u.file = w.file /\ u.sync = None /\ u.rem = 0
      BY <3>2
    <3>4. u \in Waits
      BY <3>2 DEF Waits
    <3> HIDE DEF u
    <3>5. Stale(ws, gone)[i] = u
      BY <3>1, <3>2 DEF u
    <3> QED BY <3>2, <3>3, <3>4, <3>5
  <2>3. CASE ws[i].sync \notin gone
    <3>1. Stale(ws, gone)[i] = ws[i]
      BY <1>2, <2>3
    <3> QED BY <2>1, <3>1 DEF Waits
  <2> QED BY <2>2, <2>3
<1>4. Stale(ws, gone) \in [1..Len(ws) -> Waits]
  BY <1>1, <1>3 DEF Stale
<1>5. Stale(ws, gone) \in Seq(Waits)
  BY <1>1, <1>4
<1> QED BY <1>2, <1>3, <1>5 DEF Mine


(* Opening a file: it has all its room.                                    *)
LEMMA OpenEvents ==
  ASSUME EventOK(file, waits), NEW f \in Files, NEW p \in Procs, NEW b \in BOOLEAN, pvr_open(f, p, b)
  PROVE  EventOK(file', waits')
<1> DEFINE r == [proc |-> p, space |-> EventMax, list |-> <<>>]
<1>1. waits' = waits /\ file[f] = Closed /\ file' = IF b THEN [file EXCEPT ![f] = r] ELSE file
  BY DEF pvr_open
<1>2. file \in [Files -> FileType] /\ Cardinality(Mine(waits, f)) = 0
  BY <1>1 DEF EventOK, FileOK
<1>3. FileOK(r, 0)
  <2>1. EventMax \in Nat /\ r.proc # None /\ r # Closed
    BY ServicesAssumption, Finite, ClosedIs
  <2>2. r \in FileType
    BY <2>1 DEF FileType
  <2> QED BY <2>1, <2>2 DEF FileOK
<1>4. CASE b
  <2>1. /\ file' \in [Files -> FileType] /\ file'[f] = r
        /\ \A g \in Files : g # f => file'[g] = file[g]
    <3>1. r \in FileType
      BY <1>3 DEF FileOK
    <3> HIDE DEF r
    <3> QED BY <1>1, <1>2, <1>4, <3>1
  <2> HIDE DEF r
  <2> QED BY <1>1, <1>2, <1>3, <2>1 DEF EventOK
<1>5. CASE ~b
  BY <1>1, <1>5
<1> QED BY <1>4, <1>5

(* Closing one: no event of its waits on.                                  *)
LEMMA ReleaseEvents ==
  ASSUME EventOK(file, waits), NEW f \in Files, file' = [file EXCEPT ![f] = Closed],
         NEW gone, waits' = NotOf(f) \/ waits' = Stale(NotOf(f), gone)
  PROVE  EventOK(file', waits')
<1> DEFINE I == {i \in DOMAIN waits : waits[i].file # f}
           ws == Entries(waits, I)
<1>1. waits \in Seq(Waits) /\ file \in [Files -> FileType] /\ I \in SUBSET DOMAIN waits /\ ws = NotOf(f)
  BY DEF EventOK, NotOf
<1>2. /\ ws \in Seq(Waits)
      /\ \A k \in DOMAIN ws : \E i \in I : ws[k] = waits[i]
      /\ \A g \in Files : Cardinality(Mine(ws, g)) = Cardinality({i \in I : waits[i].file = g})
  <2> HIDE DEF I
  <2> QED BY <1>1, EntriesFacts DEF Mine
<1>3. \A k \in DOMAIN ws : ws[k].sync = None => ws[k].rem = 0
  BY <1>2 DEF EventOK
<1>4. \A g \in Files : g # f => Cardinality(Mine(ws, g)) = Cardinality(Mine(waits, g))
  <2>1. ASSUME NEW g \in Files, g # f PROVE {i \in I : waits[i].file = g} = Mine(waits, g)
    BY <2>1 DEF Mine
  <2> QED BY <1>2, <2>1
<1>5. Cardinality(Mine(ws, f)) = 0
  <2>1. {i \in I : waits[i].file = f} = {}
    OBVIOUS
  <2> QED BY <1>2, <2>1, FS_EmptySet
<1> HIDE DEF ws, I
<1>6. /\ waits' \in Seq(Waits)
      /\ \A k \in DOMAIN waits' : waits'[k].sync = None => waits'[k].rem = 0
      /\ \A g \in Files : Mine(waits', g) = Mine(ws, g)
  <2>1. CASE waits' = ws
    BY <1>2, <1>3, <2>1
  <2>2. CASE waits' = Stale(ws, gone)
    BY <1>2, <1>3, <2>2, StaleFacts
  <2> QED BY <1>1, <2>1, <2>2
<1>7. FileOK(Closed, 0)
  BY ClosedIs DEF FileOK, FileType, Closed
<1>8. /\ file' \in [Files -> FileType] /\ file'[f] = Closed
      /\ \A g \in Files : g # f => file'[g] = file[g]
  BY <1>1, <1>7 DEF FileOK
<1>9. ASSUME NEW g \in Files PROVE FileOK(file'[g], Cardinality(Mine(waits', g)))
  <2>1. CASE g = f
    BY <1>5, <1>6, <1>7, <1>8, <2>1
  <2>2. CASE g # f
    BY <1>4, <1>6, <1>8, <2>2 DEF EventOK
  <2> QED BY <2>1, <2>2
<1> QED BY <1>6, <1>8, <1>9 DEF EventOK

(* A completion: the events of the sync info miss one less.                *)
LEMMA CompleteEvents ==
  ASSUME EventOK(file, waits), NEW s \in Syncs, WriteOpComplete(s)
  PROVE  EventOK(file', waits')
<1> DEFINE New(i) == IF waits[i].sync = s /\ waits[i].rem > 0
                     THEN [waits[i] EXCEPT !.rem = @ - 1] ELSE waits[i]
<1>1. file' = file /\ waits' = [i \in DOMAIN waits |-> New(i)]
  BY DEF WriteOpComplete
<1>2. /\ waits \in Seq(Waits) /\ Len(waits) \in Nat /\ DOMAIN waits = 1..Len(waits)
      /\ waits \in [1..Len(waits) -> Waits]
  BY LenProperties DEF EventOK
<1>3. s # None
  BY Finite
<1>4. ASSUME NEW i \in DOMAIN waits
      PROVE  /\ New(i) \in Waits /\ New(i).file = waits[i].file
             /\ New(i).sync = None => New(i).rem = 0
  <2>1. waits[i] \in [file : Files, sync : Syncs \union {None}, rem : Nat]
    BY <1>2 DEF Waits
  <2>2. waits[i].sync = None => waits[i].rem = 0
    BY DEF EventOK
  <2>3. CASE waits[i].sync = s /\ waits[i].rem > 0
    <3>1. New(i) = [waits[i] EXCEPT !.rem = @ - 1] /\ waits[i].rem - 1 \in Nat
      BY <2>1, <2>3
    <3> QED BY <1>3, <2>1, <2>3, <3>1 DEF Waits
  <2>4. CASE ~(waits[i].sync = s /\ waits[i].rem > 0)
    BY <2>1, <2>2, <2>4 DEF Waits
  <2> QED BY <2>3, <2>4
<1> HIDE DEF New
<1>5. waits' \in [1..Len(waits) -> Waits] /\ DOMAIN waits' = DOMAIN waits
  BY <1>1, <1>2, <1>4
<1>6. waits' \in Seq(Waits)
  BY <1>2, <1>5
<1>7. \A g : Mine(waits', g) = Mine(waits, g)
  BY <1>1, <1>4 DEF Mine
<1> QED BY <1>1, <1>4, <1>5, <1>6, <1>7 DEF EventOK


(* The request of an event takes its room, waiting or in the list.         *)
LEMMA RequestEvents ==
  ASSUME EventOK(file, waits), SyncTypes, NEW f \in Files, NEW s \in Syncs, file[f].proc # None,
         pvr_sync_event_req(f, s)
  PROVE  EventOK(file', waits')
<1> DEFINE e == [file |-> f, sync |-> s, rem |-> sync[s].out]
<1>1. /\ e \in Waits /\ e.file = f /\ e.sync # None /\ e.rem \in Nat
      /\ waits \in Seq(Waits) /\ file \in [Files -> FileType]
  BY Finite DEF EventOK, SyncTypes, Waits
<1>2. /\ file[f] \in [proc : Procs \union {None}, space : Nat, list : Seq(Nat)]
      /\ file[f].space >= 1 /\ file[f].space - 1 \in Nat
      /\ file[f].list \in Seq(Nat) /\ Len(file[f].list) \in Nat
  BY <1>1, LenProperties DEF FileType, pvr_sync_event_req
<1>3. /\ file[f].space + Len(file[f].list) + Cardinality(Mine(waits, f)) = EventMax
      /\ \A i \in DOMAIN file[f].list : file[f].list[i] = 0
      /\ Cardinality(Mine(waits, f)) \in Nat
  BY <1>1, ClosedIs, MineFacts DEF EventOK, FileOK
<1>4. CASE e.rem = 0
  <2> DEFINE r == [file[f] EXCEPT !.space = @ - 1, !.list = Append(@, e.rem)]
  <2>1. waits' = waits /\ file' = [file EXCEPT ![f] = r]
    BY <1>1, <1>2, <1>4 DEF pvr_sync_event_req, is_render_complete
  <2>2. /\ r \in FileType /\ r.proc = file[f].proc /\ r.space = file[f].space - 1
        /\ r.list = Append(file[f].list, e.rem)
    BY <1>1, <1>2, AppendProperties DEF FileType
  <2>3. Len(r.list) = Len(file[f].list) + 1 /\ \A i \in DOMAIN r.list : r.list[i] = 0
    <3>1. PICK l \in Seq(Nat) : l = file[f].list
      BY <1>2
    <3>2. 0 \in Nat
      OBVIOUS
    <3>3. Len(Append(l, 0)) = Len(l) + 1 /\ Append(l, 0) \in Seq(Nat)
          /\ (\A i \in 1..Len(l) : Append(l, 0)[i] = l[i]) /\ Append(l, 0)[Len(l) + 1] = 0
      BY <3>2, AppendProperties
    <3>4. DOMAIN l = 1..Len(l) /\ Len(l) \in Nat /\ DOMAIN Append(l, 0) = 1..(Len(l) + 1)
      BY <3>3, LenProperties
    <3>5. ASSUME NEW i \in 1..(Len(l) + 1) PROVE Append(l, 0)[i] = 0
      <4>1. CASE i \in 1..Len(l)
        BY <1>3, <3>1, <3>3, <3>4, <4>1
      <4>2. CASE i = Len(l) + 1
        BY <3>3, <4>2
      <4> QED BY <3>4, <4>1, <4>2
    <3> QED BY <1>4, <2>2, <3>1, <3>3, <3>4, <3>5
  <2> HIDE DEF r, e
  <2>4. FileOK(r, Cardinality(Mine(waits, f)))
    <3>1. r.proc # None /\ r # Closed
      BY <2>2, ClosedIs
    <3>2. r.space + Len(r.list) + Cardinality(Mine(waits, f)) = EventMax
      BY <1>2, <1>3, <2>2, <2>3
    <3> QED BY <2>2, <2>3, <3>1, <3>2 DEF FileOK
  <2>5. /\ file' \in [Files -> FileType] /\ file'[f] = r
        /\ \A g \in Files : g # f => file'[g] = file[g]
    BY <1>1, <2>1, <2>2
  <2> QED BY <2>1, <2>4, <2>5 DEF EventOK
<1>5. CASE e.rem # 0
  <2> DEFINE r == [file[f] EXCEPT !.space = @ - 1]
  <2>1. waits' = Append(waits, e) /\ file' = [file EXCEPT ![f] = r]
    BY <1>1, <1>2, <1>5 DEF pvr_sync_event_req, is_render_complete
  <2>2. /\ r \in FileType /\ r.proc = file[f].proc /\ r.space = file[f].space - 1
        /\ r.list = file[f].list
    BY <1>1, <1>2 DEF FileType
  <2> HIDE DEF r, e
  <2>3. /\ waits' \in Seq(Waits) /\ Len(waits') = Len(waits) + 1
        /\ (\A i \in 1..Len(waits) : waits'[i] = waits[i]) /\ waits'[Len(waits) + 1] = e
    BY <1>1, <2>1, AppendProperties
  <2>4. /\ DOMAIN waits = 1..Len(waits) /\ Len(waits) \in Nat
        /\ DOMAIN waits' = 1..(Len(waits) + 1)
    BY <1>1, <2>3, LenProperties
  <2>5. \A i \in DOMAIN waits' : waits'[i].sync = None => waits'[i].rem = 0
    <3> TAKE i \in DOMAIN waits'
    <3>1. CASE i \in 1..Len(waits)
      BY <2>3, <2>4, <3>1 DEF EventOK
    <3>2. CASE i = Len(waits) + 1
      BY <1>1, <2>3, <3>2
    <3> QED BY <2>4, <3>1, <3>2
  <2>6. \A g \in Files : g # f => Mine(waits', g) = Mine(waits, g)
    BY <1>1, <2>3, <2>4 DEF Mine
  <2>7. Cardinality(Mine(waits', f)) = Cardinality(Mine(waits, f)) + 1
    <3>1. Mine(waits', f) = Mine(waits, f) \cup {Len(waits) + 1} /\ Len(waits) + 1 \notin Mine(waits, f)
      BY <1>1, <2>3, <2>4 DEF Mine
    <3>2. IsFiniteSet(Mine(waits, f))
      BY <1>1, MineFacts
    <3>3. Cardinality(Mine(waits, f) \cup {Len(waits) + 1}) = Cardinality(Mine(waits, f)) + 1
      BY <3>1, <3>2, FS_AddElement
    <3> QED BY <3>1, <3>3
  <2>8. FileOK(r, Cardinality(Mine(waits', f)))
    <3>1. r.proc # None /\ r # Closed
      BY <2>2, ClosedIs
    <3>2. r.space + Len(r.list) + Cardinality(Mine(waits', f)) = EventMax
      <4>1. /\ file[f].space \in Int /\ Len(file[f].list) \in Int
            /\ Cardinality(Mine(waits, f)) \in Int
        BY <1>2, <1>3
      <4>2. (file[f].space - 1) + Len(file[f].list) + (Cardinality(Mine(waits, f)) + 1)
              = file[f].space + Len(file[f].list) + Cardinality(Mine(waits, f))
        BY <4>1
      <4> QED BY <1>3, <2>2, <2>7, <4>2
    <3> QED BY <1>3, <2>2, <3>1, <3>2 DEF FileOK
  <2>9. /\ file' \in [Files -> FileType] /\ file'[f] = r
        /\ \A g \in Files : g # f => file'[g] = file[g]
    BY <1>1, <2>1, <2>2
  <2>10. ASSUME NEW g \in Files PROVE FileOK(file'[g], Cardinality(Mine(waits', g)))
    <3>1. CASE g = f
      BY <2>8, <2>9, <3>1
    <3>2. CASE g # f
      BY <2>6, <2>9, <3>2 DEF EventOK
    <3> QED BY <3>1, <3>2
  <2> QED BY <2>3, <2>5, <2>9, <2>10 DEF EventOK
<1> QED BY <1>4, <1>5

(* Reading n events gives their room back.                                 *)
LEMMA ReadEvents ==
  ASSUME EventOK(file, waits), NEW f \in Files, NEW n \in Nat, pvr_read(f, n)
  PROVE  EventOK(file', waits')
<1> DEFINE r == [file[f] EXCEPT !.list = SubSeq(@, n + 1, Len(@)), !.space = @ + n]
<1>1. /\ file \in [Files -> FileType] /\ waits \in Seq(Waits)
      /\ file[f] \in [proc : Procs \union {None}, space : Nat, list : Seq(Nat)]
      /\ file[f].proc # None /\ n \in 1..Len(file[f].list)
      /\ waits' = waits
  BY DEF EventOK, FileType, pvr_read
<1>2. PICK l \in Seq(Nat) : l = file[f].list
  BY <1>1
<1>3. Len(l) \in Nat /\ DOMAIN l = 1..Len(l) /\ n <= Len(l)
  BY <1>1, <1>2, LenProperties
<1>4. /\ SubSeq(l, n + 1, Len(l)) \in Seq(Nat)
      /\ Len(SubSeq(l, n + 1, Len(l))) = Len(l) - n
      /\ \A i \in 1..(Len(l) - n) : SubSeq(l, n + 1, Len(l))[i] = l[n + i]
  <2>1. n + 1 \in 1..(Len(l) + 1) /\ Len(l) \in 0..Len(l)
    BY <1>1, <1>3
  <2>2. PICK m \in 1..(Len(l) + 1) : m = n + 1
    BY <2>1
  <2>3. /\ SubSeq(l, m, Len(l)) \in Seq(Nat)
        /\ Len(SubSeq(l, m, Len(l))) = IF m <= Len(l) THEN Len(l) - m + 1 ELSE 0
        /\ \A i \in 1..(Len(l) - m + 1) : SubSeq(l, m, Len(l))[i] = l[m + i - 1]
    BY <2>1, SubSeqProperties
  <2>4. \A i \in 1..(Len(l) - n) : m + i - 1 = n + i
    BY <2>2
  <2>5. Len(l) - m + 1 = Len(l) - n /\ (~(m <= Len(l)) => Len(l) - n = 0)
    <3>1. Len(l) \in Int /\ n \in Int /\ n <= Len(l) /\ m = n + 1
      BY <1>3, <2>2
    <3> QED BY <3>1
  <2> QED BY <2>2, <2>3, <2>4, <2>5
<1>5. file' = [file EXCEPT ![f] = r]
  BY <1>1 DEF pvr_read
<1>6. /\ r \in FileType /\ r.proc = file[f].proc /\ r.space = file[f].space + n
      /\ r.list = SubSeq(l, n + 1, Len(l))
  <2>1. r = [file[f] EXCEPT !.list = SubSeq(l, n + 1, Len(l)), !.space = @ + n]
    BY <1>1, <1>2
  <2>2. file[f].space + n \in Nat
    BY <1>1
  <2> HIDE DEF r
  <2> QED BY <1>1, <1>4, <2>1, <2>2 DEF FileType
<1> HIDE DEF r
<1>7. /\ file[f].space + Len(l) + Cardinality(Mine(waits, f)) = EventMax
      /\ \A i \in 1..Len(l) : l[i] = 0
      /\ Cardinality(Mine(waits, f)) \in Nat /\ file[f].space \in Nat
  BY <1>1, <1>2, <1>3, ClosedIs, MineFacts DEF EventOK, FileOK
<1>8. Len(r.list) = Len(l) - n /\ \A i \in DOMAIN r.list : r.list[i] = 0
  <2>1. DOMAIN SubSeq(l, n + 1, Len(l)) = 1..(Len(l) - n)
    BY <1>4, LenProperties
  <2>2. \A i \in 1..(Len(l) - n) : n + i \in 1..Len(l)
    BY <1>3
  <2> QED BY <1>4, <1>6, <1>7, <2>1, <2>2
<1>9. FileOK(r, Cardinality(Mine(waits, f)))
  <2>1. r.proc # None /\ r # Closed
    BY <1>1, <1>6, ClosedIs
  <2>2. r.space + Len(r.list) + Cardinality(Mine(waits, f)) = EventMax
    <3>1. file[f].space \in Int /\ Len(l) \in Int /\ Cardinality(Mine(waits, f)) \in Int /\ n \in Int
      BY <1>3, <1>7
    <3>2. (file[f].space + n) + (Len(l) - n) + Cardinality(Mine(waits, f))
            = file[f].space + Len(l) + Cardinality(Mine(waits, f))
      BY <3>1
    <3> QED BY <1>6, <1>7, <1>8, <3>2
  <2> QED BY <1>6, <1>8, <2>1, <2>2 DEF FileOK
<1>10. /\ file' \in [Files -> FileType] /\ file'[f] = r
       /\ \A g \in Files : g # f => file'[g] = file[g]
  BY <1>1, <1>5, <1>6
<1> QED BY <1>1, <1>9, <1>10 DEF EventOK


(* The MISR moves the completed events of each file from the list of waits *)
(* to the file's own: their room stays taken.                              *)
LEMMA DeliverEvents ==
  ASSUME EventOK(file, waits), pvr_handle_sync_events
  PROVE  EventOK(file', waits') /\ \A f \in Files : file'[f].proc = file[f].proc
<1>1. PICK stale \in SUBSET {i \in DOMAIN waits : waits[i].sync = None} :
        LET Done(i) == IF waits[i].sync = None THEN i \in stale ELSE is_render_complete(waits[i])
            left == {i \in DOMAIN waits : ~Done(i)}
            Of(f) == Entries(waits, {i \in DOMAIN waits \ left : waits[i].file = f})
        IN  /\ waits' = Entries(waits, left)
            /\ file' = [f \in Files |-> [file[f] EXCEPT !.list =
                          @ \o [n \in DOMAIN Of(f) |-> Of(f)[n].rem]]]
  BY Zenon DEF pvr_handle_sync_events
<1> DEFINE Done(i) == IF waits[i].sync = None THEN i \in stale ELSE is_render_complete(waits[i])
           left == {i \in DOMAIN waits : ~Done(i)}
           Gone(f) == {i \in DOMAIN waits \ left : waits[i].file = f}
           Of(f) == Entries(waits, Gone(f))
           rems(f) == [n \in DOMAIN Of(f) |-> Of(f)[n].rem]
<1>2. /\ waits' = Entries(waits, left)
      /\ file' = [f \in Files |-> [file[f] EXCEPT !.list = @ \o rems(f)]]
  BY <1>1, Zenon
<1>3. /\ waits \in Seq(Waits) /\ file \in [Files -> FileType]
      /\ \A i \in DOMAIN waits : waits[i].sync = None => waits[i].rem = 0
      /\ \A f \in Files : FileOK(file[f], Cardinality(Mine(waits, f)))
  BY DEF EventOK
<1>4. left \in SUBSET DOMAIN waits /\ \A f \in Files : Gone(f) \in SUBSET DOMAIN waits
  OBVIOUS
<1>5. \A i \in DOMAIN waits \ left : waits[i].rem = 0
  BY <1>3 DEF is_render_complete
<1>6. ASSUME NEW f \in Files
      PROVE  /\ rems(f) \in Seq(Nat) /\ Len(rems(f)) = Cardinality(Gone(f))
             /\ \A k \in DOMAIN rems(f) : rems(f)[k] = 0
             /\ Cardinality(Gone(f)) \in Nat
  <2>1. /\ Of(f) \in Seq(Waits) /\ Len(Of(f)) = Cardinality(Gone(f))
        /\ \A k \in DOMAIN Of(f) : \E i \in Gone(f) : Of(f)[k] = waits[i]
        /\ Cardinality(Gone(f)) \in Nat
    <3> HIDE DEF Gone
    <3> QED BY <1>3, <1>4, EntriesFacts
  <2>2. \A k \in DOMAIN Of(f) : Of(f)[k].rem = 0
    BY <1>5, <2>1
  <2> HIDE DEF Of
  <2>3. DOMAIN Of(f) = 1..Len(Of(f)) /\ Len(Of(f)) \in Nat
    BY <2>1, LenProperties
  <2>4. rems(f) \in [1..Len(Of(f)) -> Nat] /\ \A k \in DOMAIN rems(f) : rems(f)[k] = 0
    BY <2>2, <2>3
  <2> HIDE DEF rems
  <2>5. rems(f) \in Seq(Nat)
    BY <2>3, <2>4
  <2>6. Len(rems(f)) = Len(Of(f))
    <3>1. DOMAIN rems(f) = 1..Len(rems(f)) /\ Len(rems(f)) \in Nat /\ DOMAIN rems(f) = 1..Len(Of(f))
      BY <2>4, <2>5, LenProperties
    <3>2. PICK m \in Nat : m = Len(rems(f))
      BY <3>1
    <3>3. PICK n \in Nat : n = Len(Of(f))
      BY <2>3
    <3>4. 1..m = 1..n
      BY <3>1, <3>2, <3>3
    <3>5. m = n
      BY <3>4
    <3> QED BY <3>2, <3>3, <3>5
  <2> QED BY <2>1, <2>4, <2>5, <2>6
<1>7. /\ waits' \in Seq(Waits)
      /\ \A k \in DOMAIN waits' : \E i \in left : waits'[k] = waits[i]
      /\ \A f \in Files : Cardinality(Mine(waits', f)) = Cardinality({i \in left : waits[i].file = f})
  <2> HIDE DEF left
  <2> DEFINE ws == Entries(waits, left)
  <2>1. /\ ws \in Seq(Waits)
        /\ \A k \in DOMAIN ws : \E i \in left : ws[k] = waits[i]
        /\ \A f \in Files : Cardinality({k \in DOMAIN ws : ws[k].file = f})
                              = Cardinality({i \in left : waits[i].file = f})
    BY <1>3, <1>4, EntriesFacts
  <2>2. waits' = ws
    BY <1>2
  <2> HIDE DEF ws
  <2>3. \A f \in Files : Cardinality(Mine(ws, f)) = Cardinality({i \in left : waits[i].file = f})
    BY <2>1 DEF Mine
  <2> QED BY <2>1, <2>2, <2>3
<1>8. ASSUME NEW f \in Files
      PROVE  /\ Cardinality(Mine(waits, f)) = Cardinality(Mine(waits', f)) + Len(rems(f))
             /\ Cardinality(Mine(waits', f)) \in Nat
  <2> DEFINE A == {i \in left : waits[i].file = f}
  <2>1. Mine(waits, f) = A \cup Gone(f) /\ A \cap Gone(f) = {}
    BY DEF Mine
  <2>2. A \in SUBSET Mine(waits, f) /\ Gone(f) \in SUBSET Mine(waits, f)
    BY DEF Mine
  <2>3. Cardinality(Mine(waits', f)) = Cardinality(A) /\ Len(rems(f)) = Cardinality(Gone(f))
    BY <1>6, <1>7
  <2> HIDE DEF A, Gone, left, rems
  <2>4. IsFiniteSet(A) /\ IsFiniteSet(Gone(f))
    BY <1>3, <2>2, MineFacts, FS_Subset
  <2>5. Cardinality(A \cup Gone(f)) = Cardinality(A) + Cardinality(Gone(f)) - Cardinality(A \cap Gone(f))
    BY <2>4, FS_Union
  <2>6. Cardinality(A) \in Nat /\ Cardinality(Gone(f)) \in Nat /\ Cardinality({}) = 0
    BY <2>4, FS_CardinalityType, FS_EmptySet
  <2>7. Cardinality(A \cup Gone(f)) = Cardinality(A) + Cardinality(Gone(f))
    <3>1. Cardinality(A) + Cardinality(Gone(f)) - 0 = Cardinality(A) + Cardinality(Gone(f))
      BY <2>6
    <3> QED BY <2>1, <2>5, <2>6, <3>1
  <2> QED BY <2>1, <2>3, <2>6, <2>7
<1> HIDE DEF left, Gone, Of, rems, Done
<1>9. ASSUME NEW f \in Files
      PROVE  /\ file'[f] \in FileType /\ file'[f].proc = file[f].proc
             /\ FileOK(file'[f], Cardinality(Mine(waits', f)))
  <2>1. PICK l \in Seq(Nat) : l = file[f].list
    BY <1>3 DEF FileType
  <2>2. file[f] \in [proc : Procs \union {None}, space : Nat, list : Seq(Nat)]
    BY <1>3 DEF FileType
  <2>3. /\ l \o rems(f) \in Seq(Nat) /\ Len(l \o rems(f)) = Len(l) + Len(rems(f))
        /\ \A i \in 1..(Len(l) + Len(rems(f))) :
             (l \o rems(f))[i] = IF i <= Len(l) THEN l[i] ELSE rems(f)[i - Len(l)]
    BY <1>6, ConcatProperties
  <2>4. file'[f] = [file[f] EXCEPT !.list = l \o rems(f)]
    BY <1>2, <2>1
  <2>5. /\ file'[f] \in FileType /\ file'[f].proc = file[f].proc
        /\ file'[f].space = file[f].space /\ file'[f].list = l \o rems(f)
    BY <2>2, <2>3, <2>4 DEF FileType
  <2>6. /\ Len(l) \in Nat /\ DOMAIN l = 1..Len(l)
        /\ Len(rems(f)) \in Nat /\ DOMAIN rems(f) = 1..Len(rems(f))
        /\ DOMAIN (l \o rems(f)) = 1..(Len(l) + Len(rems(f)))
    BY <1>6, <2>3, LenProperties
  <2>7. \A i \in DOMAIN l : l[i] = 0
    BY <1>3, <2>1 DEF FileOK
  <2>8. \A i \in DOMAIN file'[f].list : file'[f].list[i] = 0
    <3>1. ASSUME NEW i \in 1..(Len(l) + Len(rems(f))) PROVE (l \o rems(f))[i] = 0
      <4>1. CASE i <= Len(l)
        <5>1. i \in 1..Len(l) /\ (l \o rems(f))[i] = l[i]
          BY <2>3, <2>6, <4>1
        <5> QED BY <2>6, <2>7, <5>1
      <4>2. CASE ~(i <= Len(l))
        <5>1. i - Len(l) \in 1..Len(rems(f)) /\ (l \o rems(f))[i] = rems(f)[i - Len(l)]
          BY <2>3, <2>6, <4>2
        <5> QED BY <1>6, <2>6, <5>1
      <4> QED BY <4>1, <4>2
    <3> QED BY <2>5, <2>6, <3>1
  <2>9. CASE file[f] = Closed
    <3>1. Cardinality(Mine(waits, f)) = 0
      BY <1>3, <2>9 DEF FileOK
    <3>2. Cardinality(Mine(waits', f)) = 0 /\ Len(rems(f)) = 0
      BY <1>8, <2>6, <3>1
    <3>3. rems(f) = <<>> /\ l = <<>>
      BY <1>6, <2>1, <2>9, <3>2, ClosedIs, EmptySeq
    <3>4. l \o rems(f) = <<>>
      BY <3>3
    <3>5. file'[f] = Closed
      BY <2>4, <2>9, <3>4 DEF Closed
    <3> QED BY <2>5, <2>8, <3>2, <3>5 DEF FileOK
  <2>10. CASE file[f] # Closed
    <3>1. file[f].proc # None
      BY <1>3, <2>10 DEF FileOK
    <3>2. file[f].space + Len(l) + Cardinality(Mine(waits, f)) = EventMax
      BY <1>3, <2>1, <2>10 DEF FileOK
    <3>3. file'[f].proc # None /\ file'[f] # Closed
      BY <2>5, <3>1, ClosedIs
    <3>4. file'[f].space + Len(file'[f].list) + Cardinality(Mine(waits', f)) = EventMax
      <4>1. file[f].space \in Int /\ Len(l) \in Int /\ Len(rems(f)) \in Int
            /\ Cardinality(Mine(waits', f)) \in Int
        BY <1>8, <2>2, <2>6
      <4>2. file[f].space + (Len(l) + Len(rems(f))) + Cardinality(Mine(waits', f))
              = file[f].space + Len(l) + (Cardinality(Mine(waits', f)) + Len(rems(f)))
        BY <4>1
      <4> QED BY <1>8, <2>3, <2>5, <3>2, <4>2
    <3> QED BY <2>5, <2>8, <3>3, <3>4 DEF FileOK
  <2> QED BY <2>5, <2>9, <2>10
<1>10. \A k \in DOMAIN waits' : waits'[k].sync = None => waits'[k].rem = 0
  BY <1>3, <1>4, <1>7
<1>11. file' \in [Files -> FileType]
  <2>1. DOMAIN file' = Files /\ file' = [f \in Files |-> file'[f]]
    BY <1>2
  <2> QED BY <1>9, <2>1
<1> QED BY <1>7, <1>9, <1>10, <1>11 DEF EventOK


-----------------------------------------------------------------------------
(***************************************************************************)
(* The sleepers, and the invariant.                                        *)
(***************************************************************************)

EventRecord == [open : BOOLEAN, new : BOOLEAN, wait : {"no", "asleep", "woken"}]

(* One process's event object: no signal is unseen while it sleeps.        *)
SleepOK(r) == r \in EventRecord /\ (r.open /\ r.wait = "asleep" => ~r.new)

LEMMA SleepIs ==
  /\ SleepPart <=> evo \in [Procs -> EventRecord] /\ \A p \in Procs : SleepOK(evo[p])
  /\ evo' \in [Procs -> EventRecord] /\ (\A p \in Procs : SleepOK(evo'[p])) => SleepPart'
BY DEF SleepPart, SleepTypes, SignalsSeen, SleepOK, EventRecord

(* A step that changes the event object of one process.                    *)
LEMMA SleepStep ==
  ASSUME SleepPart, NEW p \in Procs, NEW r, SleepOK(r), evo' = [evo EXCEPT ![p] = r]
  PROVE  SleepPart'
<1>1. evo \in [Procs -> EventRecord] /\ (\A q \in Procs : SleepOK(evo[q])) /\ r \in EventRecord
  BY SleepIs DEF SleepOK
<1>2. /\ evo' \in [Procs -> EventRecord] /\ evo'[p] = r
      /\ \A q \in Procs : q # p => evo'[q] = evo[q]
  BY <1>1
<1>3. \A q \in Procs : SleepOK(evo'[q])
  BY <1>1, <1>2
<1> QED BY <1>2, <1>3, SleepIs

(* The MISR signals every open object and wakes who sleeps on it.          *)
LEMMA SignalSleep ==
  ASSUME SleepPart, LinuxEventObjectSignal
  PROVE  SleepPart'
<1>1. evo \in [Procs -> EventRecord] /\ \A q \in Procs : SleepOK(evo[q])
  BY SleepIs
<1>2. ASSUME NEW p \in Procs PROVE SleepOK(evo'[p])
  <2>1. evo'[p] = IF evo[p].open
                  THEN [evo[p] EXCEPT !.new = TRUE, !.wait = IF @ = "asleep" THEN "woken" ELSE @]
                  ELSE evo[p]
    BY DEF LinuxEventObjectSignal
  <2>2. PICK r \in EventRecord : r = evo[p]
    BY <1>1
  <2> DEFINE w == IF r.wait = "asleep" THEN "woken" ELSE r.wait
  <2>3. w \in {"no", "asleep", "woken"} /\ w # "asleep"
    BY <2>2 DEF EventRecord
  <2>4. CASE r.open
    <3>1. evo'[p] = [r EXCEPT !.new = TRUE, !.wait = w]
      BY <2>1, <2>2, <2>4
    <3> HIDE DEF w
    <3>2. evo'[p] \in EventRecord /\ evo'[p].wait = w
      BY <2>2, <2>3, <3>1 DEF EventRecord
    <3> QED BY <2>3, <3>2 DEF SleepOK
  <2>5. CASE ~r.open
    BY <1>1, <2>1, <2>2, <2>5
  <2> QED BY <2>4, <2>5
<1>3. evo' \in [Procs -> EventRecord]
  <2>1. DOMAIN evo' = Procs /\ evo' = [p \in Procs |-> evo'[p]]
    BY DEF LinuxEventObjectSignal
  <2> QED BY <1>2, <2>1 DEF SleepOK
<1> QED BY <1>2, <1>3, SleepIs

(* The calls on the event object (event.c).                                *)
LEMMA SleepCallsStep ==
  ASSUME SleepPart, NEW p \in Procs, SleepCalls(p)
  PROVE  SleepPart' /\ UNCHANGED <<file, per, stub, owner, sync, waits>>
<1>1. evo \in [Procs -> EventRecord] /\ \A q \in Procs : SleepOK(evo[q])
  BY SleepIs
<1>2. PICK r \in EventRecord : r = evo[p]
  BY <1>1
<1>3. SleepOK(r)
  BY <1>1, <1>2
<1>4. CASE OSEventObjectOpen(p)
  <2>1. r = NoEvent /\ evo' = [evo EXCEPT ![p] = [r EXCEPT !.open = TRUE]]
        /\ UNCHANGED <<file, per, stub, owner, sync, waits>>
    BY <1>1, <1>2, <1>4 DEF OSEventObjectOpen
  <2>2. SleepOK([r EXCEPT !.open = TRUE])
    <3> DEFINE c == [r EXCEPT !.open = TRUE]
    <3>1. r.wait = "no"
      BY <2>1 DEF NoEvent
    <3>2. c \in EventRecord /\ c.wait = r.wait
      BY <1>2 DEF EventRecord
    <3> HIDE DEF c
    <3>3. SleepOK(c)
      BY <3>1, <3>2 DEF SleepOK
    <3> QED BY <3>3 DEF c
  <2> QED BY <2>1, <2>2, SleepStep
<1>5. CASE OSEventObjectClose(p)
  <2> DEFINE c == [open |-> FALSE, new |-> FALSE, wait |-> r.wait]
  <2>1. evo' = [evo EXCEPT ![p] = c] /\ UNCHANGED <<file, per, stub, owner, sync, waits>>
    BY <1>1, <1>2, <1>5 DEF OSEventObjectClose
  <2>2. SleepOK(c)
    BY <1>2 DEF SleepOK, EventRecord
  <2> HIDE DEF c
  <2> QED BY <2>1, <2>2, SleepStep
<1>6. CASE OSEventObjectWait(p)
  <2> DEFINE c == IF r.new THEN [r EXCEPT !.new = FALSE] ELSE [r EXCEPT !.wait = "asleep"]
  <2>1. /\ evo' = [evo EXCEPT ![p] = c] /\ UNCHANGED <<file, per, stub, owner, sync, waits>>
        /\ r.wait = "no"
    BY <1>1, <1>2, <1>6 DEF OSEventObjectWait
  <2>2. SleepOK(c)
    <3>1. CASE r.new
      BY <1>2, <2>1, <3>1 DEF SleepOK, EventRecord
    <3>2. CASE ~r.new
      BY <1>2, <3>2 DEF SleepOK, EventRecord
    <3> QED BY <3>1, <3>2
  <2> HIDE DEF c
  <2> QED BY <2>1, <2>2, SleepStep
<1>7. ASSUME NEW timeout \in BOOLEAN, WaitEnds(p, timeout)
      PROVE  SleepPart' /\ UNCHANGED <<file, per, stub, owner, sync, waits>>
  <2>1. CASE UNCHANGED clients
    BY <2>1 DEF clients, SleepPart, SleepTypes, SignalsSeen
  <2>2. CASE ~UNCHANGED clients
    <3> DEFINE c == [r EXCEPT !.wait = "no", !.new = IF timeout THEN @ ELSE FALSE]
    <3>1. evo' = [evo EXCEPT ![p] = c] /\ UNCHANGED <<file, per, stub, owner, sync, waits>>
      BY <1>1, <1>2, <1>7, <2>2 DEF WaitEnds
    <3>2. c \in EventRecord /\ c.wait = "no"
      BY <1>2 DEF EventRecord
    <3>3. SleepOK(c)
      BY <3>2 DEF SleepOK
    <3> HIDE DEF c
    <3> QED BY <3>1, <3>3, SleepStep
  <2> QED BY <2>1, <2>2
<1> QED BY <1>4, <1>5, <1>6, <1>7 DEF SleepCalls


(* The start and the stop of the driver leave the clients alone.           *)
LEMMA UnchangedStep ==
  ASSUME SInv, UNCHANGED clients
  PROVE  SInv'
<1>1. /\ file' = file /\ per' = per /\ stub' = stub /\ owner' = owner /\ sync' = sync
      /\ waits' = waits /\ evo' = evo
  BY DEF clients
<1>2. EventOK(file, waits) /\ SyncTypes /\ PBPart /\ SleepPart
  BY EventIs DEF SInv
<1>3. FileTypes' /\ EventPart'
  BY <1>1, <1>2, EventIsNext
<1>4. PBPart'
  BY <1>1, <1>2, PBKeep
<1>5. SyncTypes' /\ SleepPart'
  BY <1>1, <1>2 DEF SyncTypes, SleepPart, SleepTypes, SignalsSeen
<1> QED BY <1>3, <1>4, <1>5 DEF SInv

LEMMA SyncKeep ==
  ASSUME SyncTypes, NEW s \in Syncs, NEW r \in [proc : Procs \union {None}, out : Nat],
         sync' = [sync EXCEPT ![s] = r]
  PROVE  SyncTypes'
BY DEF SyncTypes

(* The calls about sync infos and events, whatever process makes them.     *)
LEMMA EventCallsStep ==
  ASSUME SInv, NEW p \in Procs, EventCalls(p)
  PROVE  SInv'
<1>1. EventOK(file, waits) /\ SyncTypes /\ PBPart /\ SleepPart /\ SInv
  BY EventIs DEF SInv
<1>2. ASSUME EventOK(file', waits'), SyncTypes', per' = per, stub' = stub, owner' = owner, evo' = evo,
             \A f \in Files : file'[f].proc = file[f].proc
      PROVE  SInv'
  <2>1. FileTypes' /\ EventPart'
    BY <1>2, EventIsNext
  <2>2. PBPart'
    BY <1>1, <1>2, PBKeep
  <2>3. SleepPart'
    BY <1>1, <1>2 DEF SleepPart, SleepTypes, SignalsSeen
  <2> QED BY <1>2, <2>1, <2>2, <2>3 DEF SInv
<1>3. ASSUME NEW s \in Syncs PROVE sync[s] \in [proc : Procs \union {None}, out : Nat]
  BY <1>1 DEF SyncTypes
<1>4. /\ file \in [Files -> FileType]
      /\ \A f \in Files : file[f] \in [proc : Procs \union {None}, space : Nat, list : Seq(Nat)]
  BY <1>1 DEF EventOK, FileType
<1>5. ASSUME NEW s \in Syncs, AllocSyncInfo(p, s) PROVE SInv'
  <2>1. sync' = [sync EXCEPT ![s] = [sync[s] EXCEPT !.proc = p]] /\ UNCHANGED <<file, per, stub, owner, waits, evo>>
    BY <1>1, <1>5 DEF AllocSyncInfo, SyncTypes
  <2>2. SyncTypes'
    BY <1>1, <1>3, <2>1, SyncKeep
  <2> QED BY <1>1, <1>2, <2>1, <2>2
<1>6. ASSUME NEW s \in Syncs, FreeSyncInfo(p, s) PROVE SInv'
  <2>1. /\ sync' = [sync EXCEPT ![s] = NoSync] /\ waits' = Stale(waits, {s})
        /\ UNCHANGED <<file, per, stub, owner, evo>>
    BY <1>6 DEF FreeSyncInfo
  <2>2. NoSync \in [proc : Procs \union {None}, out : Nat]
    BY DEF NoSync
  <2>3. SyncTypes'
    BY <1>1, <2>1, <2>2, SyncKeep
  <2>4. EventOK(file', waits')
    BY <1>1, <2>1, StaleFacts DEF EventOK
  <2> QED BY <1>2, <2>1, <2>3, <2>4
<1>7. ASSUME NEW s \in Syncs, WriteOpPending(p, s) PROVE SInv'
  <2>1. sync' = [sync EXCEPT ![s] = [sync[s] EXCEPT !.out = @ + 1]] /\ UNCHANGED <<file, per, stub, owner, waits, evo>>
    BY <1>1, <1>7 DEF WriteOpPending, SyncTypes
  <2>2. SyncTypes'
    <3>1. sync[s].out + 1 \in Nat
      BY <1>3
    <3>2. [sync[s] EXCEPT !.out = @ + 1] \in [proc : Procs \union {None}, out : Nat]
      BY <1>3, <3>1
    <3> QED BY <1>1, <2>1, <3>2, SyncKeep
  <2> QED BY <1>1, <1>2, <2>1, <2>2
<1>8. ASSUME NEW s \in Syncs, WriteOpComplete(s) PROVE SInv'
  <2>1. /\ sync' = [sync EXCEPT ![s] = [sync[s] EXCEPT !.out = @ - 1]] /\ sync[s].out > 0
        /\ UNCHANGED <<file, per, stub, owner, evo>>
    BY <1>1, <1>8 DEF WriteOpComplete, SyncTypes
  <2>2. SyncTypes'
    <3>1. sync[s].out - 1 \in Nat
      BY <1>3, <2>1
    <3>2. [sync[s] EXCEPT !.out = @ - 1] \in [proc : Procs \union {None}, out : Nat]
      BY <1>3, <3>1
    <3> QED BY <1>1, <2>1, <3>2, SyncKeep
  <2>3. EventOK(file', waits')
    BY <1>1, <1>8, CompleteEvents
  <2> QED BY <1>2, <2>1, <2>2, <2>3
<1>9. ASSUME NEW s \in Syncs, NEW f \in Files, SGX2DQueryBlitsComplete(f, s) PROVE SInv'
  <2>1. /\ file[f].proc # None /\ pvr_sync_event_req(f, s) /\ UNCHANGED <<per, stub, owner, sync, evo>>
    BY <1>9 DEF SGX2DQueryBlitsComplete
  <2>2. EventOK(file', waits')
    BY <1>1, <2>1, RequestEvents
  <2>3. \A g \in Files : file'[g].proc = file[g].proc
    <3> DEFINE e == [file |-> f, sync |-> s, rem |-> sync[s].out]
    <3>1. \/ file' = [file EXCEPT ![f].space = @ - 1, ![f].list = Append(@, e.rem)]
          \/ file' = [file EXCEPT ![f].space = @ - 1]
      BY <2>1 DEF pvr_sync_event_req
    <3> HIDE DEF e
    <3>2. CASE file' = [file EXCEPT ![f].space = @ - 1, ![f].list = Append(@, e.rem)]
      BY <1>4, <3>2
    <3>3. CASE file' = [file EXCEPT ![f].space = @ - 1]
      BY <1>4, <3>3
    <3> QED BY <3>1, <3>2, <3>3
  <2>4. SyncTypes'
    BY <1>1, <2>1 DEF SyncTypes
  <2> QED BY <1>2, <2>1, <2>2, <2>3, <2>4
<1>10. ASSUME NEW f \in Files, NEW n \in Nat, pvr_read(f, n) PROVE SInv'
  <2>1. EventOK(file', waits')
    BY <1>1, <1>10, ReadEvents
  <2>2. UNCHANGED <<per, stub, owner, sync, evo>>
        /\ file' = [file EXCEPT ![f] = [file[f] EXCEPT !.list = SubSeq(@, n + 1, Len(@)), !.space = @ + n]]
    BY <1>4, <1>10 DEF pvr_read
  <2>3. \A g \in Files : file'[g].proc = file[g].proc
    BY <1>4, <2>2
  <2>4. SyncTypes'
    BY <1>1, <2>2 DEF SyncTypes
  <2> QED BY <1>2, <2>1, <2>2, <2>3, <2>4
<1>11. 1..EventMax \subseteq Nat
  BY ServicesAssumption
<1> QED BY <1>5, <1>6, <1>7, <1>8, <1>9, <1>10, <1>11 DEF EventCalls, SyncCalls

(* Closing a file, for all parts.                                          *)
LEMMA ReleaseStep ==
  ASSUME SInv, NEW f \in Files, pvr_release(f)
  PROVE  SInv'
<1>1. /\ EventOK(file, waits) /\ FileTypes /\ SyncTypes /\ PBPart /\ EventPart /\ SleepPart
      /\ evo \in [Procs -> EventRecord]
  BY EventIs, SleepIs DEF SInv
<1>2. CASE UNCHANGED clients
  BY <1>2, UnchangedStep
<1>3. CASE ~UNCHANGED clients
  <2>1. PBPart'
    BY <1>1, ReleasePB
  <2>2. PICK p \in Procs : p = file[f].proc
    BY <1>1 DEF pvr_release, FileTypes
  <2>3. /\ file' = [file EXCEPT ![f] = Closed]
        /\ \/ Disconnect(p, NotOf(f))
           \/ waits' = NotOf(f) /\ UNCHANGED <<sync, evo>>
    BY <1>3, <2>2 DEF pvr_release
  <2>4. CASE Disconnect(p, NotOf(f))
    <3> DEFINE gone == {s \in Syncs : sync[s].proc = p}
    <3>1. /\ waits' = Stale(NotOf(f), gone) /\ evo' = [evo EXCEPT ![p] = NoEvent]
          /\ sync' = [s \in Syncs |-> IF sync[s].proc = p THEN NoSync ELSE sync[s]]
      BY <2>4 DEF Disconnect
    <3>2. SyncTypes'
      BY <1>1, <3>1 DEF SyncTypes, NoSync
    <3>3. SleepOK(NoEvent)
      BY DEF SleepOK, EventRecord, NoEvent
    <3>4. SleepPart'
      BY <1>1, <3>1, <3>3, SleepStep
    <3> HIDE DEF gone
    <3>5. EventOK(file', waits')
      <4>1. PICK G : G = gone
        OBVIOUS
      <4>2. waits' = Stale(NotOf(f), G)
        BY <3>1, <4>1
      <4> QED BY <1>1, <2>3, <4>2, ReleaseEvents
    <3> QED BY <2>1, <3>2, <3>4, <3>5, EventIsNext DEF SInv
  <2>5. CASE waits' = NotOf(f) /\ UNCHANGED <<sync, evo>>
    <3>1. SyncTypes' /\ SleepPart'
      BY <1>1, <2>5 DEF SyncTypes, SleepPart, SleepTypes, SignalsSeen
    <3>2. EventOK(file', waits')
      BY <1>1, <2>3, <2>5, ReleaseEvents
    <3> QED BY <2>1, <3>1, <3>2, EventIsNext DEF SInv
  <2> QED BY <2>3, <2>4, <2>5
<1> QED BY <1>2, <1>3


LEMMA InitSInv == Init => SInv
<1>1. SUFFICES ASSUME Init PROVE SInv
  OBVIOUS
<1>2. /\ file = [f \in Files |-> Closed] /\ per = [p \in Procs |-> NoProcess] /\ stub = 0
      /\ owner = None /\ sync = [s \in Syncs |-> NoSync] /\ waits = <<>>
      /\ evo = [p \in Procs |-> NoEvent]
  BY <1>1 DEF Init
<1>3. EventOK(file, waits)
  <2>1. FileOK(Closed, 0)
    BY ClosedIs DEF FileOK, FileType, Closed
  <2>2. waits \in Seq(Waits) /\ DOMAIN waits = {}
    BY <1>2, EmptySeq
  <2>3. \A f \in Files : Cardinality(Mine(waits, f)) = 0
    BY <2>2, FS_EmptySet DEF Mine
  <2>4. file \in [Files -> FileType]
    BY <1>2, <2>1 DEF FileOK
  <2> QED BY <1>2, <2>1, <2>2, <2>3, <2>4 DEF EventOK
<1>4. SyncTypes /\ SleepPart
  BY <1>2 DEF SyncTypes, NoSync, SleepPart, SleepTypes, SignalsSeen, NoEvent
<1>5. PBPart
  <2>1. \A p \in Procs : /\ per[p].ref = 0 /\ per[p].items = 0 /\ per[p].hnd = 0
    BY <1>2 DEF NoProcess
  <2>2. PBTypes
    BY <1>2 DEF PBTypes, NoProcess
  <2>3. Connected
    <3>1. ASSUME NEW p \in Procs PROVE FilesOf(p) = {}
      BY <1>2, ClosedIs, Finite DEF FilesOf
    <3> QED BY <2>1, <3>1, FS_EmptySet DEF Connected
  <2>4. Total(per, Procs) = 0
    BY <2>1, Finite, TotalZero
  <2>5. PBExact
    BY <1>2, <2>1, <2>4, PBExactIs
  <2> QED BY <2>2, <2>3, <2>5 DEF PBPart
<1> QED BY <1>3, <1>4, <1>5, EventIs DEF SInv

LEMMA NextSInv == SInv /\ [Next]_vars => SInv'
<1>1. SUFFICES ASSUME SInv, [Next]_vars PROVE SInv'
  OBVIOUS
<1>2. EventOK(file, waits) /\ FileTypes /\ SyncTypes /\ PBPart /\ EventPart /\ SleepPart
  BY <1>1, EventIs DEF SInv
<1>3. CASE UNCHANGED clients
  BY <1>1, <1>3, UnchangedStep
<1>4. CASE UNCHANGED vars
  BY <1>3, <1>4 DEF vars, clients
<1>5. CASE PVRSRVMISR
  <2>1. LinuxEventObjectSignal /\ pvr_handle_sync_events /\ UNCHANGED <<per, stub, owner, sync>>
    BY <1>5 DEF PVRSRVMISR
  <2>2. EventOK(file', waits') /\ \A f \in Files : file'[f].proc = file[f].proc
    BY <1>2, <2>1, DeliverEvents
  <2>3. SyncTypes'
    BY <1>2, <2>1 DEF SyncTypes
  <2>4. PBPart'
    BY <1>2, <2>1, <2>2, PBKeep
  <2>5. SleepPart'
    BY <1>2, <2>1, SignalSleep
  <2> QED BY <2>2, <2>3, <2>4, <2>5, EventIsNext DEF SInv
<1>6. CASE Client
  <2>1. ASSUME NEW p \in Procs, NEW f \in Files, NEW b \in BOOLEAN, pvr_open(f, p, b) PROVE SInv'
    <3>1. UNCHANGED <<sync, evo>>
      BY <2>1 DEF pvr_open
    <3>2. SyncTypes' /\ SleepPart'
      BY <1>2, <3>1 DEF SyncTypes, SleepPart, SleepTypes, SignalsSeen
    <3>3. EventOK(file', waits') /\ PBPart'
      BY <1>2, <2>1, OpenEvents, OpenPB
    <3> QED BY <3>2, <3>3, EventIsNext DEF SInv
  <2>2. ASSUME NEW p \in Procs, PBCalls(p) PROVE SInv'
    <3>1. PBPart' /\ file' = file /\ sync' = sync /\ waits' = waits /\ evo' = evo
      BY <1>2, <2>2, PBCallsStep
    <3>2. SyncTypes' /\ SleepPart'
      BY <1>2, <3>1 DEF SyncTypes, SleepPart, SleepTypes, SignalsSeen
    <3>3. EventOK(file', waits')
      BY <1>2, <3>1
    <3> QED BY <3>1, <3>2, <3>3, EventIsNext DEF SInv
  <2>3. ASSUME NEW p \in Procs, SleepCalls(p) PROVE SInv'
    <3>1. /\ SleepPart' /\ file' = file /\ per' = per /\ stub' = stub /\ owner' = owner
          /\ sync' = sync /\ waits' = waits
      BY <1>2, <2>3, SleepCallsStep
    <3>2. SyncTypes' /\ EventOK(file', waits')
      BY <1>2, <3>1 DEF SyncTypes
    <3>3. PBPart'
      BY <1>2, <3>1, PBKeep
    <3> QED BY <3>1, <3>2, <3>3, EventIsNext DEF SInv
  <2> QED BY <1>1, <1>6, <2>1, <2>2, <2>3, EventCallsStep, ReleaseStep DEF Client
<1> QED BY <1>1, <1>3, <1>4, <1>5, <1>6 DEF Next

(* Everything below holds in every reachable state, for every number of    *)
(* processes, files and sync infos: the state of the calls of pb.c,        *)
(* pvr_events.c, event.c and perproc.c is typed and its parts agree.       *)
THEOREM Invariance == Spec => []SInv
<1>1. SInv /\ [Next]_vars => SInv'
  BY NextSInv
<1> QED BY <1>1, InitSInv, PTL DEF Spec

(* PBExact (pb.c): the shared parameter buffer's count is the sum of the   *)
(* references its processes hold, whichever of them ask for it, give it    *)
(* back or end, and nobody waits for a lock to create one that a process   *)
(* has taken with it.                                                      *)
THEOREM KeepsSharedBuffer == Spec => []PBExact
<1>1. SInv => PBExact
  BY DEF SInv, PBPart
<1> QED BY <1>1, Invariance, PTL

(* EventsExact (pvr_events.c, event.c): the room a file has for events,    *)
(* free, waiting and unread, adds up to its limit however requests,        *)
(* completions, the MISR, reads and closes interleave; no event is         *)
(* delivered before its render is complete; and no process sleeps on a     *)
(* signal it has not seen.                                                 *)
THEOREM KeepsEvents == Spec => []EventsExact
<1>1. SInv => EventsExact
  BY DEF SInv, EventPart, RoomExact, OnlyComplete, SleepPart, SignalsSeen, EventsExact
<1> QED BY <1>1, Invariance, PTL

-----------------------------------------------------------------------------
(***************************************************************************)
(* Nobody is served before the start is complete.                          *)
(***************************************************************************)

(* Where pvr_init is before the driver is up.                              *)
Starting ==
    {"load", "env", "resman", "perproc", "handles", "eventobj", "eventlist", "timerreg", "locate",
     "ocp", "devnode", "heaptable", "clocks", "sysclocks", "perfwq", "clk1", "resctx", "devinfo",
     "kernelctx", "heaps", "bifpd", "synctable", "clocksoff", "misc", "events"}

Finalising == {"f_clk", "f_misr", "f_irq", "f_end"}

(* sys is a record of three sets.                                          *)
IsSys(s) == \E h, g, d : s = [held |-> h, flags |-> g, dangling |-> d]

DriverTypes ==
    /\ IsSys(sys)
    /\ srv \in [open : BOOLEAN, running : BOOLEAN, ran : BOOLEAN, ok : BOOLEAN]

(* gbInitSuccessful is set when the start is complete, by then everything  *)
(* is held that it takes, and it is held until the stop.                   *)
Wired == SrvParts \union {"lisr", "events"} \union ({"misrwq"} \ {load.fault})

ReadyInv ==
    /\ DriverTypes
    /\ pc \in Starting => ~srv.ok
    /\ pc = "up" => "events" \in sys.held
    /\ pc \in Finalising => SrvParts \union {"events"} \subseteq sys.held
    /\ pc \in {"f_irq", "f_end"} => {"misrwq"} \ {load.fault} \subseteq sys.held
    /\ pc = "f_end" => "lisr" \in sys.held
    /\ pc = "up" /\ srv.ok => Wired \subseteq sys.held

(* A step of the start or the stop that leads neither to the finalisation  *)
(* nor up has nothing to show but types and the server's state.            *)
LEMMA ReadyStep ==
  ASSUME ReadyInv, IsSys(sys'), srv' = srv,
         pc' \notin Finalising, pc' # "up", pc' \in Starting => pc \in Starting
  PROVE  ReadyInv'
BY DEF ReadyInv, DriverTypes, Finalising

(* A step of the start goes on with the start or gives it up.              *)
LEMMA StartStep ==
  ASSUME ReadyInv, pc \in Starting, IsSys(sys'), srv' = srv,
         \/ pc' \in Starting
         \/ pc' = "s_lisr" \/ pc' = "down" \/ pc' = "failed" \/ pc' = "crash"
  PROVE  ReadyInv'
<1>1. pc' \notin Finalising /\ pc' # "up"
  BY DEF Starting, Finalising
<1> QED BY <1>1, ReadyStep

(* A step of the stop goes on with the stop or ends it.                    *)
Stopping ==
    {"s_lisr", "s_misr", "s_dev", "s_clk", "s_dinit", "s_dclk", "s_abort", "s_perf", "s_flush",
     "s_ocp", "s_env", "s_treg", "s_common", "s_end", "failed", "unload", "abandoned", "down",
     "crash"}

LEMMA StopStep ==
  ASSUME ReadyInv, IsSys(sys'), srv' = srv, pc' \in Stopping
  PROVE  ReadyInv'
<1>1. pc' \notin Finalising /\ pc' # "up" /\ pc' \notin Starting
  BY DEF Starting, Finalising, Stopping
<1> QED BY <1>1, ReadyStep

LEMMA GetForm ==
  ASSUME IsSys(sys), NEW got, NEW flag, Get(got, flag)
  PROVE  IsSys(sys') /\ sys'.held = sys.held \union got
<1>1. PICK h, g, d : sys = [held |-> h, flags |-> g, dangling |-> d]
  BY DEF IsSys
<1>2. sys' = [held |-> h \union got, flags |-> g \union flag, dangling |-> d]
  BY <1>1 DEF Get
<1> QED BY <1>1, <1>2 DEF IsSys

LEMMA FreeCommonForm ==
  ASSUME IsSys(sys)
  PROVE  IsSys(FreeCommon(sys))
<1>1. PICK h, g, d : sys = [held |-> h, flags |-> g, dangling |-> d]
  BY DEF IsSys
<1>2. PICK lost : lost = sys.held \intersect {"resman", "eventobj"}
  OBVIOUS
<1>3. FreeCommon(sys) = [sys EXCEPT !.held = @ \ Common, !.dangling = @ \union lost]
  BY <1>2 DEF FreeCommon
<1>4. FreeCommon(sys) = [held |-> h \ Common, flags |-> g, dangling |-> d \union lost]
  BY <1>1, <1>3
<1> QED BY <1>4 DEF IsSys

LEMMA StageStep ==
  ASSUME ReadyInv, NEW step \in Starting, NEW got, NEW flag,
         NEW next \in Starting, Stage(step, got, flag, next)
  PROVE  ReadyInv'
<1>1. IsSys(sys) /\ pc \in Starting /\ srv' = srv
  BY DEF ReadyInv, DriverTypes, Stage
<1>2. CASE Fails(step)
  <2>1. pc' = "s_lisr" /\ sys' = sys
    BY <1>2 DEF Stage, Deinitialise
  <2> QED BY <1>1, <2>1, StartStep
<1>3. CASE ~Fails(step)
  <2>1. pc' = next /\ Get(got, flag)
    BY <1>3 DEF Stage, Goto
  <2> QED BY <1>1, <2>1, GetForm, StartStep
<1> QED BY <1>2, <1>3

LEMMA PVRSRVInitStepReady ==
  ASSUME ReadyInv, NEW step \in Starting, NEW next \in Starting,
         PVRSRVInitStep(step, next)
  PROVE  ReadyInv'
<1>1. IsSys(sys) /\ pc \in Starting /\ srv' = srv
  BY DEF ReadyInv, DriverTypes, PVRSRVInitStep
<1>2. CASE Fails(step)
  <2>1. sys' = FreeCommon(sys) /\ (pc' = "timerreg" \/ pc' = "s_lisr")
    BY <1>2 DEF PVRSRVInitStep, Goto, Deinitialise
  <2>2. "timerreg" \in Starting
    BY DEF Starting
  <2> QED BY <1>1, <2>1, <2>2, FreeCommonForm, StartStep
<1>3. CASE ~Fails(step)
  <2>1. pc' = next /\ Get({step}, {})
    BY <1>3 DEF PVRSRVInitStep, Goto
  <2> QED BY <1>1, <2>1, GetForm, StartStep
<1> QED BY <1>2, <1>3

LEMMA DevInitSGXPart1Ready ==
  ASSUME ReadyInv, NEW step \in Starting, NEW next \in Starting,
         DevInitSGXPart1Step(step, next)
  PROVE  ReadyInv'
<1>1. IsSys(sys) /\ pc \in Starting /\ srv' = srv
  BY DEF ReadyInv, DriverTypes, DevInitSGXPart1Step
<1>2. CASE Fails(step)
  <2>1. pc' = "s_lisr"
    BY <1>2 DEF DevInitSGXPart1Step, Deinitialise
  <2>2. PICK h, g, d : sys = [held |-> h, flags |-> g, dangling |-> d]
    BY <1>1 DEF IsSys
  <2>3. sys' = [held |-> h \ SGXParts, flags |-> g,
                dangling |-> d \union (h \intersect {"devinfo"})]
    BY <1>2, <2>2 DEF DevInitSGXPart1Step
  <2>4. IsSys(sys')
    BY <2>3 DEF IsSys
  <2> QED BY <1>1, <2>1, <2>4, StartStep
<1>3. CASE ~Fails(step)
  <2>1. pc' = next /\ Get({step}, {})
    BY <1>3 DEF DevInitSGXPart1Step, Goto
  <2> QED BY <1>1, <2>1, GetForm, StartStep
<1> QED BY <1>2, <1>3

LEMMA SysInitialiseReady ==
  ASSUME ReadyInv, SysInitialise
  PROVE  ReadyInv'
<1>1. IsSys(sys)
  BY DEF ReadyInv, DriverTypes
<1>2. ASSUME OSInitEnvData PROVE ReadyInv'
  <2>1. pc \in Starting /\ srv' = srv /\ "resman" \in Starting
    BY <1>2 DEF OSInitEnvData, Starting
  <2>2. \/ pc' = "s_lisr" /\ Get({}, {"DATA"})
        \/ pc' = "resman" /\ Get({"env"}, {"DATA", "ENVDATA"})
    BY <1>2 DEF OSInitEnvData, Goto, Deinitialise
  <2>3. IsSys(sys')
    BY <1>1, <2>2, GetForm
  <2> QED BY <2>1, <2>2, <2>3, StartStep
<1>3. ASSUME PVRSRVInit PROVE ReadyInv'
  <2>1. {"resman", "perproc", "handles", "eventobj", "eventlist", "timerreg"} \subseteq Starting
    BY DEF Starting
  <2> QED BY <1>3, <2>1, PVRSRVInitStepReady DEF PVRSRVInit
<1>4. ASSUME \/ ReserveTimerRegister \/ SysLocateDevices \/ sgx_ocp_init
             \/ PVRSRVRegisterDevice \/ InitSystemClocks \/ EnableSystemClocks \/ SyncTable
      PROVE  ReadyInv'
  <2>1. /\ {"timerreg", "locate", "ocp", "devnode", "heaptable", "clocks", "sysclocks",
            "perfwq", "synctable", "clocksoff"} \subseteq Starting
    BY DEF Starting
  <2>2. CASE ReserveTimerRegister
    BY <2>1, <2>2, StageStep DEF ReserveTimerRegister
  <2>3. CASE SysLocateDevices
    BY <2>1, <2>3, StageStep DEF SysLocateDevices
  <2>4. CASE sgx_ocp_init
    BY <2>1, <2>4, StageStep DEF sgx_ocp_init
  <2>5. CASE PVRSRVRegisterDevice
    BY <2>1, <2>5, StageStep DEF PVRSRVRegisterDevice, SGXRegisterDevice
  <2>6. CASE InitSystemClocks
    BY <2>1, <2>6, StageStep DEF InitSystemClocks
  <2>7. CASE EnableSystemClocks
    BY <2>1, <2>7, StageStep DEF EnableSystemClocks
  <2>8. CASE SyncTable
    BY <2>1, <2>8, StageStep DEF SyncTable
  <2> QED BY <1>4, <2>2, <2>3, <2>4, <2>5, <2>6, <2>7, <2>8
<1>5. ASSUME OSInitPerf PROVE ReadyInv'
  <2>1. pc \in Starting /\ srv' = srv /\ pc' \in Starting
    BY <1>5 DEF OSInitPerf, Starting, Goto
  <2>2. Get({}, {"PERF"}) \/ Get({"perfwq"}, {"PERF"})
    BY <1>5 DEF OSInitPerf
  <2>3. IsSys(sys')
    BY <1>1, <2>2, GetForm
  <2> QED BY <2>1, <2>3, StartStep
<1>6. ASSUME StartClocks \/ StartClocksOff PROVE ReadyInv'
  <2>1. pc \in Starting /\ srv' = srv /\ sys' = sys
    BY <1>6 DEF StartClocks, StartClocksOff, Starting, Crash
  <2>2. pc' = "s_lisr" \/ pc' = "crash" \/ pc' \in Starting
    BY <1>6 DEF StartClocks, StartClocksOff, Starting, Crash, Goto, Deinitialise
  <2> QED BY <1>1, <2>1, <2>2, StartStep
<1>7. ASSUME ConnectDevice PROVE ReadyInv'
  <2>1. "resctx" \in Starting /\ "devinfo" \in Starting
    BY DEF Starting
  <2>2. CASE pc = "resctx" /\ Crash("resman")
    BY <1>1, <2>1, <2>2, StartStep DEF Crash
  <2>3. CASE Stage("resctx", {"resctx"}, {}, "devinfo")
    BY <2>1, <2>3, StageStep
  <2> QED BY <1>7, <2>2, <2>3 DEF ConnectDevice
<1>8. ASSUME DevInitSGXPart1 PROVE ReadyInv'
  <2>1. {"devinfo", "kernelctx", "heaps", "bifpd", "synctable"} \subseteq Starting
    BY DEF Starting
  <2> QED BY <1>8, <2>1, DevInitSGXPart1Ready DEF DevInitSGXPart1
<1> QED BY <1>2, <1>3, <1>4, <1>5, <1>6, <1>7, <1>8 DEF SysInitialise

LEMMA UndoStep ==
  ASSUME ReadyInv, NEW step, NEW flag, NEW gone, NEW next \in Stopping, Undo(step, flag, gone, next)
  PROVE  ReadyInv'
<1>1. PICK h, g, d : sys = [held |-> h, flags |-> g, dangling |-> d]
  BY DEF ReadyInv, DriverTypes, IsSys
<1>2. [sys EXCEPT !.held = @ \ gone] = [held |-> h \ gone, flags |-> g, dangling |-> d]
  BY <1>1
<1>3. IsSys(sys')
  BY <1>1, <1>2 DEF Undo, IsSys
<1> QED BY <1>3, StopStep DEF Undo, Goto

LEMMA SysDeinitialiseReady ==
  ASSUME ReadyInv, SysDeinitialise
  PROVE  ReadyInv'
<1>1. IsSys(sys)
  BY DEF ReadyInv, DriverTypes
<1>2. PICK h, g, d : sys = [held |-> h, flags |-> g, dangling |-> d]
  BY <1>1 DEF IsSys
<1>3. {"s_lisr", "s_misr", "s_dev", "s_clk", "s_perf", "s_flush", "s_ocp", "s_env", "s_treg",
       "s_common"} \subseteq Stopping
  BY DEF Stopping
<1>4. ASSUME \/ OSUninstallDeviceLISR \/ CleanupSystemClocks \/ FlushPerf \/ sgx_ocp_cleanup
             \/ OSDeInitEnvData \/ UnreserveTimerRegister
      PROVE  ReadyInv'
  BY <1>3, <1>4, UndoStep DEF OSUninstallDeviceLISR, CleanupSystemClocks, FlushPerf,
     sgx_ocp_cleanup, OSDeInitEnvData, UnreserveTimerRegister
<1>5. ASSUME Crash("misrwq") \/ Crash("resman") PROVE ReadyInv'
  <2>1. "crash" \in Stopping
    BY DEF Stopping
  <2> QED BY <1>1, <1>5, <2>1, StopStep DEF Crash
<1>6. ASSUME OSUninstallMISR PROVE ReadyInv'
  BY <1>3, <1>5, <1>6, UndoStep DEF OSUninstallMISR
<1>7. ASSUME DeinitDeviceClocks \/ DeinitDeviceClocksOff \/ CleanupPerf PROVE ReadyInv'
  <2>1. sys' = sys /\ srv' = srv
    BY <1>7 DEF DeinitDeviceClocks, DeinitDeviceClocksOff, CleanupPerf
  <2>2. \/ pc' = "s_clk" \/ pc' = "s_dinit" \/ pc' = "s_flush" \/ pc' = "unload"
        \/ pc' = "abandoned"
    BY <1>7 DEF DeinitDeviceClocks, DeinitDeviceClocksOff, CleanupPerf, Abandon, Goto
  <2>3. pc' \in Stopping
    BY <2>2 DEF Stopping
  <2> QED BY <1>1, <2>1, <2>3, StopStep
<1>8. ASSUME PVRSRVDeinitialiseDevice PROVE ReadyInv'
  <2>1. srv' = srv /\ (pc' = "s_abort" \/ pc' = "s_dclk")
    BY <1>8 DEF PVRSRVDeinitialiseDevice, Goto
  <2>2. PICK gone : gone = DevDeInitSGX \union {"synctable", "resctx", "devnode"}
    OBVIOUS
  <2>3. \/ sys' = sys
        \/ sys' = [sys EXCEPT !.held = @ \ gone, !.dangling = @ \union {"devinfo"}]
    BY <1>8, <2>2 DEF PVRSRVDeinitialiseDevice
  <2>4. sys' = sys \/ sys' = [held |-> h \ gone, flags |-> g, dangling |-> d \union {"devinfo"}]
    BY <1>2, <2>3
  <2>5. IsSys(sys') /\ pc' \in Stopping
    BY <1>1, <2>1, <2>4 DEF IsSys, Stopping
  <2> QED BY <2>1, <2>5, StopStep
<1>9. ASSUME PVRSRVDeInit PROVE ReadyInv'
  <2>1. CASE sys' = FreeCommon(sys) /\ pc' = "s_end" /\ srv' = srv
    <3>1. "s_end" \in Stopping
      BY DEF Stopping
    <3> QED BY <1>1, <2>1, <3>1, FreeCommonForm, StopStep
  <2> QED BY <1>5, <1>9, <2>1 DEF PVRSRVDeInit, Goto
<1>10. ASSUME DeinitialiseEnd PROVE ReadyInv'
  <2>1. srv' = srv /\ (pc' = "failed" \/ pc' = "unload" \/ pc' = "abandoned")
    BY <1>10 DEF DeinitialiseEnd
  <2>2. sys' = [held |-> h, flags |-> {}, dangling |-> d]
    BY <1>2, <1>10 DEF DeinitialiseEnd
  <2>3. IsSys(sys') /\ pc' \in Stopping
    BY <2>1, <2>2 DEF IsSys, Stopping
  <2> QED BY <2>1, <2>3, StopStep
<1> QED BY <1>4, <1>6, <1>7, <1>8, <1>9, <1>10 DEF SysDeinitialise

(* The finalisation: each of its steps adds what the next one needs.       *)
LEMMA SysFinaliseReady ==
  ASSUME ReadyInv, SysFinalise
  PROVE  ReadyInv'
<1>1. IsSys(sys) /\ srv \in [open : BOOLEAN, running : BOOLEAN, ran : BOOLEAN, ok : BOOLEAN]
  BY DEF ReadyInv, DriverTypes
<1>2. ASSUME sys' = sys, srv' = srv, FinaliseFails PROVE ReadyInv'
  <2>1. pc' \in Stopping
    BY <1>2 DEF FinaliseFails, Stopping
  <2> QED BY <1>1, <1>2, <2>1, StopStep
<1>3. pc \in Finalising => SrvParts \union {"events"} \subseteq sys.held
  BY DEF ReadyInv
<1>4. "f_clk" \in Finalising /\ "f_misr" \in Finalising /\ "f_irq" \in Finalising
      /\ "f_end" \in Finalising
  BY DEF Finalising
<1>5. ASSUME FinaliseClocks PROVE ReadyInv'
  <2>1. sys' = sys /\ srv' = srv /\ load' = load /\ pc = "f_clk"
    BY <1>5 DEF FinaliseClocks
  <2>2. CASE pc' = "f_misr"
    <3>1. pc' \notin Starting /\ pc' \notin {"up", "f_irq", "f_end"}
      BY <2>2 DEF Starting
    <3> QED BY <1>1, <1>3, <1>4, <2>1, <2>2, <3>1 DEF ReadyInv, DriverTypes
  <2>3. pc' = "f_misr" \/ FinaliseFails
    BY <1>5 DEF FinaliseClocks, Goto
  <2> QED BY <1>2, <2>1, <2>2, <2>3
<1>6. ASSUME OSInstallMISR PROVE ReadyInv'
  <2>1. srv' = srv /\ load' = load /\ pc = "f_misr" /\ pc' = "f_irq"
    BY <1>6 DEF OSInstallMISR, Goto
  <2>2. PICK got : Get(got, {"MISR"}) /\ got = IF Fails("misrwq") THEN {} ELSE {"misrwq"}
    BY <1>6 DEF OSInstallMISR
  <2>3. IsSys(sys') /\ sys'.held = sys.held \union got
    BY <1>1, <2>2, GetForm
  <2>4. {"misrwq"} \ {load.fault} \subseteq got
    BY <2>2 DEF Fails
  <2>5. pc' \notin Starting
    BY <2>1 DEF Starting
  <2> QED BY <1>1, <1>3, <1>4, <2>1, <2>3, <2>4, <2>5 DEF ReadyInv, DriverTypes
<1>7. ASSUME OSInstallDeviceLISR PROVE ReadyInv'
  <2>1. srv' = srv /\ load' = load /\ pc = "f_irq"
    BY <1>7 DEF OSInstallDeviceLISR
  <2>2. CASE pc' = "f_end" /\ Get({"lisr"}, {"LISR"})
    <3>1. IsSys(sys') /\ sys'.held = sys.held \union {"lisr"}
      BY <1>1, <2>2, GetForm
    <3>2. pc' \notin Starting
      BY <2>2 DEF Starting
    <3>3. {"misrwq"} \ {load.fault} \subseteq sys.held
      BY <2>1 DEF ReadyInv
    <3> QED BY <1>1, <1>3, <1>4, <2>1, <2>2, <3>1, <3>2, <3>3 DEF ReadyInv, DriverTypes
  <2>3. (pc' = "f_end" /\ Get({"lisr"}, {"LISR"})) \/ (FinaliseFails /\ sys' = sys)
    BY <1>7 DEF OSInstallDeviceLISR, Goto
  <2> QED BY <1>2, <2>1, <2>2, <2>3
<1>8. ASSUME FinaliseEnd PROVE ReadyInv'
  <2>1. sys' = sys /\ load' = load /\ pc = "f_end" /\ pc' = "up"
    BY <1>8 DEF FinaliseEnd, Goto
  <2>2. srv' \in [open : BOOLEAN, running : BOOLEAN, ran : BOOLEAN, ok : BOOLEAN]
    <3>1. PICK ok \in BOOLEAN : ok = ~Fails("compat")
      OBVIOUS
    <3>2. srv' = [srv EXCEPT !.ok = ok]
      BY <1>8, <3>1 DEF FinaliseEnd
    <3> QED BY <1>1, <3>2
  <2>3. /\ {"misrwq"} \ {load.fault} \subseteq sys.held
        /\ "lisr" \in sys.held
    BY <2>1 DEF ReadyInv
  <2>4. Wired \subseteq sys.held
    BY <1>3, <1>4, <2>1, <2>3 DEF Wired
  <2>5. pc' \notin Starting /\ pc' \notin Finalising
    BY <2>1 DEF Starting, Finalising
  <2> QED BY <1>1, <1>3, <1>4, <2>1, <2>2, <2>4, <2>5 DEF ReadyInv, DriverTypes, Wired
<1> QED BY <1>5, <1>6, <1>7, <1>8 DEF SysFinalise

(* A step that leaves the driver as it is, but for the server's file and   *)
(* running state.                                                          *)
LEMMA ReadyKept ==
  ASSUME ReadyInv, sys' = sys, load' = load, pc' = pc, srv'.ok = srv.ok,
         srv' \in [open : BOOLEAN, running : BOOLEAN, ran : BOOLEAN, ok : BOOLEAN]
  PROVE  ReadyInv'
BY DEF ReadyInv, DriverTypes, Wired

LEMMA CrashReady ==
  ASSUME ReadyInv, NEW reason, Crash(reason)
  PROVE  ReadyInv'
<1>1. IsSys(sys') /\ srv' = srv /\ pc' \in Stopping
  BY DEF ReadyInv, DriverTypes, Crash, Stopping
<1> QED BY <1>1, StopStep

LEMMA InitServerReady ==
  ASSUME ReadyInv, InitServer
  PROVE  ReadyInv'
<1>1. IsSys(sys) /\ srv \in [open : BOOLEAN, running : BOOLEAN, ran : BOOLEAN, ok : BOOLEAN]
  BY DEF ReadyInv, DriverTypes
<1>2. ASSUME InitSrvConnect PROVE ReadyInv'
  <2>1. sys' = sys /\ load' = load /\ pc' = pc /\ srv' = [srv EXCEPT !.open = TRUE, !.running = TRUE]
    BY <1>2 DEF InitSrvConnect
  <2>2. srv'.ok = srv.ok /\ srv' \in [open : BOOLEAN, running : BOOLEAN, ran : BOOLEAN, ok : BOOLEAN]
    BY <1>1, <2>1
  <2> QED BY <2>1, <2>2, ReadyKept
<1>3. ASSUME InitSrvExit PROVE ReadyInv'
  <2>1. CASE /\ sys' = sys /\ load' = load /\ pc' = pc
             /\ srv' = [srv EXCEPT !.open = FALSE]
    <3>1. srv'.ok = srv.ok /\ srv' \in [open : BOOLEAN, running : BOOLEAN, ran : BOOLEAN, ok : BOOLEAN]
      BY <1>1, <2>1
    <3> QED BY <2>1, <3>1, ReadyKept
  <2> QED BY <1>3, <2>1, CrashReady DEF InitSrvExit
<1>4. ASSUME DevInitSGXPart2 PROVE ReadyInv'
  <2>1. srv' = srv /\ load' = load /\ pc' = pc /\ Get(Part2Taken, {}) /\ pc = "up"
    BY <1>4 DEF DevInitSGXPart2
  <2>2. IsSys(sys') /\ sys'.held = sys.held \union Part2Taken
    BY <1>1, <2>1, GetForm
  <2>3. pc' \notin Starting /\ pc' \notin Finalising
    BY <2>1 DEF Starting, Finalising
  <2> QED BY <1>1, <2>1, <2>2, <2>3 DEF ReadyInv, DriverTypes, Wired
<1>5. ASSUME NEW success \in BOOLEAN, InitSrvDisconnect(success) PROVE ReadyInv'
  <2>1. sys' = sys /\ load' = load /\ srv' = [srv EXCEPT !.running = FALSE, !.ran = TRUE] /\ pc = "up"
    BY <1>5 DEF InitSrvDisconnect
  <2>2. srv'.ok = srv.ok /\ srv' \in [open : BOOLEAN, running : BOOLEAN, ran : BOOLEAN, ok : BOOLEAN]
    BY <1>1, <2>1
  <2>3. CASE pc' = pc
    BY <2>1, <2>2, <2>3, ReadyKept
  <2>4. CASE pc' = "f_clk" /\ SrvParts \subseteq sys.held
    <3>1. pc' \notin Starting /\ pc' \notin {"up", "f_irq", "f_end"}
      BY <2>4 DEF Starting
    <3>2. "events" \in sys.held
      BY <2>1 DEF ReadyInv
    <3> QED BY <1>1, <2>1, <2>2, <2>4, <3>1, <3>2 DEF ReadyInv, DriverTypes
  <2> QED BY <1>5, <2>3, <2>4 DEF InitSrvDisconnect
<1> QED BY <1>2, <1>3, <1>4, <1>5 DEF InitServer

(* The thread that starts and stops the driver, and the module's unload.   *)
LEMMA DriverThreadReady ==
  ASSUME ReadyInv, DriverThread \/ pvr_cleanup
  PROVE  ReadyInv'
<1>1. IsSys(sys)
  BY DEF ReadyInv, DriverTypes
<1>2. PICK h, g, d : sys = [held |-> h, flags |-> g, dangling |-> d]
  BY <1>1 DEF IsSys
<1>3. ASSUME pvr_init PROVE ReadyInv'
  <2>1. srv' = srv /\ pc \in Starting /\ "env" \in Starting
    BY <1>3 DEF pvr_init, Starting
  <2>2. (pc' = "down" /\ sys' = sys) \/ (pc' = "env" /\ Get(Module, {}))
    BY <1>3 DEF pvr_init, Goto
  <2> QED BY <1>1, <2>1, <2>2, GetForm, StartStep
<1>4. ASSUME MiscRegister PROVE ReadyInv'
  <2>1. srv' = srv /\ pc \in Starting /\ "events" \in Starting
    BY <1>4 DEF MiscRegister, Starting
  <2>2. (pc' = "failed" /\ sys' = sys) \/ (pc' = "events" /\ Get({"misc"}, {}))
    BY <1>4 DEF MiscRegister, Goto
  <2> QED BY <1>1, <2>1, <2>2, GetForm, StartStep
<1>5. ASSUME pvr_init_events PROVE ReadyInv'
  <2>1. srv' = srv /\ load' = load /\ pc = "events"
    BY <1>5 DEF pvr_init_events, Stage
  <2>2. pc \in Starting /\ ~srv.ok
    BY <2>1 DEF Starting, ReadyInv
  <2>3. CASE pc' = "s_lisr" /\ sys' = sys
    BY <1>1, <2>1, <2>2, <2>3, StartStep
  <2>4. CASE pc' = "up" /\ Get({"events"}, {})
    <3>1. IsSys(sys') /\ sys'.held = sys.held \union {"events"}
      BY <1>1, <2>4, GetForm
    <3>2. pc' \notin Starting /\ pc' \notin Finalising
      BY <2>4 DEF Starting, Finalising
    <3> QED BY <2>1, <2>2, <2>4, <3>1, <3>2 DEF ReadyInv, DriverTypes
  <2> QED BY <1>5, <2>3, <2>4 DEF pvr_init_events, Stage, Deinitialise, Goto
<1>6. ASSUME Unload PROVE ReadyInv'
  <2>1. PICK gone : gone = Module \union {"events"}
    OBVIOUS
  <2>2. srv' = srv /\ pc' = "down" /\ sys' = [sys EXCEPT !.held = @ \ gone]
    BY <1>6, <2>1 DEF Unload, Goto
  <2>3. sys' = [held |-> h \ gone, flags |-> g, dangling |-> d]
    BY <1>2, <2>2
  <2>4. IsSys(sys') /\ pc' \in Stopping
    BY <2>2, <2>3 DEF IsSys, Stopping
  <2> QED BY <2>2, <2>4, StopStep
<1>7. ASSUME pvr_cleanup PROVE ReadyInv'
  <2>1. /\ srv' = srv
        /\ \/ pc' = "s_lisr" /\ sys' = [sys EXCEPT !.held = @ \ {"misc"}]
           \/ pc' = "unload" /\ sys' = sys
    BY <1>7 DEF pvr_cleanup, Goto
  <2>2. sys' = sys \/ sys' = [held |-> h \ {"misc"}, flags |-> g, dangling |-> d]
    BY <1>2, <2>1
  <2>3. IsSys(sys') /\ pc' \in Stopping
    BY <1>1, <2>1, <2>2 DEF IsSys, Stopping
  <2> QED BY <2>1, <2>3, StopStep
<1> QED BY <1>3, <1>4, <1>5, <1>6, <1>7, SysInitialiseReady, SysFinaliseReady,
           SysDeinitialiseReady DEF DriverThread

(* What the deferred work and the interrupt do to the driver.              *)
LEMMA WorkReady ==
  ASSUME ReadyInv, PerfWork \/ PerfTimer \/ WorkAfterUnload \/ DeviceISRWrapper \/ MISRGuard
  PROVE  ReadyInv'
<1>1. \/ sys' = sys /\ load' = load /\ pc' = pc /\ srv' = srv
      \/ \E reason : Crash(reason)
  BY DEF PerfWork, PerfStart, sgx_current_load, PerfEnd, PerfTimer, WorkAfterUnload,
     DeviceISRWrapper, MISRGuard
<1>2. srv \in [open : BOOLEAN, running : BOOLEAN, ran : BOOLEAN, ok : BOOLEAN]
  BY DEF ReadyInv, DriverTypes
<1> QED BY <1>1, <1>2, CrashReady, ReadyKept

-----------------------------------------------------------------------------
(* What a process can be given.                                            *)
Granted(p) ==
    \/ per'[p].mem /\ ~per[p].mem
    \/ per'[p].items > per[p].items
    \/ owner' = p /\ owner # p
    \/ evo'[p].open /\ ~evo[p].open
    \/ \E s \in Syncs : sync'[s].proc = p /\ sync[s].proc # p

NothingGranted == \A p \in Procs : ~Granted(p)

LEMMA SameGrantsNothing ==
  ASSUME SInv, UNCHANGED <<per, owner, sync, evo>>
  PROVE  NothingGranted
<1>1. \A p \in Procs : per[p].items \in Nat
  BY DEF SInv, PBPart, PBTypes
<1> QED BY <1>1 DEF NothingGranted, Granted

(* Closing a file takes from its process and gives to nobody.              *)
LEMMA ReleaseGrantsNothing ==
  ASSUME SInv, NEW f \in Files, pvr_release(f), ~UNCHANGED clients
  PROVE  NothingGranted /\ UNCHANGED driver
<1>1. /\ per \in [Procs -> [ref : Nat, mem : BOOLEAN, items : Nat, hnd : Nat]]
      /\ sync \in [Syncs -> [proc : Procs \union {None}, out : Nat]]
      /\ evo \in [Procs -> [open : BOOLEAN, new : BOOLEAN, wait : {"no", "asleep", "woken"}]]
      /\ None \notin Procs
  BY Finite DEF SInv, PBPart, PBTypes, SyncTypes, SleepPart, SleepTypes
<1>2. PICK p \in Procs : p = file[f].proc
  BY DEF pvr_release, SInv, FileTypes
<1>3. UNCHANGED driver
  BY DEF pvr_release
<1>4. \/ Disconnect(p, NotOf(f))
      \/ per' = [per EXCEPT ![p].ref = @ - 1] /\ UNCHANGED <<owner, sync, evo>>
  BY <1>2 DEF pvr_release
<1>5. CASE Disconnect(p, NotOf(f))
  <2>1. /\ per' = [per EXCEPT ![p] = NoProcess] /\ (owner' = None \/ owner' = owner)
        /\ sync' = [s \in Syncs |-> IF sync[s].proc = p THEN NoSync ELSE sync[s]]
        /\ evo' = [evo EXCEPT ![p] = NoEvent]
    BY <1>5 DEF Disconnect
  <2>2. ASSUME NEW q \in Procs PROVE ~Granted(q)
    <3>1. ~(per'[q].mem /\ ~per[q].mem) /\ ~(per'[q].items > per[q].items)
      BY <1>1, <2>1 DEF NoProcess
    <3>2. ~(evo'[q].open /\ ~evo[q].open)
      BY <1>1, <2>1 DEF NoEvent
    <3>3. ~\E s \in Syncs : sync'[s].proc = q /\ sync[s].proc # q
      BY <1>1, <2>1 DEF NoSync
    <3>4. ~(owner' = q /\ owner # q)
      BY <1>1, <2>1
    <3> QED BY <3>1, <3>2, <3>3, <3>4 DEF Granted
  <2> QED BY <1>3, <2>2 DEF NothingGranted
<1>6. CASE per' = [per EXCEPT ![p].ref = @ - 1] /\ UNCHANGED <<owner, sync, evo>>
  <2>1. \A q \in Procs : per'[q].mem = per[q].mem /\ per'[q].items = per[q].items
                         /\ per[q].items \in Nat
    BY <1>1, <1>6
  <2> QED BY <1>3, <1>6, <2>1 DEF NothingGranted, Granted
<1> QED BY <1>4, <1>5, <1>6

(* A step of a client is a call the bridge lets through, the end of a      *)
(* faulty driver, or gives nothing.                                        *)
LEMMA ClientKinds ==
  ASSUME SInv, Client
  PROVE  \/ UNCHANGED driver /\ \E p : Called(p)
         \/ UNCHANGED driver /\ NothingGranted
         \/ UNCHANGED clients /\ \E reason : Crash(reason)
<1>1. /\ per \in [Procs -> [ref : Nat, mem : BOOLEAN, items : Nat, hnd : Nat]]
      /\ sync \in [Syncs -> [proc : Procs \union {None}, out : Nat]]
      /\ evo \in [Procs -> [open : BOOLEAN, new : BOOLEAN, wait : {"no", "asleep", "woken"}]]
  BY DEF SInv, PBPart, PBTypes, SyncTypes, SleepPart, SleepTypes
<1> DEFINE Calls == UNCHANGED driver /\ \E p : Called(p)
           Gives == UNCHANGED driver /\ NothingGranted
           Ends  == UNCHANGED clients /\ \E reason : Crash(reason)
<1>2. ASSUME NEW p \in Procs, NEW f \in Files, NEW b \in BOOLEAN, pvr_open(f, p, b) PROVE Gives
  <2>1. /\ per' = [per EXCEPT ![p].ref = @ + 1] /\ UNCHANGED <<owner, sync, evo>>
        /\ UNCHANGED driver
    BY <1>2 DEF pvr_open
  <2>2. \A q \in Procs : per'[q].mem = per[q].mem /\ per'[q].items = per[q].items
                         /\ per[q].items \in Nat
    BY <1>1, <2>1
  <2> QED BY <2>1, <2>2 DEF NothingGranted, Granted
<1>3. ASSUME NEW f \in Files, pvr_release(f) PROVE Gives \/ Ends
  <2>1. CASE UNCHANGED clients
    <3>1. UNCHANGED driver \/ Crash("events")
      BY <1>3 DEF pvr_release
    <3>2. NothingGranted
      BY <2>1, SameGrantsNothing DEF clients
    <3> QED BY <2>1, <3>1, <3>2
  <2> QED BY <1>3, <2>1, ReleaseGrantsNothing
<1>4. ASSUME NEW p, Called(p) PROVE Calls
  BY <1>4 DEF Called
<1>5. ASSUME NEW p \in Procs, PBCalls(p) PROVE Calls
  BY <1>4, <1>5 DEF PBCalls, PVRSRVAllocPBMemory, SGXFindSharedPBDescBW, SGXUnrefSharedPBDesc,
     SGXAddSharedPBDescBW
<1>6. ASSUME NEW s \in Syncs, WriteOpComplete(s) PROVE Gives
  <2>1. /\ sync' = [sync EXCEPT ![s].out = @ - 1] /\ UNCHANGED <<per, owner, evo>>
        /\ UNCHANGED driver
    BY <1>6 DEF WriteOpComplete
  <2>2. \A t \in Syncs : sync'[t].proc = sync[t].proc
    BY <1>1, <2>1
  <2>3. \A q \in Procs : per[q].items \in Nat
    BY <1>1
  <2> QED BY <2>1, <2>2, <2>3 DEF NothingGranted, Granted
<1>7. ASSUME NEW f \in Files, NEW n, pvr_read(f, n) PROVE Gives
  BY <1>7, SameGrantsNothing DEF pvr_read
<1>8. ASSUME NEW p \in Procs, EventCalls(p) PROVE Calls \/ Gives
  BY <1>4, <1>6, <1>7, <1>8 DEF EventCalls, SyncCalls, AllocSyncInfo, FreeSyncInfo,
     WriteOpPending, SGX2DQueryBlitsComplete
<1>9. ASSUME NEW p \in Procs, NEW timeout \in BOOLEAN, WaitEnds(p, timeout) PROVE Gives \/ Ends
  <2>1. CASE UNCHANGED driver
    <3>1. UNCHANGED <<per, owner, sync>>
      BY <1>9 DEF WaitEnds, clients
    <3>2. \A q \in Procs : evo'[q].open = evo[q].open
      BY <1>1, <1>9 DEF WaitEnds, clients
    <3>3. \A q \in Procs : per[q].items \in Nat
      BY <1>1
    <3> QED BY <2>1, <3>1, <3>2, <3>3 DEF NothingGranted, Granted
  <2> QED BY <1>9, <2>1 DEF WaitEnds
<1>10. ASSUME NEW p \in Procs, SleepCalls(p) PROVE Calls \/ Gives \/ Ends
  BY <1>4, <1>9, <1>10 DEF SleepCalls, OSEventObjectOpen, OSEventObjectClose, OSEventObjectWait
<1> HIDE DEF Calls, Gives, Ends
<1>11. Calls \/ Gives \/ Ends
  BY <1>2, <1>3, <1>5, <1>8, <1>10 DEF Client
<1> QED BY <1>11 DEF Calls, Gives, Ends

(* The driver's part of a step keeps what is held when it is up.           *)
LEMMA NextReady == SInv /\ ReadyInv /\ [Next]_vars => ReadyInv'
<1>1. SUFFICES ASSUME SInv, ReadyInv, [Next]_vars PROVE ReadyInv'
  OBVIOUS
<1>2. srv \in [open : BOOLEAN, running : BOOLEAN, ran : BOOLEAN, ok : BOOLEAN]
  BY <1>1 DEF ReadyInv, DriverTypes
<1>3. ASSUME UNCHANGED driver PROVE ReadyInv'
  BY <1>1, <1>2, <1>3, ReadyKept DEF driver
<1>4. CASE UNCHANGED vars
  BY <1>3, <1>4 DEF vars, driver
<1>5. CASE \/ DriverThread \/ InitServer \/ PerfWork \/ PerfTimer
           \/ WorkAfterUnload \/ DeviceISRWrapper \/ UnloadModule
  BY <1>1, <1>5, DriverThreadReady, InitServerReady, WorkReady DEF UnloadModule
<1>6. CASE PVRSRVMISR
  BY <1>1, <1>6, WorkReady DEF PVRSRVMISR
<1>7. CASE Client
  BY <1>1, <1>3, <1>7, ClientKinds, CrashReady
<1> QED BY <1>1, <1>4, <1>5, <1>6, <1>7 DEF Next

(* The bridge lets a call through only when the start is complete.         *)
LEMMA CalledWired ==
  ASSUME ReadyInv, NEW p, Called(p)
  PROVE  Wired \subseteq sys.held
<1>1. srv.ok /\ pc \in {"events", "up"}
  BY DEF Called, bridged_check_cmd, CanOpen
<1>2. "events" \in Starting
  BY DEF Starting
<1> QED BY <1>1, <1>2 DEF ReadyInv

LEMMA GrantedOnlyWired ==
  SInv /\ ReadyInv /\ [Next]_vars => NothingGranted \/ Wired \subseteq sys.held
<1>1. SUFFICES ASSUME SInv, ReadyInv, [Next]_vars PROVE NothingGranted \/ Wired \subseteq sys.held
  OBVIOUS
<1>2. CASE UNCHANGED clients
  BY <1>1, <1>2, SameGrantsNothing DEF clients
<1>3. CASE UNCHANGED vars
  BY <1>2, <1>3 DEF vars, clients
<1>4. CASE PVRSRVMISR
  <2>1. UNCHANGED <<per, owner, sync>> /\ LinuxEventObjectSignal
    BY <1>4 DEF PVRSRVMISR
  <2>2. /\ \A q \in Procs : per[q].items \in Nat
        /\ evo \in [Procs -> [open : BOOLEAN, new : BOOLEAN, wait : {"no", "asleep", "woken"}]]
    BY <1>1 DEF SInv, PBPart, PBTypes, SleepPart, SleepTypes
  <2>3. ASSUME NEW q \in Procs PROVE evo'[q].open = evo[q].open
    <3>1. PICK w \in [open : BOOLEAN, new : BOOLEAN, wait : {"no", "asleep", "woken"}] : w = evo[q]
      BY <2>2
    <3>2. PICK v : v = IF w.wait = "asleep" THEN "woken" ELSE w.wait
      OBVIOUS
    <3>3. evo'[q] = IF w.open THEN [w EXCEPT !.new = TRUE, !.wait = v] ELSE w
      BY <2>1, <3>1, <3>2 DEF LinuxEventObjectSignal
    <3> QED BY <3>1, <3>3
  <2> QED BY <2>1, <2>2, <2>3 DEF NothingGranted, Granted
<1>5. CASE Client
  BY <1>1, <1>2, <1>5, ClientKinds, CalledWired
<1> QED BY <1>1, <1>2, <1>3, <1>4, <1>5 DEF Next

(* ServedOnlyWhenReady (bridged_pvr_bridge.c, pvrsrv.c, sysconfig.c): a    *)
(* process is given memory, a reference, the lock, a sync info or an event *)
(* object only by a call, and a call passes bridged_check_cmd only when    *)
(* the init server's part of the start has succeeded; nothing that start   *)
(* took is given back while the device can be opened.                      *)
THEOREM ServesOnlyWhenReady == Spec => ServedOnlyWhenReady
<1>1. Init => ReadyInv
  <2>1. SUFFICES ASSUME Init PROVE ReadyInv
    OBVIOUS
  <2>2. /\ pc = "load" /\ sys = [held |-> {}, flags |-> {}, dangling |-> {}]
        /\ srv = [open |-> FALSE, running |-> FALSE, ran |-> FALSE, ok |-> FALSE]
    BY <2>1 DEF Init, InitDriver
  <2>3. pc \notin Finalising
    BY <2>2 DEF Finalising
  <2> QED BY <2>2, <2>3 DEF ReadyInv, DriverTypes, IsSys
<1>2. SInv /\ ReadyInv /\ [Next]_vars => ReadyInv'
  BY NextReady
<1>3. SInv /\ ReadyInv /\ [Next]_vars
        => [(\E p \in Procs : Granted(p)) => Wired \subseteq sys.held]_vars
  BY GrantedOnlyWired DEF NothingGranted
<1>4. Spec => [][(\E p \in Procs : Granted(p)) => Wired \subseteq sys.held]_vars
  BY <1>1, <1>2, <1>3, Invariance, PTL DEF Spec
<1> QED BY <1>4 DEF ServedOnlyWhenReady, Granted, Wired

-----------------------------------------------------------------------------
(***************************************************************************)
(* What a failed step of the start or the stop leaves behind.              *)
(***************************************************************************)

(* The place of a step in the start.                                       *)
Rank(step) ==
    CASE step = "load" -> 0       [] step = "env" -> 1        [] step = "resman" -> 2
      [] step = "perproc" -> 3    [] step = "handles" -> 4    [] step = "eventobj" -> 5
      [] step = "eventlist" -> 6  [] step = "timerreg" -> 7   [] step = "locate" -> 8
      [] step = "ocp" -> 9        [] step = "devnode" -> 10   [] step = "heaptable" -> 11
      [] step = "clocks" -> 12    [] step = "sysclocks" -> 13 [] step = "perfwq" -> 14
      [] step = "clk1" -> 15      [] step = "resctx" -> 16    [] step = "devinfo" -> 17
      [] step = "kernelctx" -> 18 [] step = "heaps" -> 19     [] step = "bifpd" -> 20
      [] step = "synctable" -> 21 [] step = "clocksoff" -> 22 [] step = "misc" -> 23
      [] step = "events" -> 24    [] OTHER -> 25

(* The start is not beyond a step, or is beyond it.                        *)
Upto(step) == pc \in Starting /\ Rank(pc) <= Rank(step)
Past(step) == pc \in Starting /\ Rank(pc) > Rank(step)
IsUp == pc = "up" \/ pc \in Finalising

AllParts ==
    Module \union Common \union DevDeInitSGX
    \union {"synctable", "resctx", "devnode", "lisr", "misrwq", "clocks", "perfwq", "ocp", "env",
            "timerreg", "events", "misc"}

(* The steps of SysDeinitialise and what is left to give back at them.     *)
StopSteps ==
    {"s_lisr", "s_misr", "s_dev", "s_dinit", "s_dclk", "s_abort", "s_clk", "s_perf", "s_flush",
     "s_ocp", "s_env", "s_treg", "s_common", "s_end"}
Beginning == {"s_lisr", "s_misr", "s_dev"}
Flushed == {"s_ocp", "s_env", "s_treg", "s_common", "s_end"}
Ended == {"failed", "unload", "down"}

Device == DevDeInitSGX \union {"synctable", "resctx", "devnode"}

Rest(step) ==
    (IF step = "s_lisr" THEN {"lisr"} ELSE {})
    \union (IF step \in {"s_lisr", "s_misr"} THEN {"misrwq"} ELSE {})
    \union (IF step \in Beginning \union {"s_dinit", "s_abort"} THEN Device ELSE {})
    \union (IF step \in Beginning \union {"s_dinit", "s_abort", "s_dclk", "s_clk"} THEN {"clocks"} ELSE {})
    \union (IF step \notin Flushed THEN {"perfwq"} ELSE {})
    \union (IF step \notin Flushed \ {"s_ocp"} THEN {"ocp"} ELSE {})
    \union (IF step \in {"s_treg", "s_common", "s_end"} THEN {} ELSE {"env"})
    \union (IF step \in {"s_common", "s_end"} THEN {} ELSE {"timerreg"})
    \union (IF step = "s_end" THEN {} ELSE Common)

LateStop == {"misc", "clk3", "d3"}
Kept == IF load.fault \in LateStop THEN {} ELSE LeaksOf(load.fault)

Idle == perf = [pending |-> "no", run |-> "no"]

(* No step beyond the one that fails is reached, except where nobody looks *)
(* at what it returns.                                                     *)
FaultAhead ==
    pc \in Starting =>
      /\ load.fault \in Module \union {"device"} => pc = "load"
      /\ load.fault \in Starting \ {"eventobj", "eventlist", "perfwq"} => Rank(pc) <= Rank(load.fault)
      /\ load.fault \in {"eventobj", "eventlist"} =>
            Rank(pc) <= Rank(load.fault) \/ "resman" \in sys.dangling
      /\ "resman" \in sys.dangling => Upto("resctx")
      /\ load.fault = "perfwq" => Upto("clk1")

(* What is held on the way up.                                             *)
HeldBefore ==
    pc \in Starting =>
      /\ why = "start"
      /\ \A x \in sys.held : x \in Module \/ (x \in Starting /\ Rank(x) < Rank(pc))
      /\ Upto("heaptable") => "devnode" \notin sys.held
      /\ Past("env") => "env" \in sys.held
      /\ Past("resman") /\ Upto("eventlist") => "resman" \in sys.held
      /\ Past("heaptable") => "devnode" \in sys.held
      /\ Past("perfwq") => "PERF" \in sys.flags /\ ("perfwq" \in sys.held \/ load.fault = "perfwq")
      /\ load.fault = "perfwq" => "perfwq" \notin sys.held
      /\ "INITDEV" \in sys.flags <=> Past("synctable")
      /\ Upto("clk1") => Idle /\ ~clk.on
      /\ Past("clocksoff") => ~clk.on

HeldUp ==
    IsUp =>
      /\ why = "start" /\ load.fault \in LateFaults \ {"misc"}
      /\ {"INITDEV", "PERF"} \subseteq sys.flags
      /\ {"env", "devnode", "perfwq"} \subseteq sys.held
      /\ pc \in {"up", "f_clk"} => ~clk.on

FlagsTell ==
    pc \in Starting \/ IsUp \/ pc \in StopSteps =>
      /\ "perfwq" \in sys.held => "PERF" \in sys.flags
      /\ "env" \in sys.held => "ENVDATA" \in sys.flags
      /\ "lisr" \in sys.held => "LISR" \in sys.flags
      /\ "misrwq" \in sys.held => "MISR" \in sys.flags

HeldAfter ==
    pc \in StopSteps =>
      /\ why \in {"start", "finalise", "remove"}
      /\ sys.held \subseteq Rest(pc) \union Kept \union Module \union {"events"}
                            \union (IF why = "finalise" THEN {"misc"} ELSE {})
      /\ pc \in Beginning =>
           /\ "INITDEV" \notin sys.flags => /\ Device \intersect sys.held \subseteq Kept
                                            /\ clk.on => load.fault \in DeviceFaults
           /\ "INITDEV" \in sys.flags => /\ load.fault \in LateFaults \ {"misc"}
                                         /\ {"env", "perfwq"} \subseteq sys.held
           /\ why = "remove" => ~clk.on
      /\ pc \in {"s_dinit", "s_dclk", "s_abort"} => {"env", "perfwq"} \subseteq sys.held
      /\ pc = "s_dinit" => load.fault \in LateFaults \ {"misc", "clk3"}
      /\ pc = "s_abort" => load.fault = "d3"
      /\ clk.on => \/ pc \in Beginning \union {"s_dinit", "s_dclk", "s_abort"}
                   \/ load.fault \in DeviceFaults
      /\ "PERF" \in sys.flags \/ Idle
      /\ pc \in Flushed => Idle \/ load.fault \in DeviceFaults

(* The interrupt finds its work queue.                                     *)
InterruptWired ==
    /\ "lisr" \in sys.held => /\ {"env", "devnode"} \subseteq sys.held
                              /\ "misrwq" \in sys.held \/ load.fault = "misrwq"
    /\ "MISR" \in sys.flags /\ (pc \in Starting \/ IsUp \/ pc \in {"s_lisr", "s_misr"}) =>
          "misrwq" \in sys.held \/ load.fault = "misrwq"

HeldAtEnd ==
    pc \in Ended =>
      /\ sys.held \subseteq LeaksOf(load.fault) \union Module \union {"events"}
      /\ clk.on => load.fault \in DeviceFaults
      /\ Idle \/ load.fault \in DeviceFaults \union LateStop

(* The work that follows the load sets its timer only with the clocks on.  *)
TimerNeedsClocks ==
    /\ ~clk.on => /\ ~clk.wanted /\ perf.pending # "timer"
                  /\ perf.run \in {"read", "busy"} => perf.pending = "queued"
    /\ clk.on => {"env", "perfwq"} \subseteq sys.held \/ load.fault \in DeviceFaults

DanglingKnown ==
    /\ "devinfo" \in sys.dangling =>
          load.fault \in {"kernelctx", "heaps", "bifpd"} \union (LateFaults \ LateStop)
    /\ pc \in Starting \/ IsUp \/ pc \in StopSteps \ {"s_end"} =>
          \/ load.fault \in Common \ {"resman"}
          \/ "resman" \notin sys.dangling /\ "eventobj" \notin sys.dangling

WorkTypes ==
    /\ clk \in [on : BOOLEAN, wanted : BOOLEAN]
    /\ perf \in [pending : {"no", "queued", "timer"}, run : {"no", "read", "zero", "busy"}]

(* All of it, with the state of the driver ReadyInv tells of.              *)
FInv ==
    /\ ReadyInv /\ WorkTypes /\ load.fault \in Faults /\ sys.held \subseteq AllParts
    /\ pc = "crash" => why \in CrashesOf(load.fault)
    /\ FaultAhead /\ HeldBefore /\ HeldUp /\ FlagsTell /\ HeldAfter /\ HeldAtEnd
    /\ InterruptWired /\ TimerNeedsClocks /\ DanglingKnown

LEMMA Ranks ==
  /\ \A x \in Starting : Rank(x) \in Nat
  /\ \A x, y \in Starting : Rank(x) = Rank(y) => x = y
  /\ Rank("load") = 0 /\ Rank("env") = 1 /\ Rank("resman") = 2 /\ Rank("perproc") = 3
  /\ Rank("handles") = 4 /\ Rank("eventobj") = 5 /\ Rank("eventlist") = 6 /\ Rank("timerreg") = 7
  /\ Rank("locate") = 8 /\ Rank("ocp") = 9 /\ Rank("devnode") = 10 /\ Rank("heaptable") = 11
  /\ Rank("clocks") = 12 /\ Rank("sysclocks") = 13 /\ Rank("perfwq") = 14 /\ Rank("clk1") = 15
  /\ Rank("resctx") = 16 /\ Rank("devinfo") = 17 /\ Rank("kernelctx") = 18 /\ Rank("heaps") = 19
  /\ Rank("bifpd") = 20 /\ Rank("synctable") = 21 /\ Rank("clocksoff") = 22 /\ Rank("misc") = 23
  /\ Rank("events") = 24
<1>1. \A x \in Starting : Rank(x) \in Nat
  BY DEF Starting, Rank
<1>2. \A x, y \in Starting : Rank(x) = Rank(y) => x = y
  BY DEF Starting, Rank
<1>3. /\ Rank("load") = 0 /\ Rank("env") = 1 /\ Rank("resman") = 2 /\ Rank("perproc") = 3
      /\ Rank("handles") = 4 /\ Rank("eventobj") = 5 /\ Rank("eventlist") = 6 /\ Rank("timerreg") = 7
      /\ Rank("locate") = 8 /\ Rank("ocp") = 9 /\ Rank("devnode") = 10 /\ Rank("heaptable") = 11
      /\ Rank("clocks") = 12 /\ Rank("sysclocks") = 13 /\ Rank("perfwq") = 14 /\ Rank("clk1") = 15
  BY DEF Rank
<1>4. /\ Rank("resctx") = 16 /\ Rank("devinfo") = 17 /\ Rank("kernelctx") = 18 /\ Rank("heaps") = 19
      /\ Rank("bifpd") = 20 /\ Rank("synctable") = 21 /\ Rank("clocksoff") = 22 /\ Rank("misc") = 23
      /\ Rank("events") = 24
  BY DEF Rank
<1> QED BY <1>1, <1>2, <1>3, <1>4

(* Get adds to what is held and to the flags.                              *)
LEMMA GetFields ==
  ASSUME IsSys(sys), NEW got, NEW flag, Get(got, flag)
  PROVE  /\ sys'.held = sys.held \union got
         /\ sys'.flags = sys.flags \union flag
         /\ sys'.dangling = sys.dangling
<1>1. PICK h, g, d : sys = [held |-> h, flags |-> g, dangling |-> d]
  BY DEF IsSys
<1>2. sys' = [held |-> h \union got, flags |-> g \union flag, dangling |-> d]
  BY <1>1 DEF Get
<1> QED BY <1>1, <1>2

LEMMA FreeCommonFields ==
  ASSUME IsSys(sys), sys' = FreeCommon(sys)
  PROVE  /\ sys'.held = sys.held \ Common
         /\ sys'.flags = sys.flags
         /\ sys'.dangling = sys.dangling \union (sys.held \intersect {"resman", "eventobj"})
<1>1. PICK h, g, d : sys = [held |-> h, flags |-> g, dangling |-> d]
  BY DEF IsSys
<1>2. PICK lost : lost = sys.held \intersect {"resman", "eventobj"}
  OBVIOUS
<1>3. FreeCommon(sys) = [sys EXCEPT !.held = @ \ Common, !.dangling = @ \union lost]
  BY <1>2 DEF FreeCommon
<1>4. FreeCommon(sys) = [held |-> h \ Common, flags |-> g, dangling |-> d \union lost]
  BY <1>1, <1>3
<1> QED BY <1>1, <1>2, <1>4

(* No set of places holds where a crash leads.                             *)
LEMMA CrashFaults ==
  ASSUME FInv, NEW reason, Crash(reason), reason \in CrashesOf(load.fault), ReadyInv'
  PROVE  FInv'
<1>1. /\ pc' = "crash" /\ why' = reason /\ load' = load /\ sys' = sys /\ clk' = clk
      /\ perf' = perf
  BY DEF Crash
<1>2. pc' \notin Starting /\ ~IsUp' /\ pc' \notin StopSteps /\ pc' \notin Ended
  BY <1>1 DEF Starting, IsUp, Finalising, StopSteps, Ended
<1>3. CrashesOf(load.fault)' = CrashesOf(load.fault)
  BY <1>1 DEF CrashesOf
<1>4. FaultAhead' /\ HeldBefore' /\ HeldUp' /\ FlagsTell' /\ HeldAfter' /\ HeldAtEnd'
  BY <1>2 DEF FaultAhead, HeldBefore, HeldUp, FlagsTell, HeldAfter, HeldAtEnd
<1>5. TimerNeedsClocks' /\ DanglingKnown'
  BY <1>1, <1>2 DEF FInv, TimerNeedsClocks, DanglingKnown, DeviceFaults, LateFaults, LateStop
<1>6. InterruptWired'
  BY <1>1, <1>2 DEF FInv, InterruptWired
<1>7. WorkTypes' /\ (load.fault \in Faults)' /\ (sys.held \subseteq AllParts)'
  BY <1>1 DEF FInv, WorkTypes, AllParts
<1> QED BY <1>1, <1>3, <1>4, <1>5, <1>6, <1>7 DEF FInv

(* The places of the start are none of the stop's.                         *)
LEMMA StartingApart ==
  /\ \A x \in Starting : /\ x # "up" /\ x \notin Finalising /\ x \notin StopSteps
                         /\ x \notin Ended /\ x # "crash"
  /\ \A x \in Module : x \notin Starting
  /\ \A x \in {"lisr", "misrwq"} : x \notin Starting /\ x \notin Module
BY DEF Starting, Finalising, StopSteps, Ended, Module

(* A step of the start that succeeds.                                      *)
GoesOn(step, next, got, flag) ==
    /\ pc = step /\ pc' = next /\ why' = why /\ load' = load /\ clk' = clk /\ perf' = perf
    /\ sys'.held = sys.held \union got
    /\ sys'.flags = sys.flags \union flag
    /\ sys'.dangling = sys.dangling
    /\ load.fault = step => step = "perfwq"
    /\ step = "load" => load.fault \notin Module \union {"device"}
    /\ step = "resctx" => "resman" \notin sys.dangling
    /\ step = "perfwq" => ("perfwq" \in got <=> load.fault # "perfwq")

(* What it takes and the flags it sets.                                    *)
TakesOwn(step, got, flag) ==
    /\ got \subseteq AllParts
    /\ \A x \in got : x \in Module \/ (x \in Starting /\ Rank(x) <= Rank(step))
    /\ "devnode" \in got <=> step = "heaptable"
    /\ step = "env" => "env" \in got
    /\ step = "resman" => "resman" \in got
    /\ step = "perfwq" => "PERF" \in flag
    /\ "INITDEV" \in flag <=> step = "synctable"
    /\ "env" \in got => "ENVDATA" \in flag
    /\ "perfwq" \in got => step = "perfwq" /\ "PERF" \in flag
    /\ "MISR" \notin flag

LEMMA StartGoesOn ==
  ASSUME FInv, ReadyInv', NEW step \in Starting, NEW next \in Starting, NEW got, NEW flag,
         Rank(next) = Rank(step) + 1, step # "clk1", step # "clocksoff",
         GoesOn(step, next, got, flag), TakesOwn(step, got, flag)
  PROVE  FInv'
<1>1. /\ pc \in Starting /\ pc' \in Starting /\ ~IsUp' /\ pc' \notin StopSteps
      /\ pc' \notin Ended /\ pc' # "crash"
  BY StartingApart DEF GoesOn, IsUp
<1>2. Rank(pc) \in Nat /\ Rank(pc') = Rank(pc) + 1
  BY Ranks DEF GoesOn
<1>3. /\ load' = load /\ sys'.held = sys.held \union got /\ sys'.flags = sys.flags \union flag
      /\ sys'.dangling = sys.dangling /\ clk' = clk /\ perf' = perf /\ why' = why
  BY DEF GoesOn
<1>4. FaultAhead'
  <2>1. FaultAhead
    BY DEF FInv
  <2>2. load.fault \in Module \union {"device"} => pc # "load"
    BY DEF GoesOn
  <2>3. load.fault \in Starting \ {"eventobj", "eventlist", "perfwq"} => Rank(pc') <= Rank(load.fault)
    <3>1. SUFFICES ASSUME load.fault \in Starting \ {"eventobj", "eventlist", "perfwq"}
                   PROVE  Rank(pc') <= Rank(load.fault)
      OBVIOUS
    <3>2. Rank(pc) <= Rank(load.fault) /\ Rank(load.fault) \in Nat
      BY <1>1, <2>1, <3>1, Ranks DEF FaultAhead
    <3>3. load.fault # pc
      BY <3>1 DEF GoesOn
    <3>4. Rank(pc) # Rank(load.fault)
      BY <1>1, <3>1, <3>3, Ranks
    <3> QED BY <1>2, <3>2, <3>4
  <2>4. load.fault \in {"eventobj", "eventlist"} =>
            Rank(pc') <= Rank(load.fault) \/ "resman" \in sys'.dangling
    <3>1. SUFFICES ASSUME load.fault \in {"eventobj", "eventlist"}, "resman" \notin sys.dangling
                   PROVE  Rank(pc') <= Rank(load.fault)
      BY <1>3
    <3>2. Rank(pc) <= Rank(load.fault) /\ Rank(load.fault) \in Nat /\ load.fault \in Starting
      BY <1>1, <2>1, <3>1, Ranks DEF FaultAhead, Starting
    <3>3. load.fault # pc
      BY <3>1 DEF GoesOn
    <3>4. Rank(pc) # Rank(load.fault)
      BY <1>1, <3>2, <3>3, Ranks
    <3> QED BY <1>2, <3>2, <3>4
  <2>5. "resman" \in sys'.dangling => Rank(pc') <= Rank("resctx")
    <3>1. SUFFICES ASSUME "resman" \in sys.dangling PROVE Rank(pc') <= Rank("resctx")
      BY <1>3
    <3>2. Rank(pc) <= 16 /\ pc # "resctx"
      BY <1>1, <2>1, <3>1, Ranks DEF FaultAhead, Upto, GoesOn
    <3>3. Rank(pc) # 16
      BY <1>1, <3>2, Ranks DEF Starting
    <3> QED BY <1>2, <3>2, <3>3, Ranks
  <2>6. load.fault = "perfwq" => Rank(pc') <= Rank("clk1")
    <3>1. SUFFICES ASSUME load.fault = "perfwq" PROVE Rank(pc') <= Rank("clk1")
      OBVIOUS
    <3>2. Rank(pc) <= 15 /\ pc # "clk1"
      BY <1>1, <2>1, <3>1, Ranks DEF FaultAhead, Upto, GoesOn
    <3>3. Rank(pc) # 15
      BY <1>1, <3>2, Ranks DEF Starting
    <3> QED BY <1>2, <3>2, <3>3, Ranks
  <2>7. load.fault \notin Module \union {"device"}
    BY <1>1, <2>1, <2>2 DEF FaultAhead
  <2> QED BY <1>1, <1>3, <2>3, <2>4, <2>5, <2>6, <2>7 DEF FaultAhead, Upto
<1>5. HeldBefore'
  <2>1. HeldBefore
    BY DEF FInv
  <2>2. \A x \in sys'.held : x \in Module \/ (x \in Starting /\ Rank(x) < Rank(pc'))
    <3>1. TAKE x \in sys'.held
    <3>2. x \in Module \/ (x \in Starting /\ Rank(x) <= Rank(pc))
      BY <1>1, <1>2, <1>3, <2>1, Ranks DEF HeldBefore, GoesOn, TakesOwn
    <3> QED BY <1>2, <3>2, Ranks
  <2>3. \A x \in Starting : Rank(pc') <= Rank(x) => Rank(pc) <= Rank(x) /\ pc # x
    BY <1>2, Ranks
  <2>4. \A x \in Starting : Rank(pc') > Rank(x) => Rank(pc) > Rank(x) \/ pc = x
    BY <1>1, <1>2, Ranks
  <2>5. {"env", "resman", "eventlist", "heaptable", "perfwq", "synctable", "clk1", "clocksoff"}
           \subseteq Starting
    BY DEF Starting
  <2>6. Upto("heaptable")' => "devnode" \notin sys'.held
    BY <1>1, <1>3, <2>1, <2>3, <2>5 DEF HeldBefore, Upto, GoesOn, TakesOwn
  <2>7. Past("env")' => "env" \in sys'.held
    BY <1>1, <1>3, <2>1, <2>4, <2>5 DEF HeldBefore, Past, GoesOn, TakesOwn
  <2>8. Past("resman")' /\ Upto("eventlist")' => "resman" \in sys'.held
    BY <1>1, <1>3, <2>1, <2>3, <2>4, <2>5 DEF HeldBefore, Upto, Past, GoesOn, TakesOwn
  <2>9. Past("heaptable")' => "devnode" \in sys'.held
    BY <1>1, <1>3, <2>1, <2>4, <2>5 DEF HeldBefore, Past, GoesOn, TakesOwn
  <2>10. Past("perfwq")' => "PERF" \in sys'.flags /\ ("perfwq" \in sys'.held \/ load.fault = "perfwq")
    BY <1>1, <1>3, <2>1, <2>4, <2>5 DEF HeldBefore, Past, GoesOn, TakesOwn
  <2>11. "INITDEV" \in sys'.flags <=> Past("synctable")'
    <3>1. Past("synctable")' <=> Past("synctable") \/ pc = "synctable"
      BY <1>1, <1>2, <2>4, <2>5, Ranks DEF Past
    <3> QED BY <1>1, <1>3, <2>1, <3>1 DEF HeldBefore, GoesOn, TakesOwn
  <2>12. Upto("clk1")' => Idle' /\ ~clk'.on
    BY <1>1, <1>3, <2>1, <2>3, <2>5 DEF HeldBefore, Upto, Idle
  <2>13. Past("clocksoff")' => ~clk'.on
    BY <1>1, <1>3, <2>1, <2>4, <2>5 DEF HeldBefore, Past, GoesOn
  <2>14. why' = "start"
    BY <1>1, <1>3, <2>1 DEF HeldBefore
  <2>15. load.fault = "perfwq" => "perfwq" \notin sys'.held
    BY <1>1, <1>3, <2>1 DEF HeldBefore, GoesOn, TakesOwn
  <2> QED BY <1>3, <2>2, <2>6, <2>7, <2>8, <2>9, <2>10, <2>11, <2>12, <2>13, <2>14, <2>15
          DEF HeldBefore
<1>6. HeldUp' /\ HeldAfter' /\ HeldAtEnd'
  BY <1>1 DEF HeldUp, HeldAfter, HeldAtEnd
<1>7. "lisr" \notin sys'.held /\ "misrwq" \notin sys'.held
  BY <1>1, <1>5, StartingApart DEF HeldBefore
<1>8. FlagsTell'
  BY <1>1, <1>3, <1>7 DEF FInv, FlagsTell, TakesOwn
<1>9. InterruptWired'
  BY <1>1, <1>3, <1>7 DEF FInv, InterruptWired, TakesOwn, HeldBefore
<1>10. TimerNeedsClocks' /\ WorkTypes' /\ (sys.held \subseteq AllParts)'
  BY <1>3 DEF FInv, TimerNeedsClocks, WorkTypes, TakesOwn, AllParts, DeviceFaults
<1>11. DanglingKnown'
  BY <1>1, <1>3 DEF FInv, DanglingKnown, LateFaults, LateStop
<1> QED BY <1>1, <1>3, <1>4, <1>5, <1>6, <1>8, <1>9, <1>10, <1>11 DEF FInv

(* A step of SysInitialise that fails and stops the driver.                *)
LEMMA StartStops ==
  ASSUME FInv, ReadyInv', pc \in Starting, load.fault = pc, pc # "load", pc # "misc",
         pc # "perfwq",
         pc' = "s_lisr", why' = why, load' = load, clk' = clk, perf' = perf,
         sys'.held \subseteq sys.held, sys.flags \subseteq sys'.flags,
         "MISR" \in sys'.flags => "MISR" \in sys.flags,
         "INITDEV" \in sys'.flags => "INITDEV" \in sys.flags,
         pc \in SGXParts => sys'.held \intersect SGXParts = {},
         sys.dangling \subseteq sys'.dangling,
         "devinfo" \in sys'.dangling =>
            "devinfo" \in sys.dangling \/ ("devinfo" \in sys.held /\ pc \in SGXParts),
         {"resman", "eventobj"} \intersect sys'.dangling # {} =>
            \/ {"resman", "eventobj"} \intersect sys.dangling # {}
            \/ pc \in Common /\ {"resman", "eventobj"} \intersect sys.held # {}
  PROVE  FInv'
<1>1. /\ pc' \notin Starting /\ ~IsUp' /\ pc' \in StopSteps /\ pc' \in Beginning
      /\ pc' \notin Ended /\ pc' # "crash" /\ pc' \notin Flushed
  BY DEF Starting, IsUp, Finalising, StopSteps, Beginning, Ended, Flushed
<1>2. pc # "events" /\ pc # "clocksoff"
  BY DEF FInv, Faults, Module, Common, SGXParts
<1>3. Rank(pc) \in Nat /\ Rank(pc) <= 21
  BY <1>2, Ranks DEF Starting
<1>4. HeldBefore /\ FaultAhead
  BY DEF FInv
<1>5. "lisr" \notin sys'.held /\ "misrwq" \notin sys.held /\ "misc" \notin sys'.held
  <2>1. Rank("misc") = 23 /\ "misc" \notin Module
    BY Ranks DEF Module
  <2> QED BY <1>3, <1>4, <2>1, StartingApart DEF HeldBefore
<1>6. FaultAhead' /\ HeldBefore' /\ HeldUp' /\ HeldAtEnd'
  BY <1>1 DEF FaultAhead, HeldBefore, HeldUp, HeldAtEnd
<1>7. FlagsTell'
  BY <1>5 DEF FInv, FlagsTell
<1>8. "INITDEV" \notin sys'.flags
  BY <1>3, <1>4, Ranks DEF HeldBefore, Past
<1>9. clk.on => load.fault \in DeviceFaults
  <2>1. clk.on => Rank(pc) > 15
    BY <1>3, <1>4, Ranks DEF HeldBefore, Upto
  <2>2. Rank(pc) > 15 => pc \in DeviceFaults
    BY <1>3, Ranks DEF Starting, DeviceFaults, SGXParts
  <2> QED BY <2>1, <2>2
<1>10. Device \intersect sys'.held \subseteq Kept'
  <2>1. SUFFICES ASSUME NEW x \in Device, x \in sys'.held PROVE x \in Kept'
    OBVIOUS
  <2>2. x \in Starting /\ Rank(x) < Rank(pc)
    BY <1>4, <2>1 DEF HeldBefore, Device, DevDeInitSGX, SGXParts, SrvParts, Module
  <2>3. x \in {"devnode", "heaptable", "resctx", "synctable"} \union SGXParts
    BY <2>1, <2>2 DEF Device, DevDeInitSGX, SGXParts, SrvParts, Starting
  <2>4. x = "devnode" => Rank(pc) > 11
    BY <1>3, <1>4, <2>1, Ranks DEF HeldBefore, Upto
  <2>5. Kept' = LeaksOf(pc)
    BY <1>2, <1>3, Ranks DEF Kept, LateStop, LeaksOf, SGXParts, Common, SrvParts, Starting
  <2>6. CASE x \in {"devnode", "heaptable"}
    <3>1. Rank(pc) > 11
      BY <2>2, <2>4, <2>6, Ranks
    <3>2. pc \in {"clocks", "sysclocks", "clk1", "resctx", "synctable"} \union SGXParts
      BY <1>3, <3>1, Ranks DEF Starting, SGXParts
    <3> QED BY <2>5, <2>6, <3>2 DEF LeaksOf, SGXParts
  <2>7. CASE x = "resctx"
    <3>1. pc \in {"synctable"} \union SGXParts
      BY <1>3, <2>2, <2>7, Ranks DEF Starting, SGXParts
    <3> QED BY <2>5, <2>7, <3>1 DEF LeaksOf, SGXParts
  <2>8. CASE x \in SGXParts
    <3>1. pc = "synctable"
      <4>1. Rank(x) >= 17
        BY <2>8, Ranks DEF SGXParts
      <4>2. pc \in {"synctable"} \union SGXParts
        BY <1>3, <2>2, <4>1, Ranks DEF Starting, SGXParts
      <4> QED BY <2>1, <2>8, <4>2
    <3> QED BY <2>5, <2>8, <3>1 DEF LeaksOf, SGXParts
  <2>9. CASE x = "synctable"
    BY <1>3, <2>2, <2>9, Ranks
  <2> QED BY <2>3, <2>6, <2>7, <2>8, <2>9
<1>11. HeldAfter'
  <2>1. why' = "start"
    BY <1>4 DEF HeldBefore
  <2>2. sys'.held \subseteq Rest("s_lisr") \union Kept' \union Module \union {"events"}
    <3>1. SUFFICES ASSUME NEW x \in sys'.held, x \notin Module
                   PROVE  x \in Rest("s_lisr")
      OBVIOUS
    <3>2. x \in AllParts /\ x # "misc" /\ x \in Starting /\ x # "events"
      BY <1>3, <1>4, <1>5, <3>1, Ranks DEF FInv, HeldBefore
    <3> QED BY <3>1, <3>2 DEF AllParts, Rest, Device, Beginning, Flushed
  <2>3. "PERF" \in sys'.flags \/ Idle'
    BY <1>3, <1>4, Ranks DEF HeldBefore, Upto, Past, Idle
  <2> QED BY <1>1, <1>8, <1>9, <1>10, <2>1, <2>2, <2>3
          DEF HeldAfter, Beginning, Flushed, DeviceFaults
<1>12. InterruptWired'
  BY <1>1, <1>5 DEF FInv, InterruptWired
<1>13. TimerNeedsClocks' /\ WorkTypes' /\ (sys.held \subseteq AllParts)'
  BY <1>9 DEF FInv, TimerNeedsClocks, WorkTypes, AllParts, DeviceFaults
<1>14. DanglingKnown'
  <2>1. "devinfo" \in sys.held /\ pc \in SGXParts => pc \in {"kernelctx", "heaps", "bifpd"}
    BY <1>3, <1>4, Ranks DEF HeldBefore, SGXParts, Module
  <2>2. "resman" \in sys.held \/ "eventobj" \in sys.held => pc # "resman"
    BY <1>3, <1>4, Ranks DEF HeldBefore, Module
  <2> QED BY <1>1, <2>1, <2>2 DEF FInv, DanglingKnown, LateFaults, LateStop
<1> QED BY <1>1, <1>6, <1>7, <1>11, <1>12, <1>13, <1>14 DEF FInv

LEMMA StageFaults ==
  ASSUME FInv, ReadyInv', NEW step \in Starting, NEW next \in Starting, NEW got, NEW flag,
         Rank(next) = Rank(step) + 1, step \notin {"load", "perfwq", "clk1", "clocksoff", "misc"},
         TakesOwn(step, got, flag), Stage(step, got, flag, next),
         step = "resctx" => "resman" \notin sys.dangling, step \notin SGXParts
  PROVE  FInv'
<1>1. IsSys(sys) /\ pc = step /\ load' = load /\ clk' = clk /\ perf' = perf
  BY DEF FInv, ReadyInv, DriverTypes, Stage
<1>2. CASE Fails(step)
  <2>1. pc' = "s_lisr" /\ why' = why /\ sys' = sys /\ load.fault = pc
    BY <1>1, <1>2 DEF Stage, Deinitialise, Fails
  <2> QED BY <1>1, <2>1, StartStops
<1>3. CASE ~Fails(step)
  <2>1. Get(got, flag) /\ pc' = next /\ why' = why /\ load.fault # step
    BY <1>3 DEF Stage, Goto, Fails
  <2>2. GoesOn(step, next, got, flag)
    BY <1>1, <2>1, GetFields DEF GoesOn
  <2> QED BY <2>2, StartGoesOn
<1> QED BY <1>2, <1>3

(* A step of PVRSRVInit; the last two fail without stopping the start.     *)
LEMMA PVRSRVInitStepFaults ==
  ASSUME FInv, ReadyInv', NEW step \in Common, NEW next \in Starting, step \in Starting,
         Rank(next) = Rank(step) + 1, Rank(step) > 1, Rank(step) < 7, PVRSRVInitStep(step, next)
  PROVE  FInv'
<1>1. IsSys(sys) /\ pc = step /\ load' = load /\ clk' = clk /\ perf' = perf /\ pc \in Starting
  BY DEF FInv, ReadyInv, DriverTypes, PVRSRVInitStep
<1>2. step \notin SGXParts /\ step \notin {"load", "perfwq", "clk1", "clocksoff", "misc"}
  BY DEF Common, SGXParts
<1>3. CASE Fails(step) /\ step \notin {"eventobj", "eventlist"}
  <2>1. pc' = "s_lisr" /\ why' = why /\ sys' = FreeCommon(sys) /\ load.fault = pc
    BY <1>1, <1>3 DEF PVRSRVInitStep, Deinitialise, Fails
  <2>2. /\ sys'.held = sys.held \ Common /\ sys'.flags = sys.flags
        /\ sys'.dangling = sys.dangling \union (sys.held \intersect {"resman", "eventobj"})
    BY <1>1, <2>1, FreeCommonFields
  <2> QED BY <1>1, <1>2, <2>1, <2>2, StartStops
<1>4. CASE Fails(step) /\ step \in {"eventobj", "eventlist"}
  <2>1. /\ pc' = "timerreg" /\ why' = why /\ sys' = FreeCommon(sys) /\ load.fault = pc
        /\ pc \in {"eventobj", "eventlist"}
    BY <1>1, <1>4 DEF PVRSRVInitStep, Goto, Fails
  <2>2. /\ sys'.held = sys.held \ Common /\ sys'.flags = sys.flags
        /\ sys'.dangling = sys.dangling \union (sys.held \intersect {"resman", "eventobj"})
    BY <1>1, <2>1, FreeCommonFields
  <2>3. /\ pc' \in Starting /\ ~IsUp' /\ pc' \notin StopSteps /\ pc' \notin Ended /\ pc' # "crash"
    BY <2>1, StartingApart DEF Starting, IsUp
  <2>4. /\ Rank(pc) \in 5..6 /\ Rank(pc') = 7 /\ HeldBefore /\ FaultAhead
        /\ load.fault \notin Module \union {"device", "perfwq"}
    BY <2>1, Ranks DEF FInv, Module
  <2>5. /\ Rank("env") = 1 /\ Rank("resman") = 2 /\ Rank("eventlist") = 6
        /\ Rank("heaptable") = 11 /\ Rank("perfwq") = 14 /\ Rank("clk1") = 15 /\ Rank("resctx") = 16
        /\ Rank("synctable") = 21 /\ Rank("clocksoff") = 22
    BY Ranks
  <2>6. "resman" \in sys.held
    BY <1>1, <2>4, <2>5 DEF HeldBefore, Past, Upto
  <2>7. FaultAhead'
    <3>1. "resman" \in sys'.dangling /\ Upto("resctx")'
      BY <2>2, <2>3, <2>4, <2>5, <2>6 DEF Upto
    <3> QED BY <1>1, <2>1, <2>4, <3>1 DEF FaultAhead
  <2>8. \A x \in sys'.held : x \in Module \/ (x \in Starting /\ Rank(x) < Rank(pc'))
    <3>1. TAKE x \in sys'.held
    <3>2. x \in Module \/ (x \in Starting /\ Rank(x) < Rank(pc) /\ Rank(x) \in Nat)
      BY <1>1, <2>2, <2>4, Ranks DEF HeldBefore
    <3> QED BY <2>4, <3>2
  <2>9. "env" \notin Common
    BY DEF Common
  <2>10. HeldBefore'
    <3>1. /\ why' = "start"
          /\ "devnode" \notin sys'.held /\ "env" \in sys'.held /\ "INITDEV" \notin sys'.flags
          /\ Idle' /\ ~clk'.on
      BY <1>1, <2>1, <2>2, <2>4, <2>5, <2>9 DEF HeldBefore, Upto, Past, Idle
    <3> QED BY <1>1, <2>3, <2>4, <2>5, <2>8, <3>1 DEF HeldBefore, Upto, Past
  <2>11. HeldUp' /\ HeldAfter' /\ HeldAtEnd'
    BY <2>3 DEF HeldUp, HeldAfter, HeldAtEnd
  <2>12. "lisr" \notin sys.held /\ "misrwq" \notin sys.held
    BY <1>1, <2>4, StartingApart DEF HeldBefore
  <2>13. FlagsTell' /\ InterruptWired'
    BY <1>1, <2>2, <2>12 DEF FInv, FlagsTell, InterruptWired
  <2>14. TimerNeedsClocks' /\ WorkTypes' /\ (sys.held \subseteq AllParts)'
    <3>1. ~clk.on
      BY <1>1, <2>4, <2>5 DEF HeldBefore, Upto
    <3> QED BY <1>1, <2>2, <3>1 DEF FInv, TimerNeedsClocks, WorkTypes, AllParts
  <2>15. DanglingKnown'
    BY <1>1, <2>1, <2>2 DEF FInv, DanglingKnown, LateFaults, LateStop, Common
  <2> QED BY <1>1, <2>3, <2>7, <2>10, <2>11, <2>13, <2>14, <2>15 DEF FInv
<1>5. CASE ~Fails(step)
  <2>1. Get({step}, {}) /\ pc' = next /\ why' = why /\ load.fault # step
    BY <1>5 DEF PVRSRVInitStep, Goto, Fails
  <2>2. GoesOn(step, next, {step}, {})
    BY <1>1, <1>2, <2>1, GetFields DEF GoesOn, Common
  <2>3. TakesOwn(step, {step}, {})
    BY Ranks DEF TakesOwn, AllParts, Common
  <2> QED BY <1>2, <2>2, <2>3, StartGoesOn
<1> QED BY <1>3, <1>4, <1>5

LEMMA DevInitSGXPart1Faults ==
  ASSUME FInv, ReadyInv', NEW step \in SGXParts, NEW next \in Starting, step \in Starting,
         Rank(next) = Rank(step) + 1, DevInitSGXPart1Step(step, next)
  PROVE  FInv'
<1>1. IsSys(sys) /\ pc = step /\ load' = load /\ clk' = clk /\ perf' = perf /\ pc \in Starting
  BY DEF FInv, ReadyInv, DriverTypes, DevInitSGXPart1Step
<1>2. step \notin Common /\ step \notin {"load", "perfwq", "clk1", "clocksoff", "misc"}
  BY DEF Common, SGXParts
<1>3. CASE Fails(step)
  <2>1. pc' = "s_lisr" /\ why' = why /\ load.fault = pc
    BY <1>1, <1>3 DEF DevInitSGXPart1Step, Deinitialise, Fails
  <2>2. PICK h, g, d : sys = [held |-> h, flags |-> g, dangling |-> d]
    BY <1>1 DEF IsSys
  <2>3. sys' = [held |-> h \ SGXParts, flags |-> g,
                dangling |-> d \union (h \intersect {"devinfo"})]
    BY <1>3, <2>2 DEF DevInitSGXPart1Step
  <2>4. /\ sys'.held = sys.held \ SGXParts /\ sys'.flags = sys.flags
        /\ sys'.dangling = sys.dangling \union (sys.held \intersect {"devinfo"})
    BY <2>2, <2>3
  <2> QED BY <1>1, <1>2, <2>1, <2>4, StartStops
<1>4. CASE ~Fails(step)
  <2>1. Get({step}, {}) /\ pc' = next /\ why' = why /\ load.fault # step
    BY <1>4 DEF DevInitSGXPart1Step, Goto, Fails
  <2>2. GoesOn(step, next, {step}, {})
    BY <1>1, <1>2, <2>1, GetFields DEF GoesOn, SGXParts
  <2>3. TakesOwn(step, {step}, {})
    BY Ranks DEF TakesOwn, AllParts, SGXParts, DevDeInitSGX
  <2> QED BY <1>2, <2>2, <2>3, StartGoesOn
<1> QED BY <1>3, <1>4

(* The clocks go on or off; the work is queued when they change.           *)
LEMMA ClockForms ==
  ASSUME WorkTypes
  PROVE  /\ EnableSGXClocks => /\ WorkTypes' /\ clk'.on
                               /\ perf' = perf \/ perf'.pending = "queued"
                               /\ clk.on => clk' = clk /\ perf' = perf
         /\ DisableSGXClocks => /\ WorkTypes' /\ ~clk'.on
                                /\ ~clk.on => clk' = clk /\ perf' = perf
                                /\ clk.on => ~clk'.wanted /\ perf'.pending = "queued"
<1>1. PICK k \in [on : BOOLEAN, wanted : BOOLEAN],
           w \in [pending : {"no", "queued", "timer"}, run : {"no", "read", "zero", "busy"}] :
        k = clk /\ w = perf
  BY DEF WorkTypes
<1>2. ASSUME NEW ena \in BOOLEAN, sgx_need_perf(ena)
      PROVE  WorkTypes' /\ clk'.on = ena /\ clk'.wanted = ena /\ perf'.pending = "queued"
  <2>1. clk' = [on |-> ena, wanted |-> ena] /\ perf' = [w EXCEPT !.pending = "queued"]
    BY <1>1, <1>2 DEF sgx_need_perf
  <2> QED BY <1>1, <2>1 DEF WorkTypes
<1>3. ASSUME EnableSGXClocks
      PROVE  /\ WorkTypes' /\ clk'.on /\ (perf' = perf \/ perf'.pending = "queued")
             /\ clk.on => clk' = clk /\ perf' = perf
  <2>1. CASE clk.on
    BY <1>3, <2>1 DEF EnableSGXClocks, WorkTypes
  <2>2. CASE ~clk.on
    BY <1>2, <1>3, <2>2 DEF EnableSGXClocks
  <2> QED BY <2>1, <2>2
<1>4. ASSUME DisableSGXClocks
      PROVE  /\ WorkTypes' /\ ~clk'.on
             /\ ~clk.on => clk' = clk /\ perf' = perf
             /\ clk.on => ~clk'.wanted /\ perf'.pending = "queued"
  <2>1. CASE ~clk.on
    BY <1>4, <2>1 DEF DisableSGXClocks, WorkTypes
  <2>2. CASE clk.on
    BY <1>2, <1>4, <2>2 DEF DisableSGXClocks
  <2> QED BY <2>1, <2>2
<1> QED BY <1>3, <1>4

(* With the clocks off no timer is set.                                    *)
LEMMA ClocksOffTimer ==
  ASSUME TimerNeedsClocks, WorkTypes, DisableSGXClocks
  PROVE  TimerNeedsClocks'
<1>1. /\ ~clk'.on /\ (~clk.on => clk' = clk /\ perf' = perf)
      /\ clk.on => ~clk'.wanted /\ perf'.pending = "queued"
  BY ClockForms
<1> QED BY <1>1 DEF TimerNeedsClocks

(* The start turns the clocks on.                                          *)
LEMMA StartClocksFaults ==
  ASSUME FInv, ReadyInv', StartClocks
  PROVE  FInv'
<1>1. /\ pc = "clk1" /\ load' = load /\ sys' = sys /\ pc \in Starting /\ Rank(pc) = 15
      /\ HeldBefore /\ FaultAhead /\ WorkTypes
  BY Ranks DEF FInv, StartClocks, Starting, Crash
<1>2. CASE Fails("clk1") /\ Deinitialise /\ UNCHANGED <<why, clk, perf>>
  <2>1. load.fault = pc /\ pc' = "s_lisr" /\ pc \notin SGXParts
    BY <1>1, <1>2 DEF Fails, Deinitialise, SGXParts
  <2> QED BY <1>1, <1>2, <2>1, StartStops
<1>3. CASE "perfwq" \notin sys.held /\ Crash("perfwq")
  <2>1. load.fault = "perfwq"
    BY <1>1, <1>3, Ranks DEF HeldBefore, Past
  <2>2. "perfwq" \in CrashesOf(load.fault)
    BY <2>1 DEF CrashesOf
  <2> QED BY <1>3, <2>2, CrashFaults
<1>4. CASE ~Fails("clk1") /\ "perfwq" \in sys.held /\ EnableSGXClocks /\ Goto("resctx")
  <2>1. pc' = "resctx" /\ why' = why /\ load.fault # "clk1" /\ load.fault # "perfwq"
    BY <1>1, <1>4 DEF Goto, Fails, HeldBefore
  <2>2. WorkTypes' /\ clk'.on
    BY <1>1, <1>4, ClockForms
  <2>3. /\ pc' \in Starting /\ ~IsUp' /\ pc' \notin StopSteps /\ pc' \notin Ended /\ pc' # "crash"
    BY <2>1, StartingApart DEF Starting, IsUp
  <2>4. Rank(pc') = 16
    BY <2>1, Ranks
  <2>5. FaultAhead'
    <3>1. load.fault \in Starting \ {"eventobj", "eventlist", "perfwq"} => Rank(load.fault) >= 16
      <4>1. SUFFICES ASSUME load.fault \in Starting \ {"eventobj", "eventlist", "perfwq"}
                     PROVE  Rank(load.fault) >= 16
        OBVIOUS
      <4>2. Rank(load.fault) \in Nat /\ Rank(load.fault) >= 15
        BY <1>1, <4>1, Ranks DEF FaultAhead
      <4>3. Rank(load.fault) # 15
        BY <2>1, <4>1, Ranks DEF Starting
      <4> QED BY <4>2, <4>3
    <3>2. load.fault \in {"eventobj", "eventlist"} => "resman" \in sys.dangling
      BY <1>1, Ranks DEF FaultAhead
    <3>3. load.fault \notin Module \union {"device"}
      BY <1>1 DEF FaultAhead
    <3>4. Upto("resctx")'
      BY <2>3, <2>4, Ranks DEF Upto
    <3> QED BY <1>1, <2>1, <2>4, <3>1, <3>2, <3>3, <3>4, Ranks DEF FaultAhead
  <2>6. /\ Rank("env") = 1 /\ Rank("resman") = 2 /\ Rank("eventlist") = 6
        /\ Rank("heaptable") = 11 /\ Rank("perfwq") = 14 /\ Rank("clk1") = 15
        /\ Rank("synctable") = 21 /\ Rank("clocksoff") = 22
    BY Ranks
  <2>7. \A x \in sys'.held : x \in Module \/ (x \in Starting /\ Rank(x) < Rank(pc'))
    <3>1. TAKE x \in sys'.held
    <3>2. x \in Module \/ (x \in Starting /\ Rank(x) < Rank(pc) /\ Rank(x) \in Nat)
      BY <1>1, Ranks DEF HeldBefore
    <3> QED BY <1>1, <2>4, <3>2
  <2>8. HeldBefore'
    BY <1>1, <1>4, <2>1, <2>3, <2>4, <2>6, <2>7 DEF HeldBefore, Upto, Past
  <2>9. HeldUp' /\ HeldAfter' /\ HeldAtEnd'
    BY <2>3 DEF HeldUp, HeldAfter, HeldAtEnd
  <2>10. FlagsTell' /\ InterruptWired' /\ DanglingKnown' /\ (sys.held \subseteq AllParts)'
    BY <1>1, <2>3 DEF FInv, FlagsTell, InterruptWired, DanglingKnown, AllParts, LateFaults, LateStop
  <2>11. TimerNeedsClocks'
    BY <1>1, <1>4, <2>2, <2>6 DEF TimerNeedsClocks, HeldBefore, Past
  <2> QED BY <1>1, <2>2, <2>3, <2>5, <2>8, <2>9, <2>10, <2>11 DEF FInv
<1> QED BY <1>2, <1>3, <1>4 DEF StartClocks

(* The start is over for SysInitialise; the clocks are off again.          *)
LEMMA StartClocksOffFaults ==
  ASSUME FInv, ReadyInv', StartClocksOff
  PROVE  FInv'
<1>1. /\ pc = "clocksoff" /\ load' = load /\ sys' = sys /\ pc \in Starting /\ Rank(pc) = 22
      /\ HeldBefore /\ FaultAhead /\ WorkTypes /\ pc' = "misc" /\ why' = why /\ DisableSGXClocks
  BY Ranks DEF FInv, StartClocksOff, Starting, Goto
<1>2. /\ pc' \in Starting /\ ~IsUp' /\ pc' \notin StopSteps /\ pc' \notin Ended /\ pc' # "crash"
  BY <1>1, StartingApart DEF Starting, IsUp
<1>3. Rank(pc') = 23 /\ WorkTypes' /\ ~clk'.on /\ load.fault # "clocksoff"
  BY <1>1, Ranks, ClockForms DEF FInv, Faults, Module, Common, SGXParts
<1>4. /\ Rank("env") = 1 /\ Rank("resman") = 2 /\ Rank("eventlist") = 6 /\ Rank("resctx") = 16
      /\ Rank("heaptable") = 11 /\ Rank("perfwq") = 14 /\ Rank("clk1") = 15
      /\ Rank("synctable") = 21 /\ Rank("clocksoff") = 22
  BY Ranks
<1>5. FaultAhead'
  <2>1. load.fault \in Starting \ {"eventobj", "eventlist", "perfwq"} => Rank(load.fault) >= 23
    <3>1. SUFFICES ASSUME load.fault \in Starting \ {"eventobj", "eventlist", "perfwq"}
                   PROVE  Rank(load.fault) >= 23
      OBVIOUS
    <3>2. Rank(load.fault) \in Nat /\ Rank(load.fault) >= 22
      BY <1>1, <3>1, Ranks DEF FaultAhead
    <3>3. Rank(load.fault) # 22
      BY <1>3, <3>1, Ranks DEF Starting
    <3> QED BY <3>2, <3>3
  <2>2. "resman" \notin sys.dangling /\ load.fault # "perfwq"
    BY <1>1, <1>4 DEF FaultAhead, Upto
  <2>3. load.fault \notin {"eventobj", "eventlist"}
    BY <1>1, <2>2, Ranks DEF FaultAhead
  <2>4. load.fault \notin Module \union {"device"}
    BY <1>1 DEF FaultAhead
  <2> QED BY <1>1, <1>3, <2>1, <2>2, <2>3, <2>4, Ranks DEF FaultAhead
<1>6. \A x \in sys'.held : x \in Module \/ (x \in Starting /\ Rank(x) < Rank(pc'))
  <2>1. TAKE x \in sys'.held
  <2>2. x \in Module \/ (x \in Starting /\ Rank(x) < Rank(pc) /\ Rank(x) \in Nat)
    BY <1>1, Ranks DEF HeldBefore
  <2> QED BY <1>1, <1>3, <2>2
<1>7. HeldBefore'
  BY <1>1, <1>2, <1>3, <1>4, <1>6 DEF HeldBefore, Upto, Past
<1>8. HeldUp' /\ HeldAfter' /\ HeldAtEnd'
  BY <1>2 DEF HeldUp, HeldAfter, HeldAtEnd
<1>9. FlagsTell' /\ InterruptWired' /\ DanglingKnown' /\ (sys.held \subseteq AllParts)'
  BY <1>1, <1>2 DEF FInv, FlagsTell, InterruptWired, DanglingKnown, AllParts, LateFaults, LateStop
<1>10. TimerNeedsClocks'
  BY <1>1, ClocksOffTimer DEF FInv
<1> QED BY <1>1, <1>2, <1>3, <1>5, <1>7, <1>8, <1>9, <1>10 DEF FInv

LEMMA SysInitialiseFaults ==
  ASSUME FInv, ReadyInv', SysInitialise
  PROVE  FInv'
<1>1. IsSys(sys)
  BY DEF FInv, ReadyInv, DriverTypes
<1>2. {"env", "resman", "perproc", "handles", "eventobj", "eventlist", "timerreg", "locate", "ocp",
       "devnode", "heaptable", "clocks", "sysclocks", "perfwq", "clk1", "resctx", "devinfo",
       "kernelctx", "heaps", "bifpd", "synctable", "clocksoff"} \subseteq Starting
  BY DEF Starting
<1>3. ASSUME OSInitEnvData PROVE FInv'
  <2>1. pc = "env" /\ load' = load /\ clk' = clk /\ perf' = perf /\ why' = why
    BY <1>3 DEF OSInitEnvData, Goto
  <2>2. CASE Fails("env") /\ pc' = "s_lisr" /\ Get({}, {"DATA"})
    <3>1. sys'.held = sys.held /\ sys'.flags = sys.flags \union {"DATA"} /\ sys'.dangling = sys.dangling
      BY <1>1, <2>2, GetFields
    <3>2. load.fault = pc /\ pc \notin SGXParts
      BY <2>1, <2>2 DEF Fails, SGXParts
    <3> QED BY <1>2, <2>1, <2>2, <3>1, <3>2, StartStops
  <2>3. CASE ~Fails("env") /\ pc' = "resman" /\ Get({"env"}, {"DATA", "ENVDATA"})
    <3>1. GoesOn("env", "resman", {"env"}, {"DATA", "ENVDATA"})
      BY <1>1, <2>1, <2>3, GetFields DEF GoesOn, Fails
    <3>2. TakesOwn("env", {"env"}, {"DATA", "ENVDATA"})
      BY <1>2, Ranks DEF TakesOwn, AllParts
    <3> QED BY <1>2, <3>1, <3>2, Ranks, StartGoesOn
  <2> QED BY <1>3, <2>2, <2>3 DEF OSInitEnvData, Goto, Deinitialise
<1>4. ASSUME PVRSRVInit PROVE FInv'
  <2>1. {"resman", "perproc", "handles", "eventobj", "eventlist"} \subseteq Common
    BY DEF Common
  <2>2. CASE PVRSRVInitStep("resman", "perproc")
    BY <1>2, <2>1, <2>2, Ranks, PVRSRVInitStepFaults
  <2>3. CASE PVRSRVInitStep("perproc", "handles")
    BY <1>2, <2>1, <2>3, Ranks, PVRSRVInitStepFaults
  <2>4. CASE PVRSRVInitStep("handles", "eventobj")
    BY <1>2, <2>1, <2>4, Ranks, PVRSRVInitStepFaults
  <2>5. CASE PVRSRVInitStep("eventobj", "eventlist")
    BY <1>2, <2>1, <2>5, Ranks, PVRSRVInitStepFaults
  <2>6. CASE PVRSRVInitStep("eventlist", "timerreg")
    BY <1>2, <2>1, <2>6, Ranks, PVRSRVInitStepFaults
  <2> QED BY <1>4, <2>2, <2>3, <2>4, <2>5, <2>6 DEF PVRSRVInit
<1>5. ASSUME DevInitSGXPart1 PROVE FInv'
  <2>1. {"devinfo", "kernelctx", "heaps", "bifpd"} \subseteq SGXParts
    BY DEF SGXParts
  <2>2. CASE DevInitSGXPart1Step("devinfo", "kernelctx")
    BY <1>2, <2>1, <2>2, Ranks, DevInitSGXPart1Faults
  <2>3. CASE DevInitSGXPart1Step("kernelctx", "heaps")
    BY <1>2, <2>1, <2>3, Ranks, DevInitSGXPart1Faults
  <2>4. CASE DevInitSGXPart1Step("heaps", "bifpd")
    BY <1>2, <2>1, <2>4, Ranks, DevInitSGXPart1Faults
  <2>5. CASE DevInitSGXPart1Step("bifpd", "synctable")
    BY <1>2, <2>1, <2>5, Ranks, DevInitSGXPart1Faults
  <2> QED BY <1>5, <2>2, <2>3, <2>4, <2>5 DEF DevInitSGXPart1
<1>6. /\ TakesOwn("timerreg", {"timerreg"}, {}) /\ TakesOwn("locate", {}, {"LOCATEDEV"})
      /\ TakesOwn("ocp", {"ocp"}, {}) /\ TakesOwn("devnode", {}, {})
  BY <1>2, Ranks DEF TakesOwn, AllParts
<1>7. TakesOwn("heaptable", {"devnode", "heaptable"}, {"REGDEV", "PDUMPINIT"})
  BY <1>2, Ranks DEF TakesOwn, AllParts, DevDeInitSGX
<1>8. /\ TakesOwn("clocks", {"clocks"}, {}) /\ TakesOwn("sysclocks", {}, {"SYSCLOCKS"})
      /\ TakesOwn("resctx", {"resctx"}, {}) /\ TakesOwn("synctable", {"synctable"}, {"INITDEV"})
  BY <1>2, Ranks DEF TakesOwn, AllParts
<1>9. SGXParts \intersect {"timerreg", "locate", "ocp", "devnode", "heaptable", "clocks",
                           "sysclocks", "resctx", "synctable"} = {}
  BY DEF SGXParts
<1>10. ASSUME ReserveTimerRegister PROVE FInv'
  BY <1>2, <1>6, <1>9, <1>10, Ranks, StageFaults DEF ReserveTimerRegister
<1>11. ASSUME SysLocateDevices PROVE FInv'
  BY <1>2, <1>6, <1>9, <1>11, Ranks, StageFaults DEF SysLocateDevices
<1>12. ASSUME sgx_ocp_init PROVE FInv'
  BY <1>2, <1>6, <1>9, <1>12, Ranks, StageFaults DEF sgx_ocp_init
<1>13. ASSUME Stage("devnode", {}, {}, "heaptable") PROVE FInv'
  BY <1>2, <1>6, <1>9, <1>13, Ranks, StageFaults
<1>14. ASSUME SGXRegisterDevice PROVE FInv'
  BY <1>2, <1>7, <1>9, <1>14, Ranks, StageFaults DEF SGXRegisterDevice
<1>15. ASSUME InitSystemClocks PROVE FInv'
  BY <1>2, <1>8, <1>9, <1>15, Ranks, StageFaults DEF InitSystemClocks
<1>16. ASSUME EnableSystemClocks PROVE FInv'
  BY <1>2, <1>8, <1>9, <1>16, Ranks, StageFaults DEF EnableSystemClocks
<1>17. ASSUME SyncTable PROVE FInv'
  BY <1>2, <1>8, <1>9, <1>17, Ranks, StageFaults DEF SyncTable
<1>18. ASSUME OSInitPerf PROVE FInv'
  <2>1. pc = "perfwq" /\ pc' = "clk1" /\ load' = load /\ clk' = clk /\ perf' = perf /\ why' = why
    BY <1>18 DEF OSInitPerf, Goto
  <2>2. PICK got : Get(got, {"PERF"}) /\ got = IF Fails("perfwq") THEN {} ELSE {"perfwq"}
    BY <1>18 DEF OSInitPerf
  <2>3. GoesOn("perfwq", "clk1", got, {"PERF"})
    BY <1>1, <2>1, <2>2, GetFields DEF GoesOn, Fails
  <2>4. TakesOwn("perfwq", got, {"PERF"})
    BY <1>2, <2>2, Ranks DEF TakesOwn, AllParts
  <2> QED BY <1>2, <2>3, <2>4, Ranks, StartGoesOn
<1>19. ASSUME ConnectDevice PROVE FInv'
  <2>1. CASE pc = "resctx" /\ "resman" \in sys.dangling /\ Crash("resman")
    <3>1. load.fault \in Common \ {"resman"}
      BY <1>2, <2>1 DEF FInv, DanglingKnown
    <3>2. "resman" \in CrashesOf(load.fault)
      BY <3>1 DEF CrashesOf
    <3> QED BY <2>1, <3>2, CrashFaults
  <2>2. CASE "resman" \notin sys.dangling /\ Stage("resctx", {"resctx"}, {}, "devinfo")
    BY <1>2, <1>8, <1>9, <2>2, Ranks, StageFaults
  <2> QED BY <1>19, <2>1, <2>2 DEF ConnectDevice
<1> QED BY <1>3, <1>4, <1>5, <1>10, <1>11, <1>12, <1>13, <1>14, <1>15, <1>16, <1>17, <1>18, <1>19,
           StartClocksFaults, StartClocksOffFaults DEF SysInitialise, PVRSRVRegisterDevice

(* Who reaches the last step of the start has met no fault but a late one. *)
LEMMA LateAtEvents ==
  ASSUME FInv, pc = "events"
  PROVE  load.fault \in LateFaults \ {"misc"} /\ pc \in Starting /\ Rank(pc) = 24
<1>1. pc \in Starting /\ Rank(pc) = 24 /\ FaultAhead /\ load.fault \in Faults
  BY Ranks DEF FInv, Starting
<1>2. load.fault \notin Module \union {"device", "perfwq", "eventobj", "eventlist"}
  BY <1>1, Ranks DEF FaultAhead, Upto
<1>3. load.fault \in Starting => FALSE
  <2>1. SUFFICES ASSUME load.fault \in Starting PROVE FALSE
    OBVIOUS
  <2>2. Rank(load.fault) >= 24
    BY <1>1, <1>2, <2>1 DEF FaultAhead
  <2>3. load.fault = "events"
    BY <2>1, <2>2, Ranks DEF Starting
  <2> QED BY <1>1, <2>3 DEF Faults, Module, Common, SGXParts
<1> QED BY <1>1, <1>2, <1>3 DEF Faults, Starting, LateFaults, Common, SGXParts

(* A driver that is up stays up; what it takes it takes beyond its start.  *)
LEMMA UpStep ==
  ASSUME FInv, ReadyInv', IsUp, IsUp', load' = load, why' = why, sys'.dangling = sys.dangling,
         sys.held \subseteq sys'.held, sys'.held \subseteq AllParts, sys.flags \subseteq sys'.flags,
         WorkTypes', TimerNeedsClocks', pc' \in {"up", "f_clk"} => ~clk'.on,
         "lisr" \in sys'.held => "LISR" \in sys'.flags,
         "misrwq" \in sys'.held => "MISR" \in sys'.flags, InterruptWired'
  PROVE  FInv'
<1>1. /\ pc' \notin Starting /\ pc' \notin StopSteps /\ pc' \notin Ended /\ pc' # "crash"
  BY DEF IsUp, Starting, Finalising, StopSteps, Ended
<1>2. FaultAhead' /\ HeldBefore' /\ HeldAfter' /\ HeldAtEnd'
  BY <1>1 DEF FaultAhead, HeldBefore, HeldAfter, HeldAtEnd
<1>3. HeldUp'
  BY DEF FInv, HeldUp, LateFaults
<1>4. FlagsTell'
  BY DEF FInv, FlagsTell, HeldUp
<1>5. DanglingKnown'
  BY DEF FInv, DanglingKnown, LateFaults, LateStop
<1> QED BY <1>1, <1>2, <1>3, <1>4, <1>5 DEF FInv

(* It stops when the finalisation fails or the module is removed.          *)
LEMMA UpStops ==
  ASSUME FInv, ReadyInv', IsUp, pc' = "s_lisr", load' = load, clk' = clk, perf' = perf,
         \/ why' = "finalise" /\ sys' = sys
         \/ /\ why' = "remove" /\ pc = "up" /\ sys'.held = sys.held \ {"misc"}
            /\ sys'.flags = sys.flags /\ sys'.dangling = sys.dangling
  PROVE  FInv'
<1>1. /\ pc' \notin Starting /\ ~IsUp' /\ pc' \in StopSteps /\ pc' \in Beginning
      /\ pc' \notin Ended /\ pc' # "crash" /\ pc' \notin Flushed
  BY DEF Starting, IsUp, Finalising, StopSteps, Beginning, Ended, Flushed
<1>2. FaultAhead' /\ HeldBefore' /\ HeldUp' /\ HeldAtEnd'
  BY <1>1 DEF FaultAhead, HeldBefore, HeldUp, HeldAtEnd
<1>3. /\ sys'.held \subseteq sys.held /\ sys.held \ {"misc"} \subseteq sys'.held
      /\ sys'.flags = sys.flags /\ sys'.dangling = sys.dangling
      /\ why' \in {"finalise", "remove"} /\ ("misc" \in sys'.held => why' = "finalise")
  OBVIOUS
<1>4. FlagsTell' /\ InterruptWired'
  BY <1>1, <1>3 DEF FInv, FlagsTell, InterruptWired
<1>5. HeldUp /\ load.fault \in LateFaults \ {"misc"} /\ {"INITDEV", "PERF"} \subseteq sys.flags
  BY DEF FInv, HeldUp
<1>6. HeldAfter'
  <2>1. sys'.held \ {"misc"} \subseteq Rest("s_lisr") \union Module \union {"events"}
    BY <1>3 DEF FInv, AllParts, Rest, Device, Beginning, Flushed
  <2>2. why' = "remove" => ~clk'.on
    BY <1>5 DEF HeldUp
  <2>3. "s_lisr" # "s_dinit" /\ "s_lisr" # "s_abort" /\ "s_lisr" # "s_dclk"
    OBVIOUS
  <2>4. {"env", "perfwq"} \subseteq sys'.held
    BY <1>3, <1>5 DEF HeldUp
  <2> QED BY <1>1, <1>3, <1>5, <2>1, <2>2, <2>3, <2>4 DEF HeldAfter, LateFaults
<1>7. TimerNeedsClocks' /\ WorkTypes' /\ (sys.held \subseteq AllParts)'
  <2>1. {"env", "perfwq"} \subseteq sys'.held
    BY <1>3, <1>5 DEF HeldUp
  <2> QED BY <1>3, <2>1 DEF FInv, TimerNeedsClocks, WorkTypes, AllParts
<1>8. DanglingKnown'
  BY <1>1, <1>3 DEF FInv, DanglingKnown, LateFaults, LateStop
<1> QED BY <1>1, <1>2, <1>4, <1>6, <1>7, <1>8 DEF FInv

(* The start and stop are over.                                            *)
LEMMA EndsClocksFaults ==
  ASSUME FInv, ReadyInv', pc' \in Ended, load' = load, WorkTypes', TimerNeedsClocks',
         sys'.held \subseteq sys.held, sys'.dangling = sys.dangling,
         sys'.held \subseteq LeaksOf(load.fault) \union Module \union {"events"},
         clk'.on => load.fault \in DeviceFaults,
         Idle' \/ load.fault \in DeviceFaults \union LateStop
  PROVE  FInv'
<1>1. pc' \notin Starting /\ ~IsUp' /\ pc' \notin StopSteps /\ pc' # "crash"
      /\ pc' \notin {"s_lisr", "s_misr"}
  BY DEF Starting, IsUp, Finalising, StopSteps, Ended
<1>2. FaultAhead' /\ HeldBefore' /\ HeldUp' /\ FlagsTell' /\ HeldAfter'
  BY <1>1 DEF FaultAhead, HeldBefore, HeldUp, FlagsTell, HeldAfter
<1>3. LeaksOf(load.fault)' = LeaksOf(load.fault)
  BY DEF LeaksOf
<1>4. HeldAtEnd'
  BY <1>3 DEF HeldAtEnd, DeviceFaults, LateStop
<1>5. "lisr" \notin sys'.held
  BY DEF LeaksOf, Module, SGXParts, Common, SrvParts
<1>6. InterruptWired'
  BY <1>1, <1>5 DEF InterruptWired
<1>7. (sys.held \subseteq AllParts)'
  BY DEF FInv, AllParts
<1>8. DanglingKnown'
  BY <1>1 DEF FInv, DanglingKnown, LateFaults, LateStop
<1> QED BY <1>1, <1>2, <1>4, <1>6, <1>7, <1>8 DEF FInv

LEMMA EndsFaults ==
  ASSUME FInv, ReadyInv', pc' \in Ended, load' = load, clk' = clk, perf' = perf,
         sys'.held \subseteq sys.held, sys'.dangling = sys.dangling,
         sys'.held \subseteq LeaksOf(load.fault) \union Module \union {"events"},
         clk.on => load.fault \in DeviceFaults,
         Idle \/ load.fault \in DeviceFaults \union LateStop
  PROVE  FInv'
<1>1. TimerNeedsClocks' /\ WorkTypes'
  BY DEF FInv, TimerNeedsClocks, WorkTypes, DeviceFaults
<1>2. Idle' <=> Idle
  BY DEF Idle
<1> QED BY <1>1, <1>2, EndsClocksFaults

(* The ends of the start: before SysInitialise, and after it.              *)
LEMMA StartEndsFaults ==
  ASSUME FInv, ReadyInv', pvr_init \/ MiscRegister \/ pvr_init_events
  PROVE  FInv'
<1>1. IsSys(sys) /\ HeldBefore /\ FaultAhead
  BY DEF FInv, ReadyInv, DriverTypes
<1>2. ASSUME pvr_init PROVE FInv'
  <2>1. /\ pc = "load" /\ load' = load /\ clk' = clk /\ perf' = perf /\ why' = why
        /\ pc \in Starting /\ Rank(pc) = 0 /\ Rank("clk1") = 15
    BY <1>2, Ranks DEF pvr_init, Goto, Starting
  <2>2. CASE pc' = "down" /\ sys' = sys
    <3>1. sys.held \subseteq Module
      <4>1. \A x \in Starting : ~(Rank(x) < 0)
        BY Ranks
      <4> QED BY <1>1, <2>1, <4>1 DEF HeldBefore
    <3>2. Idle /\ ~clk.on
      BY <1>1, <2>1 DEF HeldBefore, Upto
    <3>3. pc' \in Ended
      BY <2>2 DEF Ended
    <3> QED BY <2>1, <2>2, <3>1, <3>2, <3>3, EndsFaults
  <2>3. CASE load.fault \notin Module \union {"device"} /\ pc' = "env" /\ Get(Module, {})
    <3>1. load.fault # "load"
      BY DEF FInv, Faults, Module, Common, SGXParts
    <3>2. GoesOn("load", "env", Module, {})
      BY <1>1, <2>1, <2>3, <3>1, GetFields DEF GoesOn
    <3>3. TakesOwn("load", Module, {})
      BY DEF TakesOwn, AllParts, Module
    <3>4. "load" \in Starting /\ "env" \in Starting
      BY DEF Starting
    <3> QED BY <3>2, <3>3, <3>4, Ranks, StartGoesOn
  <2> QED BY <1>2, <2>2, <2>3 DEF pvr_init, Goto
<1>3. ASSUME MiscRegister PROVE FInv'
  <2>1. /\ pc = "misc" /\ load' = load /\ clk' = clk /\ perf' = perf /\ why' = why
        /\ pc \in Starting /\ Rank(pc) = 23 /\ Rank("clocksoff") = 22
    BY <1>3, Ranks DEF MiscRegister, Goto, Starting
  <2>2. CASE Fails("misc") /\ pc' = "failed" /\ sys' = sys
    <3>1. load.fault = "misc"
      BY <2>2 DEF Fails
    <3>2. sys.held \subseteq LeaksOf(load.fault) \union Module \union {"events"}
      <4>1. SUFFICES ASSUME NEW x \in sys.held, x \notin Module
                     PROVE  x \in LeaksOf("misc")
        BY <3>1
      <4>2. x \in Starting /\ Rank(x) < 23 /\ x \in AllParts
        BY <1>1, <2>1, <4>1 DEF FInv, HeldBefore
      <4>3. x # "misc" /\ x # "events"
        BY <4>2, Ranks
      <4> QED BY <4>1, <4>2, <4>3
              DEF AllParts, LeaksOf, Starting, SGXParts, Common, SrvParts, DevDeInitSGX
    <3>3. ~clk.on /\ load.fault \in LateStop
      BY <1>1, <2>1, <3>1 DEF HeldBefore, Past, LateStop
    <3>4. pc' \in Ended
      BY <2>2 DEF Ended
    <3> QED BY <2>1, <2>2, <3>2, <3>3, <3>4, EndsFaults
  <2>3. CASE ~Fails("misc") /\ pc' = "events" /\ Get({"misc"}, {})
    <3>1. GoesOn("misc", "events", {"misc"}, {})
      BY <1>1, <2>1, <2>3, GetFields DEF GoesOn, Fails
    <3>2. "misc" \in Starting /\ "events" \in Starting
      BY DEF Starting
    <3>3. TakesOwn("misc", {"misc"}, {})
      BY <3>2, Ranks DEF TakesOwn, AllParts
    <3> QED BY <3>1, <3>2, <3>3, Ranks, StartGoesOn
  <2> QED BY <1>3, <2>2, <2>3 DEF MiscRegister, Goto
<1>4. ASSUME pvr_init_events PROVE FInv'
  <2>1. pc = "events" /\ load' = load /\ clk' = clk /\ perf' = perf
    BY <1>4 DEF pvr_init_events, Stage
  <2>2. load.fault \in LateFaults \ {"misc"} /\ pc \in Starting /\ Rank(pc) = 24
    BY <2>1, LateAtEvents
  <2>3. ~Fails("events")
    BY <2>2 DEF Fails, LateFaults
  <2>4. pc' = "up" /\ why' = why /\ Get({"events"}, {})
    BY <1>4, <2>3 DEF pvr_init_events, Stage, Goto
  <2>5. sys'.held = sys.held \union {"events"} /\ sys'.flags = sys.flags /\ sys'.dangling = sys.dangling
    BY <1>1, <2>4, GetFields
  <2>6. /\ pc' \notin Starting /\ IsUp' /\ pc' \notin StopSteps /\ pc' \notin Ended /\ pc' # "crash"
    BY <2>4 DEF Starting, IsUp, StopSteps, Ended
  <2>7. FaultAhead' /\ HeldBefore' /\ HeldAfter' /\ HeldAtEnd'
    BY <2>6 DEF FaultAhead, HeldBefore, HeldAfter, HeldAtEnd
  <2>8. HeldUp'
    <3>1. /\ Past("env") /\ Past("heaptable") /\ Past("perfwq") /\ Past("synctable")
          /\ Past("clocksoff") /\ load.fault # "perfwq"
      BY <2>2, Ranks DEF Past, LateFaults
    <3> QED BY <1>1, <2>1, <2>2, <2>4, <2>5, <3>1 DEF HeldUp, HeldBefore, LateFaults
  <2>9. FlagsTell' /\ InterruptWired' /\ DanglingKnown'
    BY <2>1, <2>2, <2>5 DEF FInv, FlagsTell, InterruptWired, DanglingKnown, LateFaults, LateStop
  <2>10. TimerNeedsClocks' /\ WorkTypes' /\ (sys.held \subseteq AllParts)'
    BY <2>1, <2>5 DEF FInv, TimerNeedsClocks, WorkTypes, AllParts, DeviceFaults
  <2> QED BY <2>1, <2>6, <2>7, <2>8, <2>9, <2>10 DEF FInv
<1> QED BY <1>2, <1>3, <1>4

(* Only the work that follows the load moves on.                           *)
LEMMA PerfStepFaults ==
  ASSUME FInv, ReadyInv', load' = load, pc' = pc, why' = why, sys' = sys, clk' = clk,
         WorkTypes', TimerNeedsClocks', Idle => Idle'
  PROVE  FInv'
<1>1. FaultAhead' /\ HeldBefore'
  BY DEF FInv, FaultAhead, HeldBefore, Upto, Past
<1>2. HeldUp' /\ FlagsTell' /\ HeldAfter' /\ HeldAtEnd'
  BY DEF FInv, HeldUp, FlagsTell, HeldAfter, HeldAtEnd, IsUp, Kept, LeaksOf,
     LateFaults, DeviceFaults, LateStop
<1>3. InterruptWired' /\ DanglingKnown'
  BY DEF FInv, InterruptWired, DanglingKnown, IsUp, LateFaults, LateStop
<1>4. (load.fault \in Faults)' /\ (sys.held \subseteq AllParts)'
  BY DEF FInv, AllParts
<1>5. (pc = "crash" => why \in CrashesOf(load.fault))'
  BY DEF FInv, CrashesOf, LateFaults, DeviceFaults
<1> QED BY <1>1, <1>2, <1>3, <1>4, <1>5 DEF FInv

LEMMA SameFaults ==
  ASSUME FInv, ReadyInv', load' = load, pc' = pc, why' = why, sys' = sys, clk' = clk, perf' = perf
  PROVE  FInv'
<1>1. TimerNeedsClocks' /\ WorkTypes' /\ (Idle => Idle')
  BY DEF FInv, TimerNeedsClocks, WorkTypes, Idle, DeviceFaults
<1> QED BY <1>1, PerfStepFaults

(* The init server.                                                        *)
LEMMA InitServerFaults ==
  ASSUME FInv, ReadyInv', InitServer
  PROVE  FInv'
<1>1. IsSys(sys)
  BY DEF FInv, ReadyInv, DriverTypes
<1>2. ASSUME load' = load, pc' = pc, why' = why, sys' = sys, clk' = clk, perf' = perf PROVE FInv'
  BY <1>2, SameFaults
<1>3. ASSUME InitSrvConnect PROVE FInv'
  BY <1>2, <1>3 DEF InitSrvConnect
<1>4. ASSUME InitSrvExit PROVE FInv'
  <2>1. CASE Crash("events") /\ pc \in {"events", "up"}
    <3>1. load.fault \in LateFaults \ {"misc"}
      BY <2>1, LateAtEvents DEF FInv, HeldUp, IsUp
    <3>2. "events" \in CrashesOf(load.fault)
      BY <3>1 DEF CrashesOf
    <3> QED BY <2>1, <3>2, CrashFaults
  <2> QED BY <1>2, <1>4, <2>1 DEF InitSrvExit
<1>5. ASSUME DevInitSGXPart2 PROVE FInv'
  <2>1. /\ pc = "up" /\ pc' = pc /\ load' = load /\ why' = why /\ clk' = clk /\ perf' = perf
        /\ Get(Part2Taken, {})
    BY <1>5 DEF DevInitSGXPart2
  <2>2. /\ sys'.held = sys.held \union Part2Taken /\ sys'.flags = sys.flags
        /\ sys'.dangling = sys.dangling
    BY <1>1, <2>1, GetFields
  <2>3. Part2Taken \subseteq SrvParts \union {"hwtimer"}
    BY DEF Part2Taken, SrvParts
  <2>4. Part2Taken \subseteq AllParts /\ "lisr" \notin Part2Taken /\ "misrwq" \notin Part2Taken
    BY <2>3 DEF AllParts, DevDeInitSGX, SrvParts
  <2>5. IsUp /\ IsUp'
    BY <2>1 DEF IsUp
  <2>6. TimerNeedsClocks' /\ WorkTypes' /\ InterruptWired' /\ ~clk.on
    BY <2>1, <2>2, <2>4, <2>5
       DEF FInv, TimerNeedsClocks, WorkTypes, InterruptWired, HeldUp, DeviceFaults, IsUp
  <2>7. /\ "lisr" \in sys'.held => "LISR" \in sys'.flags
        /\ "misrwq" \in sys'.held => "MISR" \in sys'.flags
    BY <2>2, <2>4, <2>5 DEF FInv, FlagsTell
  <2>8. sys'.held \subseteq AllParts /\ sys.held \subseteq sys'.held /\ sys.flags \subseteq sys'.flags
    BY <2>2, <2>4 DEF FInv
  <2> QED BY <2>1, <2>2, <2>5, <2>6, <2>7, <2>8, UpStep
<1>6. ASSUME NEW success \in BOOLEAN, InitSrvDisconnect(success) PROVE FInv'
  <2>1. /\ pc = "up" /\ load' = load /\ why' = why /\ clk' = clk /\ perf' = perf /\ sys' = sys
        /\ pc' = "up" \/ pc' = "f_clk"
    BY <1>6 DEF InitSrvDisconnect
  <2>2. IsUp /\ IsUp'
    BY <2>1 DEF IsUp, Finalising
  <2>3. TimerNeedsClocks' /\ WorkTypes' /\ InterruptWired' /\ ~clk.on
    BY <2>1, <2>2
       DEF FInv, TimerNeedsClocks, WorkTypes, InterruptWired, HeldUp, DeviceFaults
  <2>4. /\ "lisr" \in sys'.held => "LISR" \in sys'.flags
        /\ "misrwq" \in sys'.held => "MISR" \in sys'.flags /\ sys'.held \subseteq AllParts
    BY <2>1, <2>2 DEF FInv, FlagsTell
  <2>5. sys'.held \subseteq AllParts
    BY <2>1 DEF FInv
  <2> QED BY <2>1, <2>2, <2>3, <2>4, <2>5, UpStep
<1> QED BY <1>3, <1>4, <1>5, <1>6 DEF InitServer

(* The finalisation.                                                       *)
LEMMA SysFinaliseFaults ==
  ASSUME FInv, ReadyInv', SysFinalise
  PROVE  FInv'
<1>1. IsSys(sys) /\ WorkTypes /\ TimerNeedsClocks
  BY DEF FInv, ReadyInv, DriverTypes
<1>2. /\ IsUp /\ load' = load
  BY DEF SysFinalise, FinaliseClocks, OSInstallMISR, OSInstallDeviceLISR, FinaliseEnd, IsUp,
     Finalising
<1>3. /\ "lisr" \in sys.held => "LISR" \in sys.flags
      /\ "misrwq" \in sys.held => "MISR" \in sys.flags
      /\ {"env", "devnode", "perfwq"} \subseteq sys.held
      /\ load.fault \in LateFaults \ {"misc"} /\ sys.held \subseteq AllParts
      /\ InterruptWired
  BY <1>2 DEF FInv, FlagsTell, HeldUp
<1>4. ASSUME FinaliseFails, sys' = sys, clk' = clk, perf' = perf PROVE FInv'
  BY <1>2, <1>4, UpStops DEF FinaliseFails
<1>5. ASSUME FinaliseClocks PROVE FInv'
  <2>1. CASE Fails("clk2") /\ FinaliseFails /\ UNCHANGED <<clk, perf>>
    BY <1>4, <1>5, <2>1 DEF FinaliseClocks
  <2>2. CASE EnableSGXClocks /\ Goto("f_misr")
    <3>1. pc' = "f_misr" /\ why' = why /\ sys' = sys
      BY <1>5, <2>2 DEF FinaliseClocks, Goto
    <3>2. IsUp' /\ WorkTypes' /\ clk'.on
      BY <1>1, <2>2, <3>1, ClockForms DEF IsUp, Finalising
    <3>3. TimerNeedsClocks' /\ InterruptWired'
      BY <1>2, <1>3, <3>1, <3>2 DEF TimerNeedsClocks, InterruptWired
    <3>4. pc' \notin {"up", "f_clk"}
      BY <3>1
    <3> QED BY <1>2, <1>3, <3>1, <3>2, <3>3, <3>4, UpStep
  <2> QED BY <1>5, <2>1, <2>2 DEF FinaliseClocks
<1>6. ASSUME OSInstallMISR PROVE FInv'
  <2>1. pc' = "f_irq" /\ why' = why /\ clk' = clk /\ perf' = perf
    BY <1>6 DEF OSInstallMISR, Goto
  <2>2. PICK got : Get(got, {"MISR"}) /\ got = IF Fails("misrwq") THEN {} ELSE {"misrwq"}
    BY <1>6 DEF OSInstallMISR
  <2>3. /\ sys'.held = sys.held \union got /\ sys'.flags = sys.flags \union {"MISR"}
        /\ sys'.dangling = sys.dangling
    BY <1>1, <2>2, GetFields
  <2>4. IsUp' /\ WorkTypes' /\ TimerNeedsClocks'
    BY <1>1, <2>1, <1>2, <2>3 DEF IsUp, Finalising, WorkTypes, TimerNeedsClocks, DeviceFaults
  <2>5. InterruptWired'
    BY <1>2, <1>3, <2>2, <2>3 DEF InterruptWired, Fails
  <2>6. sys'.held \subseteq AllParts /\ "lisr" \notin got
    BY <1>3, <2>2, <2>3 DEF AllParts
  <2>7. pc' \notin {"up", "f_clk"}
    BY <2>1
  <2> QED BY <1>2, <1>3, <2>1, <2>3, <2>4, <2>5, <2>6, <2>7, UpStep
<1>7. ASSUME OSInstallDeviceLISR PROVE FInv'
  <2>1. pc = "f_irq" /\ clk' = clk /\ perf' = perf
    BY <1>7 DEF OSInstallDeviceLISR
  <2>2. CASE FinaliseFails /\ sys' = sys
    BY <1>4, <2>1, <2>2
  <2>3. CASE Goto("f_end") /\ Get({"lisr"}, {"LISR"})
    <3>1. pc' = "f_end" /\ why' = why
      BY <2>3 DEF Goto
    <3>2. /\ sys'.held = sys.held \union {"lisr"} /\ sys'.flags = sys.flags \union {"LISR"}
          /\ sys'.dangling = sys.dangling
      BY <1>1, <2>3, GetFields
    <3>3. IsUp' /\ WorkTypes' /\ TimerNeedsClocks'
      BY <1>1, <1>2, <2>1, <3>1, <3>2 DEF IsUp, Finalising, WorkTypes, TimerNeedsClocks, DeviceFaults
    <3>4. "misrwq" \in sys.held \/ load.fault = "misrwq"
      BY <2>1 DEF FInv, ReadyInv
    <3>5. InterruptWired'
      BY <1>2, <1>3, <3>2, <3>4 DEF InterruptWired
    <3>6. sys'.held \subseteq AllParts
      BY <1>3, <3>2 DEF AllParts
    <3>7. pc' \notin {"up", "f_clk"}
      BY <3>1
    <3> QED BY <1>2, <1>3, <3>1, <3>2, <3>3, <3>5, <3>6, <3>7, UpStep
  <2> QED BY <1>7, <2>2, <2>3 DEF OSInstallDeviceLISR
<1>8. ASSUME FinaliseEnd PROVE FInv'
  <2>1. pc' = "up" /\ why' = why /\ sys' = sys /\ DisableSGXClocks
    BY <1>8 DEF FinaliseEnd, Goto
  <2>2. IsUp' /\ WorkTypes' /\ ~clk'.on /\ TimerNeedsClocks'
    BY <1>1, <1>2, <2>1, ClockForms, ClocksOffTimer DEF IsUp
  <2>3. InterruptWired'
    BY <1>2, <1>3, <2>1 DEF InterruptWired
  <2> QED BY <1>2, <1>3, <2>1, <2>2, <2>3, UpStep
<1> QED BY <1>5, <1>6, <1>7, <1>8 DEF SysFinalise

(* What may be held at a step of the stop.                                 *)
Bounded(held, step) ==
    held \subseteq Rest(step) \union Kept \union Module \union {"events"}
                   \union (IF why = "finalise" THEN {"misc"} ELSE {})

LEMMA KeptFacts ==
  ASSUME load.fault \in Faults
  PROVE  /\ Kept \subseteq LeaksOf(load.fault)
         /\ Kept \intersect ({"lisr", "misrwq", "clocks", "perfwq", "ocp", "env", "timerreg", "misc"}
                             \union Common) = {}
<1>1. Kept \subseteq LeaksOf(load.fault)
  BY DEF Kept
<1>2. load.fault \notin LateStop =>
        LeaksOf(load.fault) \subseteq {"devnode", "heaptable", "resctx"} \union SGXParts
  BY DEF LeaksOf, LateStop
<1> QED BY <1>1, <1>2 DEF Kept, SGXParts, Common

(* A step of SysDeinitialise that goes on with the stop.                   *)
LEMMA StopGoesOn ==
  ASSUME FInv, ReadyInv', pc \in StopSteps, pc' \in StopSteps, pc' # "s_lisr", load' = load, why' = why,
         sys'.flags = sys.flags, sys'.held \subseteq sys.held, Bounded(sys'.held, pc'),
         WorkTypes', TimerNeedsClocks', DanglingKnown',
         pc' \in Beginning => pc \in Beginning /\ clk' = clk,
         pc' = "s_misr" => ("misrwq" \in sys.held => "misrwq" \in sys'.held) /\ pc = "s_lisr",
         pc' \in Beginning => {"env", "perfwq"} \intersect sys.held \subseteq sys'.held,
         pc' \in {"s_dinit", "s_dclk", "s_abort"} => {"env", "perfwq"} \subseteq sys'.held,
         pc' = "s_dinit" => load.fault \in LateFaults \ {"misc", "clk3"},
         pc' = "s_abort" => load.fault = "d3",
         clk'.on => \/ pc' \in Beginning \union {"s_dinit", "s_dclk", "s_abort"}
                    \/ load.fault \in DeviceFaults,
         "PERF" \in sys.flags \/ Idle',
         pc' \in Flushed => Idle' \/ load.fault \in DeviceFaults
  PROVE  FInv'
<1>1. pc' \notin Starting /\ ~IsUp' /\ pc' # "crash" /\ pc' \notin Ended
  BY DEF Starting, IsUp, Finalising, StopSteps, Ended
<1>2. FaultAhead' /\ HeldBefore' /\ HeldUp' /\ HeldAtEnd'
  BY <1>1 DEF FaultAhead, HeldBefore, HeldUp, HeldAtEnd
<1>3. "lisr" \notin sys'.held
  <2>1. "lisr" \notin Rest(pc')
    BY DEF Rest, Device, DevDeInitSGX, SGXParts, SrvParts, Common
  <2> QED BY <2>1, KeptFacts DEF FInv, Bounded, Module
<1>4. Kept' = Kept
  BY DEF Kept, LeaksOf
<1>5. HeldAfter'
  <2>1. HeldAfter
    BY DEF FInv
  <2>2. why' \in {"start", "finalise", "remove"}
    BY <2>1 DEF HeldAfter
  <2>3. pc' \in Beginning =>
          /\ "INITDEV" \notin sys'.flags => /\ Device \intersect sys'.held \subseteq Kept'
                                            /\ clk'.on => load.fault \in DeviceFaults
          /\ "INITDEV" \in sys'.flags => /\ load.fault \in LateFaults \ {"misc"}
                                         /\ {"env", "perfwq"} \subseteq sys'.held
          /\ why' = "remove" => ~clk'.on
    BY <1>4, <2>1 DEF HeldAfter, Bounded
  <2> QED BY <1>4, <2>2, <2>3 DEF HeldAfter, Bounded, LateFaults, DeviceFaults
<1>6. FlagsTell'
  BY DEF FInv, FlagsTell
<1>7. InterruptWired'
  BY <1>1, <1>3 DEF FInv, InterruptWired
<1>8. (sys.held \subseteq AllParts)'
  BY DEF FInv, AllParts
<1> QED BY <1>1, <1>2, <1>5, <1>6, <1>7, <1>8 DEF FInv

LEMMA UndoFields ==
  ASSUME IsSys(sys), NEW step, NEW flag, NEW gone, NEW next, Undo(step, flag, gone, next)
  PROVE  /\ pc = step /\ pc' = next /\ load' = load /\ why' = why /\ clk' = clk /\ perf' = perf
         /\ sys'.flags = sys.flags /\ sys'.dangling = sys.dangling
         /\ sys'.held = IF flag \subseteq sys.flags THEN sys.held \ gone ELSE sys.held
<1>1. PICK h, g, d : sys = [held |-> h, flags |-> g, dangling |-> d]
  BY DEF IsSys
<1>2. [sys EXCEPT !.held = @ \ gone] = [held |-> h \ gone, flags |-> g, dangling |-> d]
  BY <1>1
<1> QED BY <1>1, <1>2 DEF Undo, Goto

(* The steps that give one thing back.                                     *)
LEMMA UndoFaults ==
  ASSUME FInv, ReadyInv', NEW step \in StopSteps, NEW flag, NEW gone, NEW next \in StopSteps,
         Undo(step, flag, gone, next), next \notin {"s_lisr", "s_dinit", "s_abort", "s_dclk"},
         \A x \in sys.held \intersect Rest(step) : x \in Rest(next) \/ (x \in gone /\ flag \subseteq sys.flags),
         next \in Beginning => step \in Beginning,
         next = "s_misr" => step = "s_lisr" /\ "misrwq" \notin gone,
         next \notin Beginning => step \notin Beginning,
         next \in Flushed => step \in Flushed \/ Idle \/ load.fault \in DeviceFaults,
         {"env", "perfwq"} \intersect gone # {} => step \notin Beginning \union {"s_dinit", "s_dclk", "s_abort"},
         step \notin {"s_dinit", "s_dclk", "s_abort", "s_end"}
  PROVE  FInv'
<1>1. /\ pc = step /\ pc' = next /\ load' = load /\ why' = why /\ clk' = clk /\ perf' = perf
      /\ sys'.flags = sys.flags /\ sys'.dangling = sys.dangling
      /\ sys'.held = IF flag \subseteq sys.flags THEN sys.held \ gone ELSE sys.held
  BY UndoFields DEF FInv, ReadyInv, DriverTypes
<1>2. HeldAfter
  BY DEF FInv
<1>3. Bounded(sys'.held, pc')
  BY <1>1, <1>2 DEF HeldAfter, Bounded
<1>4. clk.on => \/ step \in Beginning /\ next \in Beginning
                \/ load.fault \in DeviceFaults
  BY <1>1, <1>2 DEF HeldAfter
<1>5. TimerNeedsClocks' /\ WorkTypes'
  <2>1. clk.on => load.fault \in DeviceFaults \/ {"env", "perfwq"} \subseteq sys'.held
    BY <1>1, <1>4 DEF FInv, TimerNeedsClocks
  <2> QED BY <1>1, <2>1 DEF FInv, TimerNeedsClocks, WorkTypes, DeviceFaults
<1>6. pc' \notin Starting /\ ~IsUp'
  BY <1>1 DEF Starting, IsUp, Finalising, StopSteps
<1>7. DanglingKnown'
  BY <1>1, <1>6 DEF FInv, DanglingKnown, LateFaults, LateStop
<1>8. ("PERF" \in sys.flags \/ Idle') /\ (step \in Flushed => Idle' \/ load.fault \in DeviceFaults)
  BY <1>1, <1>2 DEF HeldAfter, Idle
<1>9. Idle => Idle'
  BY <1>1 DEF Idle
<1>10. sys'.held \subseteq sys.held
  BY <1>1
<1>11. pc' \in Beginning => {"env", "perfwq"} \intersect sys.held \subseteq sys'.held
  BY <1>1
<1> QED BY <1>1, <1>3, <1>4, <1>5, <1>7, <1>8, <1>9, <1>10, <1>11, StopGoesOn

(* A stop that is given up when SysFinalise has failed leads nowhere.      *)
LEMMA AbandonedFaults ==
  ASSUME FInv, ReadyInv', pc \in StopSteps, pc # "s_lisr", pc' = "abandoned", load' = load,
         sys'.held = sys.held, sys'.dangling = sys.dangling, WorkTypes', TimerNeedsClocks'
  PROVE  FInv'
<1>1. pc' \notin Starting /\ ~IsUp' /\ pc' \notin StopSteps /\ pc' # "crash" /\ pc' \notin Ended
      /\ pc' \notin {"s_lisr", "s_misr"}
  BY DEF Starting, IsUp, Finalising, StopSteps, Ended
<1>2. FaultAhead' /\ HeldBefore' /\ HeldUp' /\ FlagsTell' /\ HeldAfter' /\ HeldAtEnd'
  BY <1>1 DEF FaultAhead, HeldBefore, HeldUp, FlagsTell, HeldAfter, HeldAtEnd
<1>3. InterruptWired'
  BY <1>1 DEF FInv, InterruptWired
<1>4. DanglingKnown'
  BY <1>1 DEF FInv, DanglingKnown, LateFaults, LateStop
<1>5. (sys.held \subseteq AllParts)' /\ (load.fault \in Faults)'
  BY DEF FInv, AllParts
<1> QED BY <1>1, <1>2, <1>3, <1>4, <1>5 DEF FInv

(* The interrupt and its work queue go first.                              *)
LEMMA UninstallFaults ==
  ASSUME FInv, ReadyInv', OSUninstallDeviceLISR \/ OSUninstallMISR
  PROVE  FInv'
<1>1. FlagsTell /\ IsSys(sys)
  BY DEF FInv, ReadyInv, DriverTypes
<1>2. {"s_lisr", "s_misr", "s_dev"} \subseteq StopSteps
      /\ {"s_lisr", "s_misr", "s_dev"} \subseteq Beginning
      /\ {"s_lisr", "s_misr", "s_dev"} \intersect Flushed = {}
  BY DEF StopSteps, Beginning, Flushed
<1>3. ASSUME OSUninstallDeviceLISR PROVE FInv'
  <2>1. Undo("s_lisr", {"LISR"}, {"lisr"}, "s_misr") /\ pc = "s_lisr"
    BY <1>3 DEF OSUninstallDeviceLISR, Undo
  <2>2. "lisr" \in sys.held => {"LISR"} \subseteq sys.flags
    BY <1>1, <1>2, <2>1 DEF FlagsTell
  <2>3. \A x \in Rest("s_lisr") : x \in Rest("s_misr") \/ x = "lisr"
    BY DEF Rest, Beginning, Flushed
  <2>4. \A x \in sys.held \intersect Rest("s_lisr") :
           x \in Rest("s_misr") \/ (x \in {"lisr"} /\ {"LISR"} \subseteq sys.flags)
    BY <2>2, <2>3
  <2> QED BY <1>2, <2>1, <2>4, UndoFaults
<1>4. ASSUME OSUninstallMISR PROVE FInv'
  <2>1. CASE Undo("s_misr", {"MISR"}, {"misrwq"}, "s_dev")
    <3>1. pc = "s_misr"
      BY <2>1 DEF Undo
    <3>2. "misrwq" \in sys.held => {"MISR"} \subseteq sys.flags
      BY <1>1, <1>2, <3>1 DEF FlagsTell
    <3>3. \A x \in Rest("s_misr") : x \in Rest("s_dev") \/ x = "misrwq"
      BY DEF Rest, Beginning, Flushed
    <3>4. \A x \in sys.held \intersect Rest("s_misr") :
             x \in Rest("s_dev") \/ (x \in {"misrwq"} /\ {"MISR"} \subseteq sys.flags)
      BY <3>2, <3>3
    <3> QED BY <1>2, <2>1, <3>4, UndoFaults
  <2>2. CASE pc = "s_misr" /\ "MISR" \in sys.flags /\ "misrwq" \notin sys.held /\ Crash("misrwq")
    <3>1. load.fault = "misrwq"
      BY <2>2 DEF FInv, InterruptWired
    <3>2. "misrwq" \in CrashesOf(load.fault)
      BY <3>1 DEF CrashesOf
    <3> QED BY <2>2, <3>2, CrashFaults
  <2> QED BY <1>4, <2>1, <2>2 DEF OSUninstallMISR
<1> QED BY <1>3, <1>4

(* Then the device, with its clocks on.                                    *)
LEMMA StopDeviceFaults ==
  ASSUME FInv, ReadyInv', DeinitDeviceClocks
  PROVE  FInv'
<1>1. /\ pc = "s_dev" /\ load' = load /\ why' = why /\ sys' = sys /\ pc \in StopSteps
      /\ pc \in Beginning /\ pc # "s_lisr"
  BY DEF DeinitDeviceClocks, Goto, StopSteps, Beginning
<1>2. HeldAfter /\ WorkTypes /\ TimerNeedsClocks /\ DanglingKnown /\ FlagsTell /\ load.fault \in Faults
  BY DEF FInv
<1>3. Bounded(sys.held, "s_dev")
  BY <1>1, <1>2 DEF HeldAfter, Bounded
<1>4. CASE "INITDEV" \notin sys.flags /\ pc' = "s_clk" /\ UNCHANGED <<clk, perf>>
  <2>1. Device \intersect sys.held \subseteq Kept /\ (clk.on => load.fault \in DeviceFaults)
    BY <1>1, <1>2, <1>4 DEF HeldAfter
  <2>2. \A x \in Rest("s_dev") : x \in Rest("s_clk") \/ x \in Device
    BY DEF Rest, Beginning, Flushed
  <2>3. Bounded(sys'.held, pc')
    BY <1>1, <1>3, <1>4, <2>1, <2>2 DEF Bounded
  <2>4. pc' \in StopSteps /\ pc' \notin Beginning /\ pc' \notin Flushed /\ pc' # "s_lisr"
    BY <1>4 DEF StopSteps, Beginning, Flushed
  <2>5. pc' \notin Starting /\ ~IsUp'
    BY <1>4 DEF Starting, IsUp, Finalising
  <2>6. WorkTypes' /\ TimerNeedsClocks' /\ DanglingKnown' /\ ("PERF" \in sys.flags \/ Idle')
    BY <1>1, <1>2, <1>4, <2>5 DEF WorkTypes, TimerNeedsClocks, DanglingKnown, HeldAfter, Idle,
       LateFaults, DeviceFaults, LateStop
  <2> QED BY <1>1, <1>4, <2>1, <2>3, <2>4, <2>6, StopGoesOn
<1>5. CASE "INITDEV" \in sys.flags /\ Fails("clk3") /\ pc' = Abandon /\ UNCHANGED <<clk, perf>>
  <2>1. WorkTypes' /\ TimerNeedsClocks'
    BY <1>1, <1>2, <1>5 DEF WorkTypes, TimerNeedsClocks, DeviceFaults
  <2>2. CASE pc' = "unload" /\ why = "remove"
    <3>1. ~clk'.on /\ load.fault = "clk3"
      BY <1>1, <1>2, <1>5, <2>2 DEF HeldAfter, Fails
    <3>2. Kept = {}
      BY <3>1 DEF Kept, LateStop
    <3>3. Rest("s_dev") \subseteq LeaksOf("clk3")
      BY DEF Rest, Beginning, Flushed, Device, DevDeInitSGX, LeaksOf, SGXParts
    <3>4. sys'.held \subseteq LeaksOf(load.fault) \union Module \union {"events"}
      BY <1>1, <1>3, <2>2, <3>1, <3>2, <3>3 DEF Bounded
    <3>5. pc' \in Ended /\ load.fault \in LateStop
      BY <2>2, <3>1 DEF Ended, LateStop
    <3> QED BY <1>1, <2>1, <3>1, <3>4, <3>5, EndsClocksFaults
  <2>3. CASE pc' = "abandoned"
    BY <1>1, <2>1, <2>3, AbandonedFaults
  <2> QED BY <1>5, <2>2, <2>3 DEF Abandon
<1>6. CASE "INITDEV" \in sys.flags /\ ~Fails("clk3") /\ EnableSGXClocks /\ pc' = "s_dinit"
  <2>1. load.fault \in LateFaults \ {"misc", "clk3"} /\ {"env", "perfwq"} \subseteq sys.held
    BY <1>1, <1>2, <1>6 DEF HeldAfter, Fails
  <2>2. "PERF" \in sys.flags
    BY <1>1, <1>2, <2>1 DEF FlagsTell
  <2>3. WorkTypes' /\ clk'.on
    BY <1>2, <1>6, ClockForms
  <2>4. TimerNeedsClocks'
    BY <1>1, <2>1, <2>3 DEF TimerNeedsClocks
  <2>5. pc' \in StopSteps /\ pc' \notin Beginning /\ pc' \notin Flushed /\ pc' # "s_lisr"
    BY <1>6 DEF StopSteps, Beginning, Flushed
  <2>6. pc' \notin Starting /\ ~IsUp'
    BY <1>6 DEF Starting, IsUp, Finalising
  <2>7. DanglingKnown'
    BY <1>1, <1>2, <2>6 DEF DanglingKnown, LateFaults, LateStop
  <2>8. Rest("s_dev") \subseteq Rest("s_dinit")
    BY DEF Rest, Beginning, Flushed
  <2>9. Bounded(sys'.held, pc')
    BY <1>1, <1>3, <1>6, <2>8 DEF Bounded
  <2> QED BY <1>1, <1>6, <2>1, <2>2, <2>3, <2>4, <2>5, <2>7, <2>9, StopGoesOn
<1> QED BY <1>4, <1>5, <1>6 DEF DeinitDeviceClocks, Goto

LEMMA PVRSRVDeinitialiseDeviceFaults ==
  ASSUME FInv, ReadyInv', PVRSRVDeinitialiseDevice
  PROVE  FInv'
<1>1. /\ pc = "s_dinit" /\ load' = load /\ why' = why /\ clk' = clk /\ perf' = perf
      /\ pc \in StopSteps /\ pc \notin Flushed
  BY DEF PVRSRVDeinitialiseDevice, Goto, StopSteps, Flushed
<1>2. HeldAfter /\ WorkTypes /\ TimerNeedsClocks /\ DanglingKnown /\ load.fault \in Faults
  BY DEF FInv
<1>3. /\ Bounded(sys.held, "s_dinit") /\ load.fault \in LateFaults \ {"misc", "clk3"}
      /\ {"env", "perfwq"} \subseteq sys.held
  BY <1>1, <1>2 DEF HeldAfter, Bounded
<1>4. pc' = "s_abort" \/ pc' = "s_dclk"
  BY DEF PVRSRVDeinitialiseDevice, Goto
<1>5. pc' \in StopSteps /\ pc' \notin Beginning /\ pc' \notin Flushed /\ pc' # "s_lisr"
  BY <1>4 DEF StopSteps, Beginning, Flushed
<1>6. pc' \notin Starting /\ ~IsUp'
  BY <1>4 DEF Starting, IsUp, Finalising
<1>7. WorkTypes' /\ ("PERF" \in sys.flags \/ Idle')
  BY <1>1, <1>2 DEF WorkTypes, HeldAfter, Idle
<1>8. CASE Fails("d3") /\ pc' = "s_abort" /\ sys' = sys
  <2>1. TimerNeedsClocks' /\ DanglingKnown'
    BY <1>1, <1>2, <1>6, <1>8 DEF TimerNeedsClocks, DanglingKnown, DeviceFaults, LateFaults, LateStop
  <2>2. Rest("s_dinit") \subseteq Rest("s_abort")
    BY DEF Rest, Beginning, Flushed
  <2>3. Bounded(sys'.held, pc') /\ load.fault = "d3"
    BY <1>3, <1>8, <2>2 DEF Bounded, Fails
  <2> QED BY <1>1, <1>3, <1>5, <1>7, <1>8, <2>1, <2>3, StopGoesOn
<1>9. CASE ~Fails("d3") /\ pc' = "s_dclk"
  <2>1. PICK h, g, d : sys = [held |-> h, flags |-> g, dangling |-> d]
    BY DEF FInv, ReadyInv, DriverTypes, IsSys
  <2>2. PICK gone : gone = Device
    OBVIOUS
  <2>3. sys' = [sys EXCEPT !.held = @ \ gone, !.dangling = @ \union {"devinfo"}]
    BY <1>9, <2>2 DEF PVRSRVDeinitialiseDevice, Device
  <2>4. sys' = [held |-> h \ gone, flags |-> g, dangling |-> d \union {"devinfo"}]
    BY <2>1, <2>3
  <2>5. /\ sys'.held = sys.held \ Device /\ sys'.flags = sys.flags
        /\ sys'.dangling = sys.dangling \union {"devinfo"}
    BY <2>1, <2>2, <2>4
  <2>6. "env" \notin Device /\ "perfwq" \notin Device
    BY DEF Device, DevDeInitSGX, SGXParts, SrvParts
  <2>7. TimerNeedsClocks'
    BY <1>1, <1>2, <1>3, <2>5, <2>6 DEF TimerNeedsClocks
  <2>8. load.fault \in LateFaults \ LateStop
    BY <1>3, <1>9 DEF LateStop, Fails
  <2>9. DanglingKnown'
    BY <1>1, <1>2, <1>6, <2>5, <2>8 DEF DanglingKnown, LateFaults, LateStop, StopSteps
  <2>10. Rest("s_dinit") \subseteq Rest("s_dclk") \union Device
    BY DEF Rest, Beginning, Flushed
  <2>11. Bounded(sys'.held, pc')
    BY <1>3, <1>9, <2>5, <2>10 DEF Bounded
  <2>12. {"env", "perfwq"} \subseteq sys'.held /\ sys'.held \subseteq sys.held
    BY <1>3, <2>5, <2>6
  <2> QED BY <1>1, <1>5, <1>7, <1>9, <2>5, <2>7, <2>9, <2>11, <2>12, StopGoesOn
<1> QED BY <1>8, <1>9 DEF PVRSRVDeinitialiseDevice, Goto

(* The clocks go off again, the device gone or not.                        *)
LEMMA StopClocksOffFaults ==
  ASSUME FInv, ReadyInv', DeinitDeviceClocksOff
  PROVE  FInv'
<1>1. /\ pc = "s_dclk" \/ pc = "s_abort"
      /\ load' = load /\ why' = why /\ sys' = sys /\ pc \in StopSteps /\ pc # "s_lisr"
      /\ DisableSGXClocks
  BY DEF DeinitDeviceClocksOff, Goto, StopSteps
<1>2. HeldAfter /\ WorkTypes /\ TimerNeedsClocks /\ DanglingKnown /\ FlagsTell /\ load.fault \in Faults
  BY DEF FInv
<1>3. WorkTypes' /\ TimerNeedsClocks' /\ ~clk'.on
  BY <1>1, <1>2, ClockForms, ClocksOffTimer
<1>4. {"env", "perfwq"} \subseteq sys.held /\ "PERF" \in sys.flags /\ Bounded(sys.held, pc)
  BY <1>1, <1>2 DEF HeldAfter, FlagsTell, Bounded
<1>5. CASE pc = "s_dclk"
  <2>1. pc' = "s_clk"
    BY <1>5 DEF DeinitDeviceClocksOff, Goto
  <2>2. pc' \in StopSteps /\ pc' \notin Beginning /\ pc' \notin Flushed /\ pc' # "s_lisr"
    BY <2>1 DEF StopSteps, Beginning, Flushed
  <2>3. pc' \notin Starting /\ ~IsUp'
    BY <2>1 DEF Starting, IsUp, Finalising
  <2>4. DanglingKnown'
    BY <1>1, <1>2, <1>5, <2>3 DEF DanglingKnown, LateFaults, LateStop, StopSteps
  <2>5. Rest("s_dclk") \subseteq Rest("s_clk")
    BY DEF Rest, Beginning, Flushed
  <2>6. Bounded(sys'.held, pc')
    BY <1>1, <1>4, <1>5, <2>1, <2>5 DEF Bounded
  <2> QED BY <1>1, <1>3, <1>4, <2>1, <2>2, <2>4, <2>6, StopGoesOn
<1>6. CASE pc = "s_abort"
  <2>1. load.fault = "d3" /\ pc' = Abandon
    BY <1>1, <1>2, <1>6 DEF HeldAfter, DeinitDeviceClocksOff, Goto
  <2>2. CASE pc' = "unload" /\ why = "remove"
    <3>1. Kept = {} /\ load.fault \in LateStop /\ pc' \in Ended
      BY <2>1, <2>2 DEF Kept, LateStop, Ended
    <3>2. Rest("s_abort") \subseteq LeaksOf("d3")
      BY DEF Rest, Beginning, Flushed, Device, DevDeInitSGX, LeaksOf, SGXParts
    <3>3. sys'.held \subseteq LeaksOf(load.fault) \union Module \union {"events"}
      BY <1>1, <1>4, <1>6, <2>1, <2>2, <3>1, <3>2 DEF Bounded
    <3> QED BY <1>1, <1>3, <3>1, <3>3, EndsClocksFaults
  <2>3. CASE pc' = "abandoned"
    BY <1>1, <1>3, <2>3, AbandonedFaults
  <2> QED BY <2>1, <2>2, <2>3 DEF Abandon
<1> QED BY <1>1, <1>5, <1>6

(* The work that follows the load is waited for, but not its timer.        *)
LEMMA FlushedIsIdle ==
  ASSUME FInv, FlushPerf
  PROVE  Idle \/ load.fault \in DeviceFaults
<1>1. pc = "s_flush" /\ pc \in StopSteps /\ pc \notin Beginning \union {"s_dinit", "s_dclk", "s_abort"}
  BY DEF FlushPerf, Undo, StopSteps, Beginning
<1>2. HeldAfter /\ TimerNeedsClocks /\ WorkTypes
  BY DEF FInv
<1>3. CASE "PERF" \notin sys.flags
  BY <1>1, <1>2, <1>3 DEF HeldAfter
<1>4. CASE "PERF" \in sys.flags /\ load.fault \notin DeviceFaults
  <2>1. perf.pending # "queued" /\ perf.run = "no"
    BY <1>4 DEF FlushPerf
  <2>2. ~clk.on
    BY <1>1, <1>2, <1>4 DEF HeldAfter
  <2>3. perf.pending # "timer"
    BY <1>2, <2>2 DEF TimerNeedsClocks
  <2>4. perf \in [pending : {"no", "queued", "timer"}, run : {"no", "read", "zero", "busy"}]
    BY <1>2 DEF WorkTypes
  <2>5. perf = [pending |-> perf.pending, run |-> perf.run] /\ perf.pending = "no"
    BY <2>1, <2>3, <2>4
  <2> QED BY <2>1, <2>5 DEF Idle
<1> QED BY <1>3, <1>4

(* What is left is given back one by one.                                  *)
LEMMA GiveBackFaults ==
  ASSUME FInv, ReadyInv',
         CleanupSystemClocks \/ FlushPerf \/ sgx_ocp_cleanup \/ OSDeInitEnvData \/ UnreserveTimerRegister
  PROVE  FInv'
<1>1. FlagsTell
  BY DEF FInv
<1>2. /\ {"s_clk", "s_perf", "s_flush", "s_ocp", "s_env", "s_treg", "s_common"} \subseteq StopSteps
      /\ {"s_clk", "s_perf", "s_flush", "s_ocp", "s_env", "s_treg", "s_common"} \intersect Beginning = {}
      /\ {"s_clk", "s_perf", "s_flush"} \intersect Flushed = {}
      /\ {"s_ocp", "s_env", "s_treg", "s_common"} \subseteq Flushed
  BY DEF StopSteps, Beginning, Flushed
<1>3. ASSUME CleanupSystemClocks PROVE FInv'
  <2>1. Undo("s_clk", {}, {"clocks"}, "s_perf")
    BY <1>3 DEF CleanupSystemClocks
  <2>2. \A x \in Rest("s_clk") : x \in Rest("s_perf") \/ x = "clocks"
    BY DEF Rest, Beginning, Flushed
  <2>3. \A x \in sys.held \intersect Rest("s_clk") :
           x \in Rest("s_perf") \/ (x \in {"clocks"} /\ {} \subseteq sys.flags)
    BY <2>2
  <2> QED BY <1>2, <2>1, <2>3, UndoFaults
<1>4. ASSUME FlushPerf PROVE FInv'
  <2>1. Undo("s_flush", {"PERF"}, {"perfwq"}, "s_ocp") /\ pc = "s_flush"
    BY <1>4 DEF FlushPerf, Undo
  <2>2. \A x \in Rest("s_flush") : x \in Rest("s_ocp") \/ x = "perfwq"
    BY DEF Rest, Beginning, Flushed
  <2>3. "perfwq" \in sys.held => {"PERF"} \subseteq sys.flags
    BY <1>1, <1>2, <2>1 DEF FlagsTell
  <2>4. \A x \in sys.held \intersect Rest("s_flush") :
           x \in Rest("s_ocp") \/ (x \in {"perfwq"} /\ {"PERF"} \subseteq sys.flags)
    BY <2>2, <2>3
  <2> QED BY <1>2, <1>4, <2>1, <2>4, UndoFaults, FlushedIsIdle
<1>5. ASSUME sgx_ocp_cleanup PROVE FInv'
  <2>1. Undo("s_ocp", {}, {"ocp"}, "s_env")
    BY <1>5 DEF sgx_ocp_cleanup
  <2>2. \A x \in Rest("s_ocp") : x \in Rest("s_env") \/ x = "ocp"
    BY DEF Rest, Beginning, Flushed
  <2>3. \A x \in sys.held \intersect Rest("s_ocp") :
           x \in Rest("s_env") \/ (x \in {"ocp"} /\ {} \subseteq sys.flags)
    BY <2>2
  <2> QED BY <1>2, <2>1, <2>3, UndoFaults
<1>6. ASSUME OSDeInitEnvData PROVE FInv'
  <2>1. Undo("s_env", {"ENVDATA"}, {"env"}, "s_treg") /\ pc = "s_env"
    BY <1>6 DEF OSDeInitEnvData, Undo
  <2>2. \A x \in Rest("s_env") : x \in Rest("s_treg") \/ x = "env"
    BY DEF Rest, Beginning, Flushed
  <2>3. "env" \in sys.held => {"ENVDATA"} \subseteq sys.flags
    BY <1>1, <1>2, <2>1 DEF FlagsTell
  <2>4. \A x \in sys.held \intersect Rest("s_env") :
           x \in Rest("s_treg") \/ (x \in {"env"} /\ {"ENVDATA"} \subseteq sys.flags)
    BY <2>2, <2>3
  <2> QED BY <1>2, <2>1, <2>4, UndoFaults
<1>7. ASSUME UnreserveTimerRegister PROVE FInv'
  <2>1. Undo("s_treg", {}, {"timerreg"}, "s_common")
    BY <1>7 DEF UnreserveTimerRegister
  <2>2. \A x \in Rest("s_treg") : x \in Rest("s_common") \/ x = "timerreg"
    BY DEF Rest, Beginning, Flushed
  <2>3. \A x \in sys.held \intersect Rest("s_treg") :
           x \in Rest("s_common") \/ (x \in {"timerreg"} /\ {} \subseteq sys.flags)
    BY <2>2
  <2> QED BY <1>2, <2>1, <2>3, UndoFaults
<1> QED BY <1>3, <1>4, <1>5, <1>6, <1>7

LEMMA CleanupPerfFaults ==
  ASSUME FInv, ReadyInv', CleanupPerf
  PROVE  FInv'
<1>1. /\ pc = "s_perf" /\ pc' = "s_flush" /\ load' = load /\ why' = why /\ sys' = sys
      /\ perf' = perf
  BY DEF CleanupPerf, Goto
<1>2. /\ pc \in StopSteps /\ pc' \in StopSteps /\ pc' \notin Beginning /\ pc' \notin Flushed
      /\ pc' # "s_lisr" /\ pc' \notin Starting /\ ~IsUp'
      /\ pc \notin Beginning \union {"s_dinit", "s_dclk", "s_abort"}
  BY <1>1 DEF StopSteps, Beginning, Flushed, Starting, IsUp, Finalising
<1>3. HeldAfter /\ WorkTypes /\ TimerNeedsClocks /\ DanglingKnown
  BY DEF FInv
<1>4. PICK k \in [on : BOOLEAN, wanted : BOOLEAN] : k = clk
  BY <1>3 DEF WorkTypes
<1>5. clk' = k \/ clk' = [k EXCEPT !.wanted = FALSE]
  BY <1>4 DEF CleanupPerf
<1>6. /\ clk' \in [on : BOOLEAN, wanted : BOOLEAN] /\ clk'.on = clk.on
      /\ ~clk.wanted => ~clk'.wanted
  BY <1>4, <1>5
<1>7. WorkTypes' /\ TimerNeedsClocks' /\ DanglingKnown' /\ ("PERF" \in sys.flags \/ Idle')
  BY <1>1, <1>2, <1>3, <1>6 DEF WorkTypes, TimerNeedsClocks, DanglingKnown, HeldAfter, Idle,
     DeviceFaults, LateFaults, LateStop, StopSteps
<1>8. Rest("s_perf") \subseteq Rest("s_flush")
  BY DEF Rest, Beginning, Flushed
<1>9. Bounded(sys'.held, pc')
  BY <1>1, <1>2, <1>3, <1>8 DEF HeldAfter, Bounded
<1>10. clk'.on => load.fault \in DeviceFaults
  BY <1>2, <1>3, <1>6 DEF HeldAfter
<1> QED BY <1>1, <1>2, <1>7, <1>9, <1>10, StopGoesOn

(* The common services last; they may be gone already.                     *)
LEMMA StopEndsFaults ==
  ASSUME FInv, ReadyInv', PVRSRVDeInit \/ DeinitialiseEnd
  PROVE  FInv'
<1>1. HeldAfter /\ WorkTypes /\ TimerNeedsClocks /\ DanglingKnown /\ IsSys(sys) /\ load.fault \in Faults
  BY DEF FInv, ReadyInv, DriverTypes
<1>2. /\ {"s_common", "s_end"} \subseteq StopSteps /\ {"s_common", "s_end"} \subseteq Flushed
      /\ {"s_common", "s_end"} \intersect (Beginning \union {"s_dinit", "s_dclk", "s_abort"}) = {}
  BY DEF StopSteps, Beginning, Flushed
<1>3. Rest("s_end") = {} /\ Rest("s_common") = Common
  BY DEF Rest, Beginning, Flushed
<1>4. ASSUME PVRSRVDeInit PROVE FInv'
  <2>1. pc = "s_common"
    BY <1>4 DEF PVRSRVDeInit
  <2>2. CASE {"resman", "eventobj"} \intersect sys.dangling # {} /\ Crash("resman")
    <3>1. load.fault \in Common \ {"resman"}
      BY <1>1, <1>2, <2>1, <2>2 DEF DanglingKnown
    <3>2. "resman" \in CrashesOf(load.fault)
      BY <3>1 DEF CrashesOf
    <3> QED BY <2>2, <3>2, CrashFaults
  <2>3. CASE /\ sys' = FreeCommon(sys) /\ pc' = "s_end" /\ why' = why
             /\ UNCHANGED <<load, clk, perf>>
    <3>1. /\ sys'.held = sys.held \ Common /\ sys'.flags = sys.flags
          /\ sys'.dangling = sys.dangling \union (sys.held \intersect {"resman", "eventobj"})
      BY <1>1, <2>3, FreeCommonFields
    <3>2. pc' \notin Starting /\ ~IsUp'
      BY <2>3 DEF Starting, IsUp, Finalising
    <3>3. DanglingKnown'
      BY <1>1, <2>3, <3>1, <3>2 DEF DanglingKnown, LateFaults, LateStop
    <3>4. Bounded(sys'.held, pc')
      BY <1>1, <1>2, <1>3, <2>1, <2>3, <3>1 DEF HeldAfter, Bounded
    <3>5. clk.on => load.fault \in DeviceFaults
      BY <1>1, <1>2, <2>1 DEF HeldAfter
    <3>6. WorkTypes' /\ TimerNeedsClocks'
      BY <1>1, <2>3, <3>5 DEF WorkTypes, TimerNeedsClocks, DeviceFaults
    <3>7. ("PERF" \in sys.flags \/ Idle') /\ (Idle' \/ load.fault \in DeviceFaults)
      BY <1>1, <1>2, <2>1, <2>3 DEF HeldAfter, Idle
    <3>8. pc \in StopSteps /\ pc' \in StopSteps /\ pc' # "s_lisr" /\ pc' \notin Beginning
          /\ pc' # "s_misr" /\ pc' \notin {"s_dinit", "s_dclk", "s_abort"}
      BY <1>2, <2>1, <2>3
    <3> QED BY <2>3, <3>1, <3>3, <3>4, <3>5, <3>6, <3>7, <3>8, StopGoesOn
  <2> QED BY <1>4, <2>2, <2>3 DEF PVRSRVDeInit, Goto
<1>5. ASSUME DeinitialiseEnd PROVE FInv'
  <2>1. /\ pc = "s_end" /\ load' = load /\ clk' = clk /\ perf' = perf
        /\ pc \in StopSteps /\ pc \in Flushed /\ pc # "s_lisr"
    BY <1>2, <1>5 DEF DeinitialiseEnd
  <2>2. sys'.held = sys.held /\ sys'.dangling = sys.dangling
    <3>1. PICK h, g, d : sys = [held |-> h, flags |-> g, dangling |-> d]
      BY <1>1 DEF IsSys
    <3>2. sys' = [held |-> h, flags |-> {}, dangling |-> d]
      BY <1>5, <3>1 DEF DeinitialiseEnd
    <3> QED BY <3>1, <3>2
  <2>3. clk.on => load.fault \in DeviceFaults
    BY <1>1, <1>2, <2>1 DEF HeldAfter
  <2>4. Idle \/ load.fault \in DeviceFaults
    BY <1>1, <2>1 DEF HeldAfter
  <2>5. /\ why = "start" => pc' = "failed"
        /\ why = "remove" => pc' = "unload"
        /\ why = "finalise" => pc' = "abandoned"
        /\ why \in {"start", "finalise", "remove"}
    BY <1>1, <1>5, <2>1 DEF DeinitialiseEnd, HeldAfter
  <2>6. CASE why # "finalise"
    <3>1. pc' \in Ended
      BY <2>5, <2>6 DEF Ended
    <3>2. sys'.held \subseteq LeaksOf(load.fault) \union Module \union {"events"}
      BY <1>1, <1>3, <2>1, <2>2, <2>6, KeptFacts DEF HeldAfter
    <3> QED BY <2>1, <2>2, <2>3, <2>4, <3>1, <3>2, EndsFaults
  <2>7. CASE why = "finalise"
    <3>1. WorkTypes' /\ TimerNeedsClocks'
      BY <1>1, <2>1, <2>2 DEF WorkTypes, TimerNeedsClocks, DeviceFaults
    <3> QED BY <2>1, <2>2, <2>5, <2>7, <3>1, AbandonedFaults
  <2> QED BY <2>6, <2>7
<1> QED BY <1>4, <1>5

LEMMA SysDeinitialiseFaults ==
  ASSUME FInv, ReadyInv', SysDeinitialise
  PROVE  FInv'
BY UninstallFaults, StopDeviceFaults, PVRSRVDeinitialiseDeviceFaults, StopClocksOffFaults,
   GiveBackFaults, CleanupPerfFaults, StopEndsFaults DEF SysDeinitialise

(* The thread that starts and stops the driver, and the module's unload.   *)
LEMMA DriverThreadFaults ==
  ASSUME FInv, ReadyInv', DriverThread \/ pvr_cleanup
  PROVE  FInv'
<1>1. HeldAtEnd
  BY DEF FInv
<1>2. PICK h, g, d : sys = [held |-> h, flags |-> g, dangling |-> d]
  BY DEF FInv, ReadyInv, DriverTypes, IsSys
<1>3. {"failed", "unload", "down"} \subseteq Ended
  BY DEF Ended
<1>4. ASSUME Unload PROVE FInv'
  <2>1. PICK gone : gone = Module \union {"events"}
    OBVIOUS
  <2>2. /\ pc = "unload" /\ pc' = "down" /\ load' = load /\ clk' = clk /\ perf' = perf
        /\ sys' = [sys EXCEPT !.held = @ \ gone]
    BY <1>4, <2>1 DEF Unload, Goto
  <2>3. sys' = [held |-> h \ gone, flags |-> g, dangling |-> d]
    BY <1>2, <2>2
  <2>4. sys'.held \subseteq sys.held /\ sys'.dangling = sys.dangling
    BY <1>2, <2>3
  <2> QED BY <1>1, <1>3, <2>2, <2>4, EndsFaults DEF HeldAtEnd
<1>5. ASSUME pvr_cleanup PROVE FInv'
  <2>1. load' = load /\ clk' = clk /\ perf' = perf
    BY <1>5 DEF pvr_cleanup
  <2>2. CASE pc = "up" /\ pc' = "s_lisr" /\ why' = "remove" /\ sys' = [sys EXCEPT !.held = @ \ {"misc"}]
    <3>1. sys' = [held |-> h \ {"misc"}, flags |-> g, dangling |-> d]
      BY <1>2, <2>2
    <3>2. /\ sys'.held = sys.held \ {"misc"} /\ sys'.flags = sys.flags
          /\ sys'.dangling = sys.dangling
      BY <1>2, <3>1
    <3>3. IsUp
      BY <2>2 DEF IsUp
    <3> QED BY <2>1, <2>2, <3>2, <3>3, UpStops
  <2>3. CASE pc = "failed" /\ pc' = "unload" /\ sys' = sys
    BY <1>1, <1>3, <2>1, <2>3, EndsFaults DEF HeldAtEnd
  <2> QED BY <1>5, <2>2, <2>3 DEF pvr_cleanup, Goto
<1> QED BY <1>4, <1>5, StartEndsFaults, SysInitialiseFaults, SysFinaliseFaults,
           SysDeinitialiseFaults DEF DriverThread

(* The work that follows the load, its timer and the interrupt.            *)
LEMMA WorkFaults ==
  ASSUME FInv, ReadyInv', PerfWork \/ PerfTimer \/ WorkAfterUnload \/ DeviceISRWrapper \/ MISRGuard
  PROVE  FInv'
<1>1. WorkTypes /\ TimerNeedsClocks
  BY DEF FInv
<1>2. PICK w \in [pending : {"no", "queued", "timer"}, run : {"no", "read", "zero", "busy"}] :
        w = perf
  BY <1>1 DEF WorkTypes
<1>3. clk \in [on : BOOLEAN, wanted : BOOLEAN]
  BY <1>1 DEF WorkTypes
<1>4. Idle => perf.pending = "no" /\ perf.run = "no"
  BY DEF Idle
<1>5. ASSUME PerfStart PROVE FInv'
  <2>1. /\ load' = load /\ pc' = pc /\ why' = why /\ sys' = sys /\ clk' = clk
        /\ perf.pending = "queued"
    BY <1>5 DEF PerfStart
  <2>2. \/ clk.on /\ perf' = [pending |-> "no", run |-> "read"]
        \/ perf' = [pending |-> "no", run |-> "zero"]
    BY <1>5 DEF PerfStart
  <2>3. WorkTypes' /\ TimerNeedsClocks'
    BY <1>1, <2>1, <2>2 DEF WorkTypes, TimerNeedsClocks, DeviceFaults
  <2> QED BY <1>4, <2>1, <2>3, PerfStepFaults
<1>6. ASSUME sgx_current_load PROVE FInv'
  <2>1. perf.run = "read"
    BY <1>6 DEF sgx_current_load
  <2>2. CASE "devinfo" \in sys.dangling /\ Crash("load")
    <3>1. load.fault \in {"kernelctx", "heaps", "bifpd"} \union (LateFaults \ LateStop)
      BY <2>2 DEF FInv, DanglingKnown
    <3>2. "load" \in CrashesOf(load.fault)
      BY <3>1 DEF CrashesOf, LateStop
    <3> QED BY <2>2, <3>2, CrashFaults
  <2>3. CASE /\ \E l \in IF srv.ok THEN {"zero", "busy"} ELSE {"zero"} :
                   perf' = [perf EXCEPT !.run = l]
             /\ UNCHANGED <<load, pc, why, sys, clk>>
    <3>1. PICK l \in {"zero", "busy"} : perf' = [w EXCEPT !.run = l]
      BY <1>2, <2>3
    <3>2. perf' \in [pending : {"no", "queued", "timer"}, run : {"no", "read", "zero", "busy"}]
          /\ perf'.pending = perf.pending
      BY <1>2, <3>1
    <3>3. WorkTypes' /\ TimerNeedsClocks'
      BY <1>1, <2>1, <2>3, <3>2 DEF WorkTypes, TimerNeedsClocks, DeviceFaults
    <3> QED BY <1>4, <2>1, <2>3, <3>3, PerfStepFaults
  <2> QED BY <1>6, <2>2, <2>3 DEF sgx_current_load
<1>7. ASSUME PerfEnd PROVE FInv'
  <2>1. /\ load' = load /\ pc' = pc /\ why' = why /\ sys' = sys /\ clk' = clk
        /\ perf.run = "zero" \/ perf.run = "busy"
    BY <1>7 DEF PerfEnd
  <2>2. PICK v : v = IF perf.pending = "no" /\ (clk.wanted \/ perf.run = "busy")
                     THEN "timer" ELSE perf.pending
    OBVIOUS
  <2>3. perf' = [pending |-> v, run |-> "no"] /\ v \in {"no", "queued", "timer"}
    BY <1>2, <1>7, <2>2 DEF PerfEnd
  <2>4. ~clk.on => v # "timer"
    BY <1>1, <2>2 DEF TimerNeedsClocks
  <2>5. WorkTypes' /\ TimerNeedsClocks'
    BY <1>1, <2>1, <2>3, <2>4 DEF WorkTypes, TimerNeedsClocks, DeviceFaults
  <2> QED BY <1>4, <2>1, <2>5, PerfStepFaults
<1>8. ASSUME PerfTimer PROVE FInv'
  <2>1. perf.pending = "timer"
    BY <1>8 DEF PerfTimer
  <2>2. {"env", "perfwq"} \subseteq sys.held \/ load.fault \in DeviceFaults
    BY <1>1, <1>3, <2>1 DEF TimerNeedsClocks
  <2>3. CASE ~({"env", "perfwq"} \subseteq sys.held) /\ Crash("timer")
    <3>1. "timer" \in CrashesOf(load.fault)
      BY <2>2, <2>3 DEF CrashesOf
    <3> QED BY <2>3, <3>1, CrashFaults
  <2>4. CASE /\ perf' = [perf EXCEPT !.pending = "queued"]
             /\ UNCHANGED <<load, pc, why, sys, clk>>
    <3>1. perf' \in [pending : {"no", "queued", "timer"}, run : {"no", "read", "zero", "busy"}]
          /\ perf'.pending = "queued"
      BY <1>2, <2>4
    <3>2. WorkTypes' /\ TimerNeedsClocks'
      BY <1>1, <2>4, <3>1 DEF WorkTypes, TimerNeedsClocks, DeviceFaults
    <3> QED BY <1>4, <2>1, <2>4, <3>2, PerfStepFaults
  <2> QED BY <1>8, <2>3, <2>4 DEF PerfTimer
<1>9. ASSUME WorkAfterUnload PROVE FInv'
  <2>1. pc = "down" /\ ~Idle /\ Crash("unload") /\ pc \in Ended
    BY <1>9 DEF WorkAfterUnload, Idle, Ended
  <2>2. load.fault \in DeviceFaults \union LateStop
    BY <2>1 DEF FInv, HeldAtEnd
  <2>3. "unload" \in CrashesOf(load.fault)
    BY <2>2 DEF CrashesOf, LateStop
  <2> QED BY <2>1, <2>3, CrashFaults
<1>10. ASSUME DeviceISRWrapper PROVE FInv'
  <2>1. CASE ~({"env", "misrwq", "devnode"} \subseteq sys.held) /\ Crash("misrwq")
    <3>1. load.fault = "misrwq"
      BY <1>10, <2>1 DEF FInv, InterruptWired, DeviceISRWrapper
    <3>2. "misrwq" \in CrashesOf(load.fault)
      BY <3>1 DEF CrashesOf
    <3> QED BY <2>1, <3>2, CrashFaults
  <2> QED BY <1>10, <2>1, SameFaults DEF DeviceISRWrapper
<1>11. ASSUME MISRGuard PROVE FInv'
  BY <1>11, SameFaults DEF MISRGuard
<1> QED BY <1>5, <1>6, <1>7, <1>8, <1>9, <1>10, <1>11 DEF PerfWork

(* What a client can run into.                                             *)
LEMMA ClientCrashes ==
  ASSUME Client
  PROVE  \/ UNCHANGED driver
         \/ Crash("events") /\ pc \in {"events", "up"}
         \/ Crash("evo") /\ load.client = "sleep"
<1> DEFINE Goal == \/ UNCHANGED driver
                   \/ Crash("events") /\ pc \in {"events", "up"}
                   \/ Crash("evo") /\ load.client = "sleep"
<1>1. ASSUME NEW p, NEW f, NEW b, pvr_open(f, p, b) PROVE UNCHANGED driver
  BY <1>1 DEF pvr_open
<1>2. ASSUME NEW f, pvr_release(f) PROVE Goal
  BY <1>2 DEF pvr_release, CanOpen
<1>3. ASSUME NEW p, PBCalls(p) PROVE UNCHANGED driver
  BY <1>3 DEF PBCalls, PVRSRVAllocPBMemory, SGXFindSharedPBDescBW, SGXUnrefSharedPBDesc,
     SGXAddSharedPBDescBW, Called
<1>4. ASSUME NEW p, EventCalls(p) PROVE UNCHANGED driver
  BY <1>4 DEF EventCalls, SyncCalls, AllocSyncInfo, FreeSyncInfo, WriteOpPending, WriteOpComplete,
     SGX2DQueryBlitsComplete, pvr_read, Called
<1>5. ASSUME NEW p, SleepCalls(p), load.client = "sleep" PROVE Goal
  BY <1>5 DEF SleepCalls, OSEventObjectOpen, OSEventObjectClose, OSEventObjectWait, WaitEnds, Called
<1> HIDE DEF Goal
<1>6. UNCHANGED driver => Goal
  BY DEF Goal
<1>7. Goal
  BY <1>1, <1>2, <1>3, <1>4, <1>5, <1>6 DEF Client
<1> QED BY <1>7 DEF Goal

LEMMA ClientFaults ==
  ASSUME FInv, ReadyInv', Client
  PROVE  FInv'
<1>1. CASE UNCHANGED driver
  BY <1>1, SameFaults DEF driver
<1>2. CASE Crash("events") /\ pc \in {"events", "up"}
  <2>1. load.fault \in LateFaults \ {"misc"}
    BY <1>2, LateAtEvents DEF FInv, HeldUp, IsUp
  <2>2. "events" \in CrashesOf(load.fault)
    BY <2>1 DEF CrashesOf
  <2> QED BY <1>2, <2>2, CrashFaults
<1>3. CASE Crash("evo") /\ load.client = "sleep"
  <2>1. "evo" \in CrashesOf(load.fault)
    BY <1>3 DEF CrashesOf
  <2> QED BY <1>3, <2>1, CrashFaults
<1> QED BY <1>1, <1>2, <1>3, ClientCrashes

LEMMA InitFaults == Init => FInv
<1>1. SUFFICES ASSUME Init PROVE FInv
  OBVIOUS
<1>2. /\ load \in Loads /\ pc = "load" /\ why = "start"
      /\ sys = [held |-> {}, flags |-> {}, dangling |-> {}]
      /\ clk = [on |-> FALSE, wanted |-> FALSE] /\ perf = [pending |-> "no", run |-> "no"]
      /\ srv = [open |-> FALSE, running |-> FALSE, ran |-> FALSE, ok |-> FALSE]
  BY <1>1 DEF Init, InitDriver
<1>3. load.fault \in Faults
  BY <1>2, LoadsAssumption
<1>4. /\ pc \in Starting /\ pc \notin Finalising /\ ~IsUp /\ pc \notin StopSteps /\ pc \notin Ended
      /\ pc # "crash"
  BY <1>2 DEF Starting, Finalising, IsUp, StopSteps, Ended
<1>5. sys.held = {} /\ sys.flags = {} /\ sys.dangling = {} /\ Idle /\ ~clk.on /\ ~clk.wanted
      /\ perf.pending = "no" /\ perf.run = "no" /\ WorkTypes
  BY <1>2 DEF Idle, WorkTypes
<1>6. ReadyInv
  BY <1>2, <1>4 DEF ReadyInv, DriverTypes, IsSys
<1>7. Rank(pc) = 0 /\ \A x \in Starting : Rank(pc) <= Rank(x)
  <2>1. Rank(pc) = 0
    BY <1>2, Ranks
  <2>2. ASSUME NEW x \in Starting PROVE Rank(pc) <= Rank(x)
    <3>1. Rank(x) \in Nat
      BY Ranks
    <3> QED BY <2>1, <3>1
  <2> QED BY <2>1, <2>2
<1>8. ~Past("env") /\ ~Past("resman") /\ ~Past("heaptable") /\ ~Past("perfwq") /\ ~Past("synctable")
      /\ ~Past("clocksoff") /\ Upto("clk1")
  BY <1>2, <1>4, <1>7, Ranks DEF Past, Upto
<1>9. FaultAhead
  <2>1. "eventobj" \in Starting /\ "eventlist" \in Starting
    BY DEF Starting
  <2> QED BY <1>2, <1>5, <1>7, <1>8, <2>1 DEF FaultAhead
<1>10. HeldBefore
  BY <1>2, <1>5, <1>8 DEF HeldBefore
<1>11. HeldUp /\ FlagsTell /\ HeldAfter /\ HeldAtEnd /\ InterruptWired /\ TimerNeedsClocks
       /\ DanglingKnown
  BY <1>4, <1>5 DEF HeldUp, FlagsTell, HeldAfter, HeldAtEnd, InterruptWired, TimerNeedsClocks,
     DanglingKnown
<1> QED BY <1>3, <1>4, <1>5, <1>6, <1>9, <1>10, <1>11 DEF FInv

LEMMA NextFaults == SInv /\ FInv /\ [Next]_vars => FInv'
<1>1. SUFFICES ASSUME SInv, FInv, [Next]_vars PROVE FInv'
  OBVIOUS
<1>2. ReadyInv'
  BY <1>1, NextReady DEF FInv
<1>3. CASE UNCHANGED vars
  BY <1>1, <1>2, <1>3, SameFaults DEF vars
<1>4. CASE \/ DriverThread \/ InitServer \/ PerfWork \/ PerfTimer
           \/ WorkAfterUnload \/ DeviceISRWrapper \/ UnloadModule
  BY <1>1, <1>2, <1>4, DriverThreadFaults, InitServerFaults, WorkFaults DEF UnloadModule
<1>5. CASE PVRSRVMISR
  BY <1>1, <1>2, <1>5, WorkFaults DEF PVRSRVMISR
<1>6. CASE Client
  BY <1>1, <1>2, <1>6, ClientFaults
<1> QED BY <1>1, <1>3, <1>4, <1>5, <1>6 DEF Next

(* FaultsContained (sysconfig.c, pvrsrv.c, module.c, sysutils.c): whichever*)
(* one step of the start or the stop fails, and however the deferred work, *)
(* the interrupt, the init server and the clients run beside it, what the  *)
(* driver runs into is what CrashesOf says, and what it leaves behind when *)
(* it has failed or is unloaded is what LeaksOf says.                      *)
THEOREM ContainsFaults == Spec => []FaultsContained
<1>1. FInv => FaultsContained
  <2>1. {"failed", "down"} \subseteq Ended
    BY DEF Ended
  <2> QED BY <2>1 DEF FInv, FaultsContained, HeldAtEnd
<1> QED BY <1>1, InitFaults, NextFaults, Invariance, PTL DEF Spec

=============================================================================
