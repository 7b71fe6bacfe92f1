---------------------------- MODULE CmdRingProofs ----------------------------
(***************************************************************************)
(* CmdRing for queues and commands of every size: NearestPower2 gives the  *)
(* smallest power of two that is large enough, and no command in the ring  *)
(* is overwritten or read out of turn, wherever the offsets have wrapped.  *)
(*                                                                         *)
(* The library's induction theorems have a parameter that is an operator.  *)
(* Induction is done here over sets of numbers instead, from the fact that *)
(* the finite subsets of Nat are well-founded under inclusion.             *)
(***************************************************************************)
EXTENDS CmdRing, FiniteSetTheorems, FunctionTheorems, WellFoundedInduction, TLAPS

-----------------------------------------------------------------------------
(***************************************************************************)
(* Induction, remainders and powers of two.                                *)
(***************************************************************************)

\* Every set of naturals that is not empty has a least member.
LEMMA LeastNatural ==
  ASSUME NEW S, S \subseteq Nat, S # {}
  PROVE  \E n \in S : \A m \in S : n <= m
<1> DEFINE F == {0..n : n \in S}
<1>1. IsWellFoundedOn(StrictSubsetOrdering(Nat), FiniteSubsetsOf(Nat))
  BY FS_StrictSubsetOrderingWellFounded
<1>2. F \subseteq FiniteSubsetsOf(Nat)
  <2>1. ASSUME NEW n \in S PROVE 0..n \in FiniteSubsetsOf(Nat)
    <3>1. IsFiniteSet(0..n)
      BY FS_Interval
    <3>2. 0..n \in SUBSET Nat
      OBVIOUS
    <3> QED BY <3>1, <3>2 DEF FiniteSubsetsOf
  <2> QED BY <2>1
<1>3. F # {}
  OBVIOUS
<1>4. PICK x \in F : \A y \in F : ~(<<y, x>> \in StrictSubsetOrdering(Nat))
  <2> HIDE DEF F
  <2> QED BY <1>1, <1>2, <1>3, WFMin
<1>5. PICK n \in S : x = 0..n
  OBVIOUS
<1>6. ASSUME NEW m \in S PROVE n <= m
  <2>1. SUFFICES ASSUME m < n PROVE FALSE
    OBVIOUS
  <2>2. 0..m \in SUBSET Nat /\ 0..n \in SUBSET Nat /\ 0..m \subseteq 0..n /\ 0..m # 0..n
    BY <2>1
  <2>3. <<0..m, 0..n>> \in StrictSubsetOrdering(Nat)
    BY <2>2 DEF StrictSubsetOrdering
  <2> QED BY <1>4, <1>5, <2>3
<1> QED BY <1>6

\* Complete induction, with the property as the set of the numbers that have it.
LEMMA NaturalInduction ==
  ASSUME NEW S, \A n \in Nat : (\A m \in Nat : m < n => m \in S) => n \in S
  PROVE  Nat \subseteq S
<1>1. SUFFICES ASSUME Nat \ S # {} PROVE FALSE
  OBVIOUS
<1>2. PICK n \in Nat \ S : \A m \in Nat \ S : n <= m
  BY <1>1, LeastNatural
<1> QED BY <1>2

\* What x % q, the & (ui32QueueSize - 1) of queue.c, is.
LEMMA Remainder ==
  ASSUME NEW q \in Nat \ {0}, NEW x \in Int
  PROVE  x % q \in 0..(q - 1) /\ \E k \in Int : x = q * k + (x % q)
<1>1. x % q \in 0..(q - 1)
  OBVIOUS
<1>2. x \div q \in Int
  OBVIOUS
<1>3. x = q * (x \div q) + (x % q)
  OBVIOUS
<1> QED BY <1>1, <1>2, <1>3

\* A multiple of q that is closer to 0 than q is 0.
LEMMA NoMultiple ==
  ASSUME NEW q \in Nat \ {0}, NEW m \in Int, NEW r \in Int, r = q * m, r < q, 0 - q < r
  PROVE  r = 0
OBVIOUS

\* Numbers that differ by a multiple of q have the same remainder.
LEMMA RemainderUnique ==
  ASSUME NEW q \in Nat \ {0}, NEW x \in Int, NEW k \in Int, NEW r \in 0..(q - 1),
         x = q * k + r
  PROVE  x % q = r
<1>1. PICK j \in Int : x = q * j + (x % q)
  BY Remainder
<1>2. PICK y \in 0..(q - 1) : y = x % q
  BY Remainder
<1>3. q * (k - j) = y - r
  BY <1>1, <1>2
<1>4. k - j \in Int /\ y - r \in Int /\ y - r < q /\ 0 - q < y - r
  OBVIOUS
<1>5. y - r = 0
  BY <1>3, <1>4, NoMultiple
<1> QED BY <1>2, <1>5

\* Offsets may wrap before a size is added, and again after it.
LEMMA RemainderOfSum ==
  ASSUME NEW q \in Nat \ {0}, NEW x \in Int, NEW n \in Int
  PROVE  ((x % q) + n) % q = (x + n) % q
<1>1. PICK k \in Int : x = q * k + (x % q)
  BY Remainder
<1>2. PICK y \in Int : y = x % q
  BY Remainder
<1>3. PICK z \in Int : z = y + n
  OBVIOUS
<1>4. PICK j \in Int : z = q * j + (z % q)
  BY Remainder
<1>5. PICK r \in 0..(q - 1) : r = z % q
  BY Remainder
<1>6. x + n = q * (k + j) + r
  BY <1>1, <1>2, <1>3, <1>4, <1>5
<1>7. x + n \in Int /\ k + j \in Int
  OBVIOUS
<1>8. (x + n) % q = r
  BY <1>6, <1>7, RemainderUnique
<1> QED BY <1>2, <1>3, <1>5, <1>8

\* Powers of two double: there are 2^k subsets of 1..k.
LEMMA PowerOfTwo ==
  ASSUME NEW k \in Nat
  PROVE  2^k \in Nat /\ 2^(k+1) = 2 * 2^k
<1> DEFINE S == SUBSET (1..k)
           T == SUBSET (1..(k+1))
           f == [p \in S \X {0, 1} |-> IF p[2] = 0 THEN p[1] ELSE p[1] \cup {k+1}]
<1>1. IsFiniteSet(S) /\ Cardinality(S) = 2^k
  <2>1. IsFiniteSet(1..k) /\ Cardinality(1..k) = k
    <3>1. 1 \in Int /\ k \in Int /\ (IF 1 > k THEN 0 ELSE k - 1 + 1) = k
      OBVIOUS
    <3> QED BY <3>1, FS_Interval
  <2> QED BY <2>1, FS_SUBSET
<1>2. IsFiniteSet(T) /\ Cardinality(T) = 2^(k+1)
  <2>1. IsFiniteSet(1..(k+1)) /\ Cardinality(1..(k+1)) = k+1
    <3>1. 1 \in Int /\ k+1 \in Int /\ (IF 1 > k+1 THEN 0 ELSE (k+1) - 1 + 1) = k+1
      OBVIOUS
    <3> QED BY <3>1, FS_Interval
  <2> QED BY <2>1, FS_SUBSET
<1>3. IsFiniteSet({0, 1}) /\ Cardinality({0, 1}) = 2
  <2>1. {0,1} = 0..1
    OBVIOUS
  <2>2. (IF 0 > 1 THEN 0 ELSE 1 - 0 + 1) = 2
    OBVIOUS
  <2>3. 0 \in Int /\ 1 \in Int
    OBVIOUS
  <2>4. IsFiniteSet(0..1) /\ Cardinality(0..1) = 2
    BY <2>2, <2>3, FS_Interval
  <2> QED BY <2>1, <2>4
<1>4. IsFiniteSet(S \X {0, 1}) /\ Cardinality(S \X {0, 1}) = 2^k * 2
  <2> HIDE DEF S
  <2> QED BY <1>1, <1>3, FS_Product
<1>5. f \in Bijection(S \X {0, 1}, T)
  <2>1. f \in [S \X {0,1} -> T]
    <3>1. ASSUME NEW p \in S \X {0,1} PROVE f[p] \in T
      OBVIOUS
    <3> QED BY <3>1
  <2>2. ASSUME NEW p \in S \X {0,1}, NEW r \in S \X {0,1}, f[p] = f[r] PROVE p = r
    <3>1. k+1 \notin p[1] /\ k+1 \notin r[1] /\ p = <<p[1], p[2]>> /\ r = <<r[1], r[2]>>
          /\ p[2] \in {0,1} /\ r[2] \in {0,1}
      OBVIOUS
    <3>2. p[2] = r[2]
      BY <2>2, <3>1
    <3>3. p[1] = r[1]
      BY <2>2, <3>1, <3>2
    <3> QED BY <3>1, <3>2, <3>3
  <2>3. ASSUME NEW t \in T PROVE \E p \in S \X {0,1} : f[p] = t
    <3>1. CASE k+1 \in t
      <4>1. <<t \ {k+1}, 1>> \in S \X {0,1} /\ f[<<t \ {k+1}, 1>>] = t
        <5>1. t \ {k+1} \in S
          OBVIOUS
        <5>2. (t \ {k+1}) \cup {k+1} = t
          BY <3>1
        <5>3. PICK u \in S : u = t \ {k+1}
          BY <5>1
        <5>4. <<u, 1>> \in S \X {0, 1}
          OBVIOUS
        <5>5. f[<<u, 1>>] = u \cup {k+1}
          BY <5>4
        <5> QED BY <5>2, <5>3, <5>4, <5>5
      <4> QED BY <4>1
    <3>2. CASE k+1 \notin t
      <4>1. t \in S
        BY <3>2
      <4>2. <<t, 0>> \in S \X {0,1} /\ f[<<t, 0>>] = t
        BY <4>1
      <4> QED BY <4>2
    <3> QED BY <3>1, <3>2
  <2> HIDE DEF f, S, T
  <2> QED BY <2>1, <2>2, <2>3, Fun_IsBij DEF Bijection, Injection, Surjection, IsInjective
<1>6. Cardinality(T) = Cardinality(S \X {0, 1})
  <2> HIDE DEF f, S, T
  <2> QED BY <1>4, <1>5, FS_Bijection DEF ExistsBijection
<1>7. 2^k \in Nat
  BY <1>1, FS_CardinalityType
<1> QED BY <1>2, <1>4, <1>6, <1>7

-----------------------------------------------------------------------------
(***************************************************************************)
(* NearestPower2.                                                          *)
(***************************************************************************)

\* The recursive definition of Doubled, the loop of NearestPower2, has a solution.
LEMMA DoubledDef ==
  Doubled = [n \in Nat |-> IF n = 0 THEN 1 ELSE 2 * Doubled[n \div 2]]
<1> DEFINE Is(f, n) == f[n] = IF n = 0 THEN 1 ELSE 2 * f[n \div 2]
           Prefix(n) == {f \in [0..n -> Nat] : \A m \in 0..n : Is(f, m)}
           S == {n \in Nat : Prefix(n) # {}}
<1>0. \A n \in Nat : n # 0 => n \div 2 \in 0..(n-1)
  OBVIOUS
<1>1. Nat \subseteq S
  <2>1. ASSUME NEW n \in Nat, \A m \in Nat : m < n => m \in S PROVE n \in S
    <3>1. CASE n = 0
      <4>1. [m \in 0..n |-> 1] \in Prefix(n)
        BY <3>1
      <4> QED BY <4>1
    <3>2. CASE n # 0
      <4>1. PICK f : f \in Prefix(n-1)
        <5>1. n-1 \in Nat /\ n-1 < n
          BY <3>2
        <5> QED BY <5>1, <2>1
      <4>2. PICK g : g = [m \in 0..n |-> IF m < n THEN f[m] ELSE 2 * f[n \div 2]]
        OBVIOUS
      <4>3. f \in [0..(n-1) -> Nat]
        BY <4>1
      <4>4. g \in [0..n -> Nat]
        BY <1>0, <3>2, <4>2, <4>3
      <4>5. ASSUME NEW m \in 0..n PROVE Is(g, m)
        <5>1. CASE m < n
          <6>1. m \in 0..(n-1) /\ Is(f, m)
            BY <4>1, <5>1
          <6>2. m # 0 => m \div 2 \in 0..(n-1) /\ m \div 2 < n /\ m \div 2 \in 0..n
            BY <1>0, <5>1
          <6> QED BY <4>2, <5>1, <6>1, <6>2
        <5>2. CASE m = n
          <6>1. n \div 2 \in 0..n /\ n \div 2 < n
            BY <1>0, <3>2
          <6> QED BY <3>2, <4>2, <5>2, <6>1
        <5> QED BY <5>1, <5>2
      <4> QED BY <4>4, <4>5
    <3> QED BY <3>1, <3>2
  <2> HIDE DEF S
  <2> QED BY <2>1, NaturalInduction
<1>2. ASSUME NEW a \in Nat, NEW b \in Nat, a <= b,
             NEW f \in Prefix(a), NEW g \in Prefix(b)
      PROVE  f[a] = g[a]
  <2> DEFINE E == {n \in Nat : n <= a => f[n] = g[n]}
  <2>1. ASSUME NEW n \in Nat, \A m \in Nat : m < n => m \in E PROVE n \in E
    <3>1. SUFFICES ASSUME n <= a PROVE f[n] = g[n]
      OBVIOUS
    <3>2. Is(f, n) /\ Is(g, n)
      BY <1>2, <3>1
    <3>3. n # 0 => n \div 2 \in Nat /\ n \div 2 < n /\ n \div 2 <= a
      BY <1>0, <3>1
    <3>4. n # 0 => f[n \div 2] = g[n \div 2]
      BY <2>1, <3>3
    <3> QED BY <3>2, <3>4
  <2>2. Nat \subseteq E
    <3> HIDE DEF E
    <3> QED BY <2>1, NaturalInduction
  <2> QED BY <2>2
<1>3. PICK F : F = [n \in Nat |-> CHOOSE f : f \in Prefix(n)]
  OBVIOUS
<1>4. \A n \in Nat : F[n] \in Prefix(n)
  BY <1>1, <1>3
<1>5. PICK h : h = [n \in Nat |-> F[n][n]]
  OBVIOUS
<1>6. ASSUME NEW n \in Nat PROVE Is(h, n)
  <2>1. Is(F[n], n)
    BY <1>4
  <2>2. n # 0 => n \div 2 \in Nat /\ n \div 2 <= n
    BY <1>0
  <2>3. n # 0 => F[n \div 2][n \div 2] = F[n][n \div 2]
    BY <1>2, <1>4, <2>2
  <2> QED BY <1>5, <2>1, <2>2, <2>3
<1>7. h = [n \in Nat |-> IF n = 0 THEN 1 ELSE 2 * h[n \div 2]]
  BY <1>5, <1>6
<1> QED BY <1>7 DEF Doubled

\* Doubled[n] is the smallest power of two above n.
LEMMA DoubledIs ==
  ASSUME NEW n \in Nat
  PROVE  /\ Doubled[n] \in Nat /\ Doubled[n] > n
         /\ n = 0 => Doubled[n] = 1
         /\ n > 0 => Doubled[n] <= 2 * n
         /\ \E k \in 0..n : Doubled[n] = 2^k
<1> DEFINE P(m) == /\ Doubled[m] \in Nat /\ Doubled[m] > m
                   /\ m = 0 => Doubled[m] = 1
                   /\ m > 0 => Doubled[m] <= 2 * m
                   /\ \E k \in 0..m : Doubled[m] = 2^k
           S == {m \in Nat : P(m)}
<1>0. 2^0 = 1
  <2>1. IsFiniteSet({}) /\ Cardinality({}) = 0
    BY FS_EmptySet
  <2>2. Cardinality(SUBSET {}) = 2^0
    BY <2>1, FS_SUBSET
  <2>3. SUBSET {} = {{}}
    OBVIOUS
  <2> QED BY <2>2, <2>3, FS_Singleton
<1>1. ASSUME NEW m \in Nat, \A i \in Nat : i < m => i \in S PROVE m \in S
  <2>1. CASE m = 0
    <3>1. Doubled[m] = 1
      BY <2>1, DoubledDef
    <3>2. 0 \in 0..m /\ Doubled[m] = 2^0
      BY <1>0, <2>1, <3>1
    <3>3. P(m)
      BY <2>1, <3>1, <3>2
    <3> QED BY <3>3
  <2>2. CASE m # 0
    <3>1. PICK h \in Nat : h = m \div 2 /\ h < m /\ m \in {2 * h, 2 * h + 1}
      BY <2>2
    <3>2. Doubled[m] = 2 * Doubled[h]
      BY <2>2, <3>1, DoubledDef
    <3>3. P(h)
      BY <1>1, <3>1
    <3>4. Doubled[m] \in Nat /\ Doubled[m] > m
      BY <3>1, <3>2, <3>3
    <3>5. Doubled[m] <= 2 * m
      BY <2>2, <3>1, <3>2, <3>3
    <3>6. PICK k \in 0..h : Doubled[h] = 2^k
      BY <3>3
    <3>7. Doubled[m] = 2^(k+1) /\ k+1 \in 0..m
      <4>1. 2^(k+1) = 2 * 2^k
        BY PowerOfTwo
      <4>2. k + 1 \in 0..m
        BY <3>1
      <4> QED BY <3>2, <3>6, <4>1, <4>2
    <3> QED BY <2>2, <3>4, <3>5, <3>7
  <2> QED BY <2>1, <2>2
<1>2. Nat \subseteq S
  <2> HIDE DEF S
  <2> QED BY <1>1, NaturalInduction
<1> QED BY <1>2
-----------------------------------------------------------------------------
(***************************************************************************)
(* The ring.                                                               *)
(***************************************************************************)

\* Bytes inserted, and bytes taken out again, since the queue was created.
End == IF inserted = 0 THEN 0 ELSE pos[inserted] + size[inserted]
Start == IF processed = inserted THEN End ELSE pos[processed + 1]

\* Counted without wrapping, the commands lie one behind the other.
InOrder ==
  /\ \A c \in 1..inserted : size[c] \in 1..PVRSRV_MAX_CMD_SIZE
  /\ \A c \in 1..inserted : \A d \in 1..inserted : d = c + 1 => pos[d] = pos[c] + size[c]
  /\ \A c \in 1..inserted : \A d \in 1..inserted : c < d => pos[c] + size[c] <= pos[d]

\* The offsets are those counts, wrapped, and never a whole queue apart.
OffsetsExact ==
  /\ ui32ReadOffset = Wrap(Start)
  /\ ui32WriteOffset = Wrap(End)
  /\ End - Start \in 0..(ui32QueueSize - 1)

RInv == TypeOK /\ InOrder /\ OffsetsExact /\ CommandsIntact

\* Two bytes less than a queue apart are at different addresses.
LEMMA Apart ==
  ASSUME NEW q \in Nat \ {0}, NEW x \in Int, NEW e \in Int, NEW i \in Int, NEW j \in Int,
         (x % q) + i = (e % q) + j,
         x + i < e + j, e + j < x + i + q
  PROVE  FALSE
<1>1. PICK k \in Int : x = q * k + (x % q)
  BY Remainder
<1>2. PICK l \in Int : e = q * l + (e % q)
  BY Remainder
<1>0. x % q \in 0..(q - 1) /\ e % q \in 0..(q - 1)
  BY Remainder
<1>3. PICK y \in Int, z \in Int : y = x % q /\ z = e % q
  BY <1>0
<1>4. q * (l - k) = (e + j) - (x + i)
  BY <1>1, <1>2, <1>3
<1>5. l - k \in Int /\ (e + j) - (x + i) \in Int
  OBVIOUS
<1>6. (e + j) - (x + i) < q /\ 0 - q < (e + j) - (x + i) /\ (e + j) - (x + i) # 0
  OBVIOUS
<1> QED BY <1>4, <1>5, <1>6, NoMultiple

\* Rounding up does not make a command smaller.
LEMMA Aligned ==
  ASSUME NEW n \in Nat
  PROVE  Align4(n) \in Nat /\ n <= Align4(n)
BY DEF Align4

\* A command has at least its header.
LEMMA CommandSizes ==
  ASSUME NEW syncs \in SyncCounts, NEW data \in DataSizes
  PROVE  CommandSize(syncs, data) \in Nat \ {0}
<1>1. syncs \in Nat /\ data \in Nat /\ SyncObject \in Nat /\ CommandHeader \in Nat \ {0}
  BY RingAssumption
<1>2. PICK m \in Nat : m = syncs * SyncObject
  BY <1>1
<1>3. PICK a \in Nat : a = Align4(data)
  BY <1>1, Aligned
<1> QED BY <1>1, <1>2, <1>3 DEF CommandSize

\* What the invariant says of the bytes counted without wrapping.
LEMMA CountFacts ==
  ASSUME RInv
  PROVE  /\ End \in Nat /\ Start \in Nat /\ Start <= End /\ End - Start < ui32QueueSize
         /\ \A c \in 1..inserted : /\ pos[c] \in Nat /\ size[c] \in Nat
                                   /\ pos[c] + size[c] <= End
         /\ \A c \in Live : Start <= pos[c]
<1>1. /\ inserted \in Nat /\ inserted <= MaxCmds /\ processed \in Nat /\ processed <= inserted
      /\ ui32QueueSize \in Nat \ {0} /\ MaxCmds \in Nat
      /\ \A c \in 1..inserted : pos[c] \in Nat /\ size[c] \in Nat
  BY RingAssumption DEF RInv, TypeOK, Cmds
<1>2. End \in Nat
  BY <1>1 DEF End
<1>3. Start \in Nat
  <2>1. processed # inserted => processed + 1 \in 1..inserted
    BY <1>1
  <2> QED BY <1>1, <1>2, <2>1 DEF Start
<1>4. Start <= End /\ End - Start < ui32QueueSize
  BY <1>1, <1>2, <1>3 DEF RInv, OffsetsExact
<1>5. ASSUME NEW c \in 1..inserted PROVE pos[c] + size[c] <= End
  <2>1. inserted \in 1..inserted /\ inserted # 0
    BY <1>1
  <2>2. c # inserted => pos[c] + size[c] <= pos[inserted]
    BY <1>1, <2>1 DEF RInv, InOrder
  <2> QED BY <1>1, <2>1, <2>2 DEF End
<1>6. ASSUME NEW c \in Live PROVE Start <= pos[c]
  <2>1. /\ processed + 1 \in 1..inserted /\ c \in 1..inserted /\ processed + 1 <= c
        /\ processed # inserted
    BY <1>1 DEF Live
  <2>2. processed + 1 < c => pos[processed + 1] + size[processed + 1] <= pos[c]
    BY <2>1 DEF RInv, InOrder
  <2> QED BY <1>1, <2>1, <2>2 DEF Start
<1> QED BY <1>1, <1>2, <1>3, <1>4, <1>5, <1>6

\* GET_SPACE_IN_CMDQ computes the bytes that are free, less one.
LEMMA Space ==
  ASSUME RInv
  PROVE  GET_SPACE_IN_CMDQ = (ui32QueueSize - 1) - (End - Start)
<1>1. PICK q \in Nat \ {0} : q = ui32QueueSize
  BY DEF RInv, TypeOK
<1>2. PICK e \in Nat, s \in Nat : e = End /\ s = Start /\ s <= e /\ e - s < q
  BY <1>1, CountFacts
<1>0. e \in Int /\ s \in Int
  OBVIOUS
<1>3. PICK k \in Int : e = q * k + (e % q)
  BY <1>0, Remainder
<1>4. PICK j \in Int : s = q * j + (s % q)
  BY <1>0, Remainder
<1>10. e % q \in 0..(q - 1) /\ s % q \in 0..(q - 1)
  BY <1>0, Remainder
<1>5. PICK y \in Int, z \in Int : y = e % q /\ z = s % q
  BY <1>10
<1>6. ui32WriteOffset = y /\ ui32ReadOffset = z
  BY <1>1, <1>2, <1>5 DEF RInv, OffsetsExact, Wrap
<1>7. PICK x \in Int, r \in 0..(q - 1), h \in Int :
         x = (z - y) + (q - 1) /\ r = (q - 1) - (e - s) /\ h = k - j
  BY <1>2
<1>8. x = q * h + r
  BY <1>3, <1>4, <1>5, <1>7
<1>9. x % q = r
  BY <1>8, RemainderUnique
<1> QED BY <1>1, <1>2, <1>6, <1>7, <1>9 DEF GET_SPACE_IN_CMDQ, Wrap

\* PVRSRVInsertCommandKM finds room only where no live command is.
LEMMA InsertKeeps ==
  ASSUME RInv, NEW syncs \in SyncCounts, NEW data \in DataSizes,
         PVRSRVInsertCommand(syncs, data)
  PROVE  RInv'
<1>1. PICK n \in Nat \ {0} : n = CommandSize(syncs, data)
  BY CommandSizes
<1>2. PICK q \in Nat \ {0} : q = ui32QueueSize /\ q = ui32QueueSize'
  BY DEF RInv, TypeOK, PVRSRVInsertCommand
<1>3. PICK e \in Nat, s \in Nat : e = End /\ s = Start /\ s <= e /\ e - s < q
  BY <1>2, CountFacts
<1>4. PICK m \in Nat : m = inserted /\ m < MaxCmds /\ inserted' = m + 1 /\ m + 1 \in Cmds
  BY RingAssumption DEF RInv, TypeOK, PVRSRVInsertCommand, Cmds
<1>5. n <= PVRSRV_MAX_CMD_SIZE /\ e + n < s + q
  <2>1. PICK a \in Nat : a = Align4(n) /\ n <= a
    BY Aligned
  <2>2. a <= PVRSRV_MAX_CMD_SIZE /\ GET_SPACE_IN_CMDQ > a
    BY <1>1, <2>1 DEF PVRSRVInsertCommand, Fits
  <2>3. GET_SPACE_IN_CMDQ = (q - 1) - (e - s)
    BY <1>2, <1>3, Space
  <2> QED BY <2>1, <2>2, <2>3, RingAssumption
<1>6. /\ processed' = processed /\ processed \in Nat /\ processed <= m
      /\ ui32ReadOffset' = ui32ReadOffset /\ requested' = requested
      /\ size \in [Cmds -> Nat] /\ pos \in [Cmds -> Nat] /\ 1..m \subseteq Cmds
  BY <1>4, RingAssumption DEF RInv, TypeOK, PVRSRVInsertCommand, Cmds
<1>7. /\ size' \in [Cmds -> Nat] /\ size'[m + 1] = n
      /\ \A c \in 1..m : size'[c] = size[c]
  <2>1. size' = [size EXCEPT ![m + 1] = n]
    BY <1>1, <1>4 DEF PVRSRVInsertCommand
  <2> QED BY <1>4, <1>6, <2>1
<1>8. /\ pos' \in [Cmds -> Nat] /\ pos'[m + 1] = e
      /\ \A c \in 1..m : pos'[c] = pos[c]
  <2>1. pos' = [pos EXCEPT ![m + 1] = e]
    BY <1>3, <1>4 DEF PVRSRVInsertCommand, End
  <2> QED BY <1>4, <1>6, <2>1
<1>9. End' = e + n /\ Start' = s
  <2>1. End' = e + n
    BY <1>4, <1>7, <1>8 DEF End
  <2>2. CASE processed = m
    <3>1. Start' = pos'[m + 1]
      BY <1>4, <1>6, <2>2 DEF Start
    <3> QED BY <1>3, <1>4, <1>8, <2>1, <2>2, <3>1 DEF Start
  <2>3. CASE processed # m
    <3>1. processed + 1 \in 1..m /\ processed # m + 1
      BY <1>6, <2>3
    <3>2. Start' = pos'[processed + 1]
      BY <1>4, <1>6, <3>1 DEF Start
    <3>3. Start = pos[processed + 1]
      BY <1>4, <2>3 DEF Start
    <3> QED BY <1>3, <1>8, <2>1, <3>1, <3>2, <3>3
  <2> QED BY <2>1, <2>2, <2>3
<1>10. ui32WriteOffset = e % q /\ ui32WriteOffset' = (e + n) % q
  <2>1. ui32WriteOffset = e % q
    BY <1>2, <1>3 DEF RInv, OffsetsExact, Wrap
  <2>2. ui32WriteOffset' = ((e % q) + n) % q
    BY <1>1, <1>2, <2>1 DEF PVRSRVInsertCommand, UPDATE_QUEUE_WOFF, Wrap
  <2>3. e \in Int /\ n \in Int
    OBVIOUS
  <2> QED BY <2>1, <2>2, <2>3, RemainderOfSum
<1>11. PICK w \in 0..(q - 1) : w = e % q
  BY Remainder
<1>12. /\ owner \in [0..(q + PVRSRV_MAX_CMD_SIZE - 1) -> 0..MaxCmds]
       /\ Bytes(w, n) \subseteq 0..(q + PVRSRV_MAX_CMD_SIZE - 1)
       /\ owner' = [a \in 0..(q + PVRSRV_MAX_CMD_SIZE - 1) |->
                      IF a \in Bytes(w, n) THEN m + 1 ELSE owner[a]]
  <2>1. owner \in [0..(q + PVRSRV_MAX_CMD_SIZE - 1) -> 0..MaxCmds]
    BY <1>2 DEF RInv, TypeOK
  <2>2. Bytes(w, n) \subseteq 0..(q + PVRSRV_MAX_CMD_SIZE - 1)
    BY <1>5, RingAssumption DEF Bytes
  <2>3. owner' = [a \in DOMAIN owner \cup Bytes(w, n) |->
                    IF a \in Bytes(w, n) THEN m + 1 ELSE owner[a]]
    BY <1>1, <1>4, <1>10, <1>11 DEF PVRSRVInsertCommand
  <2>4. DOMAIN owner \cup Bytes(w, n) = 0..(q + PVRSRV_MAX_CMD_SIZE - 1)
    BY <2>1, <2>2
  <2> QED BY <2>1, <2>2, <2>3, <2>4
<1>13. TypeOK'
  <2>1. owner' \in [0..(q + PVRSRV_MAX_CMD_SIZE - 1) -> 0..MaxCmds]
    <3>1. m + 1 \in 0..MaxCmds
      BY <1>4 DEF Cmds
    <3> QED BY <1>12, <3>1
  <2>2. ui32WriteOffset' \in 0..(q - 1)
    <3>1. e + n \in Int
      OBVIOUS
    <3> QED BY <1>10, <3>1, Remainder
  <2>3. ui32ReadOffset' \in 0..(q - 1) /\ requested' \in RequestedSizes
    BY <1>2, <1>6 DEF RInv, TypeOK
  <2>4. inserted' \in 0..MaxCmds /\ processed' \in 0..inserted'
    BY <1>4, <1>6 DEF Cmds
  <2> QED BY <1>2, <1>7, <1>8, <2>1, <2>2, <2>3, <2>4 DEF TypeOK
<1>14. ASSUME NEW c \in 1..m
       PROVE  pos[c] \in Nat /\ size[c] \in Nat /\ pos[c] + size[c] <= e
  BY <1>3, <1>4, CountFacts
<1>15. InOrder'
  <2>1. ASSUME NEW c \in 1..(m + 1) PROVE size'[c] \in 1..PVRSRV_MAX_CMD_SIZE
    <3>1. CASE c = m + 1
      BY <1>5, <1>7, <3>1, RingAssumption
    <3>2. CASE c \in 1..m
      BY <1>4, <1>7, <3>2 DEF RInv, InOrder
    <3> QED BY <3>1, <3>2
  <2>2. ASSUME NEW c \in 1..(m + 1), NEW d \in 1..(m + 1), c < d
        PROVE  /\ d = c + 1 => pos'[d] = pos'[c] + size'[c]
               /\ pos'[c] + size'[c] <= pos'[d]
    <3>1. c \in 1..m /\ pos'[c] = pos[c] /\ size'[c] = size[c]
      BY <1>7, <1>8, <2>2
    <3>2. CASE d = m + 1
      <4>1. c = m => e = pos[c] + size[c]
        BY <1>3, <1>4, <3>1 DEF End
      <4> QED BY <1>8, <1>14, <3>1, <3>2, <4>1
    <3>3. CASE d \in 1..m
      <4>1. pos'[d] = pos[d]
        BY <1>8, <3>3
      <4> QED BY <1>4, <2>2, <3>1, <3>3, <4>1 DEF RInv, InOrder
    <3> QED BY <3>2, <3>3
  <2> QED BY <1>4, <2>1, <2>2 DEF InOrder
<1>16. OffsetsExact'
  <2>1. ui32ReadOffset' = s % q
    BY <1>2, <1>3, <1>6 DEF RInv, OffsetsExact, Wrap
  <2>2. (e + n) - s \in 0..(q - 1)
    BY <1>3, <1>5
  <2>3. ui32ReadOffset' = Start' % q /\ ui32WriteOffset' = End' % q /\ End' - Start' \in 0..(q - 1)
    BY <1>9, <1>10, <2>1, <2>2
  <2> QED BY <1>2, <2>3 DEF OffsetsExact, Wrap
<1>17. CommandsIntact'
  <2>1. SUFFICES ASSUME NEW c \in Live', NEW a \in Bytes(pos'[c] % q, size'[c])
                 PROVE  owner'[a] = c
    BY <1>2 DEF CommandsIntact, Wrap
  <2>2. c \in 1..(m + 1) /\ (c # m + 1 => c \in Live)
    BY <1>4, <1>6 DEF Live
  <2>3. CASE c = m + 1
    BY <1>7, <1>8, <1>11, <1>12, <2>1, <2>3
  <2>4. CASE c # m + 1
    <3>1. c \in 1..m /\ c \in Live /\ pos'[c] = pos[c] /\ size'[c] = size[c]
      BY <1>7, <1>8, <2>2, <2>4
    <3>2. a \in Bytes(pos[c] % q, size[c]) /\ owner[a] = c
      BY <1>2, <2>1, <3>1 DEF RInv, CommandsIntact, Wrap
    <3>3. pos[c] \in Nat /\ size[c] \in Nat /\ pos[c] + size[c] <= e /\ s <= pos[c]
      BY <1>3, <1>14, <3>1, CountFacts
    <3>4. PICK x \in Int, y \in 0..(q - 1), z \in Nat : x = pos[c] /\ y = x % q /\ z = size[c]
      <4>1. pos[c] \in Int
        BY <3>3
      <4>2. (pos[c] % q) \in 0..(q - 1)
        BY <4>1, Remainder
      <4> QED BY <3>3, <4>1, <4>2
    <3>5. PICK i \in Int : a = y + i /\ 0 <= i /\ i < z /\ a \in 0..(q + PVRSRV_MAX_CMD_SIZE - 1)
      <4>1. a \in y..(y + z - 1)
        BY <3>2, <3>4 DEF Bytes
      <4>2. z <= PVRSRV_MAX_CMD_SIZE
        BY <1>4, <3>1, <3>4 DEF RInv, InOrder
      <4>3. a - y \in Int /\ a = y + (a - y) /\ 0 <= a - y /\ a - y < z
        BY <4>1
      <4>4. a \in 0..(q + PVRSRV_MAX_CMD_SIZE - 1)
        BY <4>1, <4>2, RingAssumption
      <4> QED BY <4>3, <4>4
    <3>6. a \notin Bytes(w, n)
      <4>1. SUFFICES ASSUME a \in w..(w + n - 1) PROVE FALSE
        BY DEF Bytes
      <4>2. PICK j \in Int : a = w + j /\ 0 <= j /\ j < n
        <5>1. a - w \in Int /\ a = w + (a - w) /\ 0 <= a - w /\ a - w < n
          BY <4>1
        <5> QED BY <5>1
      <4>3. x + i < e + j
        BY <3>3, <3>4, <3>5, <4>2
      <4>4. e + j < x + i + q
        BY <1>5, <3>3, <3>4, <3>5, <4>2
      <4>5. (x % q) + i = (e % q) + j
        BY <1>11, <3>4, <3>5, <4>2
      <4>6. e \in Int
        OBVIOUS
      <4> QED BY <4>3, <4>4, <4>5, <4>6, Apart
    <3> QED BY <1>12, <3>2, <3>5, <3>6
  <2> QED BY <2>3, <2>4
<1> QED BY <1>13, <1>15, <1>16, <1>17 DEF RInv

\* PVRSRVProcessQueues finds a command exactly when the offsets differ, and at
\* the read offset it finds the oldest one.
LEMMA OldestIsNext ==
  ASSUME RInv
  PROVE  /\ ui32ReadOffset = ui32WriteOffset => processed = inserted
         /\ processed # inserted =>
              /\ processed + 1 \in 1..inserted
              /\ Start = pos[processed + 1]
              /\ owner[ui32ReadOffset] = processed + 1
         /\ processed = inserted => ui32ReadOffset = ui32WriteOffset
<1>1. PICK q \in Nat \ {0} : q = ui32QueueSize
  BY DEF RInv, TypeOK
<1>2. PICK e \in Nat, s \in Nat : e = End /\ s = Start /\ s <= e /\ e - s < q
  BY <1>1, CountFacts
<1>3. e \in Int /\ s \in Int
  OBVIOUS
<1>4. ui32ReadOffset = s % q /\ ui32WriteOffset = e % q
  BY <1>1, <1>2 DEF RInv, OffsetsExact, Wrap
<1>5. inserted \in Nat /\ processed \in Nat /\ processed <= inserted
  BY RingAssumption DEF RInv, TypeOK
<1>6. ASSUME processed # inserted
      PROVE  /\ processed + 1 \in 1..inserted /\ Start = pos[processed + 1]
             /\ owner[ui32ReadOffset] = processed + 1 /\ s < e
  <2>1. PICK c \in 1..inserted : c = processed + 1 /\ c \in Live
    BY <1>5, <1>6 DEF Live
  <2>2. Start = pos[c]
    BY <1>6, <2>1 DEF Start
  <2>3. size[c] \in Nat /\ size[c] >= 1 /\ pos[c] + size[c] <= e /\ pos[c] \in Nat
    <3>1. size[c] \in 1..PVRSRV_MAX_CMD_SIZE
      BY DEF RInv, InOrder
    <3>2. size[c] \in Nat /\ pos[c] + size[c] <= e /\ pos[c] \in Nat
      BY <1>2, CountFacts
    <3> QED BY <3>1, <3>2
  <2>4. PICK r \in 0..(q - 1) : r = s % q
    BY <1>3, Remainder
  <2>5. r \in Bytes(r, size[c])
    BY <2>3 DEF Bytes
  <2>6. owner[r] = c
    BY <1>1, <1>2, <2>1, <2>2, <2>4, <2>5 DEF RInv, CommandsIntact, Wrap
  <2> QED BY <1>2, <1>4, <2>1, <2>2, <2>3, <2>4, <2>6
<1>7. ASSUME processed # inserted, ui32ReadOffset = ui32WriteOffset PROVE FALSE
  <2>1. s + 0 < e + 0 /\ e + 0 < s + 0 + q
    BY <1>2, <1>6, <1>7
  <2>2. (s % q) + 0 = (e % q) + 0
    BY <1>4, <1>7
  <2>3. 0 \in Int
    OBVIOUS
  <2> QED BY <1>3, <2>1, <2>2, <2>3, Apart
<1>8. processed = inserted => ui32ReadOffset = ui32WriteOffset
  BY <1>2, <1>4 DEF Start
<1> QED BY <1>6, <1>7, <1>8

\* PVRSRVProcessQueues takes the oldest command, and only that.
LEMMA ProcessKeeps ==
  ASSUME RInv, ProcessCommand
  PROVE  RInv'
<1>1. PICK q \in Nat \ {0} : q = ui32QueueSize /\ q = ui32QueueSize'
  BY DEF RInv, TypeOK, ProcessCommand
<1>2. PICK e \in Nat, s \in Nat : e = End /\ s = Start /\ s <= e /\ e - s < q
  BY <1>1, CountFacts
<1>3. PICK c \in 1..inserted : /\ c = processed + 1 /\ processed # inserted
                               /\ s = pos[c] /\ owner[ui32ReadOffset] = c
  BY <1>2, OldestIsNext DEF ProcessCommand
<1>4. /\ processed' = c /\ inserted' = inserted /\ size' = size /\ pos' = pos
      /\ owner' = owner /\ ui32WriteOffset' = ui32WriteOffset /\ requested' = requested
  BY <1>3 DEF ProcessCommand
<1>5. inserted \in Nat /\ inserted <= MaxCmds /\ MaxCmds \in Nat /\ processed \in Nat
  BY RingAssumption DEF RInv, TypeOK
<1>6. PICK n \in Nat : n = size[c] /\ n > 0 /\ s + n <= e
  <2>1. size[c] \in 1..PVRSRV_MAX_CMD_SIZE
    BY DEF RInv, InOrder
  <2>2. size[c] \in Nat /\ pos[c] + size[c] <= e
    BY <1>2, CountFacts
  <2> QED BY <1>3, <2>1, <2>2
<1>7. End' = e
  BY <1>2, <1>4 DEF End
<1>8. Start' = s + n
  <2>1. CASE c = inserted
    <3>1. Start' = End'
      BY <1>4, <2>1 DEF Start
    <3>2. inserted # 0
      BY <1>5
    <3>3. End = pos[c] + size[c]
      BY <2>1, <3>2 DEF End
    <3> QED BY <1>2, <1>3, <1>6, <1>7, <3>1, <3>3
  <2>2. CASE c # inserted
    <3>1. c + 1 \in 1..inserted
      BY <1>5, <2>2
    <3>2. pos[c + 1] = pos[c] + size[c]
      BY <3>1 DEF RInv, InOrder
    <3>3. Start' = pos[c + 1]
      BY <1>4, <2>2 DEF Start
    <3> QED BY <1>3, <1>6, <3>2, <3>3
  <2> QED BY <2>1, <2>2
<1>9. ui32ReadOffset' = (s + n) % q
  <2>1. ui32ReadOffset = s % q
    BY <1>1, <1>2 DEF RInv, OffsetsExact, Wrap
  <2>2. ui32ReadOffset' = ((s % q) + n) % q
    BY <1>1, <1>3, <1>6, <2>1 DEF ProcessCommand, Wrap
  <2>3. s \in Int /\ n \in Int
    OBVIOUS
  <2> QED BY <2>2, <2>3, RemainderOfSum
<1>10. TypeOK'
  <2>1. s + n \in Int
    OBVIOUS
  <2>2. ui32ReadOffset' \in 0..(q - 1)
    BY <1>9, <2>1, Remainder
  <2>3. processed' \in 0..inserted'
    BY <1>4, <1>5
  <2> QED BY <1>1, <1>4, <2>2, <2>3 DEF RInv, TypeOK
<1>11. InOrder'
  BY <1>4 DEF RInv, InOrder
<1>12. OffsetsExact'
  <2>1. ui32WriteOffset' = e % q
    BY <1>1, <1>2, <1>4 DEF RInv, OffsetsExact, Wrap
  <2>2. e - (s + n) \in 0..(q - 1)
    BY <1>2, <1>6
  <2>3. ui32ReadOffset' = Start' % q /\ ui32WriteOffset' = End' % q /\ End' - Start' \in 0..(q - 1)
    BY <1>7, <1>8, <1>9, <2>1, <2>2
  <2> QED BY <1>1, <2>3 DEF OffsetsExact, Wrap
<1>13. CommandsIntact'
  <2>1. Live' \subseteq Live
    BY <1>3, <1>4, <1>5 DEF Live
  <2> QED BY <1>1, <1>4, <2>1 DEF RInv, CommandsIntact, Wrap
<1> QED BY <1>10, <1>11, <1>12, <1>13 DEF RInv

\* PVRSRVCreateCommandQueueKM rounds the size up to the next power of two.
LEMMA NearestPower2Is ==
  ASSUME NEW v \in Nat \ {0}
  PROVE  /\ NearestPower2(v) \in Nat \ {0}
         /\ \E k \in 0..v : NearestPower2(v) = 2^k
         /\ NearestPower2(v) >= v /\ NearestPower2(v) < 2 * v
<1>1. PICK n \in Nat : n = v - 1
  OBVIOUS
<1>2. NearestPower2(v) = Doubled[n]
  BY <1>1 DEF NearestPower2
<1>3. PICK k \in 0..n : Doubled[n] = 2^k
  BY DoubledIs
<1>4. k \in 0..v
  BY <1>1
<1>5. /\ Doubled[n] \in Nat /\ Doubled[n] > n
      /\ n = 0 => Doubled[n] = 1
      /\ n > 0 => Doubled[n] <= 2 * n
  BY DoubledIs
<1>6. Doubled[n] >= v /\ Doubled[n] < 2 * v /\ Doubled[n] # 0
  BY <1>1, <1>5
<1> QED BY <1>2, <1>3, <1>4, <1>5, <1>6

\* An empty queue satisfies the invariant.
LEMMA InitKeeps == ASSUME Init PROVE RInv
<1>1. PICK q \in Nat \ {0} : q = ui32QueueSize
  <2>1. requested \in Nat \ {0}
    BY RingAssumption DEF Init
  <2> QED BY <2>1, NearestPower2Is DEF Init
<1>2. TypeOK
  BY <1>1, RingAssumption DEF Init, TypeOK, Cmds
<1>3. End = 0 /\ Start = 0
  BY DEF Init, End, Start
<1>4. 0 % q = 0
  <2>1. 0 \in Int /\ 0 \in 0..(q - 1) /\ 0 = q * 0 + 0
    OBVIOUS
  <2> QED BY <2>1, RemainderUnique
<1>5. OffsetsExact
  BY <1>1, <1>3, <1>4 DEF Init, OffsetsExact, Wrap
<1>6. InOrder /\ CommandsIntact
  BY DEF Init, InOrder, CommandsIntact, Live
<1> QED BY <1>2, <1>5, <1>6 DEF RInv

\* Every step keeps the invariant.
LEMMA NextKeeps == RInv /\ [Next]_ringVars => RInv'
<1>1. ASSUME RInv, UNCHANGED ringVars PROVE RInv'
  BY <1>1 DEF RInv, TypeOK, InOrder, OffsetsExact, CommandsIntact, Wrap, Start, End, Live,
              ringVars
<1> QED BY <1>1, InsertKeeps, ProcessKeeps DEF Next

\* No command that waits in the ring is overwritten, in spite of commands that run
\* on behind the end of the ring, and PVRSRVProcessQueues takes them in their
\* order and all of them, for queues and commands of every size.
THEOREM KeepsCommands == Spec => []RingIntact
<1>1. Init => RInv
  BY InitKeeps
<1>2. RInv /\ [Next]_ringVars => RInv'
  BY NextKeeps
<1>3. RInv => RingIntact
  <2>1. ASSUME RInv PROVE OldestAtReadOffset
    <3>1. processed = inserted => Live = {}
      BY <2>1 DEF Live, RInv, TypeOK
    <3> QED BY <2>1, <3>1, OldestIsNext DEF OldestAtReadOffset
  <2> QED BY <2>1 DEF RInv, RingIntact
<1> QED BY <1>1, <1>2, <1>3, PTL DEF Spec

\* The size of the queue is the smallest power of two that is at least what
\* was asked for, the offsets stay below it, and no byte is written behind the
\* spare bytes that PVRSRVCreateCommandQueueKM allocates.
THEOREM KeepsRing == Spec => []RingWellFormed
<1>1. Init => RInv /\ ui32QueueSize = NearestPower2(requested)
  BY InitKeeps DEF Init
<1>2. RInv /\ ui32QueueSize = NearestPower2(requested) /\ [Next]_ringVars
        => (RInv /\ ui32QueueSize = NearestPower2(requested))'
  <2>1. [Next]_ringVars => UNCHANGED <<ui32QueueSize, requested>>
    BY DEF Next, PVRSRVInsertCommand, ProcessCommand, ringVars
  <2> QED BY <2>1, NextKeeps DEF NearestPower2
<1>3. RInv /\ ui32QueueSize = NearestPower2(requested) => RingWellFormed
  <2>1. SUFFICES ASSUME RInv, ui32QueueSize = NearestPower2(requested) PROVE RingWellFormed
    OBVIOUS
  <2>2. requested \in Nat \ {0}
    BY <2>1, RingAssumption DEF RInv, TypeOK
  <2> QED BY <2>1, <2>2, NearestPower2Is DEF RingWellFormed, RInv
<1> QED BY <1>1, <1>2, <1>3, PTL DEF Spec
=============================================================================
