------------------------- MODULE CommandQueueProofs -------------------------
(***************************************************************************)
(* CommandQueue for every number of surfaces, queues and operations: its   *)
(* types, the order of execution, and that it implements BufferAccess.     *)
(***************************************************************************)
EXTENDS CommandQueue, FiniteSetTheorems, TLAPS

Unfinished == {"queued", "gpu", "lost"}

\* What operation o adds to the pending counters of s.
OwnWrite(o, s) == IF s \in wr[o] THEN 1 ELSE 0
OwnRead(o, s) == IF s \in rd[o] THEN 1 ELSE 0

-----------------------------------------------------------------------------
(***************************************************************************)
(* The inductive invariant.                                                *)
(***************************************************************************)

\* An operation that was not issued has left no trace.
NotIssued == \A o \in Ops : o > issued => stat[o] = "none" /\ rd[o] = {} /\ wr[o] = {}

Issued == \A o \in Ops : o <= issued => stat[o] # "none"

\* A ticket is a copy of counters that have only grown since, by at least the
\* announcement of the operation itself.
TicketsBelowPending ==
  \A o \in Ops : o <= issued =>
    \A s \in Uses(o) : /\ tw[o][s] + OwnWrite(o, s) <= WriteOpsPending[s]
                       /\ tr[o][s] + OwnRead(o, s) <= ReadOpsPending[s]

\* The later of two operations on a surface has seen the earlier one announced.
TicketsOrdered ==
  \A e, o \in Ops : e < o /\ o <= issued =>
    \A s \in Uses(e) \cap Uses(o) : /\ tw[e][s] + OwnWrite(e, s) <= tw[o][s]
                                    /\ tr[e][s] + OwnRead(e, s) <= tr[o][s]

\* The complete counters do not run past the ticket of an unfinished operation.
TicketsNotPassed ==
  \A o \in Ops : stat[o] \in Unfinished =>
    \A s \in Uses(o) : /\ WriteOpsComplete[s] <= tw[o][s]
                       /\ ReadOpsComplete[s] <= tr[o][s]

CountersClose ==
  \A s \in Syncs : /\ WriteOpsComplete[s] <= WriteOpsPending[s]
                   /\ ReadOpsComplete[s] <= ReadOpsPending[s]
                   /\ WriteOpsPending[s] - WriteOpsComplete[s] <= MaxOutstanding
                   /\ ReadOpsPending[s] - ReadOpsComplete[s] <= MaxOutstanding

PendingBounded ==
  \A s \in Syncs : WriteOpsPending[s] <= issued /\ ReadOpsPending[s] <= issued

\* InIssueOrder, with the quantifiers over the whole set of operations.
OrderKept ==
  \A e, o \in Ops :
    e < o /\ o <= issued /\ Uses(e) \cap Uses(o) # {} /\ stat[o] = "done" => stat[e] = "done"

TicketInv ==
  /\ NotIssued
  /\ Issued
  /\ TicketsBelowPending
  /\ TicketsOrdered
  /\ TicketsNotPassed
  /\ CountersClose
  /\ PendingBounded
  /\ OrderKept

\* A queue holds unprocessed flips, each of them once.
QueuesHoldFlips ==
  /\ \A q \in Queues : \A i \in 1..Len(queue[q]) : stat[queue[q][i]] = "queued"
  /\ \A q, p \in Queues : \A i \in 1..Len(queue[q]) : \A j \in 1..Len(queue[p]) :
       queue[q][i] = queue[p][j] => q = p /\ i = j

\* ... until a recovery blocks behind the completion of one that it does not
\* take out any more; then pvr_lock is taken for good.
QueueInv ==
  /\ blocked => walk # 0
  /\ ~blocked => QueuesHoldFlips

IInv == TypeOK /\ TicketInv /\ QueueInv

\* TypeOK in two parts: the counters and operations, and the host's state.
OpTypes ==
  /\ WriteOpsPending \in [Syncs -> Nat]
  /\ ReadOpsPending \in [Syncs -> Nat]
  /\ WriteOpsComplete \in [Syncs -> Nat]
  /\ ReadOpsComplete \in [Syncs -> Nat]
  /\ issued \in 0..MaxOps
  /\ stat \in [Ops -> {"none", "queued", "gpu", "lost", "done"}]
  /\ rd \in [Ops -> SUBSET Syncs]
  /\ wr \in [Ops -> SUBSET Syncs]
  /\ tw \in [Ops -> [Syncs -> Nat]]
  /\ tr \in [Ops -> [Syncs -> Nat]]
  /\ clip \in [Ops -> BOOLEAN]

HostTypes ==
  /\ queue \in [Queues -> Seq(Ops)]
  /\ psLastFlipBuffer \in [Queues -> Syncs \cup {None}]
  /\ walk \in 0..NQueues
  /\ bFlush \in BOOLEAN
  /\ devLocked \in BOOLEAN
  /\ blocked \in BOOLEAN
  /\ pvr_disabled \in BOOLEAN
  /\ bFlush => Recovery # {}
  /\ misr \in BOOLEAN
  /\ gpuKick \in BOOLEAN

\* It is the turn of o: the complete counters are exactly its ticket.
Turn(o) ==
  \A s \in Uses(o) : WriteOpsComplete[s] = tw[o][s] /\ ReadOpsComplete[s] = tr[o][s]

-----------------------------------------------------------------------------
(***************************************************************************)
(* Arithmetic of the u32 counters.                                         *)
(***************************************************************************)

\* A counter that has not come round is seen as it is.
LEMMA ModSmall ==
  ASSUME NEW m \in Nat \ {0}, NEW x \in Nat, x < m
  PROVE  x % m = x
OBVIOUS

\* Two counters less than one round apart are equal when they look equal.
LEMMA ModEqual ==
  ASSUME NEW m \in Nat \ {0}, NEW a \in Nat, NEW b \in Nat,
         a <= b, b - a < m, a % m = b % m
  PROVE  a = b
<1> DEFINE p == a \div m
           q == b \div m
<1>1. p \in Int /\ q \in Int /\ a = m * p + (a % m) /\ b = m * q + (b % m)
  OBVIOUS
<1>2. b - a = m * (q - p)
  BY <1>1
<1> HIDE DEF p, q
<1>3. q - p < 1
  <2>1. \A k \in Int : k >= 1 => m * k >= m
    OBVIOUS
  <2>2. q - p >= 1 => m * (q - p) >= m
    BY <1>1, <2>1
  <2> QED BY <1>1, <1>2, <2>2
<1>4. q - p > -1
  <2>1. \A k \in Int : k <= -1 => m * k <= -m
    OBVIOUS
  <2>2. q - p <= -1 => m * (q - p) <= -m
    BY <1>1, <2>1
  <2> QED BY <1>1, <1>2, <2>2
<1>5. p = q
  BY <1>1, <1>3, <1>4
<1> QED BY <1>1, <1>5

\* Inc adds one at the members of S and nothing elsewhere.
LEMMA IncValues ==
  ASSUME NEW f \in [Syncs -> Nat], NEW S
  PROVE  /\ Inc(f, S) \in [Syncs -> Nat]
         /\ \A s \in Syncs : Inc(f, S)[s] = f[s] + (IF s \in S THEN 1 ELSE 0)
BY DEF Inc

LEMMA NatConstants ==
  /\ NQueues \in Nat /\ MaxOps \in Nat /\ MaxOutstanding \in Nat
  /\ CounterMod \in Nat \ {0} /\ MaxOutstanding < CounterMod
BY ConstantsAssumption, CounterAssumption

LEMMA SplitTypes == TypeOK <=> OpTypes /\ HostTypes
BY DEF TypeOK, OpTypes, HostTypes

-----------------------------------------------------------------------------
(***************************************************************************)
(* Issuing an operation.                                                   *)
(***************************************************************************)

\* What TakeTicket does to the tickets keeps the invariant.
LEMMA IssueStep ==
  ASSUME OpTypes, TicketInv,
         NEW R \in SUBSET Syncs, NEW W \in SUBSET Syncs,
         NEW where \in Unfinished, NEW c \in BOOLEAN,
         TakeTicket(R, W, where, c)
  PROVE  OpTypes' /\ TicketInv'
<1>0. MaxOps \in Nat /\ MaxOutstanding \in Nat
  BY NatConstants
<1>n. PICK n \in Nat : n = issued + 1
  BY DEF OpTypes
<1>1. /\ n \in Ops /\ issued \in Nat /\ issued' = n
      /\ stat' = [stat EXCEPT ![n] = where]
      /\ rd' = [rd EXCEPT ![n] = R]
      /\ wr' = [wr EXCEPT ![n] = W]
      /\ tw' = [tw EXCEPT ![n] = WriteOpsPending]
      /\ tr' = [tr EXCEPT ![n] = ReadOpsPending]
      /\ clip' = [clip EXCEPT ![n] = c]
      /\ WriteOpsPending' = Inc(WriteOpsPending, W)
      /\ ReadOpsPending' = Inc(ReadOpsPending, R)
      /\ WriteOpsComplete' = WriteOpsComplete
      /\ ReadOpsComplete' = ReadOpsComplete
  BY <1>0, <1>n DEF TakeTicket, OpTypes, Ops
<1>2. /\ WriteOpsPending' \in [Syncs -> Nat]
      /\ ReadOpsPending' \in [Syncs -> Nat]
      /\ \A s \in Syncs : /\ WriteOpsPending'[s] = WriteOpsPending[s] + (IF s \in W THEN 1 ELSE 0)
                          /\ ReadOpsPending'[s] = ReadOpsPending[s] + (IF s \in R THEN 1 ELSE 0)
  <2>1. WriteOpsPending \in [Syncs -> Nat] /\ ReadOpsPending \in [Syncs -> Nat]
    BY DEF OpTypes
  <2>2. /\ Inc(WriteOpsPending, W) \in [Syncs -> Nat]
        /\ \A s \in Syncs :
             Inc(WriteOpsPending, W)[s] = WriteOpsPending[s] + (IF s \in W THEN 1 ELSE 0)
    BY <2>1, IncValues
  <2>3. /\ Inc(ReadOpsPending, R) \in [Syncs -> Nat]
        /\ \A s \in Syncs :
             Inc(ReadOpsPending, R)[s] = ReadOpsPending[s] + (IF s \in R THEN 1 ELSE 0)
    BY <2>1, IncValues
  <2> QED BY <1>1, <2>2, <2>3
<1>3. OpTypes'
  BY <1>0, <1>1, <1>2 DEF OpTypes, Ops, Unfinished
<1>4. \A o \in Ops : o <= issued =>
        /\ o # n /\ Uses(o)' = Uses(o) /\ stat'[o] = stat[o]
        /\ tw'[o] = tw[o] /\ tr'[o] = tr[o] /\ rd'[o] = rd[o] /\ wr'[o] = wr[o]
  BY <1>0, <1>n, <1>1 DEF OpTypes, Uses, Ops
<1>5. /\ Uses(n)' = R \cup W /\ rd'[n] = R /\ wr'[n] = W
      /\ tw'[n] = WriteOpsPending /\ tr'[n] = ReadOpsPending /\ stat'[n] = where
  <2>1. /\ rd'[n] = R /\ wr'[n] = W /\ stat'[n] = where
        /\ tw'[n] = WriteOpsPending /\ tr'[n] = ReadOpsPending
    BY <1>1 DEF OpTypes
  <2> QED BY <2>1 DEF Uses
<1>6. \A o \in Ops : o <= issued' => o <= issued \/ o = n
  BY <1>0, <1>n, <1>1 DEF Ops
<1>7. \A o \in Ops : Uses(o) \subseteq Syncs
  BY DEF OpTypes, Uses
<1>8. NotIssued' /\ Issued'
  BY <1>1, <1>4, <1>5, <1>6 DEF NotIssued, Issued, TicketInv, OpTypes, Ops, Unfinished
<1>9. TicketsBelowPending'
  <2> SUFFICES ASSUME NEW o \in Ops, o <= issued', NEW s \in Uses(o)'
               PROVE  /\ tw'[o][s] + OwnWrite(o, s)' <= WriteOpsPending'[s]
                      /\ tr'[o][s] + OwnRead(o, s)' <= ReadOpsPending'[s]
    BY DEF TicketsBelowPending
  <2>1. CASE o <= issued
    <3>1. s \in Uses(o) /\ s \in Syncs
      BY <1>4, <1>7, <2>1
    <3>2. /\ tw[o][s] + OwnWrite(o, s) <= WriteOpsPending[s]
          /\ tr[o][s] + OwnRead(o, s) <= ReadOpsPending[s]
      BY <2>1, <3>1 DEF TicketInv, TicketsBelowPending
    <3>3. /\ tw[o][s] \in Nat /\ tr[o][s] \in Nat
          /\ WriteOpsPending[s] \in Nat /\ ReadOpsPending[s] \in Nat
      BY <3>1 DEF OpTypes
    <3> QED BY <1>2, <1>4, <2>1, <3>1, <3>2, <3>3 DEF OwnWrite, OwnRead
  <2>2. CASE o = n
    <3>1. s \in Syncs
      BY <1>5, <2>2
    <3> QED BY <1>2, <1>5, <2>2, <3>1 DEF OwnWrite, OwnRead, OpTypes
  <2> QED BY <1>6, <2>1, <2>2
<1>10. TicketsOrdered'
  <2> SUFFICES ASSUME NEW e \in Ops, NEW o \in Ops, e < o, o <= issued',
                      NEW s \in (Uses(e) \cap Uses(o))'
               PROVE  /\ tw'[e][s] + OwnWrite(e, s)' <= tw'[o][s]
                      /\ tr'[e][s] + OwnRead(e, s)' <= tr'[o][s]
    BY DEF TicketsOrdered
  <2>1. e <= issued /\ s \in Uses(e)
    BY <1>0, <1>n, <1>1, <1>4 DEF Ops
  <2>2. CASE o <= issued
    BY <1>4, <2>1, <2>2 DEF TicketInv, TicketsOrdered, OwnWrite, OwnRead
  <2>3. CASE o = n
    <3>1. /\ tw[e][s] + OwnWrite(e, s) <= WriteOpsPending[s]
          /\ tr[e][s] + OwnRead(e, s) <= ReadOpsPending[s]
      BY <2>1 DEF TicketInv, TicketsBelowPending
    <3> QED BY <1>4, <1>5, <2>1, <2>3, <3>1 DEF OwnWrite, OwnRead
  <2> QED BY <1>6, <2>2, <2>3
<1>11. TicketsNotPassed'
  <2> SUFFICES ASSUME NEW o \in Ops, stat'[o] \in Unfinished, NEW s \in Uses(o)'
               PROVE  WriteOpsComplete'[s] <= tw'[o][s] /\ ReadOpsComplete'[s] <= tr'[o][s]
    BY DEF TicketsNotPassed
  <2>1. o <= issued'
    BY <1>3, <1>8 DEF NotIssued, Unfinished, OpTypes, Ops
  <2>2. CASE o <= issued
    BY <1>1, <1>4, <2>2 DEF TicketInv, TicketsNotPassed
  <2>3. CASE o = n
    <3>1. s \in Syncs
      BY <1>5, <2>3
    <3> QED BY <1>1, <1>5, <2>3, <3>1 DEF TicketInv, CountersClose
  <2> QED BY <1>6, <2>1, <2>2, <2>3
<1>12. CountersClose'
  <2> SUFFICES ASSUME NEW s \in Syncs
               PROVE  /\ WriteOpsComplete'[s] <= WriteOpsPending'[s]
                      /\ ReadOpsComplete'[s] <= ReadOpsPending'[s]
                      /\ WriteOpsPending'[s] - WriteOpsComplete'[s] <= MaxOutstanding
                      /\ ReadOpsPending'[s] - ReadOpsComplete'[s] <= MaxOutstanding
    BY DEF CountersClose
  <2>1. /\ WriteOpsPending[s] \in Nat /\ ReadOpsPending[s] \in Nat
        /\ WriteOpsComplete[s] \in Nat /\ ReadOpsComplete[s] \in Nat
    BY DEF OpTypes
  <2>2. /\ WriteOpsComplete[s] <= WriteOpsPending[s]
        /\ ReadOpsComplete[s] <= ReadOpsPending[s]
        /\ WriteOpsPending[s] - WriteOpsComplete[s] <= MaxOutstanding
        /\ ReadOpsPending[s] - ReadOpsComplete[s] <= MaxOutstanding
    BY DEF TicketInv, CountersClose
  <2>3. s \in R \cup W =>
          (WriteOpsPending'[s] - WriteOpsComplete'[s]) + (ReadOpsPending'[s] - ReadOpsComplete'[s])
            <= MaxOutstanding
    BY DEF TakeTicket, Outstanding
  <2>4. CASE s \in R \cup W
    BY <1>1, <1>2, <2>1, <2>2, <2>3, <2>4, <1>0
  <2>5. CASE s \notin R \cup W
    BY <1>1, <1>2, <2>1, <2>2, <2>5, <1>0
  <2> QED BY <2>4, <2>5
<1>13. PendingBounded'
  <2>1. \A s \in Syncs : /\ WriteOpsPending[s] \in Nat /\ ReadOpsPending[s] \in Nat
                         /\ WriteOpsPending[s] <= issued /\ ReadOpsPending[s] <= issued
    BY DEF OpTypes, TicketInv, PendingBounded
  <2> QED BY <1>n, <1>1, <1>2, <2>1 DEF PendingBounded
<1>14. OrderKept'
  <2> SUFFICES ASSUME NEW e \in Ops, NEW o \in Ops, e < o, o <= issued',
                      (Uses(e) \cap Uses(o))' # {}, stat'[o] = "done"
               PROVE  stat'[e] = "done"
    BY DEF OrderKept
  <2>1. o <= issued /\ e <= issued
    BY <1>5, <1>6 DEF Unfinished, OpTypes, Ops
  <2> QED BY <1>4, <2>1 DEF TicketInv, OrderKept
<1> QED BY <1>3, <1>8, <1>9, <1>10, <1>11, <1>12, <1>13, <1>14 DEF TicketInv

-----------------------------------------------------------------------------
(***************************************************************************)
(* Carrying out an operation.                                              *)
(***************************************************************************)

\* Only an issued operation is unfinished, and it uses surfaces only.
LEMMA UnfinishedIsIssued ==
  ASSUME OpTypes, TicketInv, NEW o \in Ops, stat[o] \in Unfinished
  PROVE  o \in Nat /\ issued \in Nat /\ o <= issued /\ Uses(o) \subseteq Syncs
<1>1. o \in Nat /\ issued \in Nat
  BY NatConstants DEF OpTypes, Ops
<1>2. o <= issued
  BY <1>1 DEF TicketInv, NotIssued, Unfinished
<1>3. Uses(o) \subseteq Syncs
  BY DEF OpTypes, Uses
<1> QED BY <1>1, <1>2, <1>3

\* The checks of the code, on u32 counters and with the exception for a flush,
\* find out exactly whether it is the turn of an unfinished operation.
LEMMA DependenciesMetMeansTurn ==
  ASSUME TypeOK, TicketInv, NEW o \in Ops, stat[o] \in Unfinished,
         DependenciesMet(o)
  PROVE  Turn(o)
<1> SUFFICES ASSUME NEW s \in Uses(o)
             PROVE  WriteOpsComplete[s] = tw[o][s] /\ ReadOpsComplete[s] = tr[o][s]
  BY DEF Turn
<1>1. s \in Syncs /\ o <= issued
  BY SplitTypes, UnfinishedIsIssued
<1>2. /\ WriteOpsComplete[s] \in Nat /\ ReadOpsComplete[s] \in Nat
      /\ WriteOpsPending[s] \in Nat /\ ReadOpsPending[s] \in Nat
      /\ tw[o][s] \in Nat /\ tr[o][s] \in Nat /\ issued \in Nat /\ issued <= MaxOps
  BY <1>1, NatConstants DEF TypeOK
<1>3. /\ WriteOpsComplete[s] <= tw[o][s] /\ ReadOpsComplete[s] <= tr[o][s]
      /\ tw[o][s] <= WriteOpsPending[s] /\ tr[o][s] <= ReadOpsPending[s]
      /\ WriteOpsPending[s] - WriteOpsComplete[s] <= MaxOutstanding
      /\ ReadOpsPending[s] - ReadOpsComplete[s] <= MaxOutstanding
      /\ WriteOpsPending[s] <= issued /\ ReadOpsPending[s] <= issued
  <2>1. WriteOpsComplete[s] <= tw[o][s] /\ ReadOpsComplete[s] <= tr[o][s]
    BY DEF TicketInv, TicketsNotPassed
  <2>2. /\ tw[o][s] + OwnWrite(o, s) <= WriteOpsPending[s]
        /\ tr[o][s] + OwnRead(o, s) <= ReadOpsPending[s]
    BY <1>1 DEF TicketInv, TicketsBelowPending
  <2>3. OwnWrite(o, s) \in Nat /\ OwnRead(o, s) \in Nat
    BY DEF OwnWrite, OwnRead
  <2>4. tw[o][s] <= WriteOpsPending[s] /\ tr[o][s] <= ReadOpsPending[s]
    BY <1>2, <2>2, <2>3
  <2> QED BY <1>1, <2>1, <2>4 DEF TicketInv, CountersClose, PendingBounded
<1>4. CASE SyncReady(o, s)
  <2>1. /\ WriteOpsComplete[s] % CounterMod = tw[o][s] % CounterMod
        /\ ReadOpsComplete[s] % CounterMod = tr[o][s] % CounterMod
    BY <1>4 DEF SyncReady, u32
  <2>2. tw[o][s] - WriteOpsComplete[s] < CounterMod /\ tr[o][s] - ReadOpsComplete[s] < CounterMod
    BY <1>2, <1>3, NatConstants
  <2>3. WriteOpsComplete[s] = tw[o][s]
    BY <1>2, <1>3, <2>1, <2>2, NatConstants, ModEqual
  <2>4. ReadOpsComplete[s] = tr[o][s]
    BY <1>2, <1>3, <2>1, <2>2, NatConstants, ModEqual
  <2> QED BY <2>3, <2>4
<1>5. CASE bFlush /\ SYNCOPS_STALE(o, s)
  <2>1. MaxOps < CounterMod
    BY <1>5, StaleAssumption DEF TypeOK
  <2>2. /\ WriteOpsComplete[s] < CounterMod /\ ReadOpsComplete[s] < CounterMod
        /\ tw[o][s] < CounterMod /\ tr[o][s] < CounterMod
    BY <1>2, <1>3, <2>1, NatConstants
  <2>3. /\ u32(WriteOpsComplete[s]) = WriteOpsComplete[s] /\ u32(tw[o][s]) = tw[o][s]
        /\ u32(ReadOpsComplete[s]) = ReadOpsComplete[s] /\ u32(tr[o][s]) = tr[o][s]
    BY <1>2, <2>2, NatConstants, ModSmall DEF u32
  <2>4. WriteOpsComplete[s] >= tw[o][s] /\ ReadOpsComplete[s] >= tr[o][s]
    BY <1>5, <2>3 DEF SYNCOPS_STALE
  <2> QED BY <1>2, <1>3, <2>4
<1> QED BY <1>4, <1>5 DEF DependenciesMet

\* When it is the turn of an operation, every earlier one on its surfaces is
\* over.
LEMMA TurnMeansEarlierDone ==
  ASSUME OpTypes, TicketInv, NEW o \in Ops, stat[o] \in Unfinished, Turn(o),
         NEW e \in Ops, e < o, Uses(e) \cap Uses(o) # {}
  PROVE  stat[e] = "done"
<1>1. PICK s \in Uses(e) \cap Uses(o) : TRUE
  OBVIOUS
<1>2. s \in Syncs /\ o <= issued /\ e <= issued /\ issued \in Nat
  <2>1. s \in Syncs /\ o <= issued /\ issued \in Nat /\ o \in Nat /\ e \in Int
    BY <1>1, NatConstants, UnfinishedIsIssued DEF Ops
  <2> QED BY <2>1
<1>3. /\ WriteOpsComplete[s] \in Nat /\ ReadOpsComplete[s] \in Nat
      /\ tw[e][s] \in Nat /\ tr[e][s] \in Nat /\ tw[o][s] \in Nat /\ tr[o][s] \in Nat
  BY <1>2 DEF OpTypes
<1>4. /\ tw[e][s] + OwnWrite(e, s) <= WriteOpsComplete[s]
      /\ tr[e][s] + OwnRead(e, s) <= ReadOpsComplete[s]
  BY <1>1, <1>2 DEF TicketInv, TicketsOrdered, Turn
<1>5. OwnWrite(e, s) = 1 \/ OwnRead(e, s) = 1
  BY <1>1 DEF OwnWrite, OwnRead, Uses
<1>6. OwnWrite(e, s) \in Nat /\ OwnRead(e, s) \in Nat
  BY DEF OwnWrite, OwnRead
<1>7. ~(WriteOpsComplete[s] <= tw[e][s] /\ ReadOpsComplete[s] <= tr[e][s])
  BY <1>3, <1>4, <1>5, <1>6
<1>8. stat[e] \notin Unfinished
  BY <1>1, <1>7 DEF TicketInv, TicketsNotPassed
<1>9. stat[e] # "none"
  BY <1>2 DEF TicketInv, Issued
<1> QED BY <1>8, <1>9 DEF OpTypes, Unfinished

\* Carrying out an operation in its turn keeps the invariant.
LEMMA CompleteStep ==
  ASSUME OpTypes, TicketInv, NEW p \in Ops, stat[p] \in Unfinished, Turn(p),
         Complete(p)
  PROVE  OpTypes' /\ TicketInv'
<1>1. /\ WriteOpsComplete' = Inc(WriteOpsComplete, wr[p])
      /\ ReadOpsComplete' = Inc(ReadOpsComplete, rd[p])
      /\ stat' = [stat EXCEPT ![p] = "done"]
      /\ WriteOpsPending' = WriteOpsPending /\ ReadOpsPending' = ReadOpsPending
      /\ issued' = issued /\ rd' = rd /\ wr' = wr /\ tw' = tw /\ tr' = tr /\ clip' = clip
  BY DEF Complete
<1>2. /\ WriteOpsComplete' \in [Syncs -> Nat]
      /\ ReadOpsComplete' \in [Syncs -> Nat]
      /\ \A s \in Syncs : /\ WriteOpsComplete'[s] = WriteOpsComplete[s] + OwnWrite(p, s)
                          /\ ReadOpsComplete'[s] = ReadOpsComplete[s] + OwnRead(p, s)
  <2>1. WriteOpsComplete \in [Syncs -> Nat] /\ ReadOpsComplete \in [Syncs -> Nat]
    BY DEF OpTypes
  <2>2. /\ Inc(WriteOpsComplete, wr[p]) \in [Syncs -> Nat]
        /\ \A s \in Syncs :
             Inc(WriteOpsComplete, wr[p])[s] = WriteOpsComplete[s] + OwnWrite(p, s)
    BY <2>1, IncValues DEF OwnWrite
  <2>3. /\ Inc(ReadOpsComplete, rd[p]) \in [Syncs -> Nat]
        /\ \A s \in Syncs :
             Inc(ReadOpsComplete, rd[p])[s] = ReadOpsComplete[s] + OwnRead(p, s)
    BY <2>1, IncValues DEF OwnRead
  <2> QED BY <1>1, <2>2, <2>3
<1>3. OpTypes'
  BY <1>1, <1>2 DEF OpTypes
<1>4. \A o \in Ops : /\ Uses(o)' = Uses(o)
                     /\ stat'[o] = IF o = p THEN "done" ELSE stat[o]
  BY <1>1 DEF Uses, OpTypes
<1>5. p <= issued /\ issued \in Nat /\ p \in Nat
  BY UnfinishedIsIssued
<1>6. NotIssued' /\ Issued'
  BY <1>1, <1>4, <1>5 DEF TicketInv, NotIssued, Issued
<1>7. TicketsBelowPending' /\ TicketsOrdered' /\ PendingBounded'
  BY <1>1, <1>4 DEF TicketInv, TicketsBelowPending, TicketsOrdered, PendingBounded, OwnWrite, OwnRead
<1>8. TicketsNotPassed'
  <2> SUFFICES ASSUME NEW o \in Ops, stat'[o] \in Unfinished, NEW s \in Uses(o)
               PROVE  WriteOpsComplete'[s] <= tw[o][s] /\ ReadOpsComplete'[s] <= tr[o][s]
    BY <1>1, <1>4 DEF TicketsNotPassed
  <2>1. o # p /\ stat[o] \in Unfinished
    BY <1>4 DEF Unfinished
  <2>2. s \in Syncs
    BY DEF OpTypes, Uses
  <2>3. WriteOpsComplete[s] <= tw[o][s] /\ ReadOpsComplete[s] <= tr[o][s]
    BY <2>1 DEF TicketInv, TicketsNotPassed
  <2>4. CASE s \notin Uses(p)
    <3>1. OwnWrite(p, s) = 0 /\ OwnRead(p, s) = 0
      BY <2>4 DEF OwnWrite, OwnRead, Uses
    <3>2. WriteOpsComplete[s] \in Nat /\ ReadOpsComplete[s] \in Nat
      BY <2>2 DEF OpTypes
    <3> QED BY <1>2, <2>2, <2>3, <3>1, <3>2
  <2>5. CASE s \in Uses(p)
    <3>1. ~(o < p)
      BY <2>1, <2>5, TurnMeansEarlierDone DEF Unfinished
    <3>2. p < o
      BY <2>1, <3>1, NatConstants DEF Ops
    <3>3. o <= issued
      BY <2>1, UnfinishedIsIssued
    <3>4. tw[p][s] + OwnWrite(p, s) <= tw[o][s] /\ tr[p][s] + OwnRead(p, s) <= tr[o][s]
      BY <2>5, <3>2, <3>3 DEF TicketInv, TicketsOrdered
    <3> QED BY <1>2, <2>2, <2>5, <3>4 DEF Turn
  <2> QED BY <2>4, <2>5
<1>9. CountersClose'
  <2> SUFFICES ASSUME NEW s \in Syncs
               PROVE  /\ WriteOpsComplete'[s] <= WriteOpsPending[s]
                      /\ ReadOpsComplete'[s] <= ReadOpsPending[s]
                      /\ WriteOpsPending[s] - WriteOpsComplete'[s] <= MaxOutstanding
                      /\ ReadOpsPending[s] - ReadOpsComplete'[s] <= MaxOutstanding
    BY <1>1 DEF CountersClose
  <2>1. /\ WriteOpsPending[s] \in Nat /\ ReadOpsPending[s] \in Nat
        /\ WriteOpsComplete[s] \in Nat /\ ReadOpsComplete[s] \in Nat
    BY DEF OpTypes
  <2>2. /\ WriteOpsComplete[s] <= WriteOpsPending[s]
        /\ ReadOpsComplete[s] <= ReadOpsPending[s]
        /\ WriteOpsPending[s] - WriteOpsComplete[s] <= MaxOutstanding
        /\ ReadOpsPending[s] - ReadOpsComplete[s] <= MaxOutstanding
    BY DEF TicketInv, CountersClose
  <2>3. OwnWrite(p, s) \in 0..1 /\ OwnRead(p, s) \in 0..1
    BY DEF OwnWrite, OwnRead
  <2>4. /\ WriteOpsComplete[s] + OwnWrite(p, s) <= WriteOpsPending[s]
        /\ ReadOpsComplete[s] + OwnRead(p, s) <= ReadOpsPending[s]
    <3>1. CASE s \in Uses(p)
      BY <1>5, <3>1 DEF Turn, TicketInv, TicketsBelowPending
    <3>2. CASE s \notin Uses(p)
      <4>1. OwnWrite(p, s) = 0 /\ OwnRead(p, s) = 0
        BY <3>2 DEF OwnWrite, OwnRead, Uses
      <4> QED BY <2>1, <2>2, <4>1
    <3> QED BY <3>1, <3>2
  <2> QED BY <1>2, <2>1, <2>2, <2>3, <2>4, NatConstants
<1>10. OrderKept'
  <2> SUFFICES ASSUME NEW e \in Ops, NEW o \in Ops, e < o, o <= issued,
                      Uses(e) \cap Uses(o) # {}, stat'[o] = "done"
               PROVE  stat'[e] = "done"
    BY <1>1, <1>4 DEF OrderKept
  <2>1. CASE o = p
    BY <1>4, <2>1, TurnMeansEarlierDone
  <2>2. CASE o # p
    BY <1>4, <2>2 DEF TicketInv, OrderKept
  <2> QED BY <2>1, <2>2
<1> QED BY <1>3, <1>6, <1>7, <1>8, <1>9, <1>10 DEF TicketInv

-----------------------------------------------------------------------------
(***************************************************************************)
(* The queues.                                                             *)
(***************************************************************************)

LEMMA AppendFacts ==
  ASSUME NEW c \in Seq(Ops), NEW n \in Ops
  PROVE  /\ Append(c, n) \in Seq(Ops)
         /\ Len(Append(c, n)) = Len(c) + 1
         /\ \A i \in 1..(Len(c) + 1) : Append(c, n)[i] = IF i = Len(c) + 1 THEN n ELSE c[i]
OBVIOUS

LEMMA TailFacts ==
  ASSUME NEW c \in Seq(Ops), c # <<>>
  PROVE  /\ Head(c) = c[1] /\ 1 \in 1..Len(c) /\ Head(c) \in Ops
         /\ Tail(c) \in Seq(Ops)
         /\ Len(Tail(c)) = Len(c) - 1
         /\ \A i \in 1..(Len(c) - 1) : Tail(c)[i] = c[i + 1]
OBVIOUS

\* A flip enters its queue behind the others.
LEMMA FlipKeepsQueues ==
  ASSUME IInv, ~blocked, NEW q \in Queues, NEW n \in Ops, n = issued + 1,
         stat' = [stat EXCEPT ![n] = "queued"],
         queue' = [queue EXCEPT ![q] = Append(@, n)]
  PROVE  QueuesHoldFlips' /\ queue' \in [Queues -> Seq(Ops)]
<1>1. queue \in [Queues -> Seq(Ops)] /\ stat \in [Ops -> {"none", "queued", "gpu", "lost", "done"}]
  BY DEF IInv, TypeOK
<1>2. stat[n] = "none"
  BY DEF IInv, TypeOK, TicketInv, NotIssued
<1>3. \A p \in Queues : \A i \in 1..Len(queue[p]) :
        queue[p][i] \in Ops /\ queue[p][i] # n /\ stat[queue[p][i]] = "queued"
  BY <1>1, <1>2 DEF IInv, QueueInv, QueuesHoldFlips
<1>4. /\ queue'[q] = Append(queue[q], n)
      /\ Len(queue'[q]) = Len(queue[q]) + 1
      /\ \A i \in 1..(Len(queue[q]) + 1) :
           queue'[q][i] = IF i = Len(queue[q]) + 1 THEN n ELSE queue[q][i]
  BY <1>1, AppendFacts
<1>5. \A p \in Queues : p # q => queue'[p] = queue[p]
  BY <1>1
<1>6. queue' \in [Queues -> Seq(Ops)]
  BY <1>1, AppendFacts
<1>7. \A p \in Queues : Len(queue[p]) \in Nat
  BY <1>1
<1>8. \A p \in Queues : \A i \in 1..Len(queue'[p]) : stat'[queue'[p][i]] = "queued"
  <2> SUFFICES ASSUME NEW p \in Queues, NEW i \in 1..Len(queue'[p])
               PROVE  stat'[queue'[p][i]] = "queued"
    OBVIOUS
  <2>1. CASE p = q /\ i = Len(queue[q]) + 1
    BY <1>1, <1>4, <2>1
  <2>2. CASE ~(p = q /\ i = Len(queue[q]) + 1)
    <3>1. i \in 1..Len(queue[p]) /\ queue'[p][i] = queue[p][i]
      BY <1>4, <1>5, <1>7, <2>2
    <3> QED BY <1>1, <1>3, <3>1
  <2> QED BY <2>1, <2>2
<1>9. \A p, r \in Queues : \A i \in 1..Len(queue'[p]) : \A j \in 1..Len(queue'[r]) :
        queue'[p][i] = queue'[r][j] => p = r /\ i = j
  <2> SUFFICES ASSUME NEW p \in Queues, NEW r \in Queues,
                      NEW i \in 1..Len(queue'[p]), NEW j \in 1..Len(queue'[r]),
                      queue'[p][i] = queue'[r][j]
               PROVE  p = r /\ i = j
    OBVIOUS
  <2>1. \/ p = q /\ i = Len(queue[q]) + 1 /\ queue'[p][i] = n
        \/ i \in 1..Len(queue[p]) /\ queue'[p][i] = queue[p][i]
    BY <1>4, <1>5, <1>7
  <2>2. \/ r = q /\ j = Len(queue[q]) + 1 /\ queue'[r][j] = n
        \/ j \in 1..Len(queue[r]) /\ queue'[r][j] = queue[r][j]
    BY <1>4, <1>5, <1>7
  <2> QED BY <1>3, <2>1, <2>2 DEF IInv, QueueInv, QueuesHoldFlips
<1> QED BY <1>6, <1>8, <1>9 DEF QueuesHoldFlips

\* The command at the head of a queue leaves it when it is carried out.
LEMMA ProcessKeepsQueues ==
  ASSUME IInv, ~blocked, NEW q \in Queues, queue[q] # <<>>,
         stat' = [stat EXCEPT ![Head(queue[q])] = "done"],
         queue' = [queue EXCEPT ![q] = Tail(@)]
  PROVE  QueuesHoldFlips' /\ queue' \in [Queues -> Seq(Ops)]
<1>1. queue \in [Queues -> Seq(Ops)] /\ stat \in [Ops -> {"none", "queued", "gpu", "lost", "done"}]
  BY DEF IInv, TypeOK
<1>2. /\ Head(queue[q]) = queue[q][1] /\ 1 \in 1..Len(queue[q])
      /\ queue'[q] = Tail(queue[q]) /\ Len(queue'[q]) = Len(queue[q]) - 1
      /\ \A i \in 1..(Len(queue[q]) - 1) : queue'[q][i] = queue[q][i + 1]
  BY <1>1, TailFacts
<1>3. \A p \in Queues : p # q => queue'[p] = queue[p]
  BY <1>1
<1>4. queue' \in [Queues -> Seq(Ops)]
  BY <1>1, TailFacts
<1>5. \A p \in Queues : Len(queue[p]) \in Nat
  BY <1>1
<1> DEFINE old(p, i) == IF p = q THEN i + 1 ELSE i
<1>6. \A p \in Queues : \A i \in 1..Len(queue'[p]) :
        /\ old(p, i) \in 1..Len(queue[p]) /\ (p = q => old(p, i) # 1)
        /\ queue'[p][i] = queue[p][old(p, i)]
  BY <1>2, <1>3, <1>5
<1> HIDE DEF old
<1>7. \A p \in Queues : \A i \in 1..Len(queue'[p]) : queue'[p][i] # Head(queue[q])
  BY <1>2, <1>6 DEF IInv, QueueInv, QueuesHoldFlips
<1>8. \A p \in Queues : \A i \in 1..Len(queue'[p]) : stat'[queue'[p][i]] = "queued"
  <2> SUFFICES ASSUME NEW p \in Queues, NEW i \in 1..Len(queue'[p])
               PROVE  stat'[queue'[p][i]] = "queued"
    OBVIOUS
  <2>1. stat[queue'[p][i]] = "queued"
    BY <1>6 DEF IInv, QueueInv, QueuesHoldFlips
  <2>2. queue'[p][i] \in Ops
    BY <1>1, <1>6
  <2> QED BY <1>1, <1>7, <2>1, <2>2
<1>9. \A p, r \in Queues : \A i \in 1..Len(queue'[p]) : \A j \in 1..Len(queue'[r]) :
        queue'[p][i] = queue'[r][j] => p = r /\ i = j
  <2> SUFFICES ASSUME NEW p \in Queues, NEW r \in Queues,
                      NEW i \in 1..Len(queue'[p]), NEW j \in 1..Len(queue'[r]),
                      queue'[p][i] = queue'[r][j]
               PROVE  p = r /\ i = j
    OBVIOUS
  <2>1. p = r /\ old(p, i) = old(r, j)
    BY <1>6 DEF IInv, QueueInv, QueuesHoldFlips
  <2> QED BY <2>1 DEF old
<1> QED BY <1>4, <1>8, <1>9 DEF QueuesHoldFlips

\* An operation that is not in a queue changes its status.
LEMMA OtherKeepsQueues ==
  ASSUME IInv, ~blocked, NEW o \in Ops, NEW where, stat[o] # "queued",
         stat' = [stat EXCEPT ![o] = where],
         queue' = queue
  PROVE  QueuesHoldFlips'
<1>1. queue \in [Queues -> Seq(Ops)] /\ stat \in [Ops -> {"none", "queued", "gpu", "lost", "done"}]
  BY DEF IInv, TypeOK
<1>2. \A p \in Queues : \A i \in 1..Len(queue[p]) : queue[p][i] \in Ops /\ queue[p][i] # o
  BY <1>1 DEF IInv, QueueInv, QueuesHoldFlips
<1>3. \A p \in Queues : \A i \in 1..Len(queue[p]) : stat'[queue[p][i]] = "queued"
  BY <1>1, <1>2 DEF IInv, QueueInv, QueuesHoldFlips
<1> QED BY <1>3 DEF IInv, QueueInv, QueuesHoldFlips

-----------------------------------------------------------------------------
(***************************************************************************)
(* What a step is: an operation is issued, an operation is carried out in  *)
(* its turn, or neither counters nor operations change.                    *)
(***************************************************************************)

IssueSome ==
  \E R, W \in SUBSET Syncs, where \in Unfinished, c \in BOOLEAN : TakeTicket(R, W, where, c)

CompleteSome ==
  \E p \in Ops : stat[p] \in Unfinished /\ Turn(p) /\ Complete(p)

\* The part of the invariant about the host's own variables.
HostInv == HostTypes /\ QueueInv

LEMMA FlipStep ==
  ASSUME IInv, NEW q \in Queues, NEW b \in Syncs, NEW c \in BOOLEAN, Flip(q, b, c)
  PROVE  IssueSome /\ HostInv'
<1> DEFINE last == psLastFlipBuffer[q]
           R == IF last = None THEN {b} ELSE {b, last}
<1>1. TakeTicket(R, {}, "queued", c)
  BY DEF Flip
<1>2. psLastFlipBuffer \in [Queues -> Syncs \cup {None}]
  BY DEF IInv, TypeOK
<1>3. R \in SUBSET Syncs
  BY <1>2
<1>4. IssueSome
  <2>1. {} \in SUBSET Syncs /\ "queued" \in Unfinished
    BY DEF Unfinished
  <2> HIDE DEF R
  <2> QED BY <1>1, <1>3, <2>1 DEF IssueSome
<1>5. PICK n \in Nat : n = issued + 1
  BY DEF IInv, TypeOK
<1>6. n \in Ops
  BY <1>1, <1>5, NatConstants DEF TakeTicket, Ops, IInv, TypeOK
<1>7. stat' = [stat EXCEPT ![n] = "queued"] /\ queue' = [queue EXCEPT ![q] = Append(@, n)]
  BY <1>5 DEF Flip, TakeTicket
<1>8. QueueInv' /\ queue' \in [Queues -> Seq(Ops)]
  <2>1. ~blocked /\ blocked' = blocked
    BY DEF Flip, Unlocked, IInv, QueueInv, lockVars
  <2> QED BY <1>5, <1>6, <1>7, <2>1, FlipKeepsQueues DEF QueueInv
<1>9. /\ psLastFlipBuffer' \in [Queues -> Syncs \cup {None}]
      /\ walk' = NQueues /\ bFlush' = FALSE /\ misr' = misr /\ gpuKick' = gpuKick
      /\ UNCHANGED lockVars
  BY <1>2 DEF Flip
<1>10. HostTypes'
  <2>1. walk' \in 0..NQueues
    BY <1>9, NatConstants
  <2>2. /\ misr \in BOOLEAN /\ gpuKick \in BOOLEAN
        /\ devLocked \in BOOLEAN /\ blocked \in BOOLEAN /\ pvr_disabled \in BOOLEAN
    BY DEF IInv, TypeOK
  <2>3. devLocked' = devLocked /\ blocked' = blocked /\ pvr_disabled' = pvr_disabled
    BY <1>9 DEF lockVars
  <2> QED BY <1>8, <1>9, <2>1, <2>2, <2>3, Zenon DEF HostTypes
<1> QED BY <1>4, <1>8, <1>10 DEF HostInv

LEMMA KickStep ==
  ASSUME IInv, NEW R \in SUBSET Syncs, NEW W \in SUBSET Syncs, Kick(R, W)
  PROVE  IssueSome /\ HostInv'
<1>1. PICK where \in {"gpu", "lost"} : TakeTicket(R, W, where, FALSE) /\ gpuKick' \in BOOLEAN
  BY DEF Kick, IInv, TypeOK
<1>2. IssueSome
  BY <1>1 DEF IssueSome, Unfinished
<1>3. PICK n \in Nat : n = issued + 1
  BY DEF IInv, TypeOK
<1>4. n \in Ops /\ stat[n] # "queued"
  <2>1. n \in Ops
    BY <1>1, <1>3, NatConstants DEF TakeTicket, Ops, IInv, TypeOK
  <2>2. stat[n] = "none"
    BY <1>3, <2>1 DEF IInv, TypeOK, TicketInv, NotIssued
  <2> QED BY <2>1, <2>2
<1>5. stat' = [stat EXCEPT ![n] = where] /\ queue' = queue
  BY <1>1, <1>3 DEF TakeTicket, Kick, hostVars
<1>6. QueueInv'
  <2>1. ~blocked /\ blocked' = blocked
    BY DEF Kick, Unlocked, IInv, QueueInv, hostVars, lockVars
  <2> QED BY <1>4, <1>5, <2>1, OtherKeepsQueues DEF QueueInv
<1>7. HostTypes'
  BY <1>1 DEF Kick, hostVars, lockVars, HostTypes, IInv, TypeOK
<1> QED BY <1>2, <1>6, <1>7 DEF HostInv

LEMMA ProcessHeadStep ==
  ASSUME IInv, NEW q \in Queues, walk = q, ~blocked, ProcessHead(q)
  PROVE  CompleteSome /\ HostInv'
<1> DEFINE o == Head(queue[q])
<1>1. /\ queue[q] # <<>> /\ DependenciesMet(o) /\ Complete(o)
      /\ bFlush' = bFlush /\ psLastFlipBuffer' = psLastFlipBuffer
      /\ devLocked' = devLocked /\ pvr_disabled' = pvr_disabled
  BY DEF ProcessHead, ProcessFlip
<1>2. queue \in [Queues -> Seq(Ops)] /\ queue[q] \in Seq(Ops)
  BY DEF IInv, TypeOK
<1>3. o \in Ops /\ stat[o] = "queued"
  BY <1>1, <1>2, TailFacts DEF IInv, QueueInv, QueuesHoldFlips
<1>4. stat' = [stat EXCEPT ![o] = "done"]
  BY <1>1 DEF Complete
<1>q. walk \in Nat /\ walk # 0
  BY NatConstants DEF Queues
<1>5. ASSUME devLocked PROVE HostInv'
  <2>1. /\ blocked' = TRUE /\ queue' = queue /\ misr' = misr /\ walk' = walk
        /\ gpuKick' = gpuKick
    BY <1>5 DEF ProcessHead
  <2>2. QueueInv'
    BY <1>q, <2>1 DEF QueueInv
  <2>3. HostTypes'
    BY <1>1, <2>1 DEF HostTypes, IInv, TypeOK
  <2> QED BY <2>2, <2>3 DEF HostInv
<1>6. ASSUME ~devLocked PROVE HostInv'
  <2>1. /\ queue' = [queue EXCEPT ![q] = Tail(@)] /\ misr' = TRUE /\ blocked' = blocked
        /\ walk' = IF bFlush THEN walk ELSE walk - 1
    BY <1>6 DEF ProcessHead
  <2>2. QueuesHoldFlips' /\ queue' \in [Queues -> Seq(Ops)]
    BY <1>1, <1>4, <2>1, ProcessKeepsQueues
  <2>3. walk' \in 0..NQueues
    BY <1>q, <2>1, NatConstants DEF IInv, TypeOK, Queues
  <2>4. gpuKick' \in BOOLEAN
    BY <1>6 DEF ProcessHead, WakeGPU, IInv, TypeOK
  <2>5. HostTypes'
    BY <1>1, <2>1, <2>2, <2>3, <2>4 DEF HostTypes, IInv, TypeOK
  <2> QED BY <2>1, <2>2, <2>5 DEF HostInv, QueueInv
<1> HIDE DEF o
<1>7. CompleteSome
  <2>1. stat[o] \in Unfinished
    BY <1>3 DEF Unfinished
  <2>2. Turn(o)
    BY <1>1, <1>3, <2>1, DependenciesMetMeansTurn DEF IInv
  <2> QED BY <1>1, <1>3, <2>1, <2>2 DEF CompleteSome
<1> QED BY <1>5, <1>6, <1>7

LEMMA GPUExecuteStep ==
  ASSUME IInv, NEW o \in Ops, GPUExecute(o)
  PROVE  CompleteSome /\ HostInv'
<1>1. stat[o] = "gpu" /\ Ready(o) /\ Complete(o)
  BY DEF GPUExecute
<1>2. CompleteSome
  <2>1. stat[o] \in Unfinished
    BY <1>1 DEF Unfinished
  <2>2. DependenciesMet(o)
    BY <1>1 DEF Ready, DependenciesMet
  <2>3. Turn(o)
    BY <2>1, <2>2, DependenciesMetMeansTurn DEF IInv
  <2> QED BY <1>1, <2>1, <2>3 DEF CompleteSome
<1>3. QueueInv'
  <2>1. /\ stat' = [stat EXCEPT ![o] = "done"] /\ queue' = queue
        /\ blocked' = blocked /\ walk' = walk
    BY <1>1 DEF Complete, GPUExecute, lockVars
  <2> QED BY <1>1, <2>1, OtherKeepsQueues DEF IInv, QueueInv
<1>4. HostTypes'
  BY DEF GPUExecute, lockVars, HostTypes, IInv, TypeOK
<1> QED BY <1>2, <1>3, <1>4 DEF HostInv

\* Every step is of one of the three kinds and keeps the host's invariant.
LEMMA StepKinds ==
  ASSUME IInv, [Next]_vars
  PROVE  /\ IssueSome \/ CompleteSome \/ UNCHANGED <<syncVars, opVars>>
         /\ HostInv'
<1> DEFINE Goal == /\ IssueSome \/ CompleteSome \/ UNCHANGED <<syncVars, opVars>>
                   /\ HostInv'
<1>q. walk # 0 => walk \in Queues
  BY NatConstants DEF IInv, TypeOK, Queues
<1>i. HostInv
  BY SplitTypes DEF IInv, HostInv
<1>1. ASSUME NEW q \in Queues, PVRSRVSwapToDCBuffer(q) PROVE Goal
  <2>1. PICK b \in ChainBuffers[q], c \in {FALSE, ClipRects} : Flip(q, b, c)
    BY <1>1 DEF PVRSRVSwapToDCBuffer
  <2>2. b \in Syncs /\ c \in BOOLEAN
    BY ConstantsAssumption
  <2> QED BY <2>1, <2>2, FlipStep
<1>2. ASSUME NEW q \in Queues, PVRSRVSwapToDCSystem(q) PROVE Goal
  BY <1>2, ConstantsAssumption, FlipStep DEF PVRSRVSwapToDCSystem
<1>3. CASE SGXDoKick
  <2>1. PICK k \in Kicks : Kick(k.rd, k.wr)
    BY <1>3 DEF SGXDoKick
  <2>2. k.rd \in SUBSET Syncs /\ k.wr \in SUBSET Syncs
    BY ConstantsAssumption
  <2> QED BY <2>1, <2>2, KickStep
<1>4. CASE SGXSubmitTransfer
  <2>1. PICK t \in Transfers : Kick(t.rd, t.wr)
    BY <1>4 DEF SGXSubmitTransfer
  <2>2. t.rd \in SUBSET Syncs /\ t.wr \in SUBSET Syncs
    BY ConstantsAssumption
  <2> QED BY <2>1, <2>2, KickStep
<1>5. CASE PVRSRVProcessQueues
  <2>1. walk \in Queues /\ walk \in 1..NQueues /\ ~blocked
    BY <1>5, <1>q DEF PVRSRVProcessQueues, Queues
  <2>2. CASE ProcessHead(walk)
    <3>1. PICK q \in Queues : q = walk
      BY <2>1
    <3> QED BY <2>1, <2>2, <3>1, ProcessHeadStep
  <2>3. CASE LeaveQueue(walk)
    <3>1. /\ UNCHANGED <<syncVars, opVars, queue, psLastFlipBuffer, bFlush, blocked,
                         pvr_disabled, misr, gpuKick>>
          /\ devLocked' \in BOOLEAN
      BY <2>3 DEF LeaveQueue
    <3>2. walk' \in 0..NQueues
      BY <2>1, <2>3, NatConstants DEF LeaveQueue
    <3> QED BY <1>i, <2>1, <3>1, <3>2 DEF HostInv, HostTypes, QueueInv, QueuesHoldFlips, opVars
  <2> QED BY <1>5, <2>2, <2>3 DEF PVRSRVProcessQueues
<1>6. CASE PVRSRVMISR
  <2>1. /\ UNCHANGED <<syncVars, opVars, queue, psLastFlipBuffer, lockVars, gpuKick>>
        /\ misr' = FALSE /\ walk = 0
        /\ walk' \in {walk, NQueues} /\ bFlush' \in {bFlush, FALSE}
    BY <1>6 DEF PVRSRVMISR
  <2>2. walk' \in 0..NQueues
    BY <1>i, <2>1, NatConstants DEF HostInv, HostTypes
  <2>3. bFlush' \in BOOLEAN /\ (bFlush' => Recovery # {})
    <3>1. bFlush \in BOOLEAN /\ (bFlush => Recovery # {})
      BY <1>i DEF HostInv, HostTypes
    <3>2. bFlush' = bFlush \/ bFlush' = FALSE
      BY <2>1
    <3>3. CASE bFlush' = bFlush
      BY <3>1, <3>3
    <3>4. CASE bFlush' = FALSE
      BY <3>4, Zenon
    <3> QED BY <3>2, <3>3, <3>4
  <2>4. /\ queue' = queue /\ psLastFlipBuffer' = psLastFlipBuffer /\ devLocked' = devLocked
        /\ blocked' = blocked /\ pvr_disabled' = pvr_disabled /\ gpuKick' = gpuKick
    BY <2>1 DEF lockVars
  <2>5. HostTypes'
    BY <1>i, <2>1, <2>2, <2>3, <2>4, Zenon DEF HostInv, HostTypes
  <2> QED BY <1>i, <2>1, <2>5 DEF HostInv, QueueInv, QueuesHoldFlips, opVars, lockVars
<1>7. CASE HWRecoveryResetSGX
  <2>1. /\ UNCHANGED <<syncVars, opVars, queue, psLastFlipBuffer, blocked, misr>>
        /\ walk = 0 /\ Recovery # {} /\ walk' \in {walk, NQueues}
    BY <1>7 DEF HWRecoveryResetSGX, Unlocked
  <2>2. /\ bFlush' \in BOOLEAN /\ devLocked' \in BOOLEAN
        /\ pvr_disabled' \in BOOLEAN /\ gpuKick' \in BOOLEAN
    BY <1>7, <1>i DEF HWRecoveryResetSGX, WakeGPU, HostInv, HostTypes
  <2>3. walk' \in 0..NQueues
    BY <1>i, <2>1, NatConstants DEF HostInv, HostTypes
  <2>4. HostTypes'
    BY <1>i, <2>1, <2>2, <2>3 DEF HostInv, HostTypes
  <2> QED BY <1>i, <2>1, <2>4 DEF HostInv, QueueInv, QueuesHoldFlips, opVars
<1>8. CASE GPU
  <2>1. ASSUME NEW o \in Ops, GPUExecute(o) PROVE Goal
    BY <2>1, GPUExecuteStep
  <2>2. CASE GPUIdle
    <3>1. UNCHANGED <<syncVars, opVars, hostVars>> /\ gpuKick' = FALSE
      BY <2>2 DEF GPUIdle
    <3>2. HostTypes'
      BY <1>i, <3>1 DEF HostInv, HostTypes, hostVars, lockVars
    <3> QED BY <1>i, <3>1, <3>2 DEF HostInv, QueueInv, QueuesHoldFlips, opVars, hostVars, lockVars
  <2> QED BY <1>8, <2>1, <2>2 DEF GPU
<1>9. CASE UNCHANGED vars
  BY <1>9, <1>i DEF vars, HostInv, HostTypes, QueueInv, QueuesHoldFlips, opVars, hostVars, lockVars
<1> QED BY <1>1, <1>2, <1>3, <1>4, <1>5, <1>6, <1>7, <1>8, <1>9 DEF Next

LEMMA UnchangedStep ==
  ASSUME OpTypes, TicketInv, UNCHANGED <<syncVars, opVars>>
  PROVE  OpTypes' /\ TicketInv'
<1>1. OpTypes'
  BY DEF OpTypes, syncVars, opVars
<1>2. \A o \in Ops : Uses(o)' = Uses(o)
  BY DEF Uses, opVars
<1> QED BY <1>1, <1>2 DEF TicketInv, NotIssued, Issued, TicketsBelowPending, TicketsOrdered,
             TicketsNotPassed, CountersClose, PendingBounded, OrderKept, OwnWrite, OwnRead,
             syncVars, opVars

-----------------------------------------------------------------------------
(***************************************************************************)
(* The theorems.                                                           *)
(***************************************************************************)

LEMMA InitIInv == Init => IInv
<1> SUFFICES ASSUME Init PROVE IInv
  OBVIOUS
<1>1. TypeOK
  <2>1. OpTypes
    BY NatConstants DEF Init, OpTypes
  <2>2. queue \in [Queues -> Seq(Ops)] /\ psLastFlipBuffer \in [Queues -> Syncs \cup {None}]
    BY DEF Init
  <2>3. HostTypes
    <3>1. walk \in 0..NQueues
      BY NatConstants DEF Init
    <3>2. /\ bFlush = FALSE /\ misr = FALSE /\ gpuKick = FALSE
          /\ devLocked = FALSE /\ blocked = FALSE /\ pvr_disabled = FALSE
      BY DEF Init
    <3> QED BY <2>2, <3>1, <3>2, Zenon DEF HostTypes
  <2> QED BY <2>1, <2>3, SplitTypes
<1>2. \A o \in Ops : o \in Nat /\ o > 0 /\ stat[o] = "none" /\ rd[o] = {} /\ wr[o] = {}
  BY NatConstants DEF Init, Ops
<1>3. TicketInv
  BY <1>2, NatConstants DEF Init, TicketInv, NotIssued, Issued, TicketsBelowPending,
       TicketsOrdered, TicketsNotPassed, CountersClose, PendingBounded, OrderKept, Unfinished
<1>4. \A q \in Queues : queue[q] = <<>> /\ Len(queue[q]) = 0
  BY DEF Init
<1>5. QueueInv
  BY <1>4 DEF Init, QueueInv, QueuesHoldFlips
<1> QED BY <1>1, <1>3, <1>5 DEF IInv

LEMMA NextIInv == IInv /\ [Next]_vars => IInv'
<1> SUFFICES ASSUME IInv, [Next]_vars PROVE IInv'
  OBVIOUS
<1>1. OpTypes /\ TicketInv
  BY SplitTypes DEF IInv
<1>2. HostInv'
  BY StepKinds
<1>3. OpTypes' /\ TicketInv'
  <2>1. CASE IssueSome
    BY <1>1, <2>1, IssueStep DEF IssueSome
  <2>2. CASE CompleteSome
    BY <1>1, <2>2, CompleteStep DEF CompleteSome
  <2>3. CASE UNCHANGED <<syncVars, opVars>>
    BY <1>1, <2>3, UnchangedStep
  <2> QED BY <2>1, <2>2, <2>3, StepKinds
<1>4. TypeOK'
  BY <1>2, <1>3 DEF HostInv, HostTypes, OpTypes, TypeOK
<1> QED BY <1>2, <1>3, <1>4 DEF IInv, HostInv

\* The inductive invariant holds throughout.
THEOREM Invariance == Spec => []IInv
BY InitIInv, NextIInv, PTL DEF Spec

\* Type correctness of the queues, the counters and the operations.
THEOREM TypeCorrect == Spec => []TypeOK
<1>1. IInv => TypeOK
  BY DEF IInv
<1> QED BY <1>1, Invariance, PTL

\* Operations that share a surface are carried out in the order in which they
\* were issued (queue.c, sgxkick.c, sgxtransfer.c), for any number of surfaces,
\* queues and operations, and however often the counters come round.
THEOREM Ordering == Spec => []InIssueOrder
<1>1. IInv => InIssueOrder
  <2> SUFFICES ASSUME IInv, NEW o \in 1..issued, NEW e \in 1..(o - 1),
                      Uses(e) \cap Uses(o) # {}, stat[o] = "done"
               PROVE  stat[e] = "done"
    BY DEF InIssueOrder
  <2>1. e \in Ops /\ o \in Ops /\ e < o /\ o <= issued
    BY NatConstants DEF IInv, TypeOK, Ops
  <2> QED BY <2>1 DEF IInv, TicketInv, OrderKept
<1> QED BY <1>1, Invariance, PTL

\* Once the counters show an operation its turn they do so until it is carried
\* out: a step completes it, completes an operation on other surfaces, or leaves
\* the complete counters alone.
THEOREM TurnKept == Spec => TurnIsKept
<1>1. ASSUME IInv, [Next]_vars, NEW o \in 1..issued, stat[o] # "done", Ready(o)
      PROVE  stat'[o] = "done" \/ Ready(o)'
  <2>1. OpTypes /\ TicketInv /\ TypeOK
    BY <1>1, SplitTypes DEF IInv
  <2>2. o \in Ops /\ stat[o] \in Unfinished
    <3>1. o \in Ops /\ o <= issued
      BY <2>1, NatConstants DEF OpTypes, Ops
    <3>2. stat[o] # "none"
      BY <2>1, <3>1 DEF TicketInv, Issued
    <3> QED BY <1>1, <2>1, <3>1, <3>2 DEF OpTypes, Unfinished
  <2>3. Turn(o)
    <3>1. DependenciesMet(o)
      BY <1>1 DEF Ready, DependenciesMet
    <3> QED BY <2>1, <2>2, <3>1, DependenciesMetMeansTurn
  <2>4. CASE IssueSome
    <3>1. /\ WriteOpsComplete' = WriteOpsComplete /\ ReadOpsComplete' = ReadOpsComplete
          /\ rd'[o] = rd[o] /\ wr'[o] = wr[o] /\ tw'[o] = tw[o] /\ tr'[o] = tr[o]
      BY <2>1, <2>2, <2>4, NatConstants DEF IssueSome, TakeTicket, OpTypes, Ops
    <3> QED BY <1>1, <3>1 DEF Ready, SyncReady, Uses
  <2>5. CASE CompleteSome
    <3>1. PICK p \in Ops : stat[p] \in Unfinished /\ Turn(p) /\ Complete(p)
      BY <2>5 DEF CompleteSome
    <3>2. CASE p = o
      BY <2>1, <2>2, <3>1, <3>2 DEF Complete, OpTypes
    <3>3. CASE p # o
      <4>1. p \in Int /\ o \in Int
        BY NatConstants DEF Ops
      <4>2. Uses(p) \cap Uses(o) = {}
        <5>1. CASE p < o
          BY <2>1, <2>2, <2>3, <3>1, <5>1, TurnMeansEarlierDone DEF Unfinished
        <5>2. CASE o < p
          BY <2>1, <2>2, <2>3, <3>1, <5>2, TurnMeansEarlierDone DEF Unfinished
        <5> QED BY <3>3, <4>1, <5>1, <5>2
      <4>3. \A s \in Uses(o) : s \in Syncs /\ s \notin wr[p] /\ s \notin rd[p]
        BY <2>1, <2>2, <4>2 DEF Uses, OpTypes
      <4>4. \A s \in Uses(o) : /\ WriteOpsComplete'[s] = WriteOpsComplete[s]
                               /\ ReadOpsComplete'[s] = ReadOpsComplete[s]
        BY <3>1, <4>3 DEF Complete, Inc
      <4>5. Uses(o)' = Uses(o) /\ tw' = tw /\ tr' = tr
        BY <3>1 DEF Complete, Uses
      <4> QED BY <1>1, <4>4, <4>5 DEF Ready, SyncReady
    <3> QED BY <3>2, <3>3
  <2>6. CASE UNCHANGED <<syncVars, opVars>>
    BY <1>1, <2>6 DEF Ready, SyncReady, Uses, syncVars, opVars
  <2> QED BY <1>1, <2>4, <2>5, <2>6, StepKinds
<1>2. IInv /\ [Next]_vars =>
        [\A o \in 1..issued : stat[o] # "done" /\ Ready(o) => stat'[o] = "done" \/ Ready(o)']_vars
  BY <1>1
<1> QED BY <1>2, Invariance, PTL DEF Spec, TurnIsKept

\* The driver's counters implement in-order access to every surface.
THEOREM Refinement == Spec => ImplementsBufferAccess
<1>1. Init => Access!Init
  <2> SUFFICES ASSUME Init PROVE Access!Init
    OBVIOUS
  <2>1. \A o \in Ops : Uses(o) = {} /\ stat[o] # "done"
    BY DEF Init, Uses
  <2>2. [o \in Ops |-> Uses(o)] = [o \in Access!Ops |-> {}]
    BY <2>1 DEF Access!Ops, Ops
  <2>3. {o \in Ops : stat[o] = "done"} = {}
    BY <2>1
  <2> QED BY <2>2, <2>3 DEF Access!Init, Init
<1>2. IInv /\ [Next]_vars => [Access!Next]_(Access!accessVars)
  <2> SUFFICES ASSUME IInv, [Next]_vars PROVE Access!Next \/ UNCHANGED Access!accessVars
    OBVIOUS
  <2>1. OpTypes /\ TicketInv
    BY SplitTypes DEF IInv
  <2>2. CASE IssueSome
    <3>1. PICK R \in SUBSET Syncs, W \in SUBSET Syncs, where \in Unfinished, c \in BOOLEAN :
            TakeTicket(R, W, where, c)
      BY <2>2 DEF IssueSome
    <3>2. PICK n \in Nat : n = issued + 1
      BY <2>1 DEF OpTypes
    <3>3. /\ n \in Ops /\ issued < MaxOps /\ issued' = n
          /\ stat' = [stat EXCEPT ![n] = where]
          /\ rd' = [rd EXCEPT ![n] = R] /\ wr' = [wr EXCEPT ![n] = W]
      BY <2>1, <3>1, <3>2, NatConstants DEF TakeTicket, OpTypes, Ops
    <3>4. stat[n] # "done" /\ where # "done"
      BY <2>1, <3>2, <3>3 DEF TicketInv, NotIssued, Unfinished, OpTypes
    <3>5. {o \in Ops : stat[o] = "done"}' = {o \in Ops : stat[o] = "done"}
      BY <2>1, <3>3, <3>4 DEF OpTypes
    <3>6. \A o \in Ops : Uses(o)' = IF o = n THEN R \cup W ELSE Uses(o)
      BY <2>1, <3>3 DEF Uses, OpTypes
    <3>7. [o \in Ops |-> Uses(o)]' = [[o \in Ops |-> Uses(o)] EXCEPT ![n] = R \cup W]
      BY <3>6
    <3>8. Access!Issue(R \cup W)
      BY <3>2, <3>3, <3>5, <3>7 DEF Access!Issue
    <3>9. R \cup W \in SUBSET Syncs
      OBVIOUS
    <3> QED BY <3>8, <3>9 DEF Access!Next
  <2>3. CASE CompleteSome
    <3>1. PICK p \in Ops : stat[p] \in Unfinished /\ Turn(p) /\ Complete(p)
      BY <2>3 DEF CompleteSome
    <3>2. p \in 1..issued
      BY <2>1, <3>1, NatConstants, UnfinishedIsIssued DEF Ops
    <3>3. /\ issued' = issued /\ stat' = [stat EXCEPT ![p] = "done"]
          /\ rd' = rd /\ wr' = wr
      BY <3>1 DEF Complete
    <3>4. {o \in Ops : stat[o] = "done"}' = {o \in Ops : stat[o] = "done"} \cup {p}
      BY <2>1, <3>3 DEF OpTypes
    <3>5. [o \in Ops |-> Uses(o)]' = [o \in Ops |-> Uses(o)]
      BY <3>3 DEF Uses
    <3>6. p \notin {o \in Ops : stat[o] = "done"}
      BY <3>1 DEF Unfinished
    <3>7. ASSUME NEW e \in 1..(p - 1), Uses(e) \cap Uses(p) # {}
          PROVE  e \in Ops /\ stat[e] = "done"
      <4>1. e \in Ops /\ e < p
        BY NatConstants DEF Ops
      <4> QED BY <2>1, <3>1, <3>7, <4>1, TurnMeansEarlierDone
    <3>8. \A e \in 1..(p - 1) : e \in Ops
      BY NatConstants DEF Ops
    <3>9. Access!CarryOut(p)
      BY <3>2, <3>3, <3>4, <3>5, <3>6, <3>7, <3>8 DEF Access!CarryOut
    <3> QED BY <3>9 DEF Access!Next, Access!Ops, Ops
  <2>4. CASE UNCHANGED <<syncVars, opVars>>
    BY <2>4 DEF Access!accessVars, opVars, Uses
  <2> QED BY <2>2, <2>3, <2>4, StepKinds
<1> QED BY <1>1, <1>2, Invariance, PTL DEF Spec, ImplementsBufferAccess, Access!Spec

-----------------------------------------------------------------------------
(***************************************************************************)
(* The distance of the counters.                                           *)
(***************************************************************************)

\* The operations among the first n that use surface s, by f (rd or wr), and
\* are not over, by st.
Open(n, f, st, s) == {o \in 1..n : s \in f[o] /\ st[o] # "done"}

\* There are finitely many of them.
LEMMA OpenFinite ==
  ASSUME NEW n \in Nat, NEW f, NEW st, NEW s
  PROVE  IsFiniteSet(Open(n, f, st, s)) /\ Cardinality(Open(n, f, st, s)) \in Nat
<1>1. IsFiniteSet(1..n)
  BY FS_Interval
<1>2. Open(n, f, st, s) \in SUBSET (1..n)
  BY DEF Open
<1>3. IsFiniteSet(Open(n, f, st, s))
  BY <1>1, <1>2, FS_Subset
<1> QED BY <1>3, FS_CardinalityType

\* TakeTicket adds one operation to those of the surfaces it announces itself on.
LEMMA OpenIssued ==
  ASSUME NEW n \in Nat, NEW m, m = n + 1, NEW f, NEW st, NEW g, NEW su, NEW s,
         \A o \in 1..n : g[o] = f[o] /\ su[o] = st[o],
         su[m] # "done"
  PROVE  Cardinality(Open(m, g, su, s))
           = Cardinality(Open(n, f, st, s)) + (IF s \in g[m] THEN 1 ELSE 0)
<1>1. IsFiniteSet(Open(n, f, st, s)) /\ Cardinality(Open(n, f, st, s)) \in Nat
  BY OpenFinite
<1>2. m \notin Open(n, f, st, s)
  BY DEF Open
<1>3. 1..m = (1..n) \cup {m}
  OBVIOUS
<1>4. CASE s \in g[m]
  <2>1. Open(m, g, su, s) = Open(n, f, st, s) \cup {m}
    BY <1>3, <1>4 DEF Open
  <2> QED BY <1>1, <1>2, <1>4, <2>1, FS_AddElement
<1>5. CASE s \notin g[m]
  <2>1. Open(m, g, su, s) = Open(n, f, st, s)
    BY <1>3, <1>5 DEF Open
  <2> QED BY <1>1, <1>5, <2>1
<1> QED BY <1>4, <1>5

\* Complete takes one operation from those of the surfaces it counts the end on.
LEMMA OpenCompleted ==
  ASSUME NEW n \in Nat, NEW p \in 1..n, NEW f, NEW st, NEW su, NEW s,
         \A o \in 1..n : o # p => su[o] = st[o],
         st[p] # "done", su[p] = "done"
  PROVE  Cardinality(Open(n, f, su, s))
           = Cardinality(Open(n, f, st, s)) - (IF s \in f[p] THEN 1 ELSE 0)
<1>1. IsFiniteSet(Open(n, f, st, s)) /\ Cardinality(Open(n, f, st, s)) \in Nat
  BY OpenFinite
<1>2. Open(n, f, su, s) = Open(n, f, st, s) \ {p}
  BY DEF Open
<1>3. p \in Open(n, f, st, s) <=> s \in f[p]
  BY DEF Open
<1>4. Cardinality(Open(n, f, st, s) \ {p})
        = IF p \in Open(n, f, st, s) THEN Cardinality(Open(n, f, st, s)) - 1
                                     ELSE Cardinality(Open(n, f, st, s))
  BY <1>1, FS_RemoveElement
<1> QED BY <1>1, <1>2, <1>3, <1>4

\* A step moves a pending or a complete counter exactly when the operations that
\* are announced and not over change.
LEMMA NextAccounting == IInv /\ SyncAccounting /\ [Next]_vars => SyncAccounting'
<1> SUFFICES ASSUME IInv, SyncAccounting, [Next]_vars PROVE SyncAccounting'
  OBVIOUS
<1>1. OpTypes /\ TicketInv
  BY SplitTypes DEF IInv
<1>2. issued \in Nat /\ issued <= MaxOps
  BY <1>1, NatConstants DEF OpTypes
<1>3. \A s \in Syncs :
        /\ WriteOpsPending[s] \in Nat /\ WriteOpsComplete[s] \in Nat
        /\ ReadOpsPending[s] \in Nat /\ ReadOpsComplete[s] \in Nat
        /\ WriteOpsPending[s] - WriteOpsComplete[s] = Cardinality(Open(issued, wr, stat, s))
        /\ ReadOpsPending[s] - ReadOpsComplete[s] = Cardinality(Open(issued, rd, stat, s))
  BY <1>1 DEF OpTypes, SyncAccounting, Open
<1>4. SUFFICES ASSUME NEW s \in Syncs
      PROVE /\ WriteOpsPending'[s] - WriteOpsComplete'[s] = Cardinality(Open(issued', wr', stat', s))
            /\ ReadOpsPending'[s] - ReadOpsComplete'[s] = Cardinality(Open(issued', rd', stat', s))
  BY DEF SyncAccounting, Open
<1>5. CASE IssueSome
  <2>1. PICK R \in SUBSET Syncs, W \in SUBSET Syncs, where \in Unfinished, c \in BOOLEAN :
          TakeTicket(R, W, where, c)
    BY <1>5 DEF IssueSome
  <2>2. PICK n \in Nat : n = issued + 1
    BY <1>2
  <2>3. /\ n \in Ops /\ issued' = n
        /\ stat' = [stat EXCEPT ![n] = where]
        /\ rd' = [rd EXCEPT ![n] = R] /\ wr' = [wr EXCEPT ![n] = W]
    BY <1>1, <2>1, <2>2, NatConstants DEF TakeTicket, OpTypes, Ops
  <2>4. /\ \A o \in 1..issued : wr'[o] = wr[o] /\ rd'[o] = rd[o] /\ stat'[o] = stat[o]
        /\ wr'[n] = W /\ rd'[n] = R /\ stat'[n] # "done"
    BY <1>1, <1>2, <2>2, <2>3, NatConstants DEF OpTypes, Ops, Unfinished
  <2>5. /\ Cardinality(Open(n, wr', stat', s))
             = Cardinality(Open(issued, wr, stat, s)) + (IF s \in wr'[n] THEN 1 ELSE 0)
        /\ Cardinality(Open(n, rd', stat', s))
             = Cardinality(Open(issued, rd, stat, s)) + (IF s \in rd'[n] THEN 1 ELSE 0)
    BY <1>2, <2>2, <2>4, OpenIssued
  <2>6. /\ WriteOpsPending'[s] = WriteOpsPending[s] + (IF s \in W THEN 1 ELSE 0)
        /\ ReadOpsPending'[s] = ReadOpsPending[s] + (IF s \in R THEN 1 ELSE 0)
        /\ WriteOpsComplete' = WriteOpsComplete /\ ReadOpsComplete' = ReadOpsComplete
    <3>1. /\ WriteOpsPending' = Inc(WriteOpsPending, W) /\ ReadOpsPending' = Inc(ReadOpsPending, R)
          /\ WriteOpsComplete' = WriteOpsComplete /\ ReadOpsComplete' = ReadOpsComplete
      BY <2>1 DEF TakeTicket
    <3>2. WriteOpsPending \in [Syncs -> Nat] /\ ReadOpsPending \in [Syncs -> Nat]
      BY <1>1 DEF OpTypes
    <3> QED BY <3>1, <3>2, IncValues
  <2> QED BY <1>3, <2>3, <2>4, <2>5, <2>6
<1>6. CASE CompleteSome
  <2>1. PICK p \in Ops : stat[p] \in Unfinished /\ Turn(p) /\ Complete(p)
    BY <1>6 DEF CompleteSome
  <2>2. p \in 1..issued
    BY <1>1, <2>1, NatConstants, UnfinishedIsIssued DEF Ops
  <2>3. /\ issued' = issued /\ stat' = [stat EXCEPT ![p] = "done"]
        /\ rd' = rd /\ wr' = wr
    BY <2>1 DEF Complete
  <2>4. /\ \A o \in 1..issued : o # p => stat'[o] = stat[o]
        /\ stat[p] # "done" /\ stat'[p] = "done"
    BY <1>1, <1>2, <2>1, <2>3, NatConstants DEF OpTypes, Ops, Unfinished
  <2>5. /\ Cardinality(Open(issued, wr, stat', s))
             = Cardinality(Open(issued, wr, stat, s)) - (IF s \in wr[p] THEN 1 ELSE 0)
        /\ Cardinality(Open(issued, rd, stat', s))
             = Cardinality(Open(issued, rd, stat, s)) - (IF s \in rd[p] THEN 1 ELSE 0)
    BY <1>2, <2>2, <2>4, OpenCompleted
  <2>6. /\ WriteOpsComplete'[s] = WriteOpsComplete[s] + (IF s \in wr[p] THEN 1 ELSE 0)
        /\ ReadOpsComplete'[s] = ReadOpsComplete[s] + (IF s \in rd[p] THEN 1 ELSE 0)
        /\ WriteOpsPending' = WriteOpsPending /\ ReadOpsPending' = ReadOpsPending
    BY <1>1, <2>1, IncValues DEF Complete, OpTypes
  <2> QED BY <1>3, <2>3, <2>5, <2>6
<1>7. CASE UNCHANGED <<syncVars, opVars>>
  BY <1>3, <1>7 DEF syncVars, opVars
<1> QED BY <1>5, <1>6, <1>7, StepKinds

\* The distance of a pending counter from its complete counter is the number of
\* operations that were announced (PVRSRVInsertCommandKM, SGXDoKickKM,
\* SGXSubmitTransferKM) and are not over: no completion is missed or counted
\* twice, for any number of surfaces, queues and operations.
THEOREM Accounting == Spec => []SyncAccounting
<1>1. Init => SyncAccounting
  <2> SUFFICES ASSUME Init, NEW s \in Syncs
               PROVE  /\ WriteOpsPending[s] - WriteOpsComplete[s] = Cardinality(Open(issued, wr, stat, s))
                      /\ ReadOpsPending[s] - ReadOpsComplete[s] = Cardinality(Open(issued, rd, stat, s))
    BY DEF SyncAccounting, Open
  <2>1. Open(issued, wr, stat, s) = {} /\ Open(issued, rd, stat, s) = {}
    BY DEF Init, Open
  <2>2. /\ WriteOpsPending[s] = 0 /\ WriteOpsComplete[s] = 0
        /\ ReadOpsPending[s] = 0 /\ ReadOpsComplete[s] = 0
    BY DEF Init
  <2>3. Cardinality({}) = 0
    BY FS_EmptySet
  <2> QED BY <2>1, <2>2, <2>3
<1> QED BY <1>1, NextAccounting, Invariance, PTL DEF Spec
=============================================================================
