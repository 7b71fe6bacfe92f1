---------------------------- MODULE CommandQueue ----------------------------
(***************************************************************************)
(* The synchronisation objects and the command queues: queue.c with its    *)
(* two clients, the swap chains of deviceclass.c (flips of the display,    *)
(* carried out by omaplfb) and the kicks of sgxkick.c and sgxtransfer.c    *)
(* (renders and transfers, carried out by the GPU).                        *)
(*                                                                         *)
(* A synchronisation object counts the reads and the writes of its surface *)
(* that were announced (pending) and that are over (complete).  Issuing an *)
(* operation takes a copy of both pending counters of every surface it     *)
(* uses, its ticket, and then increments one of them; the operation may    *)
(* start when both complete counters equal the ticket.                     *)
(*                                                                         *)
(* Every ioctl and the MISR run under the mutex pvr_lock, so each is one   *)
(* step, except that PVRSRVProcessQueues is split at each command it looks *)
(* at: the GPU updates the complete counters in between.  While walk is    *)
(* not 0 pvr_lock is taken.                                                *)
(***************************************************************************)
EXTENDS Integers, Sequences, FiniteSets

CONSTANTS
  Syncs,           (* synchronisation objects, one per surface             *)
  NQueues,         (* command queues on psQueueList, one per swap chain    *)
  ChainBuffers,    (* ChainBuffers[q]: the buffers of q's swap chain       *)
  SystemBuffer,    (* sSystemBuffer of the display                         *)
  Kicks,           (* inputs of SGXDoKickKM                                *)
  Transfers,       (* inputs of SGXSubmitTransferKM                        *)
  CounterMod,      (* the counters are u32: 2^32 in the code               *)
  MaxOps,          (* bound: operations issued in a behaviour              *)
  MaxOutstanding,  (* bound: unfinished operations on one surface          *)
  QueueRoom,       (* bound: commands that fit a queue (see CmdRing)       *)
  GPUFails,        (* may the GPU refuse a command or a restart?           *)
  ClipRects,       (* may a client pass clip rectangles with a flip?       *)
  Recovery,        (* callers of HWRecoveryResetSGX, see there             *)
  None

Ops == 1..MaxOps

\* psQueueList runs from the queue created last, NQueues, to the first one;
\* psNextKM of queue 1 is NULL.
Queues == 1..NQueues

ASSUME ConstantsAssumption ==
  /\ NQueues \in Nat \ {0}
  /\ CounterMod \in Nat \ {0}
  /\ MaxOps \in Nat
  /\ MaxOutstanding \in Nat
  /\ QueueRoom \in Nat
  /\ SystemBuffer \in Syncs
  /\ None \notin Syncs
  /\ ChainBuffers \in [Queues -> SUBSET Syncs]
  /\ \A k \in Kicks : k.rd \in SUBSET Syncs /\ k.wr \in SUBSET Syncs
  /\ \A t \in Transfers : t.rd \in SUBSET Syncs /\ t.wr \in SUBSET Syncs
  /\ GPUFails \in BOOLEAN /\ ClipRects \in BOOLEAN
  /\ Recovery \subseteq {"debugfs", "locked"}

\* SGXDoKickKM copies the counters of the destination after it has announced
\* the reads: a kick that reads what it writes would wait for itself.  The
\* clients never ask for one.
ASSUME KickAssumption == \A k \in Kicks : k.rd \cap k.wr = {}

\* A counter comes round only after 2^32 operations, and there is never room
\* for that many unfinished ones.
ASSUME CounterAssumption == MaxOutstanding < CounterMod

\* SYNCOPS_STALE orders the counters with >= and is right only before one of
\* them has come round.
ASSUME StaleAssumption == Recovery # {} => MaxOps < CounterMod

VARIABLES
  WriteOpsPending,   (* [Syncs -> Nat]; the code sees u32 of these four    *)
  ReadOpsPending,
  WriteOpsComplete,
  ReadOpsComplete,
  issued,            (* number of operations issued                        *)
  stat,              (* where each operation is                            *)
  rd, wr,            (* surfaces it reads (src syncs) and writes (dst)     *)
  tw, tr,            (* its ticket: pending writes and reads at issue      *)
  clip,              (* does the flip command carry clip rectangles?       *)
  queue,             (* [Queues -> Seq(Ops)]: submitted, not yet processed *)
  psLastFlipBuffer,  (* [Queues -> Syncs \cup {None}]                      *)
  walk,              (* psQueue of PVRSRVProcessQueues; 0: it is not running *)
  bFlush,            (* ... and its argument                               *)
  devLocked,         (* ... and does its caller hold pvr_dev_lock?         *)
  blocked,           (* ... and does it wait for pvr_dev_lock for ever?    *)
  pvr_disabled,
  misr,              (* is sMISRWork queued?                               *)
  gpuKick            (* has the microkernel been told to look for work?    *)

syncVars == <<WriteOpsPending, ReadOpsPending, WriteOpsComplete, ReadOpsComplete>>
opVars == <<issued, stat, rd, wr, tw, tr, clip>>
lockVars == <<devLocked, blocked, pvr_disabled>>
hostVars == <<queue, psLastFlipBuffer, walk, bFlush, lockVars, misr>>
vars == <<syncVars, opVars, hostVars, gpuKick>>

u32(x) == x % CounterMod

Inc(f, S) == [s \in Syncs |-> IF s \in S THEN f[s] + 1 ELSE f[s]]

Uses(o) == rd[o] \cup wr[o]

Outstanding(s) ==
  (WriteOpsPending[s] - WriteOpsComplete[s]) + (ReadOpsPending[s] - ReadOpsComplete[s])

\* pvr_lock is free and the driver accepts ioctls.
Unlocked == walk = 0 /\ ~pvr_disabled

-----------------------------------------------------------------------------
(***************************************************************************)
(* Issuing an operation.                                                   *)
(***************************************************************************)

\* Faulty variant: the reads are not announced.
TakeTicketReadsUnannounced(R, W, where, withClip) ==
  LET o == issued + 1
  IN  /\ issued < MaxOps
      /\ issued' = o
      /\ stat' = [stat EXCEPT ![o] = where]
      /\ rd' = [rd EXCEPT ![o] = R]
      /\ wr' = [wr EXCEPT ![o] = W]
      /\ tw' = [tw EXCEPT ![o] = WriteOpsPending]
      /\ tr' = [tr EXCEPT ![o] = ReadOpsPending]
      /\ clip' = [clip EXCEPT ![o] = withClip]
      /\ WriteOpsPending' = Inc(WriteOpsPending, W)
      /\ UNCHANGED <<ReadOpsPending, WriteOpsComplete, ReadOpsComplete>>
      /\ \A s \in R \cup W : Outstanding(s)' <= MaxOutstanding

\* The next operation reads R and writes W: it copies the pending counters
\* (PVRSRVGetWriteOpsPending, PVRSRVGetReadOpsPending and the same statements
\* in the two kick functions) and announces itself in them.
TakeTicket(R, W, where, withClip) ==
  LET o == issued + 1
  IN  /\ issued < MaxOps
      /\ issued' = o
      /\ stat' = [stat EXCEPT ![o] = where]
      /\ rd' = [rd EXCEPT ![o] = R]
      /\ wr' = [wr EXCEPT ![o] = W]
      /\ tw' = [tw EXCEPT ![o] = WriteOpsPending]
      /\ tr' = [tr EXCEPT ![o] = ReadOpsPending]
      /\ clip' = [clip EXCEPT ![o] = withClip]
      /\ WriteOpsPending' = Inc(WriteOpsPending, W)
      /\ ReadOpsPending' = Inc(ReadOpsPending, R)
      /\ UNCHANGED <<WriteOpsComplete, ReadOpsComplete>>
      /\ \A s \in R \cup W : Outstanding(s)' <= MaxOutstanding

\* PVRSRVInsertCommandKM and PVRSRVSubmitCommandKM of a flip to buffer b on
\* queue q, then the call of PVRSRVProcessQueues(IMG_FALSE).  The flip reads
\* the new buffer and the one it replaces.  A full queue makes the ioctl fail
\* after its wait, which cannot end early: only PVRSRVProcessQueues makes room
\* and it needs pvr_lock, so that case changes nothing and is not a step.
Flip(q, b, withClip) ==
  LET last == psLastFlipBuffer[q]
      R == IF last = None THEN {b} ELSE {b, last}
  IN  /\ Unlocked
      /\ Len(queue[q]) < QueueRoom
      /\ TakeTicket(R, {}, "queued", withClip)
      /\ queue' = [queue EXCEPT ![q] = Append(@, issued + 1)]
      /\ psLastFlipBuffer' = [psLastFlipBuffer EXCEPT ![q] = b]
      /\ walk' = NQueues
      /\ bFlush' = FALSE
      /\ UNCHANGED <<lockVars, misr, gpuKick>>

PVRSRVSwapToDCBuffer(q) ==
  \E b \in ChainBuffers[q], c \in {FALSE, ClipRects} : Flip(q, b, c)

PVRSRVSwapToDCSystem(q) == Flip(q, SystemBuffer, FALSE)

\* A kick announces its operation first and then asks for a slot of the kernel
\* CCB.  If that fails (power-up failed, CCB full) the announcement stays: the
\* rollback is only for PVRSRV_ERROR_RETRY, which no callee returns here.
Kick(R, W) ==
  /\ Unlocked
  /\ \/ /\ TakeTicket(R, W, "gpu", FALSE)
        /\ gpuKick' = TRUE
     \/ /\ GPUFails
        /\ TakeTicket(R, W, "lost", FALSE)
        /\ UNCHANGED gpuKick
  /\ UNCHANGED hostVars

SGXDoKick == \E k \in Kicks : Kick(k.rd, k.wr)

SGXSubmitTransfer == \E t \in Transfers : Kick(t.rd, t.wr)

-----------------------------------------------------------------------------
(***************************************************************************)
(* Carrying out an operation.                                              *)
(***************************************************************************)

\* Faulty variant: a reader or writer does not wait for the readers before it.
SyncReadyWritesOnly(o, s) == u32(WriteOpsComplete[s]) = u32(tw[o][s])

SyncReady(o, s) ==
  /\ u32(WriteOpsComplete[s]) = u32(tw[o][s])
  /\ u32(ReadOpsComplete[s]) = u32(tr[o][s])

\* Faulty variant: a flush looks only at the writes.
SYNCOPS_STALEWritesOnly(o, s) == u32(WriteOpsComplete[s]) >= u32(tw[o][s])

SYNCOPS_STALE(o, s) ==
  /\ u32(WriteOpsComplete[s]) >= u32(tw[o][s])
  /\ u32(ReadOpsComplete[s]) >= u32(tr[o][s])

Ready(o) == \A s \in Uses(o) : SyncReady(o, s)

\* The dependency check at the head of PVRSRVProcessCommand.
DependenciesMet(o) ==
  \A s \in Uses(o) : SyncReady(o, s) \/ (bFlush /\ SYNCOPS_STALE(o, s))

\* Faulty variant: the end of the reads is not counted.
CompleteWritesOnly(o) ==
  /\ WriteOpsComplete' = Inc(WriteOpsComplete, wr[o])
  /\ stat' = [stat EXCEPT ![o] = "done"]
  /\ UNCHANGED <<WriteOpsPending, ReadOpsPending, ReadOpsComplete, issued, rd, wr, tw, tr, clip>>

Complete(o) ==
  /\ WriteOpsComplete' = Inc(WriteOpsComplete, wr[o])
  /\ ReadOpsComplete' = Inc(ReadOpsComplete, rd[o])
  /\ stat' = [stat EXCEPT ![o] = "done"]
  /\ UNCHANGED <<WriteOpsPending, ReadOpsPending, issued, rd, wr, tw, tr, clip>>

\* Faulty variant: nobody tells the microkernel.
WakeGPUForgotten == UNCHANGED gpuKick

\* PVRSRVCommandCompleteKM calls SGXCommandComplete, which asks the microkernel
\* to look at its queues again.  Nobody repeats the request if it fails.
WakeGPU ==
  \/ gpuKick' = TRUE
  \/ GPUFails /\ UNCHANGED gpuKick

\* The display driver pans to the new buffer and completes the command.  It
\* refuses one whose ui32DataSize clip rectangles have made larger than it expects.
ProcessFlip(o) == ~clip[o] /\ Complete(o)

\* PVRSRVProcessCommand succeeds.  On the way the completion callback,
\* SGXScheduleProcessQueuesKM, takes pvr_dev_lock, which is not recursive: if the
\* caller holds it already, nothing after the completion happens and pvr_lock
\* stays taken.  Otherwise the MISR is scheduled, the command leaves its queue
\* and, unless it is flushing, PVRSRVProcessQueues goes on to the next queue.
ProcessHead(q) ==
  /\ queue[q] # <<>>
  /\ DependenciesMet(Head(queue[q]))
  /\ ProcessFlip(Head(queue[q]))
  /\ \/ /\ devLocked
        /\ blocked' = TRUE
        /\ UNCHANGED <<queue, misr, walk, gpuKick>>
     \/ /\ ~devLocked
        /\ WakeGPU
        /\ queue' = [queue EXCEPT ![q] = Tail(@)]
        /\ misr' = TRUE
        /\ walk' = IF bFlush THEN walk ELSE walk - 1
        /\ UNCHANGED blocked
  /\ UNCHANGED <<psLastFlipBuffer, bFlush, devLocked, pvr_disabled>>

\* The queue is empty, its first command has to wait, or ProcessFlip refuses
\* the command, which stays where it is.  A recovery that has visited the last
\* queue releases pvr_dev_lock.
LeaveQueue(q) ==
  /\ \/ queue[q] = <<>>
     \/ /\ queue[q] # <<>>
        /\ ~DependenciesMet(Head(queue[q])) \/ clip[Head(queue[q])]
  /\ walk' = walk - 1
  /\ devLocked' = (devLocked /\ walk # 1)
  /\ UNCHANGED <<syncVars, opVars, queue, psLastFlipBuffer, bFlush, blocked, pvr_disabled, misr, gpuKick>>

PVRSRVProcessQueues ==
  /\ walk # 0
  /\ ~blocked
  /\ ProcessHead(walk) \/ LeaveQueue(walk)

\* Faulty variant: the MISR flushes.
PVRSRVMISRFlushes ==
  /\ Unlocked
  /\ misr
  /\ misr' = FALSE
  /\ walk' = NQueues
  /\ bFlush' = TRUE
  /\ UNCHANGED <<syncVars, opVars, queue, psLastFlipBuffer, lockVars, gpuKick>>

\* The work item of the "sgx_misr" work queue, which returns at once when the
\* driver is disabled.
PVRSRVMISR ==
  /\ walk = 0
  /\ misr
  /\ misr' = FALSE
  /\ \/ /\ ~pvr_disabled
        /\ walk' = NQueues
        /\ bFlush' = FALSE
     \/ /\ pvr_disabled
        /\ UNCHANGED <<walk, bFlush>>
  /\ UNCHANGED <<syncVars, opVars, queue, psLastFlipBuffer, lockVars, gpuKick>>

\* The recovery restarts the GPU, asks it to look at its queues and ends with
\* PVRSRVProcessQueues(IMG_TRUE); it disables the driver if the GPU does not come
\* up.  The callers SGXOSTimer and SGX_MISRHandler hold pvr_dev_lock ("locked"),
\* pvr_debugfs_reset does not.
HWRecoveryResetSGX ==
  /\ Unlocked
  /\ \E caller \in Recovery :
       \/ /\ GPUFails
          /\ pvr_disabled' = TRUE
          /\ UNCHANGED <<walk, bFlush, devLocked, gpuKick>>
       \/ /\ WakeGPU
          /\ walk' = NQueues
          /\ bFlush' = TRUE
          /\ devLocked' = (caller = "locked")
          /\ UNCHANGED pvr_disabled
  /\ UNCHANGED <<syncVars, opVars, queue, psLastFlipBuffer, blocked, misr>>

\* The microkernel runs a command whose dependencies hold, updates the complete
\* counters in memory and raises an interrupt, whose handler queues the MISR.
GPUExecute(o) ==
  /\ gpuKick
  /\ stat[o] = "gpu"
  /\ Ready(o)
  /\ Complete(o)
  /\ misr' = TRUE
  /\ UNCHANGED <<queue, psLastFlipBuffer, walk, bFlush, lockVars, gpuKick>>

\* It sleeps when no command can run; only an event kick wakes it.
GPUIdle ==
  /\ gpuKick
  /\ \A o \in Ops : stat[o] = "gpu" => ~Ready(o)
  /\ gpuKick' = FALSE
  /\ UNCHANGED <<syncVars, opVars, hostVars>>

GPU == GPUIdle \/ \E o \in Ops : GPUExecute(o)

-----------------------------------------------------------------------------
Init ==
  /\ WriteOpsPending = [s \in Syncs |-> 0]
  /\ ReadOpsPending = [s \in Syncs |-> 0]
  /\ WriteOpsComplete = [s \in Syncs |-> 0]
  /\ ReadOpsComplete = [s \in Syncs |-> 0]
  /\ issued = 0
  /\ stat = [o \in Ops |-> "none"]
  /\ rd = [o \in Ops |-> {}]
  /\ wr = [o \in Ops |-> {}]
  /\ tw = [o \in Ops |-> [s \in Syncs |-> 0]]
  /\ tr = [o \in Ops |-> [s \in Syncs |-> 0]]
  /\ clip = [o \in Ops |-> FALSE]
  /\ queue = [q \in Queues |-> <<>>]
  /\ psLastFlipBuffer = [q \in Queues |-> None]
  /\ walk = 0
  /\ bFlush = FALSE
  /\ devLocked = FALSE
  /\ blocked = FALSE
  /\ pvr_disabled = FALSE
  /\ misr = FALSE
  /\ gpuKick = FALSE

Next ==
  \/ \E q \in Queues : PVRSRVSwapToDCBuffer(q) \/ PVRSRVSwapToDCSystem(q)
  \/ SGXDoKick
  \/ SGXSubmitTransfer
  \/ PVRSRVProcessQueues
  \/ PVRSRVMISR
  \/ HWRecoveryResetSGX
  \/ GPU

Spec == Init /\ [][Next]_vars

\* PVRSRVProcessQueues runs to its end, a queued work item is run, and the
\* microkernel serves the work it can do.  Clients owe nothing.
Fairness ==
  /\ WF_vars(PVRSRVProcessQueues)
  /\ WF_vars(PVRSRVMISR)
  /\ WF_vars(GPU)

FairSpec == Spec /\ Fairness

-----------------------------------------------------------------------------
(***************************************************************************)
(* Properties.                                                             *)
(***************************************************************************)

\* The variables keep their types, and only a flush has bFlush set.
TypeOK ==
  /\ WriteOpsPending \in [Syncs -> Nat]
  /\ ReadOpsPending \in [Syncs -> Nat]
  /\ WriteOpsComplete \in [Syncs -> Nat]
  /\ ReadOpsComplete \in [Syncs -> Nat]
  /\ issued \in 0..MaxOps
  /\ stat \in [Ops -> {"none", "queued", "gpu", "lost", "done"}]
  /\ rd \in [Ops -> SUBSET Syncs]
  /\ wr \in [Ops -> SUBSET Syncs]
  /\ tw \in [Ops -> [Syncs -> Nat]]
  /\ tr \in [Ops -> [Syncs -> Nat]]
  /\ clip \in [Ops -> BOOLEAN]
  /\ queue \in [Queues -> Seq(Ops)]
  /\ psLastFlipBuffer \in [Queues -> Syncs \cup {None}]
  /\ walk \in 0..NQueues
  /\ bFlush \in BOOLEAN
  /\ devLocked \in BOOLEAN
  /\ blocked \in BOOLEAN
  /\ pvr_disabled \in BOOLEAN
  /\ bFlush => Recovery # {}
  /\ misr \in BOOLEAN
  /\ gpuKick \in BOOLEAN

\* Two operations that use the same surface are carried out in the order in
\* which they were issued, whichever queue or engine each of them is on: the
\* comparison of both complete counters with the ticket in PVRSRVProcessCommand
\* is enough, although the u32 counters come round, and although a flush also
\* accepts stale counters.
InIssueOrder ==
  \A o \in 1..issued : \A e \in 1..(o - 1) :
    Uses(e) \cap Uses(o) # {} /\ stat[o] = "done" => stat[e] = "done"

\* The distance of a pending counter from its complete counter is the number
\* of announced operations that are not over: no completion is missed or
\* counted twice between PVRSRVInsertCommandKM, PVRSRVCommandCompleteKM and
\* the kicks.
SyncAccounting ==
  \A s \in Syncs :
    /\ WriteOpsPending[s] - WriteOpsComplete[s]
         = Cardinality({o \in 1..issued : s \in wr[o] /\ stat[o] # "done"})
    /\ ReadOpsPending[s] - ReadOpsComplete[s]
         = Cardinality({o \in 1..issued : s \in rd[o] /\ stat[o] # "done"})

\* Once the dependencies of an operation hold they hold until it is carried
\* out: nothing that happens between the check in PVRSRVProcessCommand and the
\* completion, or between two visits, can take the operation's turn away.
TurnIsKept ==
  [][\A o \in 1..issued :
       stat[o] # "done" /\ Ready(o) => stat'[o] = "done" \/ Ready(o)']_vars

\* The operations form the in-order history that BufferAccess promises.
Access == INSTANCE BufferAccess WITH
  uses <- [o \in Ops |-> Uses(o)],
  done <- {o \in Ops : stat[o] = "done"}

ImplementsBufferAccess == Access!Spec

\* Every flip and every kick that was accepted is carried out: flips waiting
\* for renders and renders waiting for flips never wait for each other in a
\* circle, and no wake-up between PVRSRVProcessQueues, the MISR and the
\* microkernel is lost.  (Assuming that no kick fails and that no clip
\* rectangles are passed.)
EveryOperationCompletes ==
  \A o \in Ops : stat[o] \in {"queued", "gpu"} ~> stat[o] = "done"

\* PVRSRVProcessQueues comes to its end and pvr_lock is released, also when a
\* hardware recovery calls it: HWRecoveryResetSGX asks its callers to hold
\* pvr_lock and nothing else, and gives the driver up only when the GPU does not
\* restart.
ProcessQueuesReturns == walk # 0 ~> walk = 0
=============================================================================
