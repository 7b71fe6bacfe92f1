------------------------------ MODULE CmdRing ------------------------------
(***************************************************************************)
(* The memory of one command queue of queue.c.  Commands of different      *)
(* sizes lie one behind the other in a buffer of ui32QueueSize bytes, a    *)
(* power of two; the two offsets wrap round, the commands do not: one that *)
(* starts near the end runs on into PVRSRV_MAX_CMD_SIZE spare bytes.       *)
(*                                                                         *)
(* All of this happens under pvr_lock, so the insertion, the filling in    *)
(* and the submission of a command are one step.  CommandQueue abstracts   *)
(* this module to a sequence of at most QueueRoom commands.                *)
(***************************************************************************)
EXTENDS Integers

CONSTANTS
  RequestedSizes,       (* arguments of PVRSRVCreateCommandQueueKM         *)
  PVRSRV_MAX_CMD_SIZE,
  CommandHeader,        (* sizeof(struct PVRSRV_COMMAND)                   *)
  SyncObject,           (* sizeof(struct PVRSRV_SYNC_OBJECT)               *)
  SyncCounts,           (* ui32DstSyncCount + ui32SrcSyncCount             *)
  DataSizes,            (* ui32DataByteSize of the commands                *)
  MaxCmds               (* bound: commands inserted in a behaviour         *)

ASSUME RingAssumption ==
  /\ RequestedSizes \subseteq Nat \ {0}
  /\ PVRSRV_MAX_CMD_SIZE \in Nat
  /\ CommandHeader \in Nat \ {0}
  /\ SyncObject \in Nat
  /\ SyncCounts \subseteq Nat
  /\ DataSizes \subseteq Nat
  /\ MaxCmds \in Nat

Cmds == 1..MaxCmds

VARIABLES
  ui32QueueSize,
  ui32ReadOffset,
  ui32WriteOffset,
  owner,      (* owner[a]: the command that last wrote byte a of the buffer *)
  size,       (* ui32CmdSize of each command                                *)
  inserted,   (* commands inserted so far                                   *)
  processed,  (* commands taken out so far                                  *)
  requested,  (* the size the creator of the queue asked for                *)
  pos         (* pos[c]: bytes inserted before command c; not in the code   *)

ringVars == <<ui32QueueSize, ui32ReadOffset, ui32WriteOffset, owner, size,
              inserted, processed, requested, pos>>

\* The loop of NearestPower2: doubles once for every significant bit.
Doubled[n \in Nat] == IF n = 0 THEN 1 ELSE 2 * Doubled[n \div 2]

\* Faulty variant: forgets to subtract one, and doubles a power of two.
NearestPower2Above(v) == IF v = 0 THEN 0 ELSE Doubled[v]

NearestPower2(v) == IF v = 0 THEN 0 ELSE Doubled[v - 1]

\* & (ui32QueueSize - 1).
Wrap(x) == x % ui32QueueSize

\* (x + 3) & 0xFFFFFFFC.
Align4(x) == ((x + 3) \div 4) * 4

GET_SPACE_IN_CMDQ == Wrap((ui32ReadOffset - ui32WriteOffset) + (ui32QueueSize - 1))

CommandSize(syncs, data) == CommandHeader + syncs * SyncObject + Align4(data)

Bytes(start, n) == start..(start + n - 1)

\* PVRSRVGetQueueSpaceKM succeeds.  It waits for space, but only
\* PVRSRVProcessQueues frees any and it needs the lock the caller holds: the
\* space of the first look is what decides.
Fits(n) ==
  /\ Align4(n) <= PVRSRV_MAX_CMD_SIZE
  /\ GET_SPACE_IN_CMDQ > Align4(n)

\* Faulty variant: the write offset moves by the size without the header.
UPDATE_QUEUE_WOFF_Short(n) == ui32WriteOffset' = Wrap(ui32WriteOffset + n - CommandHeader)

UPDATE_QUEUE_WOFF(n) == ui32WriteOffset' = Wrap(ui32WriteOffset + n)

\* PVRSRVInsertCommandKM, the filling in by its caller, PVRSRVSubmitCommandKM.
PVRSRVInsertCommand(syncs, data) ==
  LET c == inserted + 1
      n == CommandSize(syncs, data)
  IN  /\ inserted < MaxCmds
      /\ Fits(n)
      /\ inserted' = c
      /\ size' = [size EXCEPT ![c] = n]
      /\ pos' = [pos EXCEPT ![c] = IF inserted = 0 THEN 0 ELSE pos[inserted] + size[inserted]]
      /\ owner' = [a \in DOMAIN owner \cup Bytes(ui32WriteOffset, n) |->
                     IF a \in Bytes(ui32WriteOffset, n) THEN c ELSE owner[a]]
      /\ UPDATE_QUEUE_WOFF(n)
      /\ UNCHANGED <<ui32QueueSize, ui32ReadOffset, processed, requested>>

\* PVRSRVProcessQueues takes the command at the read offset, as it finds it
\* there.
ProcessCommand ==
  /\ ui32ReadOffset # ui32WriteOffset
  /\ ui32ReadOffset' = Wrap(ui32ReadOffset + size[owner[ui32ReadOffset]])
  /\ processed' = processed + 1
  /\ UNCHANGED <<ui32QueueSize, ui32WriteOffset, owner, size, inserted, requested, pos>>

\* PVRSRVCreateCommandQueueKM.
Init ==
  /\ requested \in RequestedSizes
  /\ ui32QueueSize = NearestPower2(requested)
  /\ ui32ReadOffset = 0
  /\ ui32WriteOffset = 0
  /\ owner = [a \in 0..(ui32QueueSize + PVRSRV_MAX_CMD_SIZE - 1) |-> 0]
  /\ size = [c \in Cmds |-> 0]
  /\ pos = [c \in Cmds |-> 0]
  /\ inserted = 0
  /\ processed = 0

Next ==
  \/ \E syncs \in SyncCounts, data \in DataSizes : PVRSRVInsertCommand(syncs, data)
  \/ ProcessCommand

Spec == Init /\ [][Next]_ringVars

-----------------------------------------------------------------------------
(***************************************************************************)
(* Properties.                                                             *)
(***************************************************************************)

Live == (processed + 1)..inserted

\* The variables keep their types; no command is written past the end of the
\* memory that was allocated for the queue.
TypeOK ==
  /\ ui32QueueSize \in Nat \ {0}
  /\ ui32ReadOffset \in 0..(ui32QueueSize - 1)
  /\ ui32WriteOffset \in 0..(ui32QueueSize - 1)
  /\ owner \in [0..(ui32QueueSize + PVRSRV_MAX_CMD_SIZE - 1) -> 0..MaxCmds]
  /\ size \in [Cmds -> Nat]
  /\ pos \in [Cmds -> Nat]
  /\ inserted \in 0..MaxCmds
  /\ processed \in 0..inserted
  /\ requested \in RequestedSizes

\* NearestPower2 computes the smallest power of two that is large enough, as
\* the offset arithmetic with & (ui32QueueSize - 1) requires; with it the offsets
\* stay in the ring.
RingWellFormed ==
  /\ TypeOK
  /\ \E k \in 0..requested : ui32QueueSize = 2^k
  /\ ui32QueueSize >= requested
  /\ ui32QueueSize < 2 * requested

\* No insertion overwrites a byte of a command that has not been processed,
\* although the commands in the spare bytes are not where the offsets, which
\* have wrapped, seem to say.
CommandsIntact ==
  \A c \in Live : \A a \in Bytes(Wrap(pos[c]), size[c]) : owner[a] = c

\* PVRSRVProcessQueues finds the oldest command at the read offset, and sees
\* equal offsets exactly when there is no command: a full queue never looks
\* empty.
OldestAtReadOffset ==
  IF ui32ReadOffset = ui32WriteOffset THEN Live = {}
  ELSE owner[ui32ReadOffset] = processed + 1

\* Commands go through the ring unharmed and in order: what is inserted is what
\* PVRSRVProcessQueues finds, wherever the offsets wrapped.
RingIntact == CommandsIntact /\ OldestAtReadOffset
=============================================================================
