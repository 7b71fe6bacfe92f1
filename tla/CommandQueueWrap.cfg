\* u32 counters that come round after three operations; nothing fails.
CONSTANTS
  sys = sys
  front = front
  back = back
  tex = tex
  None = None
  Syncs <- MCSyncs
  NQueues = 2
  ChainBuffers <- MCChainBuffers
  SystemBuffer = sys
  Kicks <- MCKicks
  Transfers <- MCTransfers
  CounterMod = 3
  MaxOps = 4
  MaxOutstanding = 2
  QueueRoom = 2
  GPUFails = FALSE
  ClipRects = FALSE
  Recovery = {}
SPECIFICATION FairSpec
PROPERTY EveryOperationCompletes
INVARIANTS TypeOK InIssueOrder SyncAccounting
CHECK_DEADLOCK FALSE
