\* A hardware recovery from the timer or the MISR, with pvr_dev_lock held.
CONSTANTS
  sys = sys
  front = front
  back = back
  tex = tex
  None = None
  Syncs <- MCSyncs
  NQueues = 2
  ChainBuffers <- MCChainBuffers
  SystemBuffer = sys
  Kicks <- MCKicks
  Transfers <- MCTransfers
  CounterMod = 5
  MaxOps = 2
  MaxOutstanding = 3
  QueueRoom = 2
  GPUFails = FALSE
  ClipRects = FALSE
  Recovery = {"locked"}
SPECIFICATION FairSpec
PROPERTY ProcessQueuesReturns
CHECK_DEADLOCK FALSE
