\* Hardware recovery flushes the queues, the GPU fails, and flips carry clip
\* rectangles that the display driver refuses.
CONSTANTS
  sys = sys
  front = front
  back = back
  tex = tex
  None = None
  Syncs <- MCSyncs
  NQueues = 2
  ChainBuffers <- MCChainBuffers
  SystemBuffer = sys
  Kicks <- MCKicks
  Transfers <- MCTransfers
  CounterMod = 5
  MaxOps = 4
  MaxOutstanding = 3
  QueueRoom = 2
  GPUFails = TRUE
  ClipRects = TRUE
  Recovery = {"debugfs", "locked"}
SPECIFICATION Spec
PROPERTIES TurnIsKept ImplementsBufferAccess
CHECK_DEADLOCK FALSE
