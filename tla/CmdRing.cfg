\* Queues of 16 and 32 bytes; commands of 8, 12 and 16 bytes and larger ones that
\* are refused, so that every position of the write offset and every overhang occurs.
CONSTANTS
  RequestedSizes = {13, 16, 17, 32}
  PVRSRV_MAX_CMD_SIZE = 16
  CommandHeader = 4
  SyncObject = 4
  SyncCounts = {0, 1, 2}
  DataSizes = {1, 4, 6, 12}
  MaxCmds = 7
SPECIFICATION Spec
INVARIANTS RingWellFormed RingIntact
CHECK_DEADLOCK FALSE
