SPECIFICATION Spec
\* An array of at most 4 entries that grows in blocks of 3, so the last block is
\* cut; batches of 1 and 2.
CONSTANTS
  Data = {d1, d2}
  DevCookie = cookie
  Types = {"MEM_INFO"}
  HANDLE_BLOCK_SIZE = 3
  MaxHandle = 4
  BatchSizes = {1, 2}
  MaxFailures = 1
  Bases = {"process", "kernel"}
INVARIANTS
  DatabaseExact
  BatchAllOrNothing
PROPERTIES
  HandlesKeepTheirObject
SYMMETRY DataSymmetry
