SPECIFICATION Spec
CONSTANTS
  Procs = {p1, p2}
  Mems <- MCMems
  Addrs = {a1}
  Requests <- MCRequests
  Loads <- MCLoads
SYMMETRY Symmetry
INVARIANTS   SyncsOwned
PROPERTY CleanDeath
CHECK_DEADLOCK FALSE
