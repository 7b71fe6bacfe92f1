\* Everything that can fail does, the GPU locks up, and a work item whose timer
\* has expired cannot be taken back.
CONSTANTS
  MaxJobs = 2
  MaxEvents = 2
  CCBSize = 3
  Fails = {"clocks", "init", "deinit", "recover"}
  Hangs = TRUE
  CancelQueued = FALSE
  PMRaces = FALSE
SPECIFICATION Spec
INVARIANTS TypeOK 
CHECK_DEADLOCK FALSE
