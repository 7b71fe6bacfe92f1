\* Nothing fails but the GPU, which may lock up once instead of a suspend or a reset;
\* a work item whose timer has expired is taken back, and no other thread is in the
\* driver during a suspend or resume.
CONSTANTS
  MaxJobs = 2
  MaxEvents = 1
  CCBSize = 8
  Fails = {}
  Hangs = TRUE
  CancelQueued = TRUE
  PMRaces = FALSE
SPECIFICATION FairSpec
 
PROPERTY JobsComplete 
CHECK_DEADLOCK FALSE
