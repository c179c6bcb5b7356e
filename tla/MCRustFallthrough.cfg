CONSTANTS
  Jobs <- SpliceJobs
  TuiJobs = {}
  CHUNK_SIZE = 2
  Disks <- MCDisks
  Typed <- MCTyped
  MaxChanges = 0
  MaxJobs = 1
SPECIFICATION Spec
CHECK_DEADLOCK FALSE
INVARIANT OkIsCopy
