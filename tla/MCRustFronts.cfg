CONSTANTS
  Jobs <- MCJobs
  TuiJobs <- MCTuiJobs
  CHUNK_SIZE = 2
  Disks <- MCDisks
  Typed <- MCTyped
  MaxChanges = 1
  MaxJobs = 2
SPECIFICATION FairSpec
CHECK_DEADLOCK FALSE
INVARIANTS
  TypeOK
  OutcomeIsTrue
  JobsAccounted
  NoUnconfirmedWrite
PROPERTIES
  CancelEnds
