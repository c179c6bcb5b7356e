CONSTANTS
  Configs <- MCConfigs
  URING_NUM_BUFFERS = 2
  MaxDisturbances = 1
  Mounts <- MCMounts
  MaxSignals = 2
SPECIFICATION FairSpec
CHECK_DEADLOCK FALSE
INVARIANTS
  TypeOK
  OutputInOrder
  SuccessIsComplete
  InfoSignalsCounted
  GuardedTargetKept
  PlanIsTrue
PROPERTIES
  Terminates
