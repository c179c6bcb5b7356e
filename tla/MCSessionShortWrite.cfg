CONSTANTS
  Configs <- PipedConfigs
  URING_NUM_BUFFERS = 2
  MaxDisturbances = 1
  Mounts <- MCMounts
  MaxSignals = 0
SPECIFICATION Spec
CHECK_DEADLOCK FALSE
INVARIANT
  NothingLost
