CONSTANTS
  Workers = {w1, w2}
  Configs <- SmallConfigs
  URING_DEFAULT_CHUNK_SIZE = 64
SPECIFICATION Spec
INVARIANT
  ErrorReported
