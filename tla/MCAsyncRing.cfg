CONSTANTS
  Configs <- MCConfigs
  ASYNC_MIN_CAPACITY = 4
  ASYNC_MAX_CAPACITY = 128
  ASYNC_TARGET_BUFFER_BYTES = 8
SPECIFICATION FairSpec
INVARIANTS
  TypeOK
  SlotExclusive
  OutputSound
  SuccessIsTrue
PROPERTIES
  Terminates
  ImplementsStreamCopy
