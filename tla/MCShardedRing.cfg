CONSTANTS
  Workers = {w1, w2}
  Configs <- MCConfigs
  URING_DEFAULT_CHUNK_SIZE = 64
SPECIFICATION FairSpec
INVARIANTS
  TypeOK
  OutputAccounted
  OutcomeIsTrue
PROPERTIES
  Terminates
  ImplementsScatteredCopy
