CONSTANTS
  Transfers <- MCTransfers
  CHUNK_SIZE = 2
  SUBTREE_CHUNKS = 2
  STRIPE = 4
  MaxThreads = 3
SPECIFICATION FairSpec
CHECK_DEADLOCK FALSE
INVARIANTS
  TypeOK
  OkIsPrefix
  DigestIsCanonical
PROPERTIES
  Terminates
  ImplementsScatteredCopy
