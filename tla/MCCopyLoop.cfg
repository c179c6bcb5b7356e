CONSTANTS
  Configs <- MCConfigs
  autotune_stages <- Stages
  INTMAX_MAX = 1000
SPECIFICATION FairSpec
INVARIANTS
  TypeOK
  OutputSound
  SuccessIsTrue
PROPERTIES
  Terminates
