CONSTANTS
  Configs <- UnreadableConfigs
  autotune_stages <- Stages
  INTMAX_MAX = 1000
SPECIFICATION FairSpec
PROPERTIES
  ErrorsAreSkipped
