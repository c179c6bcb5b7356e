CONSTANT
  Configs <- CancelConfigs
SPECIFICATION FairSpec
\* The deadlock is reported as the violated property.
CHECK_DEADLOCK FALSE
PROPERTY
  CancelCompletes
