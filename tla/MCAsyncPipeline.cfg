CONSTANT
  Configs <- MCConfigs
SPECIFICATION FairSpec
\* A cancelled transfer really may stop for ever: see MCPipelineCancel.cfg.
CHECK_DEADLOCK FALSE
INVARIANTS
  TypeOK
  ChannelsSound
  OutputSound
  OkIsComplete
  ReadAheadBounded
PROPERTIES
  Terminates
  CancelStopsWriting
  ImplementsStreamCopy
