SPECIFICATION FairSpec
CONSTANTS
  ue1 = ue1
  ue2 = ue2
  UEs = {ue1, ue2}
  Core = core
  Files <- OneFile
  TrafficConfig <- load_yaml
  IsRejected <- Rejects
  Patterns <- AllPatterns
  Depth <- DepthOf
  Modes <- Uplink
  MaxInt = 31
  MaxWeight = 2
  PipeLines = 1
  SockBuffer = 1
  MaxInterrupts = 0
  Together = TRUE
PROPERTIES
  UplinkIsReceived
CHECK_DEADLOCK FALSE
