SPECIFICATION FairSpec
CONSTANTS
  ue1 = ue1
  ue2 = ue2
  UEs = {ue1, ue2}
  Core = core
  Files <- AllFiles
  TrafficConfig <- load_yaml
  IsRejected <- Rejects
  Patterns <- AllPatterns
  Depth <- DepthOf
  Modes <- AllModes
  MaxInt = 31
  MaxWeight = 2
  PipeLines = 1
  SockBuffer = 1
  MaxInterrupts = 2
  Together = TRUE
INVARIANTS
  TypeOK
  PlanIsAsConfigured
  PeriodicIsExact
  CleanShutdown
  ReportsAreOwn
PROPERTIES
  GenerationEnds
  StepsEnd
  DownlinkIsReceived
CHECK_DEADLOCK FALSE
