SPECIFICATION FairSpec
CONSTANTS
  core = core
  gnb = gnb
  Names = {gnb}
  Programs = {gnb}
  UseStateChecking = {gnb}
  PanesPerSession = 2
  ProgramNr <- SingleNr
  DependsOn <- NoDependencies
  DependsOnInit <- NoDependencies
  MaxRestarts <- RestartTwice
PROPERTIES
  ReadyIsLaunched
  RunningOrExhausted
  ShutdownEndsThreads
\* The system stops for good once it has been shut down.
CHECK_DEADLOCK FALSE
