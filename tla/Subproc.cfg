SPECIFICATION FairSpec
CONSTANTS
  gnb = gnb
  xapp = xapp
  Names = {gnb, xapp}
  Programs = {gnb, xapp}
  UseStateChecking = {gnb}
  Launchable = {gnb, xapp}
  DependsOn <- ChainDependsOn
  DependsOnInit <- ChainDependsOnInit
  MaxRestarts <- ChainMaxRestarts
INVARIANTS
  TypeOK
  RecordIsEarned
  RestartsBounded
  OnlyRestartedSurvive
  IndInv
PROPERTIES
  NoRestartOnceRunning
  ImplementsStartupOrder
  ReadyIsLaunched
  RunningOrExhausted
  ShutdownCompletes
\* The system stops for good once it has been shut down.
CHECK_DEADLOCK FALSE
