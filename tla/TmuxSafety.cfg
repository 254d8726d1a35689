SPECIFICATION Spec
CONSTANTS
  core = core
  gnb = gnb
  Names = {core, gnb}
  Programs = {core, gnb}
  UseStateChecking = {gnb}
  PanesPerSession = 1
  ProgramNr <- ChainProgramNr
  DependsOn <- ChainDependsOn
  DependsOnInit <- ChainDependsOnInit
  MaxRestarts <- ChainMaxRestarts
INVARIANTS
  TypeOK
  RecordIsEarned
  RestartsBounded
  OwnPaneUntilShutdown
  IndInv
PROPERTIES
  NoRestartOnceRunning
  ImplementsStartupOrder
\* The system stops for good once it has been shut down.
CHECK_DEADLOCK FALSE
