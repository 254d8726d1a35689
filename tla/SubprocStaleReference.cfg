SPECIFICATION Spec
CONSTANTS
  gnb = gnb
  xapp = xapp
  Names = {gnb}
  Programs = {gnb}
  UseStateChecking = {gnb}
  Launchable = {gnb}
  DependsOn <- NoDependencies
  DependsOnInit <- NoDependencies
  MaxRestarts <- RestartTwice
INVARIANT
  AliveIsReferenced
CHECK_DEADLOCK FALSE
