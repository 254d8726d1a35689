SPECIFICATION Spec
CONSTANTS
  Folders = {"oran-sc-ric", "flexric", "open5gs", "srsRAN_Project", "srsRAN_4G"}
  Commits = {"v1"}
  OnDisk <- NothingOnDisk
  UENames = {"ue1", "ue2", "ue3"}
  FirstRuns <- AllCalls
  LaterRuns <- LaterCalls
  DemoFiles <- AllDemoFiles
  Machines <- AllMachines
  MaxRuns = 2
INVARIANTS
  TypeOK
  PoolIsUnique
  PoolIsClosed
  DemoIsEarned
  TerminalIsUsable
CHECK_DEADLOCK FALSE
