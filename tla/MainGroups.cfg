SPECIFICATION Spec
CONSTANTS
  Folders = {"oran-sc-ric", "flexric", "open5gs", "srsRAN_Project", "srsRAN_4G"}
  Commits = {"v1"}
  OnDisk <- NothingOnDisk
  UENames = {"ue1", "ue2", "ue3"}
  FirstRuns <- OneCall
  LaterRuns <- BothSetups
  DemoFiles <- ShippedFile
  Machines <- OneMachine
  MaxRuns = 2
INVARIANT
  GroupsRunAsDocumented
CHECK_DEADLOCK FALSE
