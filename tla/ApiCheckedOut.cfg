SPECIFICATION Spec
CONSTANTS
  ue1 = ue1
  ue2 = ue2
  w1 = w1
  j1 = j1
  b1 = b1
  Folders = {"flexric", "srsRAN_Project", "srsRAN_4G"}
  Commits = {"v1"}
  OnDisk <- NothingOnDisk
  UEs = {ue1}
  Components <- AllComponents
  Watchers = {}
  Checkouts = {j1}
  Builds = {b1}
  UELists <- OneUE
  Targets = {"all", "near_rt_ric", "5gc"}
  Configs <- SharedFolder
  MaxRequests = 5
  MaxConfigs = 2
  MaxBacklog = 2
INVARIANT
  CheckedOutIsCloned
CHECK_DEADLOCK FALSE
