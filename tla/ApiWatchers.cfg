SPECIFICATION FairSpec
CONSTANTS
  ue1 = ue1
  ue2 = ue2
  w1 = w1
  j1 = j1
  b1 = b1
  Folders = {"flexric", "srsRAN_Project", "srsRAN_4G"}
  Commits = {"v1"}
  OnDisk <- AllOnDisk
  UEs = {ue1, ue2}
  Components <- AllComponents
  Watchers = {w1}
  Checkouts = {}
  Builds = {b1}
  UELists <- TwoUEs
  Targets = {"all"}
  Configs <- SharedFolder
  MaxRequests = 4
  MaxConfigs = 1
  MaxBacklog = 2
INVARIANTS
  NoChangeMissed
PROPERTIES
  ReportsGetThrough
CHECK_DEADLOCK FALSE
