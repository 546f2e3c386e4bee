SPECIFICATION FairSpec
CONSTANTS
  Mods = {"d1"}
  Maps = {"m1", "m2"}
  ModLists <- MCLists
  InitLists <- MCInitLists
  IntervalSpec = 1
  MinInterval = 1
  MaxFile = 3
  MaxEdits = 1
  Faults = {"race", "lag", "down", "writeErr"}
PROPERTIES UpdatesReachServers PollSpacing
CHECK_DEADLOCK FALSE
